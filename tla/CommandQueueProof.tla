-------------------------- MODULE CommandQueueProof --------------------------
(***************************************************************************)
(* Safety of the command queue, for any number of pods, workspaces and     *)
(* reapers and any number of faults.  QueueAssumption, which the checked   *)
(* instances evaluate, is a hypothesis of what needs it.                   *)
(*                                                                         *)
(* The rows of agent_commands and of workspaces point at each other: a     *)
(* workspace names the invoke that claimed it, the invoke names the        *)
(* workspace.  QInv says that these two pointers agree while an invoke is  *)
(* outstanding, whoever claims, reports, requeues, sweeps or dies.         *)
(* ClaimInv adds, for a queue that retires no invoke unseen, that a claim  *)
(* on an active workspace never outlives its command.                      *)
(***************************************************************************)
EXTENDS CommandQueue, SequenceTheorems, TLAPS

\* A claim names an invoke for that workspace.
ClaimsNamed ==
  \A w \in Spaces : space[w].claim # 0 =>
    /\ space[w].claim \in DOMAIN cmd
    /\ cmd[space[w].claim].kind = "invoke" /\ cmd[space[w].claim].ws = w

\* An invoke that is not done has the claim of its workspace.
InvokesClaim ==
  \A c \in DOMAIN cmd : cmd[c].kind = "invoke" /\ cmd[c].status # "done"
    => space[cmd[c].ws].claim = c

\* A pod works on rows that exist.
WorkNamed == \A a \in Agents : \A x \in pod[a].work : x.c \in DOMAIN cmd

QInv == TypeOK /\ ClaimsNamed /\ InvokesClaim /\ WorkNamed

-----------------------------------------------------------------------------
(* Rows.                                                                    *)

\* What the rows look like as functions.
LEMMA RowsTyped ==
  ASSUME QueueAssumption, TypeOK
  PROVE  /\ Len(cmd) \in 0..MaxCmds /\ DOMAIN cmd = 1..Len(cmd)
         /\ \A c \in DOMAIN cmd : cmd[c] \in CmdType /\ c \in Cmds /\ c \in 0..MaxCmds
<1>1. cmd \in Seq(CmdType) /\ Len(cmd) <= MaxCmds
  BY DEF TypeOK
<1> QED
  BY <1>1, LenProperties, ElementOfSeq DEF Cmds, QueueAssumption

\* enqueue_command inserts one row, pending and never attempted ...
LEMMA RowMade ==
  ASSUME QueueAssumption, TypeOK, NEW kind \in Kinds, NEW w \in Spaces, NEW agent \in Agents \cup {"null"}
  PROVE  \E C \in CmdType : /\ EnqueueCommand(kind, w, agent) = Append(cmd, C)
                            /\ C.kind = kind /\ C.ws = w /\ C.status = "pending" /\ C.attempt = 0
<1> DEFINE C == [kind |-> kind, ws |-> w, pin |-> agent, status |-> "pending",
                 claims |-> 0, attempt |-> 0, late |-> FALSE]
<1>1. C \in CmdType
  BY DEF CmdType, QueueAssumption
<1>2. /\ EnqueueCommand(kind, w, agent) = Append(cmd, C)
      /\ C.kind = kind /\ C.ws = w /\ C.status = "pending" /\ C.attempt = 0
  BY DEF EnqueueCommand
<1> QED
  BY <1>1, <1>2

\* ... and leaves the others as they are.
LEMMA Enqueued ==
  ASSUME QueueAssumption, TypeOK, Len(cmd) < MaxCmds, NEW C \in CmdType, cmd' = Append(cmd, C),
         NEW n, n = Len(cmd) + 1
  PROVE  /\ cmd' \in Seq(CmdType) /\ Len(cmd') = n /\ n <= MaxCmds /\ n \in 1..MaxCmds
         /\ n \notin DOMAIN cmd /\ DOMAIN cmd' = DOMAIN cmd \cup {n}
         /\ cmd'[n] = C /\ \A c \in DOMAIN cmd : cmd'[c] = cmd[c]
<1>1. cmd \in Seq(CmdType) /\ Len(cmd) \in Nat /\ DOMAIN cmd = 1..Len(cmd) /\ MaxCmds \in Nat
  BY RowsTyped DEF TypeOK, QueueAssumption
<1>2. /\ cmd' \in Seq(CmdType) /\ Len(cmd') = n /\ cmd'[n] = C
      /\ \A c \in 1..Len(cmd) : cmd'[c] = cmd[c]
  BY <1>1
<1>3. DOMAIN cmd' = 1..n
  BY <1>2, LenProperties
<1> QED
  BY <1>1, <1>2, <1>3

\* An update of one row by its id.
LEMMA RowUpdated ==
  ASSUME QueueAssumption, TypeOK, NEW c \in DOMAIN cmd, NEW C \in CmdType, cmd' = [cmd EXCEPT ![c] = C]
  PROVE  /\ cmd' \in Seq(CmdType) /\ Len(cmd') = Len(cmd) /\ DOMAIN cmd' = DOMAIN cmd
         /\ cmd'[c] = C /\ \A d \in DOMAIN cmd \ {c} : cmd'[d] = cmd[d]
<1>1. cmd \in Seq(CmdType) /\ DOMAIN cmd = 1..Len(cmd)
  BY RowsTyped DEF TypeOK
<1> QED
  BY <1>1, ExceptSeq

\* The queue and the workspaces after a step: no command is dropped, changed in
\* what it is for, or taken up again once it is done.
RowsKept ==
  /\ DOMAIN cmd \subseteq DOMAIN cmd'
  /\ \A c \in DOMAIN cmd : /\ cmd'[c].kind = cmd[c].kind /\ cmd'[c].ws = cmd[c].ws
                           /\ cmd[c].status = "done" => cmd'[c].status = "done"

\* Steps of pods and reapers that write neither queue nor workspaces.
LEMMA RowsUntouched ==
  ASSUME QInv, cmd' = cmd, space' = space, run' \in [Spaces -> RunType],
         pod' \in [Agents -> PodType], reaper' \in [Reapers -> ReaperType],
         used' \in [Faults -> Nat], WorkNamed'
  PROVE  QInv' /\ RowsKept
BY DEF QInv, TypeOK, ClaimsNamed, InvokesClaim, RowsKept

\* Updates of rows of the queue that leave their kinds and workspaces alone.
LEMMA QueueUpdated ==
  ASSUME QInv, cmd' \in Seq(CmdType), Len(cmd') = Len(cmd), RowsKept, space' = space,
         run' \in [Spaces -> RunType], pod' \in [Agents -> PodType],
         reaper' \in [Reapers -> ReaperType], used' \in [Faults -> Nat],
         \A a \in Agents : \A x \in pod'[a].work : x.c \in DOMAIN cmd
  PROVE  QInv'
<1>1. DOMAIN cmd' = DOMAIN cmd
  BY LenProperties DEF QInv, TypeOK
<1>2. TypeOK' /\ WorkNamed'
  BY <1>1 DEF QInv, TypeOK, WorkNamed
<1>3. ClaimsNamed' /\ InvokesClaim'
  BY <1>1 DEF QInv, ClaimsNamed, InvokesClaim, RowsKept
<1> QED
  BY <1>2, <1>3 DEF QInv

\* Updates of workspaces that leave their claims alone.
LEMMA SpacesUpdated ==
  ASSUME QueueAssumption, QInv, cmd' = cmd, space' \in [Spaces -> SpaceType],
         \A w \in Spaces : space'[w].claim = space[w].claim,
         run' \in [Spaces -> RunType], pod' \in [Agents -> PodType],
         reaper' \in [Reapers -> ReaperType], used' \in [Faults -> Nat], WorkNamed'
  PROVE  QInv' /\ RowsKept
<1>1. \A c \in DOMAIN cmd : cmd[c].ws \in Spaces
  BY RowsTyped DEF QInv, CmdType
<1> QED
  BY <1>1 DEF QInv, TypeOK, ClaimsNamed, InvokesClaim, RowsKept

\* Use counts one more fault.
LEMMA UseTyped ==
  ASSUME TypeOK, NEW k, NEW n, used' = used \/ Use(k, n)
  PROVE  used' \in [Faults -> Nat]
BY DEF TypeOK, Use

\* A step that writes one pod.
LEMMA PodUpdated ==
  ASSUME TypeOK, NEW a \in Agents, NEW P \in PodType, pod' = [pod EXCEPT ![a] = P]
  PROVE  /\ pod' \in [Agents -> PodType]
         /\ pod'[a] = P /\ \A b \in Agents \ {a} : pod'[b] = pod[b]
BY DEF TypeOK

\* HANDLE_AGENT_EVENT leaves a run a run, whichever command it hears of.
LEMMA TellTyped ==
  ASSUME QueueAssumption, TypeOK, NEW w \in Spaces, NEW c, NEW ok \in BOOLEAN
  PROVE  /\ Tell(run, w, c, ok) \in [Spaces -> RunType]
         /\ \A v \in Spaces \ {w} : Tell(run, w, c, ok)[v] = run[v]
         /\ Tell(run, w, c, ok)[w].waits = IF run[w].waits = c THEN 0 ELSE run[w].waits
<1> DEFINE phase == CASE cmd[c].kind = "provision" -> IF ok THEN "provisioned" ELSE "over"
                      [] cmd[c].kind = "cleanup" -> "over"
                      [] OTHER -> run[w].phase
           R == [waits |-> 0, phase |-> phase]
<1>1. run \in [Spaces -> RunType] /\ run[w].phase \in {"new", "provisioned", "cleaning", "over"}
  BY DEF TypeOK, RunType
<1>2. phase \in {"new", "provisioned", "cleaning", "over"}
  BY <1>1
<1>3. Tell(run, w, c, ok) = IF run[w].waits # c THEN run ELSE [run EXCEPT ![w] = R]
  BY DEF Tell
<1> HIDE DEF phase
<1>4. R \in RunType /\ R.waits = 0
  BY <1>2 DEF RunType, QueueAssumption
<1> HIDE DEF R
<1> QED
  BY <1>1, <1>3, <1>4

-----------------------------------------------------------------------------
(* The engine.                                                              *)

\* DispatchProvision and DispatchCleanup add a row that is no invoke.
LEMMA OthersDispatched ==
  ASSUME QueueAssumption, QInv, NEW w \in Spaces, NEW kind \in Kinds \ {"invoke"},
         NEW agent \in Agents \cup {"null"}, Len(cmd) < MaxCmds,
         cmd' = EnqueueCommand(kind, w, agent), run' \in [Spaces -> RunType],
         UNCHANGED <<space, pod, reaper, used>>
  PROVE  QInv' /\ RowsKept
<1> DEFINE n == Len(cmd) + 1
<1>1. /\ cmd' \in Seq(CmdType) /\ Len(cmd') = n /\ n <= MaxCmds
      /\ n \notin DOMAIN cmd /\ DOMAIN cmd' = DOMAIN cmd \cup {n} /\ cmd'[n].kind = kind
      /\ \A c \in DOMAIN cmd : cmd'[c] = cmd[c]
  <2>1. TypeOK /\ kind \in Kinds /\ n = Len(cmd) + 1
    BY DEF QInv
  <2>2. PICK C \in CmdType : cmd' = Append(cmd, C) /\ C.kind = kind
    BY <2>1, RowMade
  <2> HIDE DEF n
  <2> QED
    BY <2>1, <2>2, Enqueued
<1> HIDE DEF n
<1>2. TypeOK' /\ WorkNamed'
  BY <1>1 DEF QInv, TypeOK, WorkNamed
<1>3. ClaimsNamed' /\ InvokesClaim'
  BY <1>1 DEF QInv, ClaimsNamed, InvokesClaim
<1>4. RowsKept
  BY <1>1 DEF RowsKept
<1> QED
  BY <1>2, <1>3, <1>4 DEF QInv

\* The waits of an engine step are typed.
LEMMA WaitsTyped ==
  ASSUME QueueAssumption, TypeOK, Len(cmd) < MaxCmds, NEW w \in Spaces
  PROVE  /\ [run EXCEPT ![w].waits = Len(cmd) + 1] \in [Spaces -> RunType]
         /\ [run EXCEPT ![w].waits = Len(cmd) + 1, ![w].phase = "cleaning"] \in [Spaces -> RunType]
<1>1. Len(cmd) + 1 \in 0..MaxCmds
  BY RowsTyped DEF QueueAssumption
<1> QED
  BY <1>1 DEF TypeOK, RunType

LEMMA DispatchProvisionKeeps ==
  ASSUME QueueAssumption, QInv, NEW w \in Spaces, DispatchProvision(w)
  PROVE  QInv' /\ RowsKept
<1>1. TypeOK /\ "provision" \in Kinds \ {"invoke"}
  BY DEF QInv, Kinds
<1> QED
  BY <1>1, OthersDispatched, WaitsTyped DEF DispatchProvision

LEMMA DispatchCleanupKeeps ==
  ASSUME QueueAssumption, QInv, NEW w \in Spaces, DispatchCleanup(w)
  PROVE  QInv' /\ RowsKept
<1>1. TypeOK /\ "cleanup" \in Kinds \ {"invoke"} /\ space[w].owner \in Agents \cup {"null"}
  BY DEF QInv, Kinds, TypeOK, SpaceType
<1> QED
  BY <1>1, OthersDispatched, WaitsTyped DEF DispatchCleanup

\* The invoke and its claim come in one transaction.
LEMMA DispatchInvokeKeeps ==
  ASSUME QueueAssumption, QInv, NEW w \in Spaces, DispatchInvoke(w)
  PROVE  QInv' /\ RowsKept
<1> DEFINE n == Len(cmd) + 1
<1>1. TypeOK /\ "invoke" \in Kinds /\ space[w].owner \in Agents \cup {"null"} /\ Len(cmd) < MaxCmds
  <2>1. TypeOK /\ "invoke" \in Kinds
    BY DEF QInv, Kinds
  <2>2. space[w].owner \in Agents \cup {"null"}
    BY <2>1 DEF TypeOK, SpaceType
  <2>3. Len(cmd) < MaxCmds
    BY <2>1, RowsTyped DEF DispatchInvoke, QueueAssumption
  <2> QED
    BY <2>1, <2>2, <2>3
<1>2. /\ cmd' \in Seq(CmdType) /\ Len(cmd') = n /\ n <= MaxCmds /\ n \in 1..MaxCmds
      /\ n \notin DOMAIN cmd /\ DOMAIN cmd' = DOMAIN cmd \cup {n}
      /\ cmd'[n].kind = "invoke" /\ cmd'[n].ws = w
      /\ \A c \in DOMAIN cmd : cmd'[c] = cmd[c]
  <2>1. PICK agent \in Agents \cup {"null"}, kind \in Kinds :
          kind = "invoke" /\ cmd' = EnqueueCommand(kind, w, agent)
    BY <1>1 DEF DispatchInvoke
  <2>2. PICK C \in CmdType : cmd' = Append(cmd, C) /\ C.kind = kind /\ C.ws = w
    BY <1>1, <2>1, RowMade
  <2>3. TypeOK /\ Len(cmd) < MaxCmds /\ n = Len(cmd) + 1
    BY <1>1
  <2> HIDE DEF n
  <2> QED
    BY <2>1, <2>2, <2>3, Enqueued
<1>3. /\ space' = [space EXCEPT ![w].claim = n] /\ space[w].claim = 0
      /\ run' = [run EXCEPT ![w].waits = n] /\ UNCHANGED <<pod, reaper, used>>
  BY DEF DispatchInvoke, TryClaim
<1>4. run' \in [Spaces -> RunType]
  BY <1>1, <1>3, WaitsTyped
<1> HIDE DEF n
<1>5. TypeOK' /\ WorkNamed'
  <2>1. space' \in [Spaces -> SpaceType]
    <3>1. n \in 0..MaxCmds /\ space \in [Spaces -> SpaceType]
      BY <1>1, <1>2 DEF TypeOK
    <3> QED
      BY <1>3, <3>1 DEF SpaceType
  <2> QED
    BY <1>2, <1>3, <1>4, <2>1 DEF QInv, TypeOK, WorkNamed
<1>6. space'[w].claim = n /\ \A v \in Spaces \ {w} : space'[v] = space[v]
  BY <1>1, <1>3 DEF TypeOK, SpaceType
<1>7. ClaimsNamed'
  BY <1>2, <1>6 DEF QInv, ClaimsNamed
<1>8. InvokesClaim'
  <2>1. \A c \in DOMAIN cmd : c # 0 /\ cmd[c].ws \in Spaces
    BY <1>1, RowsTyped DEF CmdType, Cmds
  <2> QED
    BY <1>2, <1>3, <1>6, <2>1 DEF QInv, InvokesClaim
<1>9. RowsKept
  BY <1>2 DEF RowsKept
<1> QED
  BY <1>5, <1>7, <1>8, <1>9 DEF QInv

LEMMA ReconcileKeeps ==
  ASSUME QueueAssumption, QInv, NEW w \in Spaces, ReconcileLostResume(w)
  PROVE  QInv' /\ RowsKept
<1>1. run' \in [Spaces -> RunType]
  BY TellTyped DEF QInv, ReconcileLostResume
<1> QED
  BY <1>1, RowsUntouched DEF QInv, TypeOK, WorkNamed, ReconcileLostResume

-----------------------------------------------------------------------------
(* Claims and reports.                                                      *)

\* What a pod may claim is a row, and is pending.
LEMMA EligibleRows ==
  ASSUME NEW a \in Agents, NEW c \in Oldest(SelectEligibleRow(a))
  PROVE  c \in DOMAIN cmd /\ cmd[c].status = "pending"
BY DEF Oldest, SelectEligibleRow, Provisions, Pinned

LEMMA ClaimNextKeeps ==
  ASSUME QueueAssumption, QInv, NEW a \in Agents, NEW arrives \in BOOLEAN, ClaimNext(a, arrives)
  PROVE  QInv' /\ RowsKept
<1>1. PICK c \in Oldest(SelectEligibleRow(a)) :
        /\ cmd' = [cmd EXCEPT ![c].status = "claimed", ![c].pin = a, ![c].claims = @ + 1, ![c].late = FALSE]
        /\ IF arrives
           THEN /\ pod' = [pod EXCEPT ![a].work = @ \cup {[c |-> c, claim |-> cmd[c].claims + 1,
                                                           step |-> "received", event |-> 0, ok |-> FALSE]}]
                /\ used' = used
           ELSE pod' = pod /\ Use("lost", MaxLost)
  BY DEF ClaimNext
<1>2. UNCHANGED <<space, run, reaper>>
  BY DEF ClaimNext
<1>3. TypeOK /\ c \in DOMAIN cmd /\ cmd[c].status = "pending" /\ c \in Cmds /\ cmd[c] \in CmdType
  BY EligibleRows, RowsTyped DEF QInv
<1> DEFINE C == [cmd[c] EXCEPT !.status = "claimed", !.pin = a, !.claims = @ + 1, !.late = FALSE]
           W == [c |-> c, claim |-> cmd[c].claims + 1, step |-> "received", event |-> 0, ok |-> FALSE]
           P == [pod[a] EXCEPT !.work = @ \cup {W}]
<1>4. C \in CmdType /\ C.kind = cmd[c].kind /\ C.ws = cmd[c].ws /\ C.status = "claimed"
  <2>1. cmd[c].claims + 1 \in Nat
    BY <1>3 DEF CmdType
  <2> DEFINE claims == cmd[c].claims + 1
             C1 == [cmd[c] EXCEPT !.status = "claimed", !.pin = a]
             C2 == [C1 EXCEPT !.claims = claims]
  <2>2. C1 \in CmdType /\ C1.kind = cmd[c].kind /\ C1.ws = cmd[c].ws /\ C1.status = "claimed"
    BY <1>3 DEF CmdType
  <2>3. C2 \in CmdType /\ C2.kind = cmd[c].kind /\ C2.ws = cmd[c].ws /\ C2.status = "claimed"
    BY <2>1, <2>2 DEF CmdType
  <2>4. C = [C2 EXCEPT !.late = FALSE]
    BY <1>3 DEF CmdType
  <2> QED
    BY <2>3, <2>4 DEF CmdType
<1>5. cmd' = [cmd EXCEPT ![c] = C]
  BY <1>1
<1>6. W \in WorkType /\ W.c = c
  BY <1>3 DEF WorkType, CmdType
<1> HIDE DEF C, W
<1>7. P \in PodType /\ P.work = pod[a].work \cup {W}
  BY <1>3, <1>6 DEF TypeOK, PodType
<1>8. pod' = [pod EXCEPT ![a] = P] \/ pod' = pod
  BY <1>1 DEF W
<1>9. used' \in [Faults -> Nat]
  BY <1>1, <1>3, UseTyped
<1> HIDE DEF P
<1>10. /\ pod' \in [Agents -> PodType]
       /\ \A b \in Agents : \A x \in pod'[b].work : x.c \in DOMAIN cmd
  <2>1. CASE pod' = pod
    BY <1>3, <2>1 DEF QInv, TypeOK, WorkNamed
  <2>2. CASE pod' = [pod EXCEPT ![a] = P]
    <3>1. /\ pod' \in [Agents -> PodType]
          /\ pod'[a] = P /\ \A b \in Agents \ {a} : pod'[b] = pod[b]
      BY <1>3, <1>7, <2>2, PodUpdated
    <3> QED
      BY <1>3, <1>6, <1>7, <3>1 DEF QInv, WorkNamed
  <2> QED
    BY <1>8, <2>1, <2>2
<1>11. cmd' \in Seq(CmdType) /\ Len(cmd') = Len(cmd) /\ RowsKept
  BY <1>3, <1>4, <1>5, RowUpdated DEF RowsKept
<1> QED
  BY <1>2, <1>3, <1>9, <1>10, <1>11, QueueUpdated DEF TypeOK

\* A row whose status changes, for good once it is done.
LEMMA StatusUpdated ==
  ASSUME QueueAssumption, TypeOK, NEW c \in DOMAIN cmd,
         NEW st \in {"pending", "claimed", "delivered", "done"}, NEW n \in Nat,
         \/ cmd' = [cmd EXCEPT ![c].status = st]
         \/ cmd' = [cmd EXCEPT ![c].status = st, ![c].claims = n],
         cmd[c].status = "done" => st = "done"
  PROVE  /\ cmd' \in Seq(CmdType) /\ Len(cmd') = Len(cmd) /\ RowsKept
         /\ cmd'[c].status = st /\ cmd'[c].pin = cmd[c].pin /\ cmd'[c].attempt = cmd[c].attempt
         /\ \A d \in DOMAIN cmd \ {c} : cmd'[d] = cmd[d]
<1>1. cmd[c] \in CmdType
  BY RowsTyped
<1> DEFINE C1 == [cmd[c] EXCEPT !.status = st]
           C2 == [cmd[c] EXCEPT !.status = st, !.claims = n]
<1>2. /\ C1 \in CmdType /\ C1.kind = cmd[c].kind /\ C1.ws = cmd[c].ws /\ C1.status = st
      /\ C1.pin = cmd[c].pin /\ C1.attempt = cmd[c].attempt
  BY <1>1 DEF CmdType
<1>3. /\ C2 \in CmdType /\ C2.kind = cmd[c].kind /\ C2.ws = cmd[c].ws /\ C2.status = st
      /\ C2.pin = cmd[c].pin /\ C2.attempt = cmd[c].attempt
  BY <1>1 DEF CmdType
<1>4. cmd' = [cmd EXCEPT ![c] = C1] \/ cmd' = [cmd EXCEPT ![c] = C2]
  OBVIOUS
<1> HIDE DEF C1, C2
<1>5. PICK C \in CmdType : /\ cmd' = [cmd EXCEPT ![c] = C] /\ C.kind = cmd[c].kind /\ C.ws = cmd[c].ws
                           /\ C.status = st /\ C.pin = cmd[c].pin /\ C.attempt = cmd[c].attempt
  BY <1>2, <1>3, <1>4
<1>6. /\ cmd' \in Seq(CmdType) /\ Len(cmd') = Len(cmd) /\ DOMAIN cmd' = DOMAIN cmd
      /\ cmd'[c] = C /\ \A d \in DOMAIN cmd \ {c} : cmd'[d] = cmd[d]
  BY <1>5, RowUpdated
<1> QED
  BY <1>5, <1>6 DEF RowsKept

LEMMA ClaimRetiresKeeps ==
  ASSUME QueueAssumption, QInv, NEW a \in Agents, ClaimRetires(a)
  PROVE  QInv' /\ RowsKept
<1>1. PICK c \in Oldest(Pinned(a)) :
        /\ cmd' = [cmd EXCEPT ![c].status = "done", ![c].claims = @ + 1]
        /\ run' = Tell(run, cmd[c].ws, c, FALSE)
  BY DEF ClaimRetires
<1>2. TypeOK /\ c \in DOMAIN cmd /\ cmd[c] \in CmdType
  BY RowsTyped DEF QInv, Oldest, Pinned
<1>3. cmd[c].claims + 1 \in Nat /\ cmd[c].ws \in Spaces
  BY <1>2 DEF CmdType
<1>4. cmd' \in Seq(CmdType) /\ Len(cmd') = Len(cmd) /\ RowsKept
  BY <1>1, <1>2, <1>3, StatusUpdated
<1>5. run' \in [Spaces -> RunType]
  BY <1>1, <1>2, <1>3, TellTyped
<1>6. used' \in [Faults -> Nat] /\ UNCHANGED <<space, pod, reaper>>
  BY <1>2, UseTyped DEF ClaimRetires
<1> QED
  BY <1>2, <1>4, <1>5, <1>6, QueueUpdated DEF QInv, TypeOK, WorkNamed

\* A step of a pod's goroutine that replaces its work item.
LEMMA WorkReplaced ==
  ASSUME QInv, NEW a \in Agents, NEW P \in PodType, pod' = [pod EXCEPT ![a] = P],
         \A x \in P.work : x.c \in DOMAIN cmd
  PROVE  /\ pod' \in [Agents -> PodType]
         /\ \A b \in Agents : \A x \in pod'[b].work : x.c \in DOMAIN cmd
<1>1. /\ pod' \in [Agents -> PodType]
      /\ pod'[a] = P /\ \A b \in Agents \ {a} : pod'[b] = pod[b]
  BY PodUpdated DEF QInv
<1> QED
  BY <1>1 DEF QInv, WorkNamed

\* The work items of a pod.
LEMMA WorkTyped ==
  ASSUME QInv, NEW a \in Agents, NEW x \in pod[a].work
  PROVE  /\ pod[a] \in PodType /\ x \in WorkType /\ x.c \in DOMAIN cmd
         /\ \A y \in pod[a].work : y.c \in DOMAIN cmd
BY DEF QInv, TypeOK, PodType, WorkNamed

LEMMA PostReceivedKeeps ==
  ASSUME QueueAssumption, QInv, NEW a \in Agents, NEW x \in pod[a].work, NEW arrives \in BOOLEAN,
         PostReceived(a, x, arrives)
  PROVE  QInv' /\ RowsKept
<1> DEFINE W == [x EXCEPT !.step = "route"]
           P == [pod[a] EXCEPT !.work = (@ \ {x}) \cup {W}]
<1>1. /\ pod[a] \in PodType /\ x \in WorkType /\ x.c \in DOMAIN cmd
      /\ \A y \in pod[a].work : y.c \in DOMAIN cmd
  BY WorkTyped
<1>2. W \in WorkType /\ W.c = x.c
  BY <1>1 DEF WorkType
<1>3. pod' = [pod EXCEPT ![a] = P]
  BY DEF PostReceived
<1> HIDE DEF W
<1>4. P \in PodType /\ P.work = (pod[a].work \ {x}) \cup {W}
  BY <1>1, <1>2 DEF PodType
<1> HIDE DEF P
<1>5. /\ pod' \in [Agents -> PodType]
      /\ \A b \in Agents : \A y \in pod'[b].work : y.c \in DOMAIN cmd
  BY <1>1, <1>2, <1>3, <1>4, WorkReplaced
<1>6. cmd' \in Seq(CmdType) /\ Len(cmd') = Len(cmd) /\ RowsKept
  <2>1. CASE cmd' = cmd
    BY <2>1 DEF QInv, TypeOK, RowsKept
  <2>2. CASE cmd' # cmd
    <3>1. PICK st \in {"pending", "claimed", "delivered", "done"} :
            /\ cmd' = [cmd EXCEPT ![x.c].status = st]
            /\ cmd[x.c].status = "done" => st = "done"
      <4>1. cmd[x.c].status \in {"pending", "claimed", "delivered", "done"}
        BY <1>1, RowsTyped DEF QInv, CmdType
      <4> QED
        BY <2>2, <4>1 DEF PostReceived
    <3> QED
      BY <1>1, <3>1, StatusUpdated, 0 \in Nat DEF QInv
  <2> QED
    BY <2>1, <2>2
<1>7. used' \in [Faults -> Nat] /\ UNCHANGED <<space, run, reaper>>
  BY UseTyped DEF QInv, PostReceived
<1> QED
  BY <1>5, <1>6, <1>7, QueueUpdated DEF QInv, TypeOK

LEMMA RouteCachedKeeps ==
  ASSUME QueueAssumption, QInv, NEW a \in Agents, NEW x \in pod[a].work, RouteCached(a, x)
  PROVE  QInv' /\ RowsKept
<1>1. PICK e \in Cached(a, x.c) :
        pod' = [pod EXCEPT ![a].work = (@ \ {x}) \cup {[x EXCEPT !.step = "post", !.event = e.event, !.ok = e.ok]}]
  BY DEF RouteCached
<1> DEFINE W == [x EXCEPT !.step = "post", !.event = e.event, !.ok = e.ok]
           P == [pod[a] EXCEPT !.work = (@ \ {x}) \cup {W}]
<1>2. /\ pod[a] \in PodType /\ x \in WorkType /\ x.c \in DOMAIN cmd
      /\ \A y \in pod[a].work : y.c \in DOMAIN cmd
  BY WorkTyped
<1>3. e.event \in Nat /\ e.ok \in BOOLEAN
  BY <1>2 DEF Cached, PodType
<1>4. W \in WorkType /\ W.c = x.c
  BY <1>2, <1>3 DEF WorkType
<1>5. pod' = [pod EXCEPT ![a] = P]
  BY <1>1
<1> HIDE DEF W
<1>6. P \in PodType /\ P.work = (pod[a].work \ {x}) \cup {W}
  BY <1>2, <1>4 DEF PodType
<1> HIDE DEF P
<1>7. /\ pod' \in [Agents -> PodType]
      /\ \A b \in Agents : \A y \in pod'[b].work : y.c \in DOMAIN cmd
  BY <1>2, <1>4, <1>5, <1>6, WorkReplaced
<1> QED
  BY <1>7, RowsUntouched DEF QInv, TypeOK, WorkNamed, RouteCached

\* The pool moves workspaces between its two sets and touches nothing else.
LEMMA PoolTyped ==
  ASSUME TypeOK, NEW a \in Agents, NEW w \in Spaces, NEW kind, NEW ok \in BOOLEAN, NEW broken \in BOOLEAN
  PROVE  LET after == PoolAfter(a, w, kind, ok, broken)
         IN  after \in PodType /\ after.work = pod[a].work /\ after.cache = pod[a].cache
<1> DEFINE after == PoolAfter(a, w, kind, ok, broken)
<1>1. pod[a] \in PodType
  BY DEF TypeOK
<1>2. \/ after = [pod[a] EXCEPT !.active = @ \cup {w}, !.defunct = @ \ {w}]
      \/ after = [pod[a] EXCEPT !.active = @ \ {w}]
      \/ after = [pod[a] EXCEPT !.active = @ \ {w}, !.defunct = @ \cup {w}]
      \/ after = pod[a]
  BY DEF PoolAfter
<1> HIDE DEF after
<1>3. after \in PodType /\ after.work = pod[a].work /\ after.cache = pod[a].cache
  <2>1. CASE after = [pod[a] EXCEPT !.active = @ \cup {w}, !.defunct = @ \ {w}]
    BY <1>1, <2>1 DEF PodType
  <2>2. CASE after = [pod[a] EXCEPT !.active = @ \ {w}]
    BY <1>1, <2>2 DEF PodType
  <2>3. CASE after = [pod[a] EXCEPT !.active = @ \ {w}, !.defunct = @ \cup {w}]
    BY <1>1, <2>3 DEF PodType
  <2> QED
    BY <1>1, <1>2, <2>1, <2>2, <2>3
<1> QED
  BY <1>3 DEF after

LEMMA RouteKeeps ==
  ASSUME QueueAssumption, QInv, NEW a \in Agents, NEW x \in pod[a].work, NEW broken \in BOOLEAN,
         RouteWorkspaceCmd(a, x, broken)
  PROVE  QInv' /\ RowsKept
<1>1. /\ pod[a] \in PodType /\ x \in WorkType /\ x.c \in DOMAIN cmd
      /\ \A y \in pod[a].work : y.c \in DOMAIN cmd
  BY WorkTyped
<1>2. cmd[x.c].ws \in Spaces /\ TypeOK
  BY <1>1, RowsTyped DEF QInv, CmdType
<1>3. PICK ok \in BOOLEAN :
        LET after == PoolAfter(a, cmd[x.c].ws, cmd[x.c].kind, ok, broken)
        IN  pod' = [pod EXCEPT ![a] = [after EXCEPT
              !.work = (@ \ {x}) \cup {[x EXCEPT !.step = "post", !.event = x.claim, !.ok = ok]},
              !.cache = @ \cup {[c |-> x.c, event |-> x.claim, ok |-> ok]}]]
  BY DEF RouteWorkspaceCmd
<1> DEFINE after == PoolAfter(a, cmd[x.c].ws, cmd[x.c].kind, ok, broken)
           W == [x EXCEPT !.step = "post", !.event = x.claim, !.ok = ok]
           E == [c |-> x.c, event |-> x.claim, ok |-> ok]
           P == [after EXCEPT !.work = (@ \ {x}) \cup {W}, !.cache = @ \cup {E}]
<1>4. after \in PodType /\ after.work = pod[a].work /\ after.cache = pod[a].cache
  BY <1>2, PoolTyped
<1>5. W \in WorkType /\ W.c = x.c /\ E \in [c : Cmds, event : Nat, ok : BOOLEAN]
  BY <1>1 DEF WorkType
<1>6. pod' = [pod EXCEPT ![a] = P]
  BY <1>3
<1> HIDE DEF W, E, after
<1>7. P \in PodType /\ P.work = (pod[a].work \ {x}) \cup {W}
  BY <1>4, <1>5 DEF PodType
<1> HIDE DEF P
<1>8. /\ pod' \in [Agents -> PodType]
      /\ \A b \in Agents : \A y \in pod'[b].work : y.c \in DOMAIN cmd
  BY <1>1, <1>5, <1>6, <1>7, WorkReplaced
<1>9. used' \in [Faults -> Nat]
  BY <1>2, UseTyped DEF RouteWorkspaceCmd
<1> QED
  BY <1>8, <1>9, RowsUntouched DEF QInv, TypeOK, WorkNamed, RouteWorkspaceCmd

\* record_agent_event takes a claim only from the workspace that holds the
\* command, and a workspace's status is set only when it had no row.
LEMMA RecordSpaces ==
  ASSUME QueueAssumption, QInv, NEW a \in Agents, NEW x \in pod[a].work, RecordAgentEvent(a, x)
  PROVE  /\ space' \in [Spaces -> SpaceType]
         /\ \A w \in Spaces : /\ space'[w].claim = IF space[w].claim = x.c THEN 0 ELSE space[w].claim
                              /\ \/ space'[w].status = space[w].status
                                 \/ space[w].status = "absent" /\ space'[w].status = "active"
<1> DEFINE S == ReleaseCommandClaim(x.c)
<1>1. x.c \in DOMAIN cmd /\ cmd[x.c].ws \in Spaces /\ TypeOK
  BY WorkTyped, RowsTyped DEF QInv, CmdType
<1>2. /\ S \in [Spaces -> SpaceType]
      /\ \A w \in Spaces : /\ S[w].claim = IF space[w].claim = x.c THEN 0 ELSE space[w].claim
                           /\ S[w].status = space[w].status
  <2>1. ASSUME NEW w \in Spaces
        PROVE  /\ S[w] = IF space[w].claim = x.c THEN [space[w] EXCEPT !.claim = 0] ELSE space[w]
               /\ space[w] \in SpaceType /\ 0 \in 0..MaxCmds
    BY <1>1 DEF TypeOK, ReleaseCommandClaim, QueueAssumption
  <2>2. ASSUME NEW w \in Spaces
        PROVE  /\ S[w] \in SpaceType /\ S[w].status = space[w].status
               /\ S[w].claim = IF space[w].claim = x.c THEN 0 ELSE space[w].claim
    BY <2>1 DEF SpaceType
  <2>3. S = [w \in Spaces |-> S[w]]
    BY DEF ReleaseCommandClaim
  <2> QED
    BY <2>2, <2>3
<1>3. \/ space' = S
      \/ S[cmd[x.c].ws].status = "absent"
         /\ space' = [S EXCEPT ![cmd[x.c].ws].status = "active", ![cmd[x.c].ws].owner = a]
  BY DEF RecordAgentEvent, MaterialiseProvisionSuccess
<1> HIDE DEF S
<1> QED
  BY <1>1, <1>2, <1>3 DEF SpaceType, Statuses

\* The row is retired and, if it held a claim, the claim is released with it;
\* nothing is left to claim for.
LEMMA RecordKeeps ==
  ASSUME QueueAssumption, QInv, NEW a \in Agents, NEW x \in pod[a].work, RecordAgentEvent(a, x),
         pod' \in [Agents -> PodType], WorkNamed', reaper' = reaper, used' \in [Faults -> Nat]
  PROVE  /\ QInv' /\ RowsKept /\ DOMAIN cmd' = DOMAIN cmd /\ cmd'[x.c].status = "done"
         /\ \A d \in DOMAIN cmd \ {x.c} : cmd'[d] = cmd[d]
<1> DEFINE c == x.c
<1>1. c \in DOMAIN cmd /\ cmd[c] \in CmdType /\ cmd[c].ws \in Spaces /\ x.ok \in BOOLEAN /\ c # 0 /\ TypeOK
  BY WorkTyped, RowsTyped DEF QInv, CmdType, WorkType, Cmds
<1>2. cmd' = [cmd EXCEPT ![c].status = "done"]
  BY DEF RecordAgentEvent, RetireCommand
<1>3. cmd' \in Seq(CmdType) /\ Len(cmd') = Len(cmd) /\ RowsKept /\ cmd'[c].status = "done"
      /\ \A d \in DOMAIN cmd \ {c} : cmd'[d] = cmd[d]
  BY <1>1, <1>2, StatusUpdated, 0 \in Nat
<1>4. DOMAIN cmd' = DOMAIN cmd
  BY <1>1, <1>3, LenProperties DEF TypeOK
<1>5. run' \in [Spaces -> RunType]
  BY <1>1, TellTyped DEF RecordAgentEvent
<1>6. /\ space' \in [Spaces -> SpaceType]
      /\ \A w \in Spaces : space'[w].claim = IF space[w].claim = c THEN 0 ELSE space[w].claim
  BY RecordSpaces
<1> HIDE DEF c
<1>7. TypeOK'
  BY <1>1, <1>3, <1>5, <1>6 DEF TypeOK
<1>8. ClaimsNamed'
  BY <1>3, <1>4, <1>6 DEF QInv, ClaimsNamed, RowsKept
<1>9. InvokesClaim'
  <2> SUFFICES ASSUME NEW d \in DOMAIN cmd', cmd'[d].kind = "invoke", cmd'[d].status # "done"
               PROVE  space'[cmd'[d].ws].claim = d
    BY DEF InvokesClaim
  <2>1. d # c /\ d \in DOMAIN cmd /\ cmd'[d] = cmd[d] /\ cmd[d].ws \in Spaces
    BY <1>1, <1>3, <1>4, RowsTyped DEF CmdType
  <2> QED
    BY <1>6, <2>1 DEF QInv, InvokesClaim
<1> QED
  BY <1>3, <1>4, <1>7, <1>8, <1>9 DEF QInv, c

LEMMA PostTerminalKeeps ==
  ASSUME QueueAssumption, QInv, NEW a \in Agents, NEW x \in pod[a].work, NEW answered \in BOOLEAN,
         PostTerminal(a, x, answered)
  PROVE  QInv' /\ RowsKept
<1>1. /\ pod[a] \in PodType /\ \A y \in pod[a].work : y.c \in DOMAIN cmd
  BY WorkTyped
<1> DEFINE P == [pod[a] EXCEPT !.work = @ \ {x}]
<1>2. P \in PodType /\ P.work = pod[a].work \ {x}
  BY <1>1 DEF PodType
<1>3. pod' = [pod EXCEPT ![a] = P] \/ pod' = pod
  BY DEF PostTerminal
<1> HIDE DEF P
<1>4. /\ pod' \in [Agents -> PodType]
      /\ \A b \in Agents : \A y \in pod'[b].work : y.c \in DOMAIN cmd
  <2>1. CASE pod' = pod
    BY <2>1 DEF QInv, TypeOK, WorkNamed
  <2>2. CASE pod' = [pod EXCEPT ![a] = P]
    BY <1>1, <1>2, <2>2, WorkReplaced
  <2> QED
    BY <1>3, <2>1, <2>2
<1>5. used' \in [Faults -> Nat] /\ reaper' = reaper
  BY UseTyped DEF QInv, PostTerminal
<1>6. CASE RecordAgentEvent(a, x)
  <2>1. DOMAIN cmd' = DOMAIN cmd
    BY <1>6 DEF RecordAgentEvent, RetireCommand
  <2>2. WorkNamed'
    BY <1>4, <2>1 DEF WorkNamed
  <2> QED
    BY <1>4, <1>5, <1>6, <2>2, RecordKeeps
<1>7. CASE UNCHANGED <<cmd, space, run>>
  BY <1>4, <1>5, <1>7, RowsUntouched DEF QInv, TypeOK, WorkNamed
<1> QED
  BY <1>6, <1>7 DEF PostTerminal

-----------------------------------------------------------------------------
(* Pods that clean up, die, come back and are given up.                     *)

LEMMA HeartbeatKeeps ==
  ASSUME QInv, NEW a \in Agents, Heartbeat(a)
  PROVE  QInv' /\ RowsKept
<1> DEFINE gone == Forgotten(a)
           P == [pod[a] EXCEPT !.active = @ \ gone, !.defunct = @ \ gone]
<1>1. pod[a] \in PodType /\ \A y \in pod[a].work : y.c \in DOMAIN cmd
  BY DEF QInv, TypeOK, WorkNamed
<1>2. pod' = [pod EXCEPT ![a] = P]
  BY DEF Heartbeat
<1> HIDE DEF gone
<1>3. P \in PodType /\ P.work = pod[a].work
  BY <1>1 DEF PodType
<1> HIDE DEF P
<1>4. /\ pod' \in [Agents -> PodType]
      /\ \A b \in Agents : \A y \in pod'[b].work : y.c \in DOMAIN cmd
  BY <1>1, <1>2, <1>3, WorkReplaced
<1> QED
  BY <1>4, RowsUntouched DEF QInv, TypeOK, WorkNamed, Heartbeat

\* A killed pod forgets everything; its commands stay claimed.
LEMMA PodReset ==
  ASSUME QInv, NEW a \in Agents, Crash(a) \/ Restart(a)
  PROVE  QInv' /\ RowsKept
<1> DEFINE Q == [NoPod EXCEPT !.up = TRUE]
<1>1. NoPod \in PodType /\ NoPod.work = {} /\ Q \in PodType /\ Q.work = {}
  BY DEF NoPod, PodType
<1>2. pod' = [pod EXCEPT ![a] = NoPod] \/ pod' = [pod EXCEPT ![a] = Q]
  BY DEF Crash, Restart
<1> HIDE DEF Q
<1>3. /\ pod' \in [Agents -> PodType]
      /\ \A b \in Agents : \A y \in pod'[b].work : y.c \in DOMAIN cmd
  BY <1>1, <1>2, WorkReplaced
<1>4. used' \in [Faults -> Nat]
  BY UseTyped DEF QInv, Crash, Restart
<1> QED
  BY <1>3, <1>4, RowsUntouched DEF QInv, TypeOK, WorkNamed, Crash, Restart

\* failsafe_agent_loss expires workspaces and leaves their claims.
LEMMA AgentLostKeeps ==
  ASSUME QueueAssumption, QInv, NEW a \in Agents, AgentLost(a)
  PROVE  QInv' /\ RowsKept
<1>1. /\ space' \in [Spaces -> SpaceType]
      /\ \A w \in Spaces : space'[w].claim = space[w].claim
  <2>1. space' = [w \in Spaces |-> IF w \in Held(a) THEN [space[w] EXCEPT !.status = "expired"] ELSE space[w]]
    BY DEF AgentLost
  <2> QED
    BY <2>1 DEF QInv, TypeOK, SpaceType, Statuses
<1>2. run' \in [Spaces -> RunType]
  <2>1. ASSUME NEW w \in Spaces
        PROVE  run[w] \in RunType /\ Tell(run, w, space[w].claim, FALSE)[w] \in RunType
    <3>1. TypeOK /\ Tell(run, w, space[w].claim, FALSE) \in [Spaces -> RunType]
      BY TellTyped DEF QInv
    <3> QED
      BY <3>1 DEF TypeOK
  <2> QED
    BY <2>1 DEF AgentLost
<1> QED
  BY <1>1, <1>2, SpacesUpdated DEF QInv, TypeOK, WorkNamed, AgentLost

-----------------------------------------------------------------------------
(* The reaper task.                                                         *)

LEMMA LeaseLapsesKeeps ==
  ASSUME QueueAssumption, QInv, NEW c \in DOMAIN cmd, LeaseLapses(c)
  PROVE  QInv' /\ RowsKept
<1> DEFINE C == [cmd[c] EXCEPT !.late = TRUE]
<1>1. cmd[c] \in CmdType /\ TypeOK
  BY RowsTyped DEF QInv
<1>2. C \in CmdType /\ C.kind = cmd[c].kind /\ C.ws = cmd[c].ws /\ C.status = cmd[c].status
  BY <1>1 DEF CmdType
<1>3. cmd' = [cmd EXCEPT ![c] = C]
  BY DEF LeaseLapses
<1> HIDE DEF C
<1>4. cmd' \in Seq(CmdType) /\ Len(cmd') = Len(cmd) /\ RowsKept
  BY <1>1, <1>2, <1>3, RowUpdated DEF RowsKept
<1> QED
  BY <1>4, QueueUpdated DEF QInv, TypeOK, WorkNamed, LeaseLapses

\* A requeue gives a row back once more, or up: its attempts stay in bounds.
LEMMA RequeuedRow ==
  ASSUME QueueAssumption, TypeOK, NEW c \in DOMAIN cmd
  PROVE  /\ Requeued(c) \in CmdType
         /\ Requeued(c).kind = cmd[c].kind /\ Requeued(c).ws = cmd[c].ws
         /\ cmd[c].status = "done" => Requeued(c) = cmd[c]
         /\ \/ Requeued(c) = cmd[c]
            \/ cmd[c].status = "claimed" /\ cmd[c].attempt >= MaxAttempt - 1 /\ Requeued(c).status = "done"
            \/ Requeued(c).status = "pending" /\ Requeued(c).pin = "null"
<1>1. cmd[c] \in CmdType /\ MaxAttempt \in Nat \ {0}
  BY RowsTyped DEF QueueAssumption
<1>2. CASE ~(cmd[c].status = "claimed" /\ cmd[c].late)
  BY <1>1, <1>2 DEF Requeued
<1>3. CASE cmd[c].status = "claimed" /\ cmd[c].late /\ cmd[c].attempt >= MaxAttempt - 1
  <2>1. Requeued(c) = [cmd[c] EXCEPT !.status = "done", !.attempt = MaxAttempt]
    BY <1>3 DEF Requeued
  <2>2. MaxAttempt \in 0..MaxAttempt
    BY <1>1
  <2> QED
    BY <1>1, <1>3, <2>1, <2>2 DEF CmdType
<1>4. CASE cmd[c].status = "claimed" /\ cmd[c].late /\ ~(cmd[c].attempt >= MaxAttempt - 1)
  <2> DEFINE n == cmd[c].attempt + 1
             C1 == [cmd[c] EXCEPT !.status = "pending", !.pin = "null"]
             C2 == [C1 EXCEPT !.late = FALSE]
             C3 == [C2 EXCEPT !.attempt = n]
  <2>1. Requeued(c) = [cmd[c] EXCEPT !.status = "pending", !.pin = "null", !.late = FALSE, !.attempt = n]
    BY <1>4 DEF Requeued
  <2>2. n \in 0..MaxAttempt
    BY <1>1, <1>4 DEF CmdType
  <2> HIDE DEF n
  <2>3. /\ C1 \in CmdType /\ C1.kind = cmd[c].kind /\ C1.ws = cmd[c].ws
        /\ C1.status = "pending" /\ C1.pin = "null"
    BY <1>1 DEF CmdType
  <2>4. /\ C2 \in CmdType /\ C2.kind = cmd[c].kind /\ C2.ws = cmd[c].ws
        /\ C2.status = "pending" /\ C2.pin = "null"
    BY <2>3 DEF CmdType
  <2>5. /\ C3 \in CmdType /\ C3.kind = cmd[c].kind /\ C3.ws = cmd[c].ws
        /\ C3.status = "pending" /\ C3.pin = "null"
    BY <2>2, <2>4 DEF CmdType
  <2>6. Requeued(c) = C3
    BY <1>1, <2>1 DEF CmdType
  <2> HIDE DEF C3
  <2> QED
    BY <1>4, <2>5, <2>6
<1> QED
  BY <1>2, <1>3, <1>4

\* The requeue writes many rows at once.
LEMMA RowsRequeued ==
  ASSUME QueueAssumption, TypeOK, cmd' = [c \in DOMAIN cmd |-> Requeued(c)]
  PROVE  /\ cmd' \in Seq(CmdType) /\ Len(cmd') = Len(cmd) /\ RowsKept
         /\ DOMAIN cmd' = DOMAIN cmd /\ \A c \in DOMAIN cmd : cmd'[c] = Requeued(c)
<1>1. DOMAIN cmd = 1..Len(cmd) /\ Len(cmd) \in Nat
  BY RowsTyped DEF QueueAssumption
<1>2. DOMAIN cmd' = DOMAIN cmd /\ \A c \in DOMAIN cmd : cmd'[c] = Requeued(c) /\ cmd'[c] \in CmdType
  BY RequeuedRow
<1>3. cmd' \in [1..Len(cmd) -> CmdType]
  BY <1>1, <1>2
<1>4. cmd' \in Seq(CmdType)
  BY <1>1, <1>3, SeqDef
<1>5. Len(cmd') = Len(cmd)
  BY <1>1, <1>2, <1>4, LenProperties
<1>6. RowsKept
  BY <1>2, RequeuedRow DEF RowsKept
<1> QED
  BY <1>2, <1>4, <1>5, <1>6

\* The reaper's own record, whatever it does next.
LEMMA ReaperUpdated ==
  ASSUME TypeOK, NEW r \in Reapers, NEW R \in ReaperType, reaper' = [reaper EXCEPT ![r] = R]
  PROVE  reaper' \in [Reapers -> ReaperType]
BY DEF TypeOK

LEMMA SweepReadsKeeps ==
  ASSUME QInv, NEW r \in Reapers, NEW ttl \in SUBSET Spaces, NEW idle \in SUBSET Spaces,
         SweepReads(r, ttl, idle)
  PROVE  QInv' /\ RowsKept
<1> DEFINE R == [step |-> "sweeping", sel |-> ttl \cup idle, ttl |-> ttl, at |-> {}]
<1>1. R \in ReaperType
  BY DEF ReaperType
<1>2. reaper' = [reaper EXCEPT ![r] = R] /\ TypeOK
  BY DEF SweepReads, QInv
<1> HIDE DEF R
<1>3. reaper' \in [Reapers -> ReaperType] /\ used' \in [Faults -> Nat]
  BY <1>1, <1>2, ReaperUpdated, UseTyped DEF SweepReads
<1> QED
  BY <1>3, RowsUntouched DEF QInv, TypeOK, WorkNamed, SweepReads

LEMMA SweepCommitsKeeps ==
  ASSUME QueueAssumption, QInv, NEW r \in Reapers, SweepCommits(r)
  PROVE  QInv' /\ RowsKept
<1>1. TypeOK
  BY DEF QInv
<1>2. /\ space' \in [Spaces -> SpaceType]
      /\ \A w \in Spaces : space'[w].claim = space[w].claim
  BY ZenonT(60) DEF SweepCommits, QInv, TypeOK, SpaceType, Statuses
<1>3. /\ cmd' \in Seq(CmdType) /\ Len(cmd') = Len(cmd) /\ RowsKept /\ DOMAIN cmd' = DOMAIN cmd
  BY <1>1, RowsRequeued DEF SweepCommits
<1>4. reaper' \in [Reapers -> ReaperType]
  <2> DEFINE R == [step |-> "listed", at |-> {}, ttl |-> {},
                   sel |-> {w \in Spaces : space'[w].status = "expired" /\ space[w].tries < 3}]
  <2>1. R \in ReaperType /\ reaper' = [reaper EXCEPT ![r] = R]
    BY DEF ReaperType, SweepCommits
  <2> HIDE DEF R
  <2> QED
    BY <1>1, <2>1, ReaperUpdated
<1>5. TypeOK' /\ WorkNamed'
  BY <1>1, <1>2, <1>3, <1>4 DEF QInv, TypeOK, WorkNamed, SweepCommits
<1>6. ClaimsNamed'
  BY <1>2, <1>3 DEF QInv, ClaimsNamed, RowsKept
<1>7. InvokesClaim'
  <2> SUFFICES ASSUME NEW c \in DOMAIN cmd', cmd'[c].kind = "invoke", cmd'[c].status # "done"
               PROVE  space'[cmd'[c].ws].claim = c
    BY DEF InvokesClaim
  <2>1. c \in DOMAIN cmd /\ cmd[c].ws \in Spaces
    BY <1>1, <1>3, RowsTyped DEF CmdType
  <2>2. cmd[c].kind = "invoke" /\ cmd[c].status # "done" /\ cmd'[c].ws = cmd[c].ws
    BY <1>3, <2>1 DEF RowsKept
  <2> QED
    BY <1>2, <2>1, <2>2 DEF QInv, InvokesClaim
<1> QED
  BY <1>3, <1>5, <1>6, <1>7 DEF QInv

\* An update of one workspace's status.
LEMMA DestroyKeeps ==
  ASSUME QueueAssumption, QInv, NEW r \in Reapers, NEW w \in Spaces, NEW ok \in BOOLEAN,
         DestroyBegins(r, w) \/ DestroyEnds(r, w, ok)
  PROVE  QInv' /\ RowsKept
<1>1. TypeOK /\ reaper[r] \in ReaperType /\ space[w] \in SpaceType
  BY DEF QInv, TypeOK
<1>2. /\ space' \in [Spaces -> SpaceType]
      /\ \A v \in Spaces : space'[v].claim = space[v].claim
  <2>1. \/ space' = space
        \/ space' = [space EXCEPT ![w].status = "destroying", ![w].tries = @ + 1]
        \/ \E st \in Statuses : space' = [space EXCEPT ![w].status = st]
    BY DEF DestroyBegins, DestroyEnds, Statuses
  <2> DEFINE n == space[w].tries + 1
             S1 == [space[w] EXCEPT !.status = "destroying", !.tries = n]
             S2(st) == [space[w] EXCEPT !.status = st]
  <2>2. n \in Nat
    BY <1>1 DEF SpaceType
  <2>3. S1 \in SpaceType /\ S1.claim = space[w].claim
    BY <1>1, <2>2 DEF SpaceType, Statuses
  <2>4. \A st \in Statuses : S2(st) \in SpaceType /\ S2(st).claim = space[w].claim
    BY <1>1 DEF SpaceType
  <2>5. \/ space' = space
        \/ \E S \in SpaceType : S.claim = space[w].claim /\ space' = [space EXCEPT ![w] = S]
    <3>1. space' = [space EXCEPT ![w] = S1] \/ space' = space
          \/ \E st \in Statuses : space' = [space EXCEPT ![w] = S2(st)]
      BY <2>1
    <3> HIDE DEF S1, S2
    <3> QED
      BY <2>3, <2>4, <3>1
  <2> QED
    BY <1>1, <2>5 DEF TypeOK
<1>3. reaper' \in [Reapers -> ReaperType]
  <2> DEFINE R1 == [reaper[r] EXCEPT !.step = "destroying", !.at = {w}]
             R2 == [reaper[r] EXCEPT !.sel = @ \ {w}]
             R3 == [reaper[r] EXCEPT !.step = "listed", !.sel = @ \ {w}, !.at = {}]
  <2>1. R1 \in ReaperType /\ R2 \in ReaperType /\ R3 \in ReaperType
    BY <1>1 DEF ReaperType
  <2>2. \/ reaper' = [reaper EXCEPT ![r] = R1]
        \/ reaper' = [reaper EXCEPT ![r] = R2]
        \/ reaper' = [reaper EXCEPT ![r] = R3]
    BY DEF DestroyBegins, DestroyEnds
  <2> HIDE DEF R1, R2, R3
  <2> QED
    BY <1>1, <2>1, <2>2, ReaperUpdated
<1>4. used' \in [Faults -> Nat]
  BY <1>1, UseTyped DEF TypeOK, DestroyBegins, DestroyEnds
<1> QED
  BY <1>2, <1>3, <1>4, SpacesUpdated DEF QInv, TypeOK, WorkNamed, DestroyBegins, DestroyEnds

LEMMA ReaperStops ==
  ASSUME QInv, NEW r \in Reapers, ReaperEnds(r) \/ ReaperDies(r)
  PROVE  QInv' /\ RowsKept
<1>1. NoReaper \in ReaperType /\ TypeOK /\ reaper' = [reaper EXCEPT ![r] = NoReaper]
  BY DEF NoReaper, ReaperType, QInv, ReaperEnds, ReaperDies
<1>2. reaper' \in [Reapers -> ReaperType] /\ used' \in [Faults -> Nat]
  BY <1>1, ReaperUpdated, UseTyped DEF TypeOK, ReaperEnds, ReaperDies
<1> QED
  BY <1>2, RowsUntouched DEF QInv, TypeOK, WorkNamed, ReaperEnds, ReaperDies

-----------------------------------------------------------------------------
(* The invariant.                                                           *)

LEMMA InitKeeps ==
  ASSUME QueueAssumption, Init
  PROVE  QInv
<1>1. cmd \in Seq(CmdType) /\ Len(cmd) = 0 /\ DOMAIN cmd = {}
  BY DEF Init
<1>2. 0 \in 0..MaxCmds
  BY DEF QueueAssumption
<1>3. /\ space \in [Spaces -> SpaceType] /\ \A w \in Spaces : space[w].claim = 0
      /\ run \in [Spaces -> RunType]
  BY <1>2 DEF Init, SpaceType, Statuses, RunType
<1>4. pod \in [Agents -> PodType] /\ \A a \in Agents : pod[a].work = {}
  <2> DEFINE P == [NoPod EXCEPT !.up = TRUE]
  <2>1. P \in PodType /\ P.work = {}
    BY DEF NoPod, PodType
  <2>2. pod = [a \in Agents |-> P]
    BY DEF Init
  <2> HIDE DEF P
  <2> QED
    BY <2>1, <2>2
<1>5. reaper \in [Reapers -> ReaperType] /\ used \in [Faults -> Nat]
  BY DEF Init, NoReaper, ReaperType
<1> QED
  BY <1>1, <1>2, <1>3, <1>4, <1>5 DEF QInv, TypeOK, ClaimsNamed, InvokesClaim, WorkNamed, QueueAssumption

LEMMA StutterKeeps ==
  ASSUME QInv, UNCHANGED vars
  PROVE  QInv' /\ RowsKept
BY RowsUntouched DEF vars, QInv, TypeOK, WorkNamed

LEMMA NextKeeps ==
  ASSUME QueueAssumption, QInv, Next
  PROVE  QInv' /\ RowsKept
<1>1. CASE EngineStep
  BY <1>1, DispatchProvisionKeeps, DispatchInvokeKeeps, DispatchCleanupKeeps, ReconcileKeeps DEF EngineStep
<1>2. ASSUME NEW a \in Agents, WorkStep(a) PROVE QInv' /\ RowsKept
  BY <1>2, PostReceivedKeeps, RouteCachedKeeps, RouteKeeps, PostTerminalKeeps DEF WorkStep
<1>3. ASSUME NEW a \in Agents, PodFault(a) PROVE QInv' /\ RowsKept
  <2>1. CASE Crash(a) \/ Restart(a)
    BY <2>1, PodReset
  <2>2. CASE ClaimNext(a, FALSE) \/ ClaimRetires(a)
    BY <2>2, ClaimNextKeeps, ClaimRetiresKeeps
  <2>3. ASSUME NEW x \in pod[a].work,
               PostReceived(a, x, FALSE) \/ RouteWorkspaceCmd(a, x, TRUE) \/ PostTerminal(a, x, FALSE)
        PROVE  QInv' /\ RowsKept
    BY <2>3, PostReceivedKeeps, RouteKeeps, PostTerminalKeeps
  <2> QED
    BY <1>3, <2>1, <2>2, <2>3 DEF PodFault
<1>4. ASSUME NEW a \in Agents, ClaimNext(a, TRUE) \/ Heartbeat(a) \/ AgentLost(a) PROVE QInv' /\ RowsKept
  BY <1>4, ClaimNextKeeps, HeartbeatKeeps, AgentLostKeeps
<1>5. ASSUME NEW c \in DOMAIN cmd, LeaseLapses(c) PROVE QInv' /\ RowsKept
  BY <1>5, LeaseLapsesKeeps
<1>6. ASSUME NEW r \in Reapers, ReaperStep(r) PROVE QInv' /\ RowsKept
  BY <1>6, SweepReadsKeeps, SweepCommitsKeeps, ReaperStops, DestroyKeeps DEF ReaperStep
<1>7. ASSUME NEW r \in Reapers, ReaperDies(r) \/ \E w \in Spaces : DestroyEnds(r, w, FALSE)
      PROVE  QInv' /\ RowsKept
  BY <1>7, ReaperStops, DestroyKeeps
<1> QED
  BY <1>1, <1>2, <1>3, <1>4, <1>5, <1>6, <1>7 DEF Next

\* Whoever claims, reports, requeues, sweeps or dies, the rows stay well formed
\* and the two pointers between a workspace and its invoke agree.
LEMMA QueueInductive ==
  ASSUME QueueAssumption
  PROVE  Spec => []QInv
<1>1. Init => QInv
  BY InitKeeps
<1>2. QInv /\ [Next]_vars => QInv'
  BY NextKeeps, StutterKeeps
<1> QED
  BY <1>1, <1>2, PTL DEF Spec

-----------------------------------------------------------------------------
(* Theorems for every fault.                                                *)

\* The rows of the queue, the workspaces, the runs and the pods stay well
\* formed; in particular a row's attempts stay within MAX_ATTEMPT and a claim is
\* a command id (core/agent_gateway and core/workspace).
THEOREM QueueTypeCorrect ==
  ASSUME QueueAssumption
  PROVE  Spec => []TypeOK
<1>1. QInv => TypeOK
  BY DEF QInv
<1> QED
  BY <1>1, QueueInductive, PTL

\* A pod routes an outstanding invoke only on the workspace that the command
\* claimed (try_claim), whatever was redelivered, requeued or expired meanwhile.
THEOREM RunsUnderItsClaimHolds ==
  ASSUME QueueAssumption
  PROVE  Spec => []RunsUnderItsClaim
<1>1. QInv => RunsUnderItsClaim
  BY DEF QInv, RunsUnderItsClaim, InvokesClaim, WorkNamed
<1> QED
  BY <1>1, QueueInductive, PTL

\* Single flight: a workspace has at most one outstanding invoke in the whole
\* queue, which is what the conditional update of try_claim is for.
SingleFlight ==
  \A c, d \in DOMAIN cmd :
    /\ cmd[c].kind = "invoke" /\ cmd[c].status # "done"
    /\ cmd[d].kind = "invoke" /\ cmd[d].status # "done"
    /\ cmd[c].ws = cmd[d].ws
    => c = d

\* try_claim's promise, for any number of pods, faults and reapers.
THEOREM SingleFlightHolds ==
  ASSUME QueueAssumption
  PROVE  Spec => []SingleFlight
<1>1. QInv => SingleFlight
  BY DEF QInv, SingleFlight, InvokesClaim
<1> QED
  BY <1>1, QueueInductive, PTL

\* A command, once inserted, is never lost, never becomes another command, and
\* once it is done is never delivered as new: no requeue, late receipt or second
\* terminal event takes it up again.
THEOREM DoneIsFinal ==
  ASSUME QueueAssumption
  PROVE  Spec => [][RowsKept]_vars
<1>1. QInv /\ [Next]_vars => [RowsKept]_vars
  BY NextKeeps
<1> QED
  BY <1>1, QueueInductive, PTL DEF Spec

-----------------------------------------------------------------------------
(* Claims do not outlive their commands.                                    *)

\* A workspace without a row has no claim; an outstanding command that was given
\* back once is pinned to no pod any more, and only a provision is claimed
\* unpinned; the claim of an active workspace is a command that is not done, and
\* the run of the workspace waits for it.
AbsentFree == \A w \in Spaces : space[w].status = "absent" => space[w].claim = 0

Unpinned ==
  \A c \in DOMAIN cmd : cmd[c].kind # "provision" /\ cmd[c].attempt > 0 /\ cmd[c].status # "done"
    => cmd[c].pin = "null" /\ cmd[c].status = "pending"

ClaimAwaited ==
  \A w \in Spaces : space[w].status = "active" /\ space[w].claim # 0
    => cmd[space[w].claim].status # "done" /\ run[w].waits = space[w].claim

ClaimInv == AbsentFree /\ Unpinned /\ ClaimAwaited

\* A claim is retired unseen only when credentials cannot be read, and a command
\* is tried more than once (MAX_ATTEMPT is 5).
NothingRetiredUnseen == MaxSecret = 0 /\ MaxAttempt > 1

\* Steps that take no claim, make no workspace active and end no invoke.
LEMMA ClaimFrame ==
  ASSUME QInv, ClaimInv, DOMAIN cmd' = DOMAIN cmd, Unpinned',
         \A c \in DOMAIN cmd : cmd[c].kind = "invoke" /\ cmd'[c].status = "done" => cmd[c].status = "done",
         \A w \in Spaces :
           /\ space'[w].claim = space[w].claim
           /\ space'[w].status = "absent" => space[w].status = "absent"
           /\ space'[w].status = "active" /\ space[w].claim # 0
                => space[w].status = "active" /\ run'[w].waits = run[w].waits
  PROVE  ClaimInv'
<1>1. AbsentFree'
  BY DEF ClaimInv, AbsentFree
<1>2. ClaimAwaited'
  BY DEF ClaimInv, ClaimAwaited, QInv, ClaimsNamed
<1> QED
  BY <1>1, <1>2 DEF ClaimInv

\* ... and leave the queue as it is, too.
LEMMA ClaimFrameQueue ==
  ASSUME QInv, ClaimInv, cmd' = cmd,
         \A w \in Spaces :
           /\ space'[w].claim = space[w].claim
           /\ space'[w].status = "absent" => space[w].status = "absent"
           /\ space'[w].status = "active" /\ space[w].claim # 0
                => space[w].status = "active" /\ run'[w].waits = run[w].waits
  PROVE  ClaimInv'
<1>1. Unpinned'
  BY DEF ClaimInv, Unpinned
<1> QED
  BY <1>1, ClaimFrame

\* Pods' own steps.
LEMMA ClaimUntouched ==
  ASSUME QInv, ClaimInv, cmd' = cmd, space' = space, run' = run
  PROVE  ClaimInv'
BY ClaimFrameQueue

\* A run that waits for nothing has no claim on an active workspace.
LEMMA NotWaiting ==
  ASSUME ClaimInv, NEW w \in Spaces, run[w].waits = 0, space[w].status = "active"
  PROVE  space[w].claim = 0
BY DEF ClaimInv, ClaimAwaited

LEMMA DispatchClaims ==
  ASSUME QueueAssumption, QInv, ClaimInv, NEW w \in Spaces,
         DispatchProvision(w) \/ DispatchInvoke(w) \/ DispatchCleanup(w)
  PROVE  ClaimInv'
<1>1. TypeOK /\ space[w].owner \in Agents \cup {"null"} /\ Len(cmd) < MaxCmds /\ run[w].waits = 0
  <2>1. TypeOK /\ Len(cmd) \in Nat /\ MaxCmds \in Nat
    BY RowsTyped DEF QInv, QueueAssumption
  <2>2. run[w].waits = 0 /\ (Len(cmd) < MaxCmds \/ Len(cmd) + 1 < MaxCmds)
    BY DEF DispatchProvision, DispatchInvoke, DispatchCleanup
  <2> QED
    BY <2>1, <2>2 DEF TypeOK, SpaceType
<1>2. PICK kind \in Kinds, agent \in Agents \cup {"null"} : cmd' = EnqueueCommand(kind, w, agent)
  BY <1>1 DEF DispatchProvision, DispatchInvoke, DispatchCleanup, Kinds
<1>3. PICK C \in CmdType : cmd' = Append(cmd, C) /\ C.status = "pending" /\ C.attempt = 0
  BY <1>1, <1>2, RowMade
<1>4. PICK n : n = Len(cmd) + 1
  OBVIOUS
<1>5. /\ n \notin DOMAIN cmd /\ DOMAIN cmd' = DOMAIN cmd \cup {n} /\ n \in 1..MaxCmds
      /\ cmd'[n].status = "pending" /\ cmd'[n].attempt = 0
      /\ \A c \in DOMAIN cmd : cmd'[c] = cmd[c]
  BY <1>1, <1>3, <1>4, Enqueued
<1>6. /\ run'[w].waits = n
      /\ \A v \in Spaces \ {w} : run'[v] = run[v]
  BY <1>1, <1>4 DEF TypeOK, RunType, DispatchProvision, DispatchInvoke, DispatchCleanup
<1>7. /\ \A v \in Spaces : space'[v].status = space[v].status
      /\ \A v \in Spaces \ {w} : space'[v].claim = space[v].claim
      /\ \/ space'[w].claim = space[w].claim
         \/ space[w].status = "active" /\ space'[w].claim = n
  <2>1. CASE space' = space
    BY <2>1
  <2>2. CASE space' = [space EXCEPT ![w].claim = n] /\ space[w].status = "active"
    BY <1>1, <2>2 DEF TypeOK, SpaceType
  <2> QED
    BY <1>4, <2>1, <2>2 DEF DispatchProvision, DispatchInvoke, DispatchCleanup, TryClaim
<1>8. AbsentFree'
  BY <1>7 DEF ClaimInv, AbsentFree
<1>9. Unpinned'
  BY <1>5 DEF ClaimInv, Unpinned
<1>10. ClaimAwaited'
  <2> SUFFICES ASSUME NEW v \in Spaces, space'[v].status = "active", space'[v].claim # 0
               PROVE  cmd'[space'[v].claim].status # "done" /\ run'[v].waits = space'[v].claim
    BY DEF ClaimAwaited
  <2>1. CASE v = w
    BY <1>1, <1>5, <1>6, <1>7, <2>1, NotWaiting
  <2>2. CASE v # w
    BY <1>5, <1>6, <1>7, <2>2 DEF ClaimInv, ClaimAwaited, QInv, ClaimsNamed
  <2> QED
    BY <2>1, <2>2
<1> QED
  BY <1>8, <1>9, <1>10 DEF ClaimInv

LEMMA ReconcileClaims ==
  ASSUME QueueAssumption, QInv, ClaimInv, NEW w \in Spaces, ReconcileLostResume(w)
  PROVE  ClaimInv'
<1>1. \A v \in Spaces \ {w} : run'[v] = run[v]
  BY TellTyped DEF QInv, ReconcileLostResume
<1>2. ~(space[w].status = "active" /\ space[w].claim # 0)
  BY DEF ClaimInv, ClaimAwaited, ReconcileLostResume
<1> QED
  BY <1>1, <1>2, ClaimFrameQueue DEF ReconcileLostResume

\* What a pod claims and is no provision was pinned to it: it was never given back.
LEMMA ClaimNextClaims ==
  ASSUME QueueAssumption, QInv, ClaimInv, NEW a \in Agents, NEW arrives \in BOOLEAN, ClaimNext(a, arrives)
  PROVE  ClaimInv'
<1>1. PICK c \in Oldest(SelectEligibleRow(a)) :
        cmd' = [cmd EXCEPT ![c].status = "claimed", ![c].pin = a, ![c].claims = @ + 1, ![c].late = FALSE]
  BY DEF ClaimNext
<1>2. /\ c \in DOMAIN cmd /\ cmd[c] \in CmdType /\ cmd[c].attempt \in Nat
      /\ cmd[c].kind = "provision" \/ cmd[c].pin = a
  BY RowsTyped DEF QInv, CmdType, Oldest, SelectEligibleRow, Provisions, Pinned
<1>3. a # "null"
  BY DEF QueueAssumption
<1>4. cmd[c].kind # "provision" => ~(cmd[c].attempt > 0)
  BY <1>2, <1>3, EligibleRows DEF ClaimInv, Unpinned
<1>5. /\ DOMAIN cmd' = DOMAIN cmd /\ \A d \in DOMAIN cmd \ {c} : cmd'[d] = cmd[d]
      /\ cmd'[c].kind = cmd[c].kind /\ cmd'[c].attempt = cmd[c].attempt /\ cmd'[c].status = "claimed"
  BY <1>1, <1>2 DEF CmdType
<1>6. Unpinned'
  BY <1>4, <1>5 DEF ClaimInv, Unpinned
<1> QED
  BY <1>5, <1>6, ClaimFrame DEF ClaimNext

LEMMA NoRetirement ==
  ASSUME QInv, NothingRetiredUnseen, NEW a \in Agents
  PROVE  ~ClaimRetires(a)
<1>1. used["secret"] \in Nat
  BY DEF QInv, TypeOK, Faults
<1>2. ClaimRetires(a) => used["secret"] < 0
  <2>1. ClaimRetires(a) => Use("secret", MaxSecret)
    BY DEF ClaimRetires
  <2> QED
    BY <2>1 DEF NothingRetiredUnseen, Use
<1> QED
  BY <1>1, <1>2

LEMMA PostReceivedClaims ==
  ASSUME QueueAssumption, QInv, ClaimInv, NEW a \in Agents, NEW x \in pod[a].work, NEW arrives \in BOOLEAN,
         PostReceived(a, x, arrives)
  PROVE  ClaimInv'
<1>1. CASE cmd' = cmd
  BY <1>1, ClaimUntouched DEF PostReceived
<1>2. CASE cmd' # cmd
  <2>1. x.c \in DOMAIN cmd /\ cmd[x.c] \in CmdType
    BY WorkTyped, RowsTyped DEF QInv
  <2>2. /\ cmd[x.c].status = "claimed" /\ cmd' = [cmd EXCEPT ![x.c].status = "delivered"]
    <3>1. cmd' = [cmd EXCEPT ![x.c].status = IF @ = "claimed" /\ TokenMatches(x, x.claim) THEN "delivered" ELSE @]
      BY <1>2 DEF PostReceived
    <3>2. cmd[x.c].status = "claimed" /\ TokenMatches(x, x.claim)
      <4> SUFFICES ASSUME ~(cmd[x.c].status = "claimed" /\ TokenMatches(x, x.claim)) PROVE FALSE
        OBVIOUS
      <4> DEFINE C == [cmd[x.c] EXCEPT !.status = cmd[x.c].status]
      <4>1. C = cmd[x.c]
        BY <2>1 DEF CmdType
      <4>2. cmd' = [cmd EXCEPT ![x.c] = C]
        BY <3>1
      <4> HIDE DEF C
      <4>3. cmd = [c \in DOMAIN cmd |-> cmd[c]]
        BY RowsTyped DEF QInv, TypeOK
      <4> QED
        BY <1>2, <2>1, <4>1, <4>2, <4>3
    <3> QED
      BY <3>1, <3>2
  <2>3. /\ DOMAIN cmd' = DOMAIN cmd /\ \A d \in DOMAIN cmd \ {x.c} : cmd'[d] = cmd[d]
        /\ cmd'[x.c].kind = cmd[x.c].kind /\ cmd'[x.c].attempt = cmd[x.c].attempt
        /\ cmd'[x.c].status = "delivered"
    BY <2>1, <2>2 DEF CmdType
  <2>4. Unpinned'
    BY <2>1, <2>2, <2>3 DEF ClaimInv, Unpinned
  <2> QED
    BY <2>3, <2>4, ClaimFrame DEF PostReceived
<1> QED
  BY <1>1, <1>2

\* A terminal event takes the claim of the command it ends, in one transaction.
LEMMA PostTerminalClaims ==
  ASSUME QueueAssumption, QInv, ClaimInv, NEW a \in Agents, NEW x \in pod[a].work, NEW answered \in BOOLEAN,
         PostTerminal(a, x, answered)
  PROVE  ClaimInv'
<1> DEFINE c == x.c
<1>1. CASE UNCHANGED <<cmd, space, run>>
  BY <1>1, ClaimUntouched
<1>2. CASE RecordAgentEvent(a, x)
  <2>1. c \in DOMAIN cmd /\ cmd[c].ws \in Spaces /\ x.ok \in BOOLEAN /\ TypeOK
    BY WorkTyped, RowsTyped DEF QInv, CmdType, WorkType
  <2>2. /\ DOMAIN cmd' = DOMAIN cmd /\ cmd'[c].status = "done"
        /\ \A d \in DOMAIN cmd \ {c} : cmd'[d] = cmd[d]
    <3>1. cmd' = [cmd EXCEPT ![c].status = "done"] /\ cmd[c] \in CmdType
      BY <1>2, <2>1, RowsTyped DEF RecordAgentEvent, RetireCommand
    <3> QED
      BY <2>1, <3>1 DEF CmdType
  <2>3. \A w \in Spaces : /\ space'[w].claim = IF space[w].claim = c THEN 0 ELSE space[w].claim
                          /\ \/ space'[w].status = space[w].status
                             \/ space[w].status = "absent" /\ space'[w].status = "active"
    BY <1>2, RecordSpaces
  <2>4. \A w \in Spaces : run[w].waits # c => run'[w].waits = run[w].waits
    <3>1. run' = Tell(run, cmd[c].ws, c, x.ok)
      BY <1>2 DEF RecordAgentEvent
    <3>2. /\ \A v \in Spaces \ {cmd[c].ws} : run'[v] = run[v]
          /\ run'[cmd[c].ws].waits = IF run[cmd[c].ws].waits = c THEN 0 ELSE run[cmd[c].ws].waits
      BY <2>1, <3>1, TellTyped
    <3> QED
      BY <3>2
  <2> HIDE DEF c
  <2>5. AbsentFree'
    BY <2>3 DEF ClaimInv, AbsentFree
  <2>6. Unpinned'
    BY <2>2 DEF ClaimInv, Unpinned
  <2>7. ClaimAwaited'
    <3> SUFFICES ASSUME NEW w \in Spaces, space'[w].status = "active", space'[w].claim # 0
                 PROVE  cmd'[space'[w].claim].status # "done" /\ run'[w].waits = space'[w].claim
      BY DEF ClaimAwaited
    <3>1. space[w].claim # 0 /\ space[w].claim # c /\ space'[w].claim = space[w].claim
      BY <2>3
    <3>2. space[w].status = "active"
      BY <2>3, <3>1 DEF ClaimInv, AbsentFree
    <3>3. cmd[space[w].claim].status # "done" /\ run[w].waits = space[w].claim
      BY <3>1, <3>2 DEF ClaimInv, ClaimAwaited
    <3>4. cmd'[space[w].claim] = cmd[space[w].claim]
      BY <2>2, <3>1 DEF QInv, ClaimsNamed
    <3> QED
      BY <2>4, <3>1, <3>3, <3>4
  <2> QED
    BY <2>5, <2>6, <2>7 DEF ClaimInv
<1> QED
  BY <1>1, <1>2 DEF PostTerminal

\* The runs that failsafe_agent_loss fails are those whose workspace it expires.
LEMMA AgentLostClaims ==
  ASSUME QInv, ClaimInv, NEW a \in Agents, AgentLost(a)
  PROVE  ClaimInv'
<1>1. \A w \in Spaces : /\ w \in Held(a) => space'[w] = [space[w] EXCEPT !.status = "expired"]
                        /\ w \notin Held(a) => space'[w] = space[w] /\ run'[w] = run[w]
  BY DEF AgentLost
<1>2. \A w \in Spaces : space[w] \in SpaceType
  BY DEF QInv, TypeOK
<1>3. ASSUME NEW w \in Spaces
      PROVE  /\ space'[w].claim = space[w].claim
             /\ space'[w].status = "absent" => space[w].status = "absent"
             /\ space'[w].status = "active" /\ space[w].claim # 0
                  => space[w].status = "active" /\ run'[w].waits = run[w].waits
  BY <1>1, <1>2 DEF SpaceType
<1> QED
  BY <1>3, ClaimFrameQueue DEF AgentLost

LEMMA LeaseLapsesClaims ==
  ASSUME QueueAssumption, QInv, ClaimInv, NEW c \in DOMAIN cmd, LeaseLapses(c)
  PROVE  ClaimInv'
<1>1. cmd[c] \in CmdType
  BY RowsTyped DEF QInv
<1>2. /\ DOMAIN cmd' = DOMAIN cmd /\ \A d \in DOMAIN cmd \ {c} : cmd'[d] = cmd[d]
      /\ cmd'[c].kind = cmd[c].kind /\ cmd'[c].attempt = cmd[c].attempt
      /\ cmd'[c].status = cmd[c].status /\ cmd'[c].pin = cmd[c].pin
  BY <1>1 DEF LeaseLapses, CmdType
<1>3. Unpinned'
  BY <1>2 DEF ClaimInv, Unpinned
<1> QED
  BY <1>2, <1>3, ClaimFrame DEF LeaseLapses

\* The sweep gives up only a command that it gave back before, and of those only
\* provisions are ever claimed again.
LEMMA SweepClaims ==
  ASSUME QueueAssumption, NothingRetiredUnseen, QInv, ClaimInv, NEW r \in Reapers, SweepCommits(r)
  PROVE  ClaimInv'
<1>1. TypeOK
  BY DEF QInv
<1>2. /\ DOMAIN cmd' = DOMAIN cmd /\ RowsKept /\ \A c \in DOMAIN cmd : cmd'[c] = Requeued(c)
  BY <1>1, RowsRequeued DEF SweepCommits
<1>3. ASSUME NEW c \in DOMAIN cmd, cmd[c].kind = "invoke", cmd'[c].status = "done"
      PROVE  cmd[c].status = "done"
  <2>1. CASE cmd[c].status = "claimed" /\ cmd[c].attempt >= MaxAttempt - 1
    <3>1. cmd[c].attempt \in Nat /\ MaxAttempt \in Nat
      BY <1>1, RowsTyped DEF CmdType, QueueAssumption
    <3>2. cmd[c].attempt > 0
      BY <2>1, <3>1 DEF NothingRetiredUnseen
    <3> QED
      BY <1>3, <2>1, <3>2 DEF ClaimInv, Unpinned
  <2> QED
    BY <1>1, <1>2, <1>3, <2>1, RequeuedRow
<1>4. Unpinned'
  <2> SUFFICES ASSUME NEW c \in DOMAIN cmd, cmd'[c].kind # "provision", cmd'[c].attempt > 0,
                      cmd'[c].status # "done"
               PROVE  cmd'[c].pin = "null" /\ cmd'[c].status = "pending"
    BY <1>2 DEF Unpinned
  <2>1. cmd'[c] = Requeued(c)
    BY <1>2
  <2>2. CASE Requeued(c) = cmd[c]
    BY <2>1, <2>2 DEF ClaimInv, Unpinned
  <2> QED
    BY <1>1, <2>1, <2>2, RequeuedRow
<1>5. ASSUME NEW w \in Spaces
      PROVE  /\ space'[w].claim = space[w].claim
             /\ space'[w].status = "absent" => space[w].status = "absent"
             /\ space'[w].status = "active" /\ space[w].claim # 0
                  => space[w].status = "active" /\ run'[w].waits = run[w].waits
  <2>1. space'[w] = [space[w] EXCEPT !.status = "expired"] \/ space'[w] = space[w]
    BY DEF SweepCommits
  <2>2. space[w] \in SpaceType /\ run' = run
    BY <1>1 DEF TypeOK, SweepCommits
  <2> QED
    BY <2>1, <2>2 DEF SpaceType
<1> QED
  BY <1>2, <1>3, <1>4, <1>5, ClaimFrame

LEMMA DestroyClaims ==
  ASSUME QInv, ClaimInv, NEW r \in Reapers, NEW w \in Spaces, NEW ok \in BOOLEAN,
         DestroyBegins(r, w) \/ DestroyEnds(r, w, ok)
  PROVE  ClaimInv'
<1>1. \A v \in Spaces : space[v] \in SpaceType
  BY DEF QInv, TypeOK
<1>2. \/ space' = space
      \/ space' = [space EXCEPT ![w].status = "destroying", ![w].tries = @ + 1]
      \/ \E st \in {"destroyed", "destroy_failed", "expired"} : space' = [space EXCEPT ![w].status = st]
  BY DEF DestroyBegins, DestroyEnds
<1>3. /\ \A v \in Spaces \ {w} : space'[v] = space[v]
      /\ space'[w].claim = space[w].claim
      /\ space'[w] = space[w] \/ space'[w].status \in {"destroying", "destroyed", "destroy_failed", "expired"}
  <2>1. CASE space' = space
    BY <2>1
  <2>2. CASE space' = [space EXCEPT ![w].status = "destroying", ![w].tries = @ + 1]
    BY <1>1, <2>2 DEF QInv, TypeOK, SpaceType
  <2>3. CASE \E st \in {"destroyed", "destroy_failed", "expired"} : space' = [space EXCEPT ![w].status = st]
    BY <1>1, <2>3 DEF QInv, TypeOK, SpaceType
  <2> QED
    BY <1>2, <2>1, <2>2, <2>3
<1>4. cmd' = cmd /\ run' = run
  BY DEF DestroyBegins, DestroyEnds
<1> QED
  BY <1>3, <1>4, ClaimFrameQueue

LEMMA NextClaims ==
  ASSUME QueueAssumption, NothingRetiredUnseen, QInv, ClaimInv, Next
  PROVE  ClaimInv'
<1>1. CASE EngineStep
  BY <1>1, DispatchClaims, ReconcileClaims DEF EngineStep
<1>2. ASSUME NEW a \in Agents, NEW x \in pod[a].work, NEW b \in BOOLEAN,
             \/ PostReceived(a, x, b) \/ RouteCached(a, x)
             \/ RouteWorkspaceCmd(a, x, b) \/ PostTerminal(a, x, b)
      PROVE  ClaimInv'
  BY <1>2, PostReceivedClaims, PostTerminalClaims, ClaimUntouched DEF RouteCached, RouteWorkspaceCmd
<1>3. ASSUME NEW a \in Agents, NEW b \in BOOLEAN, ClaimNext(a, b) \/ ClaimRetires(a) \/ AgentLost(a)
      PROVE  ClaimInv'
  BY <1>3, ClaimNextClaims, NoRetirement, AgentLostClaims
<1>4. ASSUME NEW a \in Agents, Heartbeat(a) \/ Crash(a) \/ Restart(a) PROVE ClaimInv'
  BY <1>4, ClaimUntouched DEF Heartbeat, Crash, Restart
<1>5. ASSUME NEW c \in DOMAIN cmd, LeaseLapses(c) PROVE ClaimInv'
  BY <1>5, LeaseLapsesClaims
<1>6. ASSUME NEW r \in Reapers, NEW w \in Spaces, NEW ok \in BOOLEAN,
             DestroyBegins(r, w) \/ DestroyEnds(r, w, ok)
      PROVE  ClaimInv'
  BY <1>6, DestroyClaims
<1>7. ASSUME NEW r \in Reapers, NEW ttl \in SUBSET Spaces, NEW idle \in SUBSET Spaces,
             SweepReads(r, ttl, idle) \/ ReaperEnds(r) \/ ReaperDies(r)
      PROVE  ClaimInv'
  BY <1>7, ClaimUntouched DEF SweepReads, ReaperEnds, ReaperDies
<1>8. ASSUME NEW r \in Reapers, SweepCommits(r) PROVE ClaimInv'
  BY <1>8, SweepClaims
<1>9. ASSUME NEW a \in Agents, ClaimNext(a, TRUE) \/ WorkStep(a) \/ Heartbeat(a) \/ PodFault(a) \/ AgentLost(a)
      PROVE  ClaimInv'
  BY <1>2, <1>3, <1>4, <1>9 DEF WorkStep, PodFault
<1>10. ASSUME NEW r \in Reapers,
              \/ ReaperStep(r) \/ ReaperDies(r)
              \/ \E w \in Spaces : DestroyEnds(r, w, FALSE)
       PROVE  ClaimInv'
  BY <1>6, <1>7, <1>8, <1>10 DEF ReaperStep
<1> QED
  BY <1>1, <1>5, <1>9, <1>10 DEF Next

LEMMA ClaimInductive ==
  ASSUME QueueAssumption, NothingRetiredUnseen
  PROVE  Spec => [](QInv /\ ClaimInv)
<1>1. Init => QInv /\ ClaimInv
  BY InitKeeps DEF Init, ClaimInv, AbsentFree, Unpinned, ClaimAwaited
<1>2. QInv /\ ClaimInv /\ [Next]_vars => (QInv /\ ClaimInv)'
  <2>1. QInv /\ ClaimInv /\ Next => (QInv /\ ClaimInv)'
    BY NextKeeps, NextClaims
  <2>2. QInv /\ ClaimInv /\ UNCHANGED vars => (QInv /\ ClaimInv)'
    BY StutterKeeps, ClaimUntouched DEF vars
  <2> QED
    BY <2>1, <2>2
<1> QED
  BY <1>1, <1>2, PTL DEF Spec

\* While every credential can be read, no terminal event, requeue or sweep leaves
\* an active workspace claimed by a command that is over (release_command_claim):
\* the workspace never refuses the next invoke for a dead one.
THEOREM ClaimHolderOutstandingHolds ==
  ASSUME QueueAssumption, NothingRetiredUnseen
  PROVE  Spec => []ClaimHolderOutstanding
<1>1. ClaimInv => ClaimHolderOutstanding
  BY DEF ClaimInv, ClaimAwaited, ClaimHolderOutstanding
<1> QED
  BY <1>1, ClaimInductive, PTL

\* ... and the command that holds the claim is the one its run waits for: the
\* engine dispatches nothing to a workspace that another command holds.
THEOREM ClaimIsAwaited ==
  ASSUME QueueAssumption, NothingRetiredUnseen
  PROVE  Spec => []ClaimAwaited
<1>1. ClaimInv => ClaimAwaited
  BY DEF ClaimInv
<1> QED
  BY <1>1, ClaimInductive, PTL

=============================================================================
