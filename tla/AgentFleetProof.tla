-------------------------- MODULE AgentFleetProof --------------------------
(***************************************************************************)
(* Safety of the pods' rows, bearers and agent-scoped commands, for any    *)
(* number of pods and every value of the bounds.  FleetAssumption, which   *)
(* the checked instances evaluate, is a hypothesis.                        *)
(*                                                                         *)
(* Three things are followed through every step: what happens to a row and *)
(* to the bearers next to it, what happens to a command, and which command *)
(* a pod has in hand.  The invariant follows from what each may do.        *)
(***************************************************************************)
EXTENDS AgentFleet, SequenceTheorems, FiniteSetTheorems, TLAPS

-----------------------------------------------------------------------------
(* The inductive invariant.                                                 *)

\* A pod carries out commands that were made for it, has applied the ConfigUpdate
\* it is about to report, and has the token of a claim that was made.
HandOwned(a) ==
  pod[a].hand # 0 =>
    /\ pod[a].hand \in DOMAIN cmd
    /\ cmd[pod[a].hand].pin \in {a, "null"}
    /\ pod[a].claim <= cmd[pod[a].hand].claims
    /\ pod[a].step = "post" /\ cmd[pod[a].hand].kind = "config" => pod[a].local # "unconfigured"

HandsOwned == \A a \in Agents : HandOwned(a)

\* No two pods carry out the same command, requeued ones included.
HeldByOne == \A a, b \in Agents : pod[a].hand = pod[b].hand /\ pod[a].hand # 0 => a = b

FInv == TypeOK /\ ShutdownMeansNoBearer /\ LostPodIsLockedOut /\ HandsOwned /\ HeldByOne

-----------------------------------------------------------------------------
(* What a step does.                                                        *)

\* A bearer is added under a new number to a row that is live and not shut down,
\* or none is; and a row is shut down or lost only together with its bearers.
BearerMoves(a) ==
  /\ bearer'[a].issued >= bearer[a].issued
  /\ \A t \in bearer'[a].valid : t \in bearer[a].valid \/ t > bearer[a].issued
  /\ \/ bearer'[a].valid = {}
     \/ agent'[a].life # "shutdown" /\ agent'[a].live # "offline"
     \/ /\ bearer'[a].valid \subseteq bearer[a].valid
        /\ agent'[a].life = "shutdown" => agent[a].life = "shutdown"
        /\ agent'[a].live = "offline" => agent[a].live = "offline"

\* A row becomes active when its own pod reports a ConfigUpdate it has applied, or
\* when its drain is cancelled.
ConfiguredByItself ==
  \A a \in Agents : agent[a].life # "active" /\ agent'[a].life = "active" =>
    \/ agent[a].life = "draining"
    \/ /\ agent[a].life = "unconfigured" /\ pod[a].hand \in DOMAIN cmd
       /\ cmd[pod[a].hand].kind = "config" /\ pod[a].local # "unconfigured"

\* No command is dropped, changed in what it is for, given to another pod, or taken
\* up again once it is done.
CommandsKept ==
  \A c \in DOMAIN cmd :
    /\ c \in DOMAIN cmd' /\ cmd'[c].kind = cmd[c].kind /\ cmd'[c].pin \in {cmd[c].pin, "null"}
    /\ cmd'[c].claims >= cmd[c].claims
    /\ cmd[c].status = "done" => cmd'[c].status = "done"

\* A pod drops what it has in hand, goes on with it, or takes a row made for it.
HandMoves(a) ==
  \/ pod'[a].hand = 0
  \/ /\ pod'[a].hand = pod[a].hand /\ pod'[a].claim = pod[a].claim /\ pod[a].hand \in DOMAIN cmd
     /\ pod'[a].step = "post" /\ cmd[pod[a].hand].kind = "config" => pod'[a].local # "unconfigured"
  \/ /\ pod'[a].hand \in DOMAIN cmd /\ cmd[pod'[a].hand].pin = a /\ pod'[a].step = "received"
     /\ pod'[a].claim <= cmd'[pod'[a].hand].claims

StepHolds ==
  /\ FInv' /\ CommandsKept /\ ConfiguredByItself
  /\ \A a \in Agents : BearerMoves(a)

\* The invariant follows from the three.
LEMMA StepFollows ==
  ASSUME FleetAssumption, FInv, TypeOK', CommandsKept, ConfiguredByItself,
         \A a \in Agents : BearerMoves(a), \A a \in Agents : HandMoves(a)
  PROVE  StepHolds
<1>1. /\ TypeOK /\ ShutdownMeansNoBearer /\ LostPodIsLockedOut /\ HandsOwned /\ HeldByOne
      /\ "null" \notin Agents
  BY DEF FInv, FleetAssumption
<1>2. ShutdownMeansNoBearer' /\ LostPodIsLockedOut'
  BY <1>1 DEF ShutdownMeansNoBearer, LostPodIsLockedOut, BearerMoves
<1>3. /\ \A c \in DOMAIN cmd : cmd[c].claims \in Nat /\ c \in DOMAIN cmd' /\ cmd'[c].claims \in Nat
      /\ \A a \in Agents : pod[a].claim \in Nat
  <2>1. /\ \A c \in DOMAIN cmd : cmd[c] \in CmdType
        /\ \A c \in DOMAIN cmd' : cmd'[c] \in CmdType
    BY <1>1, ElementOfSeq, LenProperties DEF TypeOK
  <2>2. \A C \in CmdType : C.claims \in Nat
    BY DEF CmdType
  <2>3. \A a \in Agents : pod[a].claim \in Nat
    BY <1>1 DEF TypeOK, PodType
  <2> QED
    BY <2>1, <2>2, <2>3 DEF CommandsKept
<1>4. HandsOwned'
  <2>1. ASSUME NEW a \in Agents, pod'[a].hand # 0 PROVE
          /\ pod'[a].hand \in DOMAIN cmd'
          /\ cmd'[pod'[a].hand].pin \in {a, "null"}
          /\ pod'[a].claim <= cmd'[pod'[a].hand].claims
          /\ pod'[a].step = "post" /\ cmd'[pod'[a].hand].kind = "config" => pod'[a].local # "unconfigured"
    <3>1. PICK c : c = pod'[a].hand
      OBVIOUS
    <3>2. HandMoves(a) /\ HandOwned(a)
      BY <1>1 DEF HandsOwned
    <3>3. CASE pod'[a].hand = pod[a].hand /\ pod'[a].claim = pod[a].claim /\ pod[a].hand \in DOMAIN cmd
               /\ (pod'[a].step = "post" /\ cmd[pod[a].hand].kind = "config" => pod'[a].local # "unconfigured")
      <4>1. /\ c \in DOMAIN cmd /\ cmd[c].pin \in {a, "null"} /\ pod[a].claim <= cmd[c].claims
        BY <2>1, <3>1, <3>2, <3>3 DEF HandOwned
      <4>2. /\ c \in DOMAIN cmd' /\ cmd'[c].kind = cmd[c].kind /\ cmd'[c].pin \in {cmd[c].pin, "null"}
            /\ cmd'[c].claims >= cmd[c].claims
        BY <4>1 DEF CommandsKept
      <4>3. pod[a].claim <= cmd'[c].claims
        BY <1>3, <4>1, <4>2
      <4> QED
        BY <3>1, <3>3, <4>1, <4>2, <4>3
    <3>4. CASE c \in DOMAIN cmd /\ cmd[c].pin = a /\ pod'[a].step = "received" /\ pod'[a].claim <= cmd'[c].claims
      BY <3>1, <3>4 DEF CommandsKept
    <3> QED
      BY <2>1, <3>1, <3>2, <3>3, <3>4 DEF HandMoves
  <2> QED
    BY <2>1 DEF HandsOwned, HandOwned
<1>5. HeldByOne'
  <2>1. ASSUME NEW a \in Agents, NEW b \in Agents, pod'[a].hand = pod'[b].hand, pod'[a].hand # 0
        PROVE  a = b
    <3>1. PICK c : c = pod'[a].hand
      OBVIOUS
    <3>2. ASSUME NEW x \in Agents, pod'[x].hand = c
          PROVE  \/ pod[x].hand = c /\ c \in DOMAIN cmd /\ cmd[c].pin \in {x, "null"}
                 \/ cmd[c].pin = x
      <4>1. HandMoves(x) /\ HandOwned(x)
        BY <1>1 DEF HandsOwned
      <4> QED
        BY <2>1, <3>1, <3>2, <4>1 DEF HandMoves, HandOwned
    <3> QED
      BY <1>1, <2>1, <3>1, <3>2 DEF HeldByOne
  <2> QED
    BY <2>1 DEF HeldByOne
<1> QED
  BY <1>2, <1>4, <1>5 DEF StepHolds, FInv

-----------------------------------------------------------------------------
(* Rows, commands and pods that a step leaves alone or writes one of.       *)

LEMMA RowsAlone ==
  ASSUME FInv, agent' = agent, bearer' = bearer
  PROVE  ConfiguredByItself /\ \A a \in Agents : BearerMoves(a)
<1>1. \A a \in Agents : bearer[a].issued \in Nat
  BY DEF FInv, TypeOK, BearerType
<1> QED
  BY <1>1 DEF ConfiguredByItself, BearerMoves

LEMMA CommandsTyped ==
  ASSUME TypeOK
  PROVE  \A c \in DOMAIN cmd : c \in Nat /\ c >= 1 /\ c <= Len(cmd) /\ cmd[c] \in CmdType /\ cmd[c].claims \in Nat
<1>1. cmd \in Seq(CmdType) /\ DOMAIN cmd = 1 .. Len(cmd) /\ Len(cmd) \in Nat
  BY LenProperties DEF TypeOK
<1>2. \A c \in DOMAIN cmd : cmd[c] \in CmdType
  BY <1>1, ElementOfSeq
<1>3. \A C \in CmdType : C.claims \in Nat
  BY DEF CmdType
<1> QED
  BY <1>1, <1>2, <1>3

LEMMA CommandsAlone ==
  ASSUME FInv, cmd' = cmd
  PROVE  CommandsKept
BY CommandsTyped DEF FInv, CommandsKept

LEMMA HandsAlone ==
  ASSUME FInv, pod' = pod
  PROVE  \A a \in Agents : HandMoves(a)
BY DEF FInv, HandsOwned, HandOwned, HandMoves

\* One command written anew, the number and the purpose kept.
LEMMA CommandWritten ==
  ASSUME FInv, NEW c \in DOMAIN cmd, NEW C \in CmdType, cmd' = [cmd EXCEPT ![c] = C],
         C.kind = cmd[c].kind, C.pin \in {cmd[c].pin, "null"}, C.claims >= cmd[c].claims,
         cmd[c].status = "done" => C.status = "done"
  PROVE  /\ cmd' \in Seq(CmdType) /\ Len(cmd') <= MaxCmds /\ cmd'[c] = C
         /\ CommandsKept
<1>1. TypeOK /\ cmd \in Seq(CmdType) /\ Len(cmd) <= MaxCmds
  BY DEF FInv, TypeOK
<1>2. /\ cmd' \in Seq(CmdType) /\ Len(cmd') = Len(cmd) /\ DOMAIN cmd' = DOMAIN cmd /\ cmd'[c] = C
      /\ \A d \in DOMAIN cmd \ {c} : cmd'[d] = cmd[d]
  BY <1>1, ExceptSeq, LenProperties
<1> QED
  BY <1>1, <1>2, CommandsTyped DEF CommandsKept

\* A command enqueued behind the others.
LEMMA CommandAdded ==
  ASSUME FleetAssumption, FInv, NEW a \in Agents, NEW kind \in {"config", "shutdown", "cancel"},
         Len(cmd) < MaxCmds, cmd' = Append(cmd, NewCmd(kind, a))
  PROVE  cmd' \in Seq(CmdType) /\ Len(cmd') <= MaxCmds /\ CommandsKept
<1>1. NewCmd(kind, a) \in CmdType
  BY DEF NewCmd, CmdType, FleetAssumption
<1>2. TypeOK /\ cmd \in Seq(CmdType) /\ Len(cmd) \in Nat /\ MaxCmds \in Nat
  BY LenProperties DEF FInv, TypeOK, FleetAssumption
<1>3. PICK C \in CmdType : C = NewCmd(kind, a)
  BY <1>1
<1>4. /\ cmd' \in Seq(CmdType) /\ Len(cmd') = Len(cmd) + 1
      /\ \A c \in 1 .. Len(cmd) : cmd'[c] = cmd[c]
  BY <1>2, <1>3, AppendProperties
<1>5. DOMAIN cmd = 1 .. Len(cmd) /\ DOMAIN cmd' = 1 .. Len(cmd')
  BY <1>2, <1>4, LenProperties
<1> QED
  BY <1>2, <1>4, <1>5, CommandsTyped DEF CommandsKept

\* A fault or a request is counted.
LEMMA UseTyped ==
  ASSUME TypeOK, FleetAssumption,
         \/ used' = used \/ Use("requests", MaxRequests) \/ Use("lost", MaxLost)
         \/ Use("crash", MaxCrash) \/ Use("silence", MaxSilence)
  PROVE  used' \in [requests : 0..MaxRequests, lost : 0..MaxLost, crash : 0..MaxCrash, silence : 0..MaxSilence]
<1> DEFINE U == [requests : 0..MaxRequests, lost : 0..MaxLost, crash : 0..MaxCrash, silence : 0..MaxSilence]
<1>1. /\ used \in U /\ MaxRequests \in Nat /\ MaxLost \in Nat /\ MaxCrash \in Nat /\ MaxSilence \in Nat
  BY DEF TypeOK, FleetAssumption
<1>2. CASE Use("requests", MaxRequests)
  BY <1>1, <1>2 DEF Use
<1>3. CASE Use("lost", MaxLost)
  BY <1>1, <1>3 DEF Use
<1>4. CASE Use("crash", MaxCrash)
  BY <1>1, <1>4 DEF Use
<1>5. CASE Use("silence", MaxSilence)
  BY <1>1, <1>5 DEF Use
<1> QED
  BY <1>1, <1>2, <1>3, <1>4, <1>5

\* One pod moves; it keeps its command, reported only once it is applied, or drops it.
LEMMA PodMoves ==
  ASSUME FInv, NEW a \in Agents, NEW P \in PodType, pod' = [pod EXCEPT ![a] = P],
         \/ P.hand = 0
         \/ /\ P.hand = pod[a].hand /\ P.claim = pod[a].claim
            /\ P.step = "post" /\ cmd[P.hand].kind = "config" => P.local # "unconfigured"
  PROVE  pod' \in [Agents -> PodType] /\ \A b \in Agents : HandMoves(b)
<1>1. pod' \in [Agents -> PodType] /\ \A b \in Agents : pod'[b] = IF b = a THEN P ELSE pod[b]
  BY DEF FInv, TypeOK
<1>2. \A b \in Agents : HandOwned(b)
  BY DEF FInv, HandsOwned
<1> QED
  BY <1>1, <1>2 DEF HandOwned, HandMoves

\* Pods and their requests move; rows, bearers and commands stay.
LEMMA PodOnly ==
  ASSUME FleetAssumption, FInv, UNCHANGED <<agent, bearer, cmd>>, flight' \in [Agents -> SUBSET RequestType],
         \/ used' = used \/ Use("requests", MaxRequests) \/ Use("lost", MaxLost)
         \/ Use("crash", MaxCrash) \/ Use("silence", MaxSilence),
         NEW a \in Agents, NEW P \in PodType, pod' = [pod EXCEPT ![a] = P],
         \/ P.hand = 0
         \/ /\ P.hand = pod[a].hand /\ P.claim = pod[a].claim
            /\ P.step = "post" /\ cmd[P.hand].kind = "config" => P.local # "unconfigured"
  PROVE  StepHolds
<1>1. pod' \in [Agents -> PodType] /\ \A b \in Agents : HandMoves(b)
  BY PodMoves
<1>2. TypeOK'
  BY <1>1, UseTyped DEF FInv, TypeOK
<1> QED
  BY <1>1, <1>2, RowsAlone, CommandsAlone, StepFollows

-----------------------------------------------------------------------------
(* The supervisor process.                                                  *)

LEMMA PodTyped ==
  ASSUME FleetAssumption, FInv, NEW a \in Agents
  PROVE  /\ pod[a] \in PodType /\ NoPod \in PodType /\ NoPod.hand = 0
         /\ pod[a].hand # 0 /\ pod[a].step = "post" /\ cmd[pod[a].hand].kind = "config" => pod[a].local # "unconfigured"
         /\ flight[a] \in SUBSET RequestType /\ flight \in [Agents -> SUBSET RequestType] /\ pod \in [Agents -> PodType]
<1>1. NoPod \in PodType /\ NoPod.hand = 0
  BY DEF NoPod, PodType, Locals, FleetAssumption
<1> QED
  BY <1>1 DEF FInv, TypeOK, HandsOwned, HandOwned

LEMMA ProcessHolds ==
  ASSUME FleetAssumption, FInv, NEW a \in Agents,
         Start(a) \/ Crash(a) \/ Terminate(a) \/ WorkStarts(a) \/ WorkEnds(a)
  PROVE  StepHolds
<1>1. UNCHANGED <<agent, bearer, cmd, flight>> /\ (used' = used \/ Use("crash", MaxCrash))
  BY DEF Start, Crash, Terminate, WorkStarts, WorkEnds
<1>2. /\ pod[a] \in PodType /\ NoPod \in PodType /\ NoPod.hand = 0
      /\ pod[a].hand # 0 /\ pod[a].step = "post" /\ cmd[pod[a].hand].kind = "config" => pod[a].local # "unconfigured"
      /\ flight' \in [Agents -> SUBSET RequestType]
  BY <1>1, PodTyped
<1>3. PICK P : /\ pod' = [pod EXCEPT ![a] = P]
               /\ P \in {NoPod, [NoPod EXCEPT !.up = TRUE], [pod[a] EXCEPT !.exiting = TRUE],
                         [pod[a] EXCEPT !.busy = TRUE], [pod[a] EXCEPT !.busy = FALSE]}
  BY DEF Start, Crash, Terminate, WorkStarts, WorkEnds
<1>4. /\ [NoPod EXCEPT !.up = TRUE] \in PodType /\ [NoPod EXCEPT !.up = TRUE].hand = 0
  BY <1>2 DEF PodType
<1>5. \A Q \in {[pod[a] EXCEPT !.exiting = TRUE], [pod[a] EXCEPT !.busy = TRUE], [pod[a] EXCEPT !.busy = FALSE]} :
        /\ Q \in PodType /\ Q.hand = pod[a].hand /\ Q.claim = pod[a].claim
        /\ Q.step = pod[a].step /\ Q.local = pod[a].local
  <2>1. ASSUME NEW Q, Q = [pod[a] EXCEPT !.exiting = TRUE]
        PROVE  /\ Q \in PodType /\ Q.hand = pod[a].hand /\ Q.claim = pod[a].claim
               /\ Q.step = pod[a].step /\ Q.local = pod[a].local
    BY ONLY <1>2, <2>1 DEF PodType
  <2>2. ASSUME NEW x \in BOOLEAN, NEW Q, Q = [pod[a] EXCEPT !.busy = x]
        PROVE  /\ Q \in PodType /\ Q.hand = pod[a].hand /\ Q.claim = pod[a].claim
               /\ Q.step = pod[a].step /\ Q.local = pod[a].local
    BY ONLY <1>2, <2>2 DEF PodType
  <2> QED
    BY <2>1, <2>2
<1>6. /\ P \in PodType
      /\ \/ P.hand = 0
         \/ /\ P.hand = pod[a].hand /\ P.claim = pod[a].claim
            /\ P.step = "post" /\ cmd[P.hand].kind = "config" => P.local # "unconfigured"
  <2>1. CASE P = NoPod \/ P = [NoPod EXCEPT !.up = TRUE]
    BY <1>2, <1>4, <2>1
  <2>2. CASE P \in {[pod[a] EXCEPT !.exiting = TRUE], [pod[a] EXCEPT !.busy = TRUE], [pod[a] EXCEPT !.busy = FALSE]}
    BY <1>2, <1>5, <2>2
  <2> QED
    BY <1>3, <2>1, <2>2
<1> QED
  BY <1>1, <1>2, <1>3, <1>6, PodOnly

LEMMA RequestTyped ==
  ASSUME FleetAssumption, FInv, NEW a \in Agents, NEW kind \in {"heartbeat", "claim", "delete"}, Verified(a)
  PROVE  Request(a, kind) \in RequestType /\ pod[a].tok \in 0 .. MaxTokens
<1>1. pod[a].tok \in Tokens /\ pod[a].tok \in 0 .. MaxTokens
  BY DEF Verified, FInv, TypeOK, BearerType, PodType
<1>2. pod[a].local \in Lifecycles
  BY PodTyped DEF PodType, Locals, Lifecycles
<1> QED
  BY <1>1, <1>2 DEF Request, RequestType

LEMMA SendsHold ==
  ASSUME FleetAssumption, FInv, NEW a \in Agents, SendHeartbeat(a) \/ SendClaim(a) \/ SayGoodbye(a)
  PROVE  StepHolds
<1>1. UNCHANGED <<agent, bearer, cmd, used>>
  BY DEF SendHeartbeat, SendClaim, SayGoodbye
<1>2. /\ pod[a] \in PodType /\ NoPod \in PodType /\ NoPod.hand = 0 /\ pod \in [Agents -> PodType]
      /\ pod[a].hand # 0 /\ pod[a].step = "post" /\ cmd[pod[a].hand].kind = "config" => pod[a].local # "unconfigured"
      /\ flight \in [Agents -> SUBSET RequestType]
  BY PodTyped
<1>3. flight' \in [Agents -> SUBSET RequestType]
  <2>1. PICK Q : flight' = [flight EXCEPT ![a] = Q] /\ (Q = flight[a] \/ \E kind \in {"heartbeat", "claim", "delete"} :
                                                                           Verified(a) /\ Q = flight[a] \cup {Request(a, kind)})
    BY <1>2 DEF SendHeartbeat, SendClaim, SayGoodbye
  <2>2. Q \in SUBSET RequestType
    BY <1>2, <2>1, RequestTyped
  <2> QED
    BY <1>2, <2>1, <2>2
<1>4. CASE SendHeartbeat(a)
  <2>1. pod' = [pod EXCEPT ![a] = pod[a]]
    BY <1>2, <1>4 DEF SendHeartbeat
  <2>2. PICK P : P = pod[a]
    OBVIOUS
  <2> QED
    BY <1>1, <1>2, <1>3, <2>1, <2>2, PodOnly
<1>5. CASE SendClaim(a)
  <2>1. PICK P : P = [pod[a] EXCEPT !.waiting = pod[a].tok]
    OBVIOUS
  <2>2. pod' = [pod EXCEPT ![a] = P] /\ pod[a].hand = 0 /\ pod[a].tok \in 0 .. MaxTokens
    BY <1>5, <2>1, RequestTyped DEF SendClaim
  <2>3. P \in PodType /\ P.hand = 0
    BY ONLY <1>2, <2>1, <2>2 DEF PodType
  <2> QED
    BY <1>1, <1>3, <2>2, <2>3, PodOnly
<1>6. CASE SayGoodbye(a)
  <2>1. pod' = [pod EXCEPT ![a] = NoPod]
    BY <1>6 DEF SayGoodbye
  <2> QED
    BY <1>1, <1>2, <1>3, <2>1, PodOnly
<1> QED
  BY <1>4, <1>5, <1>6

\* A claim that finds nothing, and what the pod makes of its command.
LEMMA ClaimNothingHolds ==
  ASSUME FleetAssumption, FInv, NEW a \in Agents, ClaimNothing(a)
  PROVE  StepHolds
<1>1. PICK q \in Claims(a) :
        /\ flight' = [flight EXCEPT ![a] = @ \ {q}]
        /\ pod' = IF Awaited(a, q)
                  THEN [pod EXCEPT ![a].waiting = 0, ![a].exiting = @ \/ MaybeTriggerShutdownExit(pod[a])]
                  ELSE pod
  BY DEF ClaimNothing
<1>2. UNCHANGED <<agent, bearer, cmd, used>>
  BY DEF ClaimNothing
<1>3. /\ pod[a] \in PodType /\ pod \in [Agents -> PodType] /\ flight \in [Agents -> SUBSET RequestType]
      /\ pod[a].hand # 0 /\ pod[a].step = "post" /\ cmd[pod[a].hand].kind = "config" => pod[a].local # "unconfigured"
  BY PodTyped
<1>4. flight' \in [Agents -> SUBSET RequestType]
  BY <1>1, <1>3
<1>5. PICK x \in BOOLEAN : x = (pod[a].exiting \/ MaybeTriggerShutdownExit(pod[a]))
  BY <1>3 DEF PodType, MaybeTriggerShutdownExit
<1>6. PICK P : /\ pod' = [pod EXCEPT ![a] = P]
               /\ P = pod[a] \/ P = [pod[a] EXCEPT !.waiting = 0, !.exiting = x]
  BY <1>1, <1>3, <1>5
<1>7. /\ P \in PodType /\ P.hand = pod[a].hand /\ P.claim = pod[a].claim /\ P.step = pod[a].step
      /\ P.local = pod[a].local
  <2>1. 0 \in 0 .. MaxTokens
    BY DEF FleetAssumption
  <2> DEFINE Q == [pod[a] EXCEPT !.waiting = 0]
  <2>2. /\ Q \in PodType /\ Q.hand = pod[a].hand /\ Q.claim = pod[a].claim /\ Q.step = pod[a].step
        /\ Q.local = pod[a].local
    BY ONLY <1>3, <2>1 DEF PodType, Q
  <2>3. P = pod[a] \/ P = [Q EXCEPT !.exiting = x]
    BY <1>3, <1>6 DEF PodType
  <2> HIDE DEF Q
  <2>4. ASSUME P = [Q EXCEPT !.exiting = x]
        PROVE  /\ P \in PodType /\ P.hand = Q.hand /\ P.claim = Q.claim /\ P.step = Q.step
               /\ P.local = Q.local
    BY ONLY <1>5, <2>2, <2>4 DEF PodType
  <2> QED
    BY <1>3, <2>2, <2>3, <2>4
<1> QED
  BY <1>2, <1>3, <1>4, <1>6, <1>7, PodOnly

LEMMA RouteHolds ==
  ASSUME FleetAssumption, FInv, NEW a \in Agents, RouteCommand(a)
  PROVE  StepHolds
<1> DEFINE kind == cmd[pod[a].hand].kind
           local == Routed(kind, pod[a].local)
           P == [pod[a] EXCEPT !.step = "post", !.local = local]
<1>1. UNCHANGED <<agent, bearer, cmd, flight, used>> /\ pod[a].hand # 0
  BY DEF RouteCommand
<1>2. pod[a] \in PodType /\ pod \in [Agents -> PodType] /\ flight' \in [Agents -> SUBSET RequestType]
  BY <1>1, PodTyped
<1>3. pod' = [pod EXCEPT ![a] = P]
  BY <1>2 DEF RouteCommand
<1>4. kind \in {"config", "shutdown", "cancel"}
  <2>1. pod[a].hand \in DOMAIN cmd
    BY <1>1 DEF FInv, HandsOwned, HandOwned
  <2> QED
    BY <2>1, CommandsTyped DEF FInv, CmdType
<1>5. pod[a].local \in Locals
  BY <1>2 DEF PodType
<1> HIDE DEF kind
<1>6. local \in Locals /\ local # "unconfigured"
  BY <1>4, <1>5 DEF Routed, ApplyConfig, Locals
<1> HIDE DEF local
<1>7. P \in PodType /\ P.hand = pod[a].hand /\ P.claim = pod[a].claim /\ P.local = local
  BY ONLY <1>2, <1>6 DEF PodType, P
<1>8. PICK X \in PodType : X = P
  BY <1>7
<1> HIDE DEF P
<1> QED
  BY <1>1, <1>2, <1>3, <1>6, <1>7, <1>8, PodOnly

-----------------------------------------------------------------------------
(* Rows and bearers.                                                        *)

\* Rows and bearers move; commands and pods stay.
LEMMA RowOnly ==
  ASSUME FleetAssumption, FInv, UNCHANGED <<cmd, pod>>, flight' \in [Agents -> SUBSET RequestType],
         \/ used' = used \/ Use("requests", MaxRequests) \/ Use("lost", MaxLost)
         \/ Use("crash", MaxCrash) \/ Use("silence", MaxSilence),
         NEW a \in Agents, NEW R \in AgentType, NEW B \in BearerType,
         agent' = [agent EXCEPT ![a] = R], bearer' = [bearer EXCEPT ![a] = B],
         B.issued = bearer[a].issued, B.valid \subseteq bearer[a].valid,
         \/ B.valid = {}
         \/ R.life # "shutdown" /\ R.live # "offline"
         \/ /\ R.life = "shutdown" => agent[a].life = "shutdown"
            /\ R.live = "offline" => agent[a].live = "offline",
         R.life = "active" => agent[a].life = "active"
  PROVE  StepHolds
<1>1. /\ agent' \in [Agents -> AgentType] /\ bearer' \in [Agents -> BearerType]
      /\ \A b \in Agents : /\ agent'[b] = IF b = a THEN R ELSE agent[b]
                           /\ bearer'[b] = IF b = a THEN B ELSE bearer[b]
  BY DEF FInv, TypeOK
<1>2. TypeOK'
  BY <1>1, UseTyped DEF FInv, TypeOK
<1>3. \A b \in Agents : bearer[b].issued \in Nat
  BY DEF FInv, TypeOK, BearerType
<1>4. \A b \in Agents : BearerMoves(b)
  BY <1>1, <1>3 DEF BearerMoves
<1>5. ConfiguredByItself
  BY <1>1 DEF ConfiguredByItself
<1> QED
  BY <1>2, <1>4, <1>5, CommandsAlone, HandsAlone, StepFollows

LEMMA RowTyped ==
  ASSUME FInv, NEW a \in Agents
  PROVE  /\ agent[a] \in AgentType /\ bearer[a] \in BearerType
         /\ agent = [agent EXCEPT ![a] = agent[a]] /\ bearer = [bearer EXCEPT ![a] = bearer[a]]
         /\ flight \in [Agents -> SUBSET RequestType]
BY DEF FInv, TypeOK

LEMMA HeartbeatHolds ==
  ASSUME FleetAssumption, FInv, NEW a \in Agents, RecordHeartbeat(a)
  PROVE  StepHolds
<1> DEFINE R == [agent[a] EXCEPT !.live = "reachable", !.age = 0, !.bye = FALSE]
<1>1. UNCHANGED <<bearer, cmd, pod, used>> /\ agent' = [agent EXCEPT ![a] = R]
  BY RowTyped DEF RecordHeartbeat
<1>2. flight' \in [Agents -> SUBSET RequestType]
  <2>1. PICK q \in flight[a] : flight' = [flight EXCEPT ![a] = @ \ {q}]
    BY DEF RecordHeartbeat
  <2> QED
    BY <2>1, RowTyped
<1>3. agent[a] \in AgentType
  BY RowTyped
<1>4. R \in AgentType /\ R.live = "reachable" /\ R.life = agent[a].life
  <2> DEFINE Q == [agent[a] EXCEPT !.live = "reachable"]
  <2>1. Q \in AgentType /\ Q.live = "reachable" /\ Q.life = agent[a].life
    BY ONLY <1>3 DEF AgentType, Liveness, Q
  <2> HIDE DEF Q
  <2> DEFINE T == [Q EXCEPT !.age = 0]
  <2>2. T \in AgentType /\ T.live = "reachable" /\ T.life = agent[a].life
    BY ONLY <2>1 DEF AgentType, T
  <2>3. R = [T EXCEPT !.bye = FALSE]
    BY <1>3 DEF AgentType, Q
  <2> HIDE DEF T, R
  <2>4. [T EXCEPT !.bye = FALSE] \in AgentType /\ [T EXCEPT !.bye = FALSE].live = T.live /\ [T EXCEPT !.bye = FALSE].life = T.life
    BY <2>2 DEF AgentType
  <2> QED
    BY <2>2, <2>3, <2>4
<1>5. PICK X \in AgentType : X = R
  BY <1>4
<1> DEFINE B == bearer[a]
<1> HIDE DEF R
<1>6. bearer' = [bearer EXCEPT ![a] = B] /\ B \in BearerType
  BY <1>1, RowTyped
<1> QED
  BY <1>1, <1>2, <1>4, <1>5, <1>6, RowOnly

LEMMA ExpiryHolds ==
  ASSUME FleetAssumption, FInv, NEW a \in Agents, BearerExpires(a)
  PROVE  StepHolds
<1>1. PICK t \in bearer[a].valid : bearer' = [bearer EXCEPT ![a].valid = @ \ {t}]
  BY DEF BearerExpires
<1>2. UNCHANGED <<agent, cmd, flight, pod, used>>
  BY DEF BearerExpires
<1>3. bearer[a] \in BearerType /\ bearer \in [Agents -> BearerType]
  BY DEF FInv, TypeOK
<1>4. PICK B : B = [bearer[a] EXCEPT !.valid = @ \ {t}]
  OBVIOUS
<1>5. bearer' = [bearer EXCEPT ![a] = B]
  BY <1>1, <1>3, <1>4
<1>6. B \in BearerType /\ B.issued = bearer[a].issued /\ B.valid \subseteq bearer[a].valid
  BY ONLY <1>3, <1>4 DEF BearerType
<1>7. PICK R \in AgentType : R = agent[a]
  BY RowTyped
<1>8. agent' = [agent EXCEPT ![a] = R] /\ flight' \in [Agents -> SUBSET RequestType]
  BY <1>2, <1>7, RowTyped
<1> QED
  BY <1>2, <1>5, <1>6, <1>7, <1>8, RowOnly

\* SIGTERM's DELETE: the row goes offline together with its bearers.
LEMMA DeregisterHolds ==
  ASSUME FleetAssumption, FInv, NEW a \in Agents, DeregisterIdentity(a)
  PROVE  StepHolds
<1>1. UNCHANGED <<cmd, pod, used>>
  BY DEF DeregisterIdentity
<1>2. flight' \in [Agents -> SUBSET RequestType]
  <2>1. PICK q \in flight[a] : flight' = [flight EXCEPT ![a] = @ \ {q}]
    BY DEF DeregisterIdentity
  <2> QED
    BY <2>1, RowTyped
<1>3. agent[a] \in AgentType /\ bearer[a] \in BearerType /\ bearer \in [Agents -> BearerType] /\ agent \in [Agents -> AgentType]
  BY DEF FInv, TypeOK
<1>4. CASE agent[a].life = "shutdown"
  <2>1. PICK R \in AgentType, B \in BearerType : R = agent[a] /\ B = bearer[a]
    BY <1>3
  <2>2. agent' = [agent EXCEPT ![a] = R] /\ bearer' = [bearer EXCEPT ![a] = B]
    BY <1>4, <2>1, RowTyped DEF DeregisterIdentity
  <2> QED
    BY <1>1, <1>2, <2>1, <2>2, RowOnly
<1>5. CASE agent[a].life # "shutdown"
  <2>1. PICK R, B : /\ R = IF agent[a].life = "draining" THEN MarkAgentShutdownComplete(agent[a]) ELSE MarkAgentOffline(agent[a])
                    /\ B = [bearer[a] EXCEPT !.valid = {}]
    OBVIOUS
  <2>2. agent' = [agent EXCEPT ![a] = R] /\ bearer' = [bearer EXCEPT ![a] = B]
    BY <1>3, <1>5, <2>1 DEF DeregisterIdentity
  <2>3. R \in AgentType /\ (R.life = "active" => agent[a].life = "active")
    BY ONLY <1>3, <2>1 DEF AgentType, Lifecycles, Liveness, MarkAgentShutdownComplete, MarkAgentOffline
  <2>4. B \in BearerType /\ B.issued = bearer[a].issued /\ B.valid = {}
    BY ONLY <1>3, <2>1 DEF BearerType
  <2> QED
    BY <1>1, <1>2, <2>2, <2>3, <2>4, RowOnly
<1> QED
  BY <1>4, <1>5

LEMMA TimeHolds ==
  ASSUME FleetAssumption, FInv, NEW a \in Agents, TimePasses(a)
  PROVE  StepHolds
<1>1. /\ UNCHANGED <<bearer, cmd, flight, pod>> /\ (used' = used \/ Use("silence", MaxSilence))
      /\ agent' = [agent EXCEPT ![a].age = @ + 1] /\ agent[a].age < 2
  BY DEF TimePasses
<1>2. agent[a] \in AgentType /\ agent \in [Agents -> AgentType]
  BY DEF FInv, TypeOK
<1>3. PICK R : R = [agent[a] EXCEPT !.age = @ + 1]
  OBVIOUS
<1>4. agent' = [agent EXCEPT ![a] = R]
  BY <1>1, <1>2, <1>3
<1>5. R \in AgentType /\ R.life = agent[a].life /\ R.live = agent[a].live
  BY ONLY <1>1, <1>2, <1>3 DEF AgentType
<1>6. PICK B \in BearerType : B = bearer[a]
  BY RowTyped
<1>7. bearer' = [bearer EXCEPT ![a] = B] /\ flight' \in [Agents -> SUBSET RequestType]
  BY <1>1, <1>6, RowTyped
<1>8. /\ UNCHANGED <<cmd, pod>> /\ (used' = used \/ Use("silence", MaxSilence))
      /\ B.issued = bearer[a].issued /\ B.valid \subseteq bearer[a].valid
      /\ R.life = "shutdown" => agent[a].life = "shutdown"
      /\ R.live = "offline" => agent[a].live = "offline"
      /\ R.life = "active" => agent[a].life = "active"
  BY <1>1, <1>5, <1>6
<1> QED
  BY ONLY FleetAssumption, FInv, <1>4, <1>5, <1>6, <1>7, <1>8, RowOnly

-----------------------------------------------------------------------------
(* Commands, claimed and reported.                                          *)

\* One command and one pod move; rows and bearers stay.
LEMMA CommandOnly ==
  ASSUME FleetAssumption, FInv, UNCHANGED <<agent, bearer>>, flight' \in [Agents -> SUBSET RequestType],
         \/ used' = used \/ Use("requests", MaxRequests) \/ Use("lost", MaxLost)
         \/ Use("crash", MaxCrash) \/ Use("silence", MaxSilence),
         NEW c \in DOMAIN cmd, NEW C \in CmdType, cmd' = [cmd EXCEPT ![c] = C],
         C.kind = cmd[c].kind, C.pin \in {cmd[c].pin, "null"}, C.claims >= cmd[c].claims,
         cmd[c].status = "done" => C.status = "done",
         NEW a \in Agents, NEW P \in PodType, pod' = [pod EXCEPT ![a] = P],
         \/ P.hand = 0
         \/ /\ P.hand = pod[a].hand /\ P.claim = pod[a].claim
            /\ P.step = "post" /\ cmd[P.hand].kind = "config" => P.local # "unconfigured"
         \/ P.hand = c /\ cmd[c].pin = a /\ P.step = "received" /\ P.claim <= C.claims
  PROVE  StepHolds
<1>1. cmd' \in Seq(CmdType) /\ Len(cmd') <= MaxCmds /\ cmd'[c] = C /\ CommandsKept
  BY CommandWritten
<1>2. pod' \in [Agents -> PodType] /\ \A b \in Agents : pod'[b] = IF b = a THEN P ELSE pod[b]
  BY DEF FInv, TypeOK
<1>3. \A b \in Agents : HandOwned(b)
  BY DEF FInv, HandsOwned
<1>4. \A b \in Agents : HandMoves(b)
  BY <1>1, <1>2, <1>3 DEF HandOwned, HandMoves
<1>5. TypeOK'
  BY <1>1, <1>2, UseTyped DEF FInv, TypeOK
<1> QED
  BY <1>1, <1>4, <1>5, RowsAlone, StepFollows

\* What a pod may claim is a pending row that was made for it.
LEMMA EligibleRows ==
  ASSUME FInv, NEW a \in Agents, NEW q, NEW c \in Oldest(Eligible(a, q.life))
  PROVE  c \in DOMAIN cmd /\ cmd[c].status = "pending" /\ cmd[c].pin = a
BY DEF Oldest, Eligible

LEMMA ClaimNextHolds ==
  ASSUME FleetAssumption, FInv, NEW a \in Agents, NEW arrives \in BOOLEAN, ClaimNext(a, arrives)
  PROVE  StepHolds
<1>1. PICK q \in Claims(a) : \E c \in Oldest(Eligible(a, q.life)) :
        /\ flight' = [flight EXCEPT ![a] = @ \ {q}]
        /\ cmd' = [cmd EXCEPT ![c].status = "claimed", ![c].claims = @ + 1, ![c].late = FALSE]
        /\ pod' = CASE ~Awaited(a, q) -> pod
                    [] Awaited(a, q) /\ arrives -> [pod EXCEPT ![a].waiting = 0, ![a].hand = c,
                                                     ![a].claim = cmd[c].claims + 1, ![a].step = "received"]
                    [] OTHER -> [pod EXCEPT ![a].waiting = 0]
  BY DEF ClaimNext
<1>2. PICK c \in Oldest(Eligible(a, q.life)) :
        /\ flight' = [flight EXCEPT ![a] = @ \ {q}]
        /\ cmd' = [cmd EXCEPT ![c].status = "claimed", ![c].claims = @ + 1, ![c].late = FALSE]
        /\ pod' = CASE ~Awaited(a, q) -> pod
                    [] Awaited(a, q) /\ arrives -> [pod EXCEPT ![a].waiting = 0, ![a].hand = c,
                                                     ![a].claim = cmd[c].claims + 1, ![a].step = "received"]
                    [] OTHER -> [pod EXCEPT ![a].waiting = 0]
  BY <1>1
<1>3. UNCHANGED <<agent, bearer>> /\ (used' = used \/ Use("lost", MaxLost))
  BY DEF ClaimNext
<1>4. /\ c \in DOMAIN cmd /\ cmd[c].status = "pending" /\ cmd[c].pin = a
      /\ cmd[c] \in CmdType /\ cmd[c].claims \in Nat /\ c \in 0 .. MaxCmds /\ cmd \in Seq(CmdType)
  <2>1. c \in DOMAIN cmd /\ cmd[c].status = "pending" /\ cmd[c].pin = a
    BY EligibleRows
  <2> QED
    BY <2>1, CommandsTyped DEF FInv, TypeOK, FleetAssumption
<1>5. PICK n \in Nat : n = cmd[c].claims + 1
  BY <1>4
<1>6. PICK C : C = [cmd[c] EXCEPT !.status = "claimed", !.claims = n, !.late = FALSE]
  OBVIOUS
<1>7. cmd' = [cmd EXCEPT ![c] = C]
  BY <1>2, <1>4, <1>5, <1>6 DEF CmdType
<1>8. C \in CmdType /\ C.kind = cmd[c].kind /\ C.pin = cmd[c].pin /\ C.claims = n
  <2> DEFINE D == [cmd[c] EXCEPT !.status = "claimed"]
             E == [D EXCEPT !.claims = n]
  <2>1. D \in CmdType /\ D.kind = cmd[c].kind /\ D.pin = cmd[c].pin
    BY ONLY <1>4 DEF CmdType, D
  <2>2. C = [E EXCEPT !.late = FALSE]
    BY <1>4, <1>6 DEF CmdType
  <2> HIDE DEF D
  <2>3. E \in CmdType /\ E.kind = D.kind /\ E.pin = D.pin /\ E.claims = n
    BY ONLY <1>5, <2>1 DEF CmdType, E
  <2> HIDE DEF E
  <2>4. [E EXCEPT !.late = FALSE] \in CmdType /\ [E EXCEPT !.late = FALSE].kind = E.kind
        /\ [E EXCEPT !.late = FALSE].pin = E.pin /\ [E EXCEPT !.late = FALSE].claims = E.claims
    BY <2>3 DEF CmdType
  <2> QED
    BY <2>1, <2>2, <2>3, <2>4
<1>9. /\ pod[a] \in PodType /\ pod \in [Agents -> PodType] /\ flight \in [Agents -> SUBSET RequestType]
      /\ pod[a].hand # 0 /\ pod[a].step = "post" /\ cmd[pod[a].hand].kind = "config" => pod[a].local # "unconfigured"
  BY PodTyped
<1>10. flight' \in [Agents -> SUBSET RequestType]
  BY <1>2, <1>9
<1> DEFINE Q == [pod[a] EXCEPT !.waiting = 0]
           H == [Q EXCEPT !.hand = c, !.claim = n, !.step = "received"]
<1>11. PICK P : pod' = [pod EXCEPT ![a] = P] /\ P \in {pod[a], Q, H}
  <2>1. CASE ~Awaited(a, q)
    BY <1>2, <1>9, <2>1
  <2>2. CASE Awaited(a, q) /\ arrives
    <3>1. pod' = [pod EXCEPT ![a].waiting = 0, ![a].hand = c, ![a].claim = cmd[c].claims + 1, ![a].step = "received"]
      BY <1>2, <2>2
    <3> QED
      BY <1>5, <1>9, <3>1 DEF PodType
  <2>3. CASE Awaited(a, q) /\ ~arrives
    BY <1>2, <1>9, <2>3
  <2> QED
    BY <2>1, <2>2, <2>3
<1>12. /\ Q \in PodType /\ Q.hand = pod[a].hand /\ Q.claim = pod[a].claim /\ Q.step = pod[a].step /\ Q.local = pod[a].local
  <2>1. 0 \in 0 .. MaxTokens
    BY DEF FleetAssumption
  <2> QED
    BY ONLY <1>9, <2>1 DEF PodType, Q
<1> HIDE DEF Q
<1>13. H \in PodType /\ H.hand = c /\ H.claim = n /\ H.step = "received"
  BY ONLY <1>4, <1>5, <1>12 DEF PodType, H
<1> HIDE DEF H
<1>14. /\ P \in PodType
       /\ \/ P.hand = 0
          \/ /\ P.hand = pod[a].hand /\ P.claim = pod[a].claim
             /\ P.step = "post" /\ cmd[P.hand].kind = "config" => P.local # "unconfigured"
          \/ P.hand = c /\ cmd[c].pin = a /\ P.step = "received" /\ P.claim <= C.claims
  <2>1. CASE P = pod[a]
    BY <1>9, <2>1
  <2>2. CASE P = Q
    BY <1>9, <1>12, <2>2
  <2>3. CASE P = H
    BY <1>4, <1>5, <1>8, <1>13, <2>3
  <2> QED
    BY <1>11, <2>1, <2>2, <2>3
<1>15. /\ C.pin \in {cmd[c].pin, "null"} /\ C.claims >= cmd[c].claims
       /\ cmd[c].status = "done" => C.status = "done"
  BY <1>4, <1>5, <1>8
<1> QED
  BY ONLY FleetAssumption, FInv, <1>3, <1>4, <1>7, <1>8, <1>10, <1>11, <1>14, <1>15, CommandOnly

\* Keys that cannot be read: the row is as it was, under a new token.
LEMMA HydrationHolds ==
  ASSUME FleetAssumption, FInv, NEW a \in Agents, ClaimHydrationFails(a)
  PROVE  StepHolds
<1>1. PICK q \in Claims(a) : \E c \in Oldest(Eligible(a, q.life)) :
        /\ flight' = [flight EXCEPT ![a] = @ \ {q}]
        /\ cmd' = [cmd EXCEPT ![c].claims = @ + 1]
        /\ pod' = IF Awaited(a, q) THEN [pod EXCEPT ![a].waiting = 0] ELSE pod
  BY DEF ClaimHydrationFails
<1>2. PICK c \in Oldest(Eligible(a, q.life)) :
        /\ flight' = [flight EXCEPT ![a] = @ \ {q}]
        /\ cmd' = [cmd EXCEPT ![c].claims = @ + 1]
        /\ pod' = IF Awaited(a, q) THEN [pod EXCEPT ![a].waiting = 0] ELSE pod
  BY <1>1
<1>3. UNCHANGED <<agent, bearer>> /\ Use("lost", MaxLost)
  BY DEF ClaimHydrationFails
<1>4. c \in DOMAIN cmd /\ cmd[c] \in CmdType /\ cmd[c].claims \in Nat /\ cmd \in Seq(CmdType)
  <2>1. c \in DOMAIN cmd
    BY EligibleRows
  <2> QED
    BY <2>1, CommandsTyped DEF FInv, TypeOK
<1>5. PICK n \in Nat : n = cmd[c].claims + 1
  BY <1>4
<1> DEFINE C == [cmd[c] EXCEPT !.claims = n]
<1>6. cmd' = [cmd EXCEPT ![c] = C]
  BY <1>2, <1>4, <1>5
<1>7. C \in CmdType /\ C.kind = cmd[c].kind /\ C.pin = cmd[c].pin /\ C.claims = n /\ C.status = cmd[c].status
  BY ONLY <1>4, <1>5 DEF CmdType, C
<1> HIDE DEF C
<1>8. /\ pod[a] \in PodType /\ pod \in [Agents -> PodType] /\ flight \in [Agents -> SUBSET RequestType]
      /\ pod[a].hand # 0 /\ pod[a].step = "post" /\ cmd[pod[a].hand].kind = "config" => pod[a].local # "unconfigured"
  BY PodTyped
<1>9. flight' \in [Agents -> SUBSET RequestType]
  BY <1>2, <1>8
<1> DEFINE Q == [pod[a] EXCEPT !.waiting = 0]
<1>10. PICK P : pod' = [pod EXCEPT ![a] = P] /\ P \in {pod[a], Q}
  BY <1>2, <1>8
<1>11. /\ Q \in PodType /\ Q.hand = pod[a].hand /\ Q.claim = pod[a].claim /\ Q.step = pod[a].step /\ Q.local = pod[a].local
  <2>1. 0 \in 0 .. MaxTokens
    BY DEF FleetAssumption
  <2> QED
    BY ONLY <1>8, <2>1 DEF PodType, Q
<1> HIDE DEF Q
<1>12. /\ P \in PodType
       /\ \/ P.hand = 0
          \/ /\ P.hand = pod[a].hand /\ P.claim = pod[a].claim
             /\ P.step = "post" /\ cmd[P.hand].kind = "config" => P.local # "unconfigured"
  BY <1>8, <1>10, <1>11
<1>13. /\ C.pin \in {cmd[c].pin, "null"} /\ C.claims >= cmd[c].claims
       /\ cmd[c].status = "done" => C.status = "done"
  BY <1>4, <1>5, <1>7
<1> QED
  BY ONLY FleetAssumption, FInv, <1>3, <1>4, <1>6, <1>7, <1>9, <1>10, <1>12, <1>13, CommandOnly

\* `received` acknowledges a claim that is still the newest one, or nothing.
LEMMA ReceivedHolds ==
  ASSUME FleetAssumption, FInv, NEW a \in Agents, NEW arrives \in BOOLEAN, PostReceived(a, arrives)
  PROVE  StepHolds
<1>1. /\ pod[a].hand # 0 /\ pod' = [pod EXCEPT ![a].step = "route"] /\ UNCHANGED <<agent, bearer, flight>>
      /\ used' = used \/ Use("lost", MaxLost)
  BY DEF PostReceived
<1>2. pod[a] \in PodType /\ pod \in [Agents -> PodType] /\ flight' \in [Agents -> SUBSET RequestType]
  BY <1>1, PodTyped
<1>3. PICK P : P = [pod[a] EXCEPT !.step = "route"]
  OBVIOUS
<1>4. pod' = [pod EXCEPT ![a] = P]
  BY <1>1, <1>2, <1>3
<1>5. P \in PodType /\ P.hand = pod[a].hand /\ P.claim = pod[a].claim /\ P.step = "route"
  BY ONLY <1>2, <1>3 DEF PodType
<1>6. CASE ~arrives
  <2>1. cmd' = cmd
    BY <1>6 DEF PostReceived
  <2> QED
    BY <1>1, <1>2, <1>4, <1>5, <2>1, PodOnly
<1>7. CASE arrives
  <2>1. PICK c : c = pod[a].hand
    OBVIOUS
  <2>2. c \in DOMAIN cmd /\ cmd[c] \in CmdType /\ cmd[c].claims \in Nat /\ cmd \in Seq(CmdType)
    <3>1. c \in DOMAIN cmd
      BY <1>1, <2>1 DEF FInv, HandsOwned, HandOwned
    <3> QED
      BY <3>1, CommandsTyped DEF FInv, TypeOK
  <2>3. cmd' = [cmd EXCEPT ![c].status = IF @ = "claimed" /\ TokenMatches(a) THEN "delivered" ELSE @]
    BY <1>7, <2>1 DEF PostReceived
  <2>4. PICK s : s = IF cmd[c].status = "claimed" /\ TokenMatches(a) THEN "delivered" ELSE cmd[c].status
    OBVIOUS
  <2>5. PICK C : C = [cmd[c] EXCEPT !.status = s]
    OBVIOUS
  <2>6. cmd' = [cmd EXCEPT ![c] = C]
    BY <2>2, <2>3, <2>4, <2>5
  <2>7. s \in {"delivered", cmd[c].status} /\ (cmd[c].status = "done" => s = "done")
    BY <2>4
  <2>8. C \in CmdType /\ C.kind = cmd[c].kind /\ C.pin = cmd[c].pin /\ C.claims = cmd[c].claims /\ C.status = s
    BY ONLY <2>2, <2>5, <2>7 DEF CmdType
  <2>9. /\ C.pin \in {cmd[c].pin, "null"} /\ C.claims >= cmd[c].claims
        /\ cmd[c].status = "done" => C.status = "done"
    BY <2>2, <2>7, <2>8
  <2>10. P.hand = pod[a].hand /\ P.claim = pod[a].claim
         /\ (P.step = "post" /\ cmd[P.hand].kind = "config" => P.local # "unconfigured")
    BY <1>5
  <2>11. UNCHANGED <<agent, bearer>> /\ (used' = used \/ Use("lost", MaxLost))
    BY <1>1
  <2>12. flight' \in [Agents -> SUBSET RequestType] /\ P \in PodType
    BY <1>2, <1>5
  <2> QED
    BY ONLY FleetAssumption, FInv, <1>4, <2>2, <2>6, <2>8, <2>9, <2>10, <2>11, <2>12, CommandOnly
<1> QED
  BY <1>6, <1>7

\* LEASE_SECONDS pass.
LEMMA LeaseHolds ==
  ASSUME FleetAssumption, FInv, NEW c \in DOMAIN cmd, LeaseLapses(c)
  PROVE  StepHolds
<1>1. cmd' = [cmd EXCEPT ![c].late = TRUE] /\ UNCHANGED <<agent, bearer, flight, pod, used>>
  BY DEF LeaseLapses
<1>2. cmd[c] \in CmdType /\ cmd[c].claims \in Nat /\ cmd \in Seq(CmdType)
  BY CommandsTyped DEF FInv, TypeOK
<1>3. PICK C : C = [cmd[c] EXCEPT !.late = TRUE]
  OBVIOUS
<1>4. cmd' = [cmd EXCEPT ![c] = C]
  BY <1>1, <1>2, <1>3
<1>5. C \in CmdType /\ C.kind = cmd[c].kind /\ C.pin = cmd[c].pin /\ C.claims = cmd[c].claims /\ C.status = cmd[c].status
  BY ONLY <1>2, <1>3 DEF CmdType
<1>6. cmd' \in Seq(CmdType) /\ Len(cmd') <= MaxCmds /\ CommandsKept
  <2>1. C.pin \in {cmd[c].pin, "null"} /\ C.claims >= cmd[c].claims /\ (cmd[c].status = "done" => C.status = "done")
    BY <1>2, <1>5
  <2> QED
    BY ONLY FInv, <1>4, <1>5, <2>1, CommandWritten
<1>7. TypeOK'
  BY <1>1, <1>6 DEF FInv, TypeOK
<1> QED
  BY <1>1, <1>6, <1>7, RowsAlone, HandsAlone, StepFollows

\* completed_success: the row is done, and a ConfigUpdate configures the pod that
\* applied it.
LEMMA TerminalHolds ==
  ASSUME FleetAssumption, FInv, NEW a \in Agents, PostTerminal(a)
  PROVE  StepHolds
<1>1. /\ pod[a].hand # 0 /\ pod[a].step = "post" /\ UNCHANGED <<bearer, flight, used>>
      /\ pod' = [pod EXCEPT ![a].hand = 0, ![a].step = "received"]
  BY DEF PostTerminal
<1>2. pod[a] \in PodType /\ pod \in [Agents -> PodType] /\ flight' \in [Agents -> SUBSET RequestType]
  BY <1>1, PodTyped
<1>3. PICK P \in PodType : pod' = [pod EXCEPT ![a] = P] /\ P.hand = 0
  <2> DEFINE Q == [pod[a] EXCEPT !.hand = 0]
             T == [Q EXCEPT !.step = "received"]
  <2>1. 0 \in 0 .. MaxCmds
    BY DEF FleetAssumption
  <2>2. Q \in PodType /\ Q.hand = 0
    BY ONLY <1>2, <2>1 DEF PodType, Q
  <2>3. pod' = [pod EXCEPT ![a] = T]
    BY <1>1, <1>2 DEF PodType
  <2> HIDE DEF Q
  <2>4. T \in PodType /\ T.hand = 0
    BY ONLY <2>2 DEF PodType, T
  <2> HIDE DEF T
  <2> QED
    BY <2>3, <2>4
<1>4. CASE ~TokenMatches(a)
  <2>1. UNCHANGED <<agent, bearer, cmd>> /\ used' = used
    BY <1>1, <1>4 DEF PostTerminal
  <2> QED
    BY <1>2, <1>3, <2>1, PodOnly
<1>5. CASE TokenMatches(a)
  <2>1. PICK c : c = pod[a].hand
    OBVIOUS
  <2>2. /\ c \in DOMAIN cmd /\ cmd[c] \in CmdType /\ cmd[c].claims \in Nat /\ cmd \in Seq(CmdType)
        /\ cmd[c].pin \in {a, "null"} /\ (cmd[c].kind = "config" => pod[a].local # "unconfigured")
    <3>1. c \in DOMAIN cmd /\ cmd[c].pin \in {a, "null"} /\ (cmd[c].kind = "config" => pod[a].local # "unconfigured")
      BY <1>1, <2>1 DEF FInv, HandsOwned, HandOwned
    <3> QED
      BY <3>1, CommandsTyped DEF FInv, TypeOK
  <2>3. cmd' = [cmd EXCEPT ![c].status = "done"]
    BY <1>5, <2>1 DEF PostTerminal
  <2>4. PICK C : C = [cmd[c] EXCEPT !.status = "done"]
    OBVIOUS
  <2>5. cmd' = [cmd EXCEPT ![c] = C]
    BY <2>2, <2>3, <2>4
  <2>6. C \in CmdType /\ C.kind = cmd[c].kind /\ C.pin = cmd[c].pin /\ C.claims = cmd[c].claims /\ C.status = "done"
    BY ONLY <2>2, <2>4 DEF CmdType
  <2>7. cmd' \in Seq(CmdType) /\ Len(cmd') <= MaxCmds /\ CommandsKept
    <3>1. C.pin \in {cmd[c].pin, "null"} /\ C.claims >= cmd[c].claims /\ (cmd[c].status = "done" => C.status = "done")
      BY <2>2, <2>6
    <3> QED
      BY ONLY FInv, <2>2, <2>5, <2>6, <3>1, CommandWritten
  <2>8. pod' \in [Agents -> PodType] /\ \A b \in Agents : HandMoves(b)
    BY <1>3, PodMoves
  <2>9. CASE agent' = agent
    <3>1. TypeOK'
      BY <1>1, <1>2, <2>7, <2>8, <2>9 DEF FInv, TypeOK
    <3> QED
      BY <1>1, <2>7, <2>8, <2>9, <3>1, RowsAlone, StepFollows
  <2>10. CASE agent' # agent
    <3>1. cmd[c].kind = "config" /\ agent' = [agent EXCEPT ![a].life = MarkAgentConfigured(@)]
      BY <1>5, <2>1, <2>2, <2>10 DEF PostTerminal
    <3>2. agent[a] \in AgentType /\ agent \in [Agents -> AgentType]
      BY DEF FInv, TypeOK
    <3>3. PICK l : l = MarkAgentConfigured(agent[a].life)
      OBVIOUS
    <3>4. /\ l \in Lifecycles /\ (l = "shutdown" => agent[a].life = "shutdown")
          /\ (l = "active" => agent[a].life \in {"active", "unconfigured"})
      BY <3>2, <3>3 DEF MarkAgentConfigured, AgentType, Lifecycles
    <3>5. PICK R : R = [agent[a] EXCEPT !.life = l]
      OBVIOUS
    <3>6. agent' = [agent EXCEPT ![a] = R]
      BY <3>1, <3>2, <3>3, <3>5
    <3>7. R \in AgentType /\ R.life = l /\ R.live = agent[a].live
      BY ONLY <3>2, <3>4, <3>5 DEF AgentType
    <3>8. agent' \in [Agents -> AgentType] /\ \A b \in Agents : agent'[b] = IF b = a THEN R ELSE agent[b]
      BY <3>2, <3>6, <3>7
    <3>9. TypeOK'
      BY <1>1, <1>2, <2>7, <2>8, <3>8 DEF FInv, TypeOK
    <3>10. \A b \in Agents : BearerMoves(b)
      <4>1. \A b \in Agents : bearer[b].issued \in Nat
        BY DEF FInv, TypeOK, BearerType
      <4>2. \A b \in Agents : /\ agent'[b].life = "shutdown" => agent[b].life = "shutdown"
                              /\ agent'[b].live = "offline" => agent[b].live = "offline"
        BY <3>4, <3>7, <3>8
      <4> QED
        BY <1>1, <4>1, <4>2 DEF BearerMoves
    <3>11. ConfiguredByItself
      BY <2>1, <2>2, <3>1, <3>4, <3>7, <3>8 DEF ConfiguredByItself
    <3> QED
      BY <2>7, <2>8, <3>9, <3>10, <3>11, StepFollows
  <2> QED
    BY <2>9, <2>10
<1> QED
  BY <1>4, <1>5

-----------------------------------------------------------------------------
(* Identity exchange and admin requests: a row and a command in one step.   *)

LEMMA DrainHolds ==
  ASSUME FleetAssumption, FInv, NEW a \in Agents, ShutdownAgents(a) \/ CancelShutdownAgents(a)
  PROVE  StepHolds
<1>1. /\ UNCHANGED <<bearer, flight, pod>> /\ Use("requests", MaxRequests) /\ Len(cmd) < MaxCmds
      /\ \E kind \in {"config", "shutdown", "cancel"} : cmd' = Append(cmd, NewCmd(kind, a))
  BY DEF ShutdownAgents, CancelShutdownAgents
<1>2. cmd' \in Seq(CmdType) /\ Len(cmd') <= MaxCmds /\ CommandsKept
  BY <1>1, CommandAdded
<1>3. PICK l \in {"draining", "active"} :
        /\ agent' = [agent EXCEPT ![a].life = l]
        /\ l = "active" => agent[a].life = "draining"
  BY DEF ShutdownAgents, CancelShutdownAgents
<1>4. agent[a] \in AgentType /\ agent \in [Agents -> AgentType]
  BY DEF FInv, TypeOK
<1>5. PICK R : R = [agent[a] EXCEPT !.life = l]
  OBVIOUS
<1>6. agent' = [agent EXCEPT ![a] = R]
  BY <1>3, <1>4, <1>5
<1>7. R \in AgentType /\ R.life = l /\ R.live = agent[a].live
  BY ONLY <1>3, <1>4, <1>5 DEF AgentType, Lifecycles
<1>8. agent' \in [Agents -> AgentType] /\ \A b \in Agents : agent'[b] = IF b = a THEN R ELSE agent[b]
  BY <1>4, <1>6, <1>7
<1>9. TypeOK'
  BY <1>1, <1>2, <1>8, UseTyped DEF FInv, TypeOK
<1>10. \A b \in Agents : BearerMoves(b)
  <2>1. \A b \in Agents : bearer[b].issued \in Nat
    BY DEF FInv, TypeOK, BearerType
  <2>2. \A b \in Agents : /\ agent'[b].life = "shutdown" => agent[b].life = "shutdown"
                          /\ agent'[b].live = "offline" => agent[b].live = "offline"
    BY <1>7, <1>8
  <2> QED
    BY <1>1, <2>1, <2>2 DEF BearerMoves
<1>11. ConfiguredByItself
  BY <1>3, <1>7, <1>8 DEF ConfiguredByItself
<1> QED
  BY <1>1, <1>2, <1>9, <1>10, <1>11, HandsAlone, StepFollows

LEMMA ExchangeHolds ==
  ASSUME FleetAssumption, FInv, NEW a \in Agents, ExchangeIdentity(a)
  PROVE  StepHolds
<1>1. /\ UNCHANGED <<flight, used>> /\ Len(cmd) < MaxCmds /\ bearer[a].issued < MaxTokens
      /\ cmd' = Append(cmd, NewCmd("config", a)) /\ agent' = [agent EXCEPT ![a] = EnsureAgentRow(a)]
  BY DEF ExchangeIdentity
<1>2. cmd' \in Seq(CmdType) /\ Len(cmd') <= MaxCmds /\ CommandsKept
  BY <1>1, CommandAdded
<1>3. /\ agent[a] \in AgentType /\ agent \in [Agents -> AgentType] /\ MaxTokens \in Nat
      /\ bearer[a] \in BearerType /\ bearer \in [Agents -> BearerType]
      /\ bearer[a].issued \in 0 .. MaxTokens /\ bearer[a].valid \subseteq Tokens
  BY DEF FInv, TypeOK, FleetAssumption, BearerType
<1>4. PICK t : /\ t = bearer[a].issued + 1
               /\ bearer' = [bearer EXCEPT ![a] = [issued |-> t, valid |-> @.valid \cup {t}]]
               /\ pod' = [pod EXCEPT ![a].tok = t]
  BY DEF ExchangeIdentity
<1>5. t \in Tokens /\ t \in 0 .. MaxTokens /\ t > bearer[a].issued
  BY <1>1, <1>3, <1>4 DEF Tokens
<1>6. PICK B : B = [issued |-> t, valid |-> bearer[a].valid \cup {t}]
  OBVIOUS
<1>7. B \in BearerType /\ B.issued = t /\ B.valid = bearer[a].valid \cup {t}
  BY ONLY <1>3, <1>5, <1>6 DEF BearerType
<1>8. bearer' \in [Agents -> BearerType] /\ \A b \in Agents : bearer'[b] = IF b = a THEN B ELSE bearer[b]
  BY <1>3, <1>4, <1>6, <1>7
<1>9. PICK l : l = IF agent[a].life \in {"none", "shutdown"} THEN "unconfigured" ELSE agent[a].life
  OBVIOUS
<1>10. l \in Lifecycles /\ l # "shutdown" /\ (l = "active" => agent[a].life = "active")
  BY <1>3, <1>9 DEF AgentType, Lifecycles
<1>11. EnsureAgentRow(a) \in AgentType /\ EnsureAgentRow(a).life = l /\ EnsureAgentRow(a).live = "reachable"
  <2> DEFINE Q == [agent[a] EXCEPT !.live = "reachable"]
             T == [Q EXCEPT !.age = 0]
             V == [T EXCEPT !.bye = FALSE]
             W == [V EXCEPT !.life = l]
  <2>1. EnsureAgentRow(a) = W
    BY <1>3, <1>9 DEF EnsureAgentRow, AgentType
  <2>2. Q \in AgentType /\ Q.live = "reachable"
    BY ONLY <1>3 DEF AgentType, Liveness, Q
  <2> HIDE DEF Q
  <2>3. T \in AgentType /\ T.live = "reachable"
    BY ONLY <2>2 DEF AgentType, T
  <2> HIDE DEF T
  <2>4. V \in AgentType /\ V.live = "reachable"
    BY ONLY <2>3 DEF AgentType, V
  <2> HIDE DEF V
  <2>5. W \in AgentType /\ W.live = "reachable" /\ W.life = l
    BY ONLY <1>10, <2>4 DEF AgentType, W
  <2> QED
    BY <2>1, <2>5
<1>12. PICK R \in AgentType : R = EnsureAgentRow(a)
  BY <1>11
<1>13. agent' \in [Agents -> AgentType] /\ \A b \in Agents : agent'[b] = IF b = a THEN R ELSE agent[b]
  BY <1>1, <1>3, <1>12
<1>14. pod' \in [Agents -> PodType] /\ \A b \in Agents : HandMoves(b)
  <2>1. /\ pod[a] \in PodType /\ pod \in [Agents -> PodType]
        /\ pod[a].hand # 0 /\ pod[a].step = "post" /\ cmd[pod[a].hand].kind = "config" => pod[a].local # "unconfigured"
    BY PodTyped
  <2>2. PICK P : P = [pod[a] EXCEPT !.tok = t]
    OBVIOUS
  <2>3. pod' = [pod EXCEPT ![a] = P]
    BY <1>4, <2>1, <2>2
  <2>4. /\ P \in PodType /\ P.hand = pod[a].hand /\ P.claim = pod[a].claim /\ P.step = pod[a].step
        /\ P.local = pod[a].local
    BY ONLY <1>5, <2>1, <2>2 DEF PodType
  <2> QED
    BY <2>1, <2>3, <2>4, PodMoves
<1>15. TypeOK'
  BY <1>1, <1>2, <1>8, <1>13, <1>14 DEF FInv, TypeOK
<1>16. \A b \in Agents : BearerMoves(b)
  <2>1. \A b \in Agents : bearer[b].issued \in Nat
    BY DEF FInv, TypeOK, BearerType
  <2>2. ASSUME NEW b \in Agents PROVE BearerMoves(b)
    <3>1. CASE b = a
      BY <1>5, <1>7, <1>8, <1>10, <1>11, <1>12, <1>13, <2>1, <3>1 DEF BearerMoves, Tokens
    <3>2. CASE b # a
      BY <1>8, <1>13, <2>1, <3>2 DEF BearerMoves
    <3> QED
      BY <3>1, <3>2
  <2> QED
    BY <2>2
<1>17. ConfiguredByItself
  BY <1>10, <1>11, <1>12, <1>13 DEF ConfiguredByItself
<1> QED
  BY <1>2, <1>14, <1>15, <1>16, <1>17, StepFollows

\* One ConfigUpdate for every row, enqueued behind the others.
LEMMA FanOutHolds ==
  ASSUME FleetAssumption, FInv, ConfigFanOut
  PROVE  StepHolds
<1> DEFINE known == {a \in Agents : agent[a].life # "none"}
<1>1. /\ Use("requests", MaxRequests) /\ UNCHANGED <<agent, bearer, flight, pod>>
      /\ Len(cmd) + Cardinality(known) <= MaxCmds
  BY DEF ConfigFanOut
<1>2. PICK order \in [1..Cardinality(known) -> known] :
        cmd' = cmd \o [i \in DOMAIN order |-> NewCmd("config", order[i])]
  BY DEF ConfigFanOut
<1>3. Cardinality(known) \in Nat
  BY FS_Subset, FS_CardinalityType DEF FleetAssumption
<1> DEFINE n == Cardinality(known)
           new == [i \in 1 .. n |-> NewCmd("config", order[i])]
<1>4. new \in Seq(CmdType) /\ Len(new) = n
  <2>1. \A i \in 1 .. n : NewCmd("config", order[i]) \in CmdType
    <3>1. \A i \in 1 .. n : order[i] \in Agents
      BY <1>2
    <3>2. \A a \in Agents : NewCmd("config", a) \in CmdType
      BY DEF NewCmd, CmdType, FleetAssumption
    <3> QED
      BY <3>1, <3>2
  <2> HIDE DEF n
  <2>2. n \in Nat
    BY <1>3 DEF n
  <2>3. new \in [1 .. n -> CmdType]
    BY <2>1
  <2>4. new \in Seq(CmdType)
    BY <2>2, <2>3, SeqDef
  <2> QED
    BY <2>2, <2>3, <2>4, LenProperties
<1>5. cmd' = cmd \o new
  BY <1>2
<1> HIDE DEF new, known
<1>6. TypeOK /\ cmd \in Seq(CmdType) /\ DOMAIN cmd = 1 .. Len(cmd) /\ Len(cmd) \in Nat /\ MaxCmds \in Nat
  BY LenProperties DEF FInv, TypeOK, FleetAssumption
<1>7. /\ cmd' \in Seq(CmdType) /\ Len(cmd') = Len(cmd) + Len(new)
      /\ \A c \in 1 .. Len(cmd) : cmd'[c] = cmd[c]
  BY <1>4, <1>5, <1>6, ConcatProperties
<1>8. DOMAIN cmd' = 1 .. Len(cmd')
  BY <1>7, LenProperties
<1>9. CommandsKept
  BY <1>3, <1>4, <1>6, <1>7, <1>8, CommandsTyped DEF CommandsKept
<1>10. TypeOK'
  BY <1>1, <1>4, <1>6, <1>7, UseTyped DEF TypeOK
<1> QED
  BY <1>1, <1>9, <1>10, RowsAlone, HandsAlone, StepFollows

-----------------------------------------------------------------------------
(* The reaper's sweep.                                                      *)

\* A row the sweep pins offline completes its drain, and loses its bearers with it.
LEMMA SweptRow ==
  ASSUME FInv, NEW a \in Agents
  PROVE  /\ Swept(a) \in AgentType /\ (Swept(a).life = "active" => agent[a].life = "active")
         /\ Swept(a).live # "offline" => Swept(a).life = agent[a].life
         /\ Swept(a).live = "offline" => TargetState(agent[a].age) = "offline"
<1>1. agent[a] \in AgentType
  BY DEF FInv, TypeOK
<1>2. agent[a].age \in 0 .. 2
  BY <1>1 DEF AgentType
<1>3. PICK l : l = TargetState(agent[a].age)
  OBVIOUS
<1>4. l \in Liveness
  BY <1>2, <1>3 DEF TargetState, Liveness
<1>5. PICK r : r = [agent[a] EXCEPT !.live = l]
  OBVIOUS
<1>6. r \in AgentType /\ r.live = l /\ r.life = agent[a].life
  BY ONLY <1>1, <1>4, <1>5 DEF AgentType
<1>7. Swept(a) = IF r.live = "offline" THEN MarkAgentShutdownComplete(r) ELSE r
  BY <1>3, <1>5 DEF Swept
<1>8. CASE r.live = "offline" /\ r.life = "draining"
  <2>1. Swept(a) = [r EXCEPT !.life = "shutdown", !.live = "offline", !.bye = TRUE]
    BY <1>7, <1>8 DEF MarkAgentShutdownComplete
  <2>2. [r EXCEPT !.life = "shutdown", !.live = "offline", !.bye = TRUE] \in AgentType
        /\ [r EXCEPT !.life = "shutdown", !.live = "offline", !.bye = TRUE].life = "shutdown"
        /\ [r EXCEPT !.life = "shutdown", !.live = "offline", !.bye = TRUE].live = "offline"
    BY ONLY <1>6 DEF AgentType, Lifecycles, Liveness
  <2> QED
    BY <1>3, <1>6, <1>8, <2>1, <2>2
<1>9. CASE ~(r.live = "offline" /\ r.life = "draining")
  <2>1. Swept(a) = r
    BY <1>7, <1>9 DEF MarkAgentShutdownComplete
  <2> QED
    BY <1>3, <1>6, <2>1
<1> QED
  BY <1>8, <1>9

\* A lapsed claim is pending again, for no pod, or given up.
LEMMA RequeuedCommand ==
  ASSUME FleetAssumption, NEW C \in CmdType
  PROVE  /\ Requeued(C) \in CmdType /\ Requeued(C).kind = C.kind /\ Requeued(C).pin \in {C.pin, "null"}
         /\ Requeued(C).claims = C.claims
<1>1. MaxAttempt \in Nat \ {0} /\ C.attempt \in 0 .. MaxAttempt
  BY DEF FleetAssumption, CmdType
<1>2. CASE C.attempt >= MaxAttempt - 1
  <2> DEFINE D == [C EXCEPT !.status = "done"]
             E == [D EXCEPT !.attempt = MaxAttempt]
  <2>1. D \in CmdType /\ D.kind = C.kind /\ D.pin = C.pin /\ D.claims = C.claims
    BY DEF CmdType
  <2>2. Requeued(C) = E
    BY <1>2 DEF Requeued, CmdType
  <2> HIDE DEF D
  <2>3. E \in CmdType /\ E.kind = D.kind /\ E.pin = D.pin /\ E.claims = D.claims
    BY ONLY <1>1, <2>1 DEF CmdType, E
  <2> HIDE DEF E
  <2> QED
    BY <2>1, <2>2, <2>3
<1>3. CASE ~(C.attempt >= MaxAttempt - 1)
  <2>1. PICK n : n = C.attempt + 1
    OBVIOUS
  <2>2. n \in 0 .. MaxAttempt
    BY <1>1, <1>3, <2>1
  <2> DEFINE D == [C EXCEPT !.status = "pending"]
             E == [D EXCEPT !.pin = "null"]
             F == [E EXCEPT !.late = FALSE]
             G == [F EXCEPT !.attempt = n]
  <2>3. D \in CmdType /\ D.kind = C.kind /\ D.claims = C.claims
    BY DEF CmdType
  <2>4. Requeued(C) = G
    BY <1>3, <2>1 DEF Requeued, CmdType
  <2> HIDE DEF D
  <2>5. E \in CmdType /\ E.kind = D.kind /\ E.pin = "null" /\ E.claims = D.claims
    BY ONLY <2>3 DEF CmdType, E
  <2> HIDE DEF E
  <2>6. F \in CmdType /\ F.kind = E.kind /\ F.pin = E.pin /\ F.claims = E.claims
    BY ONLY <2>5 DEF CmdType, F
  <2> HIDE DEF F
  <2>7. G \in CmdType /\ G.kind = F.kind /\ G.pin = F.pin /\ G.claims = F.claims
    BY ONLY <2>2, <2>6 DEF CmdType, G
  <2> HIDE DEF G
  <2> QED
    BY <2>3, <2>4, <2>5, <2>6, <2>7
<1> QED
  BY <1>2, <1>3

LEMMA SweepHolds ==
  ASSUME FleetAssumption, FInv, ReaperSweep
  PROVE  StepHolds
<1>1. UNCHANGED <<flight, pod, used>>
  BY DEF ReaperSweep
<1>2. /\ agent' \in [Agents -> AgentType]
      /\ \A a \in Agents : agent'[a] = IF a \in Transitions THEN Swept(a) ELSE agent[a]
  <2>1. \A a \in Agents : agent[a] \in AgentType
    BY DEF FInv, TypeOK
  <2>2. agent' = [a \in Agents |-> IF a \in Transitions THEN Swept(a) ELSE agent[a]]
    BY DEF ReaperSweep
  <2> QED
    BY <2>1, <2>2, SweptRow
<1>3. ASSUME NEW a \in Agents
      PROVE  /\ bearer'[a] \in BearerType /\ bearer'[a].issued = bearer[a].issued /\ bearer[a].issued \in Nat
             /\ bearer'[a].valid \subseteq bearer[a].valid
             /\ a \in NewlyOffline => bearer'[a].valid = {}
  <2>1. bearer[a] \in BearerType /\ bearer[a].issued \in Nat
    BY DEF FInv, TypeOK, BearerType
  <2>2. bearer'[a] = IF a \in NewlyOffline THEN [bearer[a] EXCEPT !.valid = {}] ELSE bearer[a]
    BY DEF ReaperSweep
  <2>3. [bearer[a] EXCEPT !.valid = {}] \in BearerType /\ [bearer[a] EXCEPT !.valid = {}].issued = bearer[a].issued
        /\ [bearer[a] EXCEPT !.valid = {}].valid = {}
    BY <2>1 DEF BearerType
  <2> QED
    BY <2>1, <2>2, <2>3
<1>4. bearer' \in [Agents -> BearerType]
  <2>1. bearer' = [a \in Agents |-> IF a \in NewlyOffline THEN [bearer[a] EXCEPT !.valid = {}] ELSE bearer[a]]
    BY DEF ReaperSweep
  <2>2. bearer' = [a \in Agents |-> bearer'[a]]
    BY <2>1
  <2> QED
    BY <1>3, <2>2
<1>5. /\ cmd \in Seq(CmdType) /\ DOMAIN cmd = 1 .. Len(cmd) /\ Len(cmd) \in Nat /\ Len(cmd) <= MaxCmds
      /\ \A c \in DOMAIN cmd : cmd[c] \in CmdType /\ cmd[c].claims \in Nat
  BY CommandsTyped, LenProperties DEF FInv, TypeOK
<1>6. cmd' = [c \in DOMAIN cmd |-> IF c \in Stale THEN Requeued(cmd[c]) ELSE cmd[c]]
  BY DEF ReaperSweep
<1>7. \A c \in DOMAIN cmd :
        /\ cmd'[c] \in CmdType /\ cmd'[c].kind = cmd[c].kind /\ cmd'[c].pin \in {cmd[c].pin, "null"}
        /\ cmd'[c].claims = cmd[c].claims /\ (cmd[c].status = "done" => cmd'[c].status = "done")
  BY <1>5, <1>6, RequeuedCommand DEF Stale
<1>8. cmd' \in Seq(CmdType) /\ Len(cmd') = Len(cmd) /\ DOMAIN cmd' = DOMAIN cmd
  <2>1. PICK n \in Nat : n = Len(cmd)
    BY <1>5
  <2>2. cmd' \in [1 .. n -> CmdType]
    BY <1>5, <1>6, <1>7, <2>1
  <2>3. cmd' \in Seq(CmdType)
    BY <2>1, <2>2, SeqDef
  <2> QED
    BY <1>5, <2>1, <2>2, <2>3, LenProperties
<1>9. CommandsKept
  BY <1>5, <1>7, <1>8 DEF CommandsKept
<1>10. TypeOK'
  BY <1>1, <1>2, <1>4, <1>5, <1>8 DEF FInv, TypeOK
<1>11. \A a \in Agents : BearerMoves(a)
  <2>1. ASSUME NEW a \in Agents PROVE BearerMoves(a)
    <3>1. CASE a \in Transitions /\ Swept(a).live = "offline"
      <4>1. bearer'[a].valid = {}
        BY <1>3, <3>1, SweptRow DEF NewlyOffline
      <4> QED
        BY <1>3, <4>1 DEF BearerMoves
    <3>2. CASE a \in Transitions /\ Swept(a).live # "offline"
      BY <1>2, <1>3, <3>2, SweptRow DEF BearerMoves
    <3>3. CASE a \notin Transitions
      BY <1>2, <1>3, <3>3 DEF BearerMoves
    <3> QED
      BY <3>1, <3>2, <3>3
  <2> QED
    BY <2>1
<1>12. ConfiguredByItself
  BY <1>2, SweptRow DEF ConfiguredByItself
<1> QED
  BY <1>1, <1>9, <1>10, <1>11, <1>12, HandsAlone, StepFollows

-----------------------------------------------------------------------------
(* Every behaviour.                                                         *)

LEMMA InitFInv ==
  ASSUME FleetAssumption, Init
  PROVE  FInv
<1>1. NoPod \in PodType /\ NoPod.hand = 0
  BY DEF NoPod, PodType, Locals, FleetAssumption
<1>2. cmd \in Seq(CmdType) /\ Len(cmd) <= MaxCmds
  <2>1. cmd \in Seq(CmdType) /\ Len(cmd) = 0
    BY EmptySeq DEF Init
  <2> QED
    BY <2>1 DEF FleetAssumption
<1>3. TypeOK
  BY <1>1, <1>2 DEF Init, TypeOK, AgentType, Lifecycles, Liveness, BearerType, Tokens, RequestType, FleetAssumption
<1>4. ShutdownMeansNoBearer /\ LostPodIsLockedOut
  BY DEF Init, ShutdownMeansNoBearer, LostPodIsLockedOut
<1>5. HandsOwned /\ HeldByOne
  BY <1>1 DEF Init, HandsOwned, HandOwned, HeldByOne
<1> QED
  BY <1>3, <1>4, <1>5 DEF FInv

LEMMA StutterHolds ==
  ASSUME FleetAssumption, FInv, UNCHANGED vars
  PROVE  StepHolds
<1>1. UNCHANGED <<agent, bearer, cmd, flight, pod, used>>
  BY DEF vars
<1>2. TypeOK'
  BY <1>1 DEF FInv, TypeOK
<1> QED
  BY <1>1, <1>2, RowsAlone, CommandsAlone, HandsAlone, StepFollows

LEMMA NextHolds ==
  ASSUME FleetAssumption, FInv, [Next]_vars
  PROVE  StepHolds
<1>1. ASSUME NEW a \in Agents, PodStep(a) PROVE StepHolds
  BY <1>1, ProcessHolds, ExchangeHolds, SendsHold, ReceivedHolds, RouteHolds, TerminalHolds DEF PodStep
<1>2. ASSUME NEW a \in Agents, HandlerStep(a) PROVE StepHolds
  BY <1>2, HeartbeatHolds, ClaimNothingHolds, ClaimNextHolds, DeregisterHolds DEF HandlerStep
<1>3. ASSUME NEW a \in Agents, FaultStep(a) PROVE StepHolds
  BY <1>3, ProcessHolds, ReceivedHolds, ClaimNextHolds, HydrationHolds, ExpiryHolds DEF FaultStep
<1>4. ASSUME NEW a \in Agents, AdminStep(a) PROVE StepHolds
  BY <1>4, DrainHolds DEF AdminStep
<1>5. ASSUME NEW a \in Agents, TimePasses(a) PROVE StepHolds
  BY <1>5, TimeHolds
<1> QED
  BY <1>1, <1>2, <1>3, <1>4, <1>5, LeaseHolds, SweepHolds, FanOutHolds, StutterHolds DEF Next

\* The inductive invariant, of every behaviour.
THEOREM Invariant ==
  ASSUME FleetAssumption
  PROVE  Spec => []FInv
<1>1. Init => FInv
  BY InitFInv
<1>2. FInv /\ [Next]_vars => FInv'
  BY NextHolds DEF StepHolds
<1> QED
  BY <1>1, <1>2, PTL DEF Spec

\* Rows, bearers, commands, requests and pods stay in range: no lease is counted
\* past MAX_ATTEMPT, and no bound of the environment is overrun.
THEOREM TypeCorrect ==
  ASSUME FleetAssumption
  PROVE  Spec => []TypeOK
<1>1. FInv => TypeOK
  BY DEF FInv
<1> QED
  BY <1>1, Invariant, PTL

\* A row whose shutdown completed has no bearer, whether the DELETE or the sweep
\* completed it and whatever exchange raced them (mark_agent_shutdown_complete,
\* ensure_agent_row).
THEOREM ShutdownMeansNoBearerHolds ==
  ASSUME FleetAssumption
  PROVE  Spec => []ShutdownMeansNoBearer
<1>1. FInv => ShutdownMeansNoBearer
  BY DEF FInv
<1> QED
  BY <1>1, Invariant, PTL

\* A pod that was declared lost has to exchange its identity again
\* (failsafe_agent_loss, handle_agent_loss).
THEOREM LostPodIsLockedOutHolds ==
  ASSUME FleetAssumption
  PROVE  Spec => []LostPodIsLockedOut
<1>1. FInv => LostPodIsLockedOut
  BY DEF FInv
<1> QED
  BY <1>1, Invariant, PTL

\* No two pods carry out the same agent-scoped command, whatever claims were lost,
\* lapsed and swept back to pending (_claim_next, requeue_stale_claimed).
THEOREM HeldByOneHolds ==
  ASSUME FleetAssumption
  PROVE  Spec => []HeldByOne
<1>1. FInv => HeldByOne
  BY DEF FInv
<1> QED
  BY <1>1, Invariant, PTL

\* A bearer that was issued and is not in force: revoked, or expired.
Revoked(a, t) == t <= bearer[a].issued /\ t \notin bearer[a].valid

\* No exchange, sweep or late DELETE brings a bearer back: verification never
\* accepts it again (_verify_bearer, revoke_bearers_for_agent).
THEOREM BearerRevokedForGood ==
  ASSUME FleetAssumption, NEW a \in Agents, NEW t \in Nat
  PROVE  Spec => [](Revoked(a, t) => []Revoked(a, t))
<1>1. ASSUME FInv, [Next]_vars, Revoked(a, t)
      PROVE  Revoked(a, t)'
  <2>1. BearerMoves(a) /\ FInv'
    BY <1>1, NextHolds DEF StepHolds
  <2>2. bearer[a].issued \in Nat /\ bearer'[a].issued \in Nat
    BY <1>1, <2>1 DEF FInv, TypeOK, BearerType
  <2> QED
    BY <1>1, <2>1, <2>2 DEF BearerMoves, Revoked
<1>2. FInv /\ [Next]_vars /\ Revoked(a, t) => Revoked(a, t)'
  BY <1>1
<1> QED
  BY <1>2, Invariant, PTL DEF Spec

\* No step drops a command, turns it into another, hands it to another pod or
\* takes it up again once it is done (the agent_commands rows of an agent).
THEOREM CommandsKeptHolds ==
  ASSUME FleetAssumption
  PROVE  Spec => [][CommandsKept]_vars
<1>1. FInv /\ [Next]_vars => [CommandsKept]_vars
  BY NextHolds DEF StepHolds
<1> QED
  BY <1>1, Invariant, PTL DEF Spec

\* Only a pod's own report of a ConfigUpdate it has applied makes its row active,
\* or an admin who cancels its drain (mark_agent_configured, cancel_shutdown_agents).
THEOREM ConfiguredByItselfHolds ==
  ASSUME FleetAssumption
  PROVE  Spec => [][ConfiguredByItself]_vars
<1>1. FInv /\ [Next]_vars => [ConfiguredByItself]_vars
  BY NextHolds DEF StepHolds
<1> QED
  BY <1>1, Invariant, PTL DEF Spec
=============================================================================
