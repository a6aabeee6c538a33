--------------------------- MODULE RunEngineProof ---------------------------
(***************************************************************************)
(* Safety of the run engine for every pipeline, every number of runs and   *)
(* every bound on duplicates, losses and faults.                           *)
(*                                                                         *)
(* Three parts: the invariant that needs nothing; the one of a run that    *)
(* has one driver, while no task message is delivered twice; and where a   *)
(* revision is aimed, while none is lost either.                           *)
(*                                                                         *)
(* Every action ends in Save, Drop or Park, so the argument follows the    *)
(* calls of the code: a working row that Fits the state may be written     *)
(* (SaveFits, ParkFits, EnterTerminalFits), and each helper hands a row    *)
(* that fits to the helper it calls.                                       *)
(***************************************************************************)
EXTENDS RunEngine, TLAPS

UsedType == [dup : Nat, loss : Nat, expire : Nat, instruct : Nat]

\* A cancellation is requested of a run that exists.
NotAskedYet ==
  \A r \in Runs : run[r].state = "none" => ~run[r].cancel

\* A requested cancellation stays, and the step does not complete the run.
CancelKept ==
  \A r \in Runs : run[r].cancel =>
    /\ run'[r].cancel
    /\ run'[r].state = "completed" => run[r].state = "completed"

\* The inductive invariant.
IInv ==
  /\ TypeOK
  /\ OneInFlight
  /\ NotAskedYet
  /\ ParkedOnItsExecution
  /\ SingleFlight
  /\ HandlersApplicable

\* What every step keeps: the invariant, the state of a run that is over, and
\* the cancellation requested of one that is not.
StepKeeps ==
  /\ IInv'
  /\ CancelKept
  /\ \A q \in Runs : run[q].state \in Terminal => run'[q].state = run[q].state

\* The execution kind that a command of the given kind resumes.
Matches(kind, e) ==
  /\ kind = "invoke" => e \in {"skill", "review"}
  /\ kind # "invoke" => e = kind

\* R may replace the row of r.
RowFits(r, R) ==
  /\ R \in RowType
  /\ R.state # "none"
  /\ RowUsable(R)
  /\ R.minted = run[r].minted
  /\ run[r].stage \in Stages => R.stage \in Stages
  /\ R.state \in InFlight => SlotFree(r)
  /\ run[r].cancel => R.cancel
  /\ R.state = "completed" => ~R.cancel \/ run[r].state = "completed"
  /\ run[r].state \in Terminal => R.state = run[r].state

\* The command R waits for is the one its running execution was dispatched for.
RowParked(r, R) ==
  R.pending # 0 => cmd[r][R.pending].ws = R.ws /\ Matches(cmd[r][R.pending].kind, R.exec.kind)

\* T may replace the messages when R replaces the row of r.
MsgsFit(r, R, T) ==
  /\ T \in SUBSET MsgType
  /\ \A m \in T : m \in tasks \/ ( /\ m.run = r
                                   /\ m.type = "START_STAGE" => m.idx \in Stages /\ R.stage \in Stages )

Fits(r, R, tk, T) ==
  /\ RowFits(r, R)
  /\ RowParked(r, R)
  /\ tk \in TicketType
  /\ MsgsFit(r, R, T)

-----------------------------------------------------------------------------

\* A transaction that writes a row that fits, and dispatches nothing, keeps
\* the invariant (the commit at the end of every task body).
LEMMA SaveFits ==
  ASSUME IInv, used' \in UsedType, NEW r \in Runs, NEW R, NEW tk, NEW T,
         Fits(r, R, tk, T), Save(r, R, tk, T)
  PROVE  StepKeeps
<1> USE DEF Fits, RowFits, Save
<1>1. /\ R \in RowType /\ run' = [run EXCEPT ![r] = R] /\ run \in [Runs -> RowType]
      /\ cmd' = cmd /\ space' = space
  BY DEF IInv, TypeOK
<1>2. run'[r] = R /\ \A q \in Runs \ {r} : run'[q] = run[q]
  BY <1>1
<1>3. TypeOK'
  BY <1>1 DEF IInv, TypeOK, UsedType, MsgsFit
<1>4. OneInFlight'
  BY <1>2 DEF IInv, OneInFlight, SlotFree
<1>5. NotAskedYet'
  BY <1>2 DEF IInv, NotAskedYet
<1>6. ParkedOnItsExecution'
  BY <1>1, <1>2 DEF IInv, ParkedOnItsExecution, RowParked, Matches
<1>7. SingleFlight'
  <2>1. cmd' = cmd /\ space' = space /\ SingleFlight
    BY <1>1 DEF IInv
  <2> QED
    BY <2>1 DEF SingleFlight
<1>8. HandlersApplicable'
  <2>1. \A q \in Runs : RowUsable(run'[q])
    BY <1>2 DEF IInv, HandlersApplicable
  <2>2. \A m \in tasks' : MessageUsable(m)'
    BY <1>2 DEF IInv, HandlersApplicable, MessageUsable, MsgsFit, TypeOK, MsgType
  <2>3. \A q \in Runs, c \in Cmds : c > run'[q].minted => cmd'[q][c] = NoCmd
    BY <1>1, <1>2 DEF IInv, HandlersApplicable
  <2> QED
    BY <1>1, <2>1, <2>2, <2>3 DEF IInv, HandlersApplicable
<1>9. \A q \in Runs : run[q].state \in Terminal => run'[q].state = run[q].state
  BY <1>2
<1>10. CancelKept
  BY <1>2 DEF CancelKept
<1> QED
  BY <1>3, <1>4, <1>5, <1>6, <1>7, <1>8, <1>9, <1>10 DEF IInv, StepKeeps

\* An early return or a rollback keeps the invariant (a stale event, a
\* WorkspaceClaimFailed): only messages disappear.
LEMMA DropFits ==
  ASSUME IInv, used' \in UsedType, NEW T, T \subseteq tasks, Drop(T)
  PROVE  StepKeeps
<1>1. run' = run /\ cmd' = cmd /\ space' = space /\ ticket' = ticket /\ tasks' \subseteq tasks
  BY DEF Drop
<1>2. TypeOK' /\ OneInFlight' /\ NotAskedYet'
  BY <1>1 DEF IInv, TypeOK, UsedType, OneInFlight, NotAskedYet
<1>3. ParkedOnItsExecution'
  BY <1>1 DEF IInv, ParkedOnItsExecution
<1>4. SingleFlight'
  <2>1. cmd' = cmd /\ space' = space /\ SingleFlight
    BY <1>1 DEF IInv
  <2> QED
    BY <2>1 DEF SingleFlight
<1>5. HandlersApplicable'
  BY <1>1 DEF IInv, HandlersApplicable, RowUsable, MessageUsable
<1>6. CancelKept
  BY <1>1 DEF CancelKept
<1> QED
  BY <1>1, <1>2, <1>3, <1>4, <1>5, <1>6 DEF IInv, StepKeeps

\* A dispatch keeps the invariant: the run is parked on a new command, which
\* acts on its workspace and matches its execution, and an invocation holds
\* the workspace's claim (try_claim in the same transaction).
LEMMA ParkFits ==
  ASSUME IInv, used' \in UsedType, NEW r \in Runs, NEW R, NEW kind,
         NEW tk \in TicketType, NEW T,
         RowFits(r, R), MsgsFit(r, R, T),
         kind \in {"provision", "invoke", "refresh", "cleanup"}, Matches(kind, R.exec.kind),
         R.ws # 0, kind = "invoke" => space[r][R.ws].claim = 0,
         Park(r, R, kind, R.ws, tk, T)
  PROVE  StepKeeps
<1> DEFINE c == R.minted + 1
           w == R.ws
           P == [R EXCEPT !.minted = c, !.pending = c]
<1>a. R \in RowType /\ R.minted < MaxCmds /\ MaxCmds \in Nat
  BY BoundsAssumption DEF RowFits, Park
<1>b. R.minted \in 0..MaxCmds /\ R.ws \in 0..MaxCmds
  BY <1>a DEF RowType
<1>c. c \in Cmds /\ w \in Cmds
  BY <1>a, <1>b DEF Cmds
<1>1. /\ R \in RowType /\ R.minted < MaxCmds /\ c \in Cmds /\ w \in Cmds /\ MaxCmds \in Nat
      /\ run \in [Runs -> RowType] /\ cmd \in [Runs -> [Cmds -> CmdType]]
      /\ space \in [Runs -> [Cmds -> SpaceType]]
  BY <1>a, <1>c DEF IInv, TypeOK
<1>2. /\ P \in RowType /\ P.minted = c /\ P.pending = c /\ P.ws = w /\ P.exec = R.exec
      /\ P.state = R.state /\ P.stage = R.stage /\ P.cancel = R.cancel /\ P.pause = R.pause
  <2>1. c \in 0..MaxCmds
    BY <1>a, <1>c DEF Cmds
  <2> HIDE DEF c
  <2> QED
    BY <1>a, <2>1 DEF RowType
<1>3. /\ run' = [run EXCEPT ![r] = P]
      /\ cmd' = [cmd EXCEPT ![r][c] = [kind |-> kind, ws |-> w, status |-> "pending"]]
      /\ space' = IF kind = "invoke" THEN [space EXCEPT ![r][w].claim = c] ELSE space
      /\ ticket' = tk /\ tasks' = T
  BY DEF Park
<1>d. /\ c \in Nat /\ c > run[r].minted /\ \A d \in Nat : d > c => d > run[r].minted
      /\ kind = "invoke" => space[r][w].claim = 0
  BY <1>a, <1>b DEF RowFits
<1> HIDE DEF c, w, P
<1>4. run'[r] = P /\ \A q \in Runs \ {r} : run'[q] = run[q]
  BY <1>1, <1>3
<1>5. /\ cmd'[r][c] = [kind |-> kind, ws |-> w, status |-> "pending"]
      /\ \A q \in Runs, d \in Cmds : q # r \/ d # c => cmd'[q][d] = cmd[q][d]
  BY <1>1, <1>3
<1>6. /\ \A q \in Runs, v \in Cmds : q # r \/ v # w \/ kind # "invoke" => space'[q][v] = space[q][v]
      /\ kind = "invoke" => space'[r][w] = [space[r][w] EXCEPT !.claim = c]
  BY <1>1, <1>3
<1>7. TypeOK'
  <2>1. cmd' \in [Runs -> [Cmds -> CmdType]]
    BY <1>1, <1>3 DEF CmdType, Cmds
  <2>2. space' \in [Runs -> [Cmds -> SpaceType]]
    <3>1. CASE kind # "invoke"
      BY <3>1, <1>1, <1>3
    <3>2. CASE kind = "invoke"
      <4>1. c \in 0..MaxCmds
        BY <1>1 DEF Cmds
      <4>2. ASSUME NEW S \in SpaceType PROVE [S EXCEPT !.claim = c] \in SpaceType
        BY <4>1 DEF SpaceType
      <4> QED
        BY <3>2, <4>2, <1>1, <1>3, Zenon
    <3> QED
      BY <3>1, <3>2
  <2> QED
    BY <1>1, <1>2, <1>3, <2>1, <2>2 DEF IInv, TypeOK, UsedType, MsgsFit
<1>8. OneInFlight' /\ NotAskedYet'
  BY <1>2, <1>4 DEF IInv, OneInFlight, NotAskedYet, RowFits, SlotFree
<1>9. cmd[r][c] = NoCmd
  BY <1>1, <1>d DEF IInv, HandlersApplicable
<1>10. \A q \in Runs : run[q].pending \in Nat /\ run[q].minted \in Nat /\ run[q].pending <= run[q].minted
                      /\ run[q].pending \in 0..MaxCmds
  BY <1>1 DEF IInv, HandlersApplicable, RowUsable, RowType
<1>11. ParkedOnItsExecution'
  <2> SUFFICES ASSUME NEW q \in Runs, run'[q].pending # 0
               PROVE  LET C == cmd'[q][run'[q].pending]
                          e == run'[q].exec.kind
                      IN C.ws = run'[q].ws /\ Matches(C.kind, e)
    BY DEF ParkedOnItsExecution, Matches
  <2>1. CASE q = r
    BY <2>1, <1>2, <1>4, <1>5
  <2>2. CASE q # r
    BY <2>2, <1>4, <1>5, <1>10, SMTT(30) DEF IInv, ParkedOnItsExecution, Matches, Cmds
  <2> QED
    BY <2>1, <2>2
<1>12. SingleFlight'
  <2>1. ASSUME NEW q \in Runs, NEW d \in Cmds, cmd'[q][d].kind = "invoke", cmd'[q][d].status # "done"
        PROVE  space'[q][cmd'[q][d].ws].claim = d
    <3>1. CASE q = r /\ d = c
      BY <2>1, <3>1, <1>1, <1>5, <1>6 DEF SpaceType
    <3>2. CASE q # r \/ d # c
      <4>1. cmd[q][d].kind = "invoke" /\ cmd[q][d].status # "done" /\ cmd'[q][d] = cmd[q][d]
            /\ cmd[q][d].ws \in Cmds /\ space[q][cmd[q][d].ws].claim = d
        BY <2>1, <3>2, <1>5 DEF IInv, SingleFlight, HandlersApplicable
      <4>2. q # r \/ cmd[q][d].ws # w \/ kind # "invoke"
        BY <4>1, <1>d DEF Cmds
      <4> QED
        BY <4>1, <4>2, <1>6
    <3> QED
      BY <3>1, <3>2
  <2>2. ASSUME NEW q \in Runs, NEW v \in Cmds, space'[q][v].claim # 0
        PROVE  LET C == cmd'[q][space'[q][v].claim] IN C.kind = "invoke" /\ C.ws = v /\ C.status # "done"
    <3>1. CASE q = r /\ v = w /\ kind = "invoke"
      BY <3>1, <1>1, <1>5, <1>6 DEF SpaceType
    <3>2. CASE q # r \/ v # w \/ kind # "invoke"
      <4>1. space'[q][v] = space[q][v] /\ space[q][v].claim \in Cmds
        BY <2>2, <3>2, <1>1, <1>6 DEF SpaceType, Cmds
      <4>2. LET C == cmd[q][space[q][v].claim] IN C.kind = "invoke" /\ C.ws = v /\ C.status # "done"
        BY <2>2, <4>1 DEF IInv, SingleFlight
      <4>3. q # r \/ space[q][v].claim # c
        BY <4>2, <1>9 DEF NoCmd
      <4> QED
        BY <4>1, <4>2, <4>3, <1>5
    <3> QED
      BY <3>1, <3>2
  <2> QED
    BY <2>1, <2>2, SMTT(30) DEF SingleFlight
<1>13. HandlersApplicable'
  <2>1. \A q \in Runs : RowUsable(run'[q])
    <3>1. RowUsable(P)
      BY <1>2, <1>d DEF RowFits, RowUsable
    <3> QED
      BY <3>1, <1>4 DEF IInv, HandlersApplicable
  <2>2. \A m \in tasks' : MessageUsable(m)'
    BY <1>2, <1>3, <1>4 DEF IInv, HandlersApplicable, MessageUsable, MsgsFit, RowFits, TypeOK, MsgType
  <2>3. \A q \in Runs, d \in Cmds : d > run'[q].minted => cmd'[q][d] = NoCmd
    BY <1>2, <1>4, <1>5, <1>d DEF IInv, HandlersApplicable, Cmds
  <2>4. \A q \in Runs, d \in Cmds : cmd'[q][d].kind = "invoke" => cmd'[q][d].ws \in Cmds
    BY <1>1, <1>5 DEF IInv, HandlersApplicable
  <2> QED
    BY <2>1, <2>2, <2>3, <2>4 DEF HandlersApplicable
<1>14. \A q \in Runs : run[q].state \in Terminal => run'[q].state = run[q].state
  BY <1>2, <1>4 DEF RowFits
<1>15. CancelKept
  BY <1>2, <1>4 DEF CancelKept, RowFits
<1> QED
  BY <1>7, <1>8, <1>11, <1>12, <1>13, <1>14, <1>15 DEF IInv, StepKeeps

-----------------------------------------------------------------------------
(* The helpers, in the order of the module.  A working row fits, and the    *)
(* messages it starts from are some of the state's.                         *)

Working(r, R, tk, T) ==
  /\ RowFits(r, R)
  /\ RowParked(r, R)
  /\ tk \in TicketType
  /\ T \subseteq tasks

\* Inside a transaction that found its run running, or paused and resumed it.
Running(r, R, tk, T) ==
  /\ Working(r, R, tk, T)
  /\ run[r].state \in InFlight
  /\ R.state = "running"

\* A working row may be saved with some new messages for its own run.
LEMMA WorkingFits ==
  ASSUME IInv, NEW r \in Runs, NEW R, NEW tk, NEW T, NEW M, Working(r, R, tk, T),
         M \subseteq MsgType,
         \A m \in M : m.run = r /\ (m.type = "START_STAGE" => m.idx \in Stages /\ R.stage \in Stages)
  PROVE  Fits(r, R, tk, T \cup M)
BY DEF Working, Fits, MsgsFit, IInv, TypeOK

\* The ROUTE_RUN and START_STAGE messages are messages of their run.
LEMMA MessagesTyped ==
  ASSUME NEW r \in Runs, NEW i \in 0..Len(Pipeline), NEW outcome \in Outcomes
  PROVE  /\ RouteRun(r, i, outcome) \in MsgType /\ RouteRun(r, i, outcome).run = r
         /\ RouteRun(r, i, outcome).type = "ROUTE_RUN"
         /\ StartStage(r, i) \in MsgType /\ StartStage(r, i).run = r /\ StartStage(r, i).idx = i
BY BoundsAssumption DEF RouteRun, StartStage, MsgType, Outcomes

\* A HANDLE_AGENT_EVENT message is a message of its run.
LEMMA EventTyped ==
  ASSUME NEW r \in Runs, NEW c \in 0..MaxCmds, NEW outcome \in Outcomes
  PROVE  /\ AgentEvent(r, c, outcome) \in MsgType /\ AgentEvent(r, c, outcome).run = r
         /\ AgentEvent(r, c, outcome).type = "HANDLE_AGENT_EVENT"
BY PipelineAssumption, BoundsAssumption DEF AgentEvent, MsgType, Outcomes

\* A commit that enqueues nothing (a pause, an early return, a cancel flag).
LEMMA SaveQuietly ==
  ASSUME IInv, used' \in UsedType, NEW r \in Runs, NEW R, NEW tk, NEW T,
         Working(r, R, tk, T), Save(r, R, tk, T)
  PROVE  StepKeeps
<1>1. Fits(r, R, tk, T)
  BY WorkingFits, T \cup {} = T
<1> QED
  BY <1>1, SaveFits

\* A commit that enqueues ROUTE_RUN for its own run.
LEMMA SaveWithRoute ==
  ASSUME IInv, used' \in UsedType, NEW r \in Runs, NEW R, NEW tk, NEW T,
         NEW i \in 0..Len(Pipeline), NEW outcome \in Outcomes,
         Working(r, R, tk, T), Save(r, R, tk, T \cup {RouteRun(r, i, outcome)})
  PROVE  StepKeeps
<1>1. /\ RouteRun(r, i, outcome) \in MsgType /\ RouteRun(r, i, outcome).run = r
      /\ RouteRun(r, i, outcome).type # "START_STAGE"
  BY MessagesTyped
<1>2. Fits(r, R, tk, T \cup {RouteRun(r, i, outcome)})
  BY <1>1, WorkingFits
<1> QED
  BY <1>2, SaveFits

\* A commit that enqueues START_STAGE for its own run, which has a current stage.
LEMMA SaveWithStart ==
  ASSUME IInv, used' \in UsedType, NEW r \in Runs, NEW R, NEW tk, NEW T, NEW i \in Stages,
         R.stage \in Stages, Working(r, R, tk, T), Save(r, R, tk, T \cup {StartStage(r, i)})
  PROVE  StepKeeps
<1>1. i \in 0..Len(Pipeline) /\ "none" \in Outcomes
  BY PipelineAssumption DEF Stages, Outcomes
<1>2. StartStage(r, i) \in MsgType /\ StartStage(r, i).run = r /\ StartStage(r, i).idx = i
  BY <1>1, MessagesTyped
<1>3. Fits(r, R, tk, T \cup {StartStage(r, i)})
  BY <1>2, WorkingFits
<1> QED
  BY <1>3, SaveFits

\* dispatch_via_workspace parks the run, or raises and rolls back.
LEMMA DispatchFits ==
  ASSUME IInv, used' \in UsedType, NEW r \in Runs, NEW R, NEW kind,
         NEW tk \in TicketType, NEW T, T \subseteq tasks, RowFits(r, R),
         kind \in {"invoke", "refresh", "cleanup"}, Matches(kind, R.exec.kind),
         DispatchViaWorkspace(r, R, kind, tk, T)
  PROVE  StepKeeps
<1>1. MsgsFit(r, R, T)
  BY DEF MsgsFit, IInv, TypeOK
<1>2. CASE /\ RowExists(r, R.ws) /\ (kind = "invoke" => Claimable(r, R.ws))
           /\ Park(r, R, kind, R.ws, tk, T)
  BY <1>1, <1>2, ParkFits DEF RowExists, Claimable
<1>3. CASE Drop(T)
  BY <1>3, DropFits
<1> QED
  BY <1>2, <1>3 DEF DispatchViaWorkspace

\* The absent execution is an execution record.
LEMMA NoExecTyped == NoExec \in ExecType
<1>1. Len(Pipeline) \in Nat
  BY PipelineAssumption
<1> QED
  BY <1>1 DEF NoExec, ExecType

\* What RowFits looks at, apart from the execution.
SameControl(R, S) ==
  /\ S.state = R.state /\ S.stage = R.stage /\ S.ws = R.ws /\ S.pending = R.pending
  /\ S.minted = R.minted /\ S.cancel = R.cancel /\ S.pause = R.pause

\* Settling an execution touches only the two rows of stage_executions.
LEMMA SettledRow ==
  ASSUME NEW R \in RowType, NEW status \in {"completed", "failed"}
  PROVE  /\ Settled(R, status) \in RowType
         /\ Settled(R, status).exec.kind = "none"
         /\ SameControl(R, Settled(R, status))
<1> DEFINE L == [R.last EXCEPT !.status = IF @ = "running" THEN status ELSE @]
<1>1. R.last \in LastType
  BY DEF RowType
<1>2. L \in LastType
  BY <1>1 DEF LastType
<1>3. Settled(R, status) = [R EXCEPT !.exec = NoExec, !.last = L]
  BY <1>1 DEF Settled, RowType, LastType
<1> HIDE DEF L
<1>4. [R EXCEPT !.exec = NoExec, !.last = L] \in RowType
  BY <1>2, NoExecTyped DEF RowType
<1> QED
  BY <1>3, <1>4 DEF RowType, NoExec, SameControl

\* Without credentials, or on a failed event, the stage fails and is routed.
LEMMA FailStageFits ==
  ASSUME IInv, used' \in UsedType, NEW r \in Runs, NEW R, NEW tk, NEW T, NEW i \in Stages,
         Working(r, R, tk, T), R.pending = 0, FailStage(r, R, i, tk, T)
  PROVE  StepKeeps
<1>1. Working(r, Settled(R, "failed"), tk, T)
  BY SettledRow DEF Working, RowFits, RowParked, RowUsable, SameControl
<1>2. i \in 0..Len(Pipeline) /\ "failure" \in Outcomes
  BY PipelineAssumption DEF Stages, Outcomes
<1> QED
  BY <1>1, <1>2, SaveWithRoute DEF FailStage

\* The ticket transitions keep the ticket's type.
LEMMA TicketTyped ==
  ASSUME NEW t \in TicketType, NEW r \in Runs, NEW state \in Terminal
  PROVE  /\ TransitionOnRunStart(t, r) \in TicketType
         /\ TransitionOnRunPaused(t, r) \in TicketType
         /\ TransitionOnRunResumed(t, r) \in TicketType
         /\ TransitionOnRunTerminal(t, r, TicketStatusOf(state)) \in TicketType
<1>1. r \in 0..NRuns
  BY BoundsAssumption DEF Runs
<1> QED
  BY <1>1 DEF TransitionOnRunStart, TransitionOnRunPaused, TransitionOnRunResumed,
     TransitionOnRunTerminal, TicketStatusOf, TicketType, TicketStatus

\* _enter_terminal: the run is over and the oldest queued run takes its slot.
LEMMA EnterTerminalFits ==
  ASSUME IInv, used' \in UsedType, NEW r \in Runs, NEW R, NEW state \in Terminal, NEW tk, NEW T,
         Running(r, R, tk, T), state = "completed" => ~R.cancel,
         EnterTerminal(r, R, state, tk, T)
  PROVE  StepKeeps
<1> DEFINE D == [R EXCEPT !.state = state]
           left == TransitionOnRunTerminal(tk, r, TicketStatusOf(state))
<1>1. left \in TicketType
  BY TicketTyped DEF Running, Working
<1>2. Working(r, D, left, T)
  BY <1>1 DEF Running, Working, RowFits, RowParked, RowUsable, RowType, RunStates, Terminal, InFlight
<1>3. CASE Save(r, D, left, T)
  BY <1>2, <1>3, SaveQuietly
<1>4. ASSUME NEW q \in Runs, OldestQueued(q), SlotFree(r),
             run' = [run EXCEPT ![r] = D, ![q].state = "running"],
             ticket' = TransitionOnRunStart(left, q),
             tasks' = T \cup {RouteRun(q, 0, "none")},
             UNCHANGED <<cmd, space>>
      PROVE  StepKeeps
  <2> DEFINE Q == [run[q] EXCEPT !.state = "running"]
  <2>1. /\ run \in [Runs -> RowType] /\ run[q] \in RowType /\ run[q].state = "queued" /\ q # r
        /\ RowFits(r, D) /\ RowParked(r, D) /\ D.state = state /\ state \notin InFlight
    BY <1>2, <1>4 DEF IInv, TypeOK, OldestQueued, Queued, Running, InFlight, Terminal, Working, RowFits, RowType
  <2>2. Q \in RowType /\ Q.state = "running" /\ Q.exec = run[q].exec /\ Q.pause = run[q].pause /\ Q.ws = run[q].ws
        /\ Q.stage = run[q].stage /\ Q.minted = run[q].minted /\ Q.pending = run[q].pending
    BY <2>1 DEF RowType, RunStates, InFlight
  <2>14. Q.cancel = run[q].cancel
    BY <2>1 DEF RowType
  <2>3. run' = [run EXCEPT ![r] = D, ![q] = Q]
    BY <1>4, <2>1
  <2> HIDE DEF D, Q
  <2>4. run'[r] = D /\ run'[q] = Q /\ \A p \in Runs \ {q, r} : run'[p] = run[p]
    BY <2>1, <2>3
  <2>5. /\ RouteRun(q, 0, "none") \in MsgType /\ RouteRun(q, 0, "none").run = q
        /\ RouteRun(q, 0, "none").type = "ROUTE_RUN"
    BY MessagesTyped, PipelineAssumption DEF Outcomes
  <2>6. TypeOK'
    <3>1. run' \in [Runs -> RowType]
      BY <2>1, <2>2, <2>3 DEF RowFits
    <3>2. ticket' \in TicketType
      BY <1>1, <1>4, TicketTyped
    <3>3. tasks' \subseteq MsgType
      BY <1>4, <2>5 DEF Running, Working, IInv, TypeOK
    <3> QED
      BY <3>1, <3>2, <3>3, <1>4 DEF IInv, TypeOK, UsedType
  <2>7. OneInFlight'
    BY <1>4, <2>1, <2>4 DEF OneInFlight, SlotFree
  <2>8. NotAskedYet'
    BY <2>1, <2>2, <2>4 DEF IInv, NotAskedYet, RowFits
  <2>9. ParkedOnItsExecution'
    BY <1>4, <2>1, <2>2, <2>4 DEF IInv, ParkedOnItsExecution, RowParked, Matches
  <2>10. SingleFlight'
    BY <1>4 DEF IInv, SingleFlight
  <2>11. HandlersApplicable'
    <3>1. \A p \in Runs : RowUsable(run'[p])
      <4>1. RowUsable(Q)
        BY <2>1, <2>2 DEF IInv, HandlersApplicable, RowUsable
      <4> QED
        BY <4>1, <2>1, <2>4 DEF IInv, HandlersApplicable, RowFits
    <3>2. \A m \in tasks' : MessageUsable(m)'
      <4> SUFFICES ASSUME NEW m \in tasks' PROVE MessageUsable(m)'
        OBVIOUS
      <4>1. CASE m = RouteRun(q, 0, "none")
        BY <4>1, <2>2, <2>4, <2>5 DEF MessageUsable
      <4>2. \A p \in Runs : /\ run[p].state # "none" => run'[p].state # "none"
                            /\ run[p].stage \in Stages => run'[p].stage \in Stages
        BY <2>1, <2>2, <2>4 DEF RowFits
      <4>3. CASE m \in tasks
        BY <4>2, <4>3 DEF IInv, TypeOK, MsgType, HandlersApplicable, MessageUsable
      <4> QED
        BY <1>4, <4>1, <4>3 DEF Running, Working
    <3>3. \A p \in Runs, c \in Cmds : c > run'[p].minted => cmd'[p][c] = NoCmd
      BY <1>4, <2>1, <2>2, <2>4 DEF IInv, HandlersApplicable, RowFits
    <3> QED
      BY <1>4, <3>1, <3>2, <3>3 DEF IInv, HandlersApplicable
  <2>12. \A p \in Runs : run[p].state \in Terminal => run'[p].state = run[p].state
    BY <2>1, <2>4 DEF RowFits, Terminal
  <2>13. CancelKept
    BY <2>1, <2>2, <2>14, <2>4 DEF CancelKept, RowFits
  <2> QED
    BY <2>6, <2>7, <2>8, <2>9, <2>10, <2>11, <2>12, <2>13 DEF IInv, StepKeeps
<1> QED
  BY <1>3, <1>4 DEF EnterTerminal

\* A helper that leaves the control fields alone keeps a working row working.
LEMMA SameControlWorks ==
  ASSUME NEW r, NEW R, NEW tk, NEW T, NEW S \in RowType, Working(r, R, tk, T),
         SameControl(R, S), S.exec = R.exec
  PROVE  Working(r, S, tk, T)
BY DEF Working, RowFits, RowParked, RowUsable, SameControl

\* _finish_or_cleanup, for a decided outcome.
LEMMA FinishOrCleanupFits ==
  ASSUME IInv, used' \in UsedType, NEW r \in Runs, NEW R, NEW target \in Terminal, NEW tk, NEW T,
         Running(r, R, tk, T), target = "completed" => ~R.cancel,
         FinishOrCleanup(r, R, target, tk, T)
  PROVE  StepKeeps
<1> DEFINE D == [R EXCEPT !.failed = (target = "failed")]
           K == [D EXCEPT !.exec = [NoExec EXCEPT !.kind = "cleanup"], !.phase = "cleanup"]
<1>1. R \in RowType
  BY DEF Running, Working, RowFits
<1>2. D \in RowType /\ SameControl(R, D) /\ D.exec = R.exec
  BY <1>1 DEF RowType, SameControl
<1> HIDE DEF D
<1>3. Running(r, D, tk, T) /\ D.cancel = R.cancel
  BY <1>2, SameControlWorks DEF Running, SameControl
<1>4. CASE DispatchCleanupStage(r, D, tk, T)
  <2>1. K \in RowType /\ SameControl(D, K) /\ K.exec.kind = "cleanup"
    BY <1>2, NoExecTyped DEF RowType, ExecType, SystemKinds, SameControl
  <2> HIDE DEF K
  <2>2. RowFits(r, K) /\ Matches("cleanup", K.exec.kind) /\ tk \in TicketType /\ T \subseteq tasks
    BY <1>3, <2>1 DEF Running, Working, RowFits, RowUsable, SameControl, Matches
  <2>3. DispatchViaWorkspace(r, K, "cleanup", tk, T)
    BY <1>4 DEF DispatchCleanupStage, K
  <2> QED
    BY <2>2, <2>3, DispatchFits
<1>5. CASE EnterTerminal(r, D, target, tk, T)
  BY <1>3, <1>5, EnterTerminalFits
<1> QED
  BY <1>4, <1>5 DEF FinishOrCleanup, D

\* _finalize_after_cleanup never completes a run whose cancel was requested.
LEMMA FinalizeFits ==
  ASSUME IInv, used' \in UsedType, NEW r \in Runs, NEW R, NEW tk, NEW T,
         Running(r, R, tk, T), FinalizeAfterCleanup(r, R, tk, T)
  PROVE  StepKeeps
<1>1. TargetState(R) \in Terminal /\ (TargetState(R) = "completed" => ~R.cancel)
  BY DEF TargetState, Terminal
<1> QED
  BY <1>1, EnterTerminalFits DEF FinalizeAfterCleanup

\* Stage indices are the nonzero indices of the flattened definition.
LEMMA StagesTyped ==
  Stages \subseteq 0..Len(Pipeline) /\ 0 \in 0..Len(Pipeline) /\ Len(Pipeline) \in Nat
BY PipelineAssumption DEF Stages

\* A fresh invocation: parked, rolled back, or failed at once.
LEMMA DispatchFreshFits ==
  ASSUME IInv, used' \in UsedType, NEW r \in Runs, NEW R, NEW e \in ExecType, NEW tk, NEW T,
         Working(r, R, tk, T), R.stage \in Stages, e.kind \in {"skill", "review"}, e.idx \in Stages,
         DispatchFresh(r, R, e, tk, T)
  PROVE  StepKeeps
<1> DEFINE i == e.idx
           P == [R EXCEPT !.exec = e, !.last = [idx |-> i, status |-> "running"]]
           F == [R EXCEPT !.last = [idx |-> i, status |-> "failed"]]
<1>1. R \in RowType /\ tk \in TicketType /\ T \subseteq tasks /\ i \in 0..Len(Pipeline)
  BY StagesTyped DEF Working, RowFits
<1>2. e \in ExecType /\ e.kind \in {"skill", "review"} /\ e.idx = i
  OBVIOUS
<1> HIDE DEF i
<1>3. CASE DispatchViaWorkspace(r, P, "invoke", tk, T)
  <2>1. P \in RowType /\ SameControl(R, P) /\ P.exec = e
    BY <1>1, <1>2 DEF RowType, LastType, SameControl
  <2> HIDE DEF P
  <2>2. RowFits(r, P) /\ Matches("invoke", P.exec.kind)
    BY <1>2, <2>1 DEF Working, RowFits, RowUsable, SameControl, Matches
  <2> QED
    BY <1>1, <1>3, <2>2, DispatchFits
<1>4. CASE Save(r, F, tk, T \cup {RouteRun(r, i, "failure")})
  <2>1. F \in RowType /\ SameControl(R, F) /\ F.exec = R.exec
    BY <1>1 DEF RowType, LastType, SameControl
  <2> HIDE DEF F
  <2>2. Working(r, F, tk, T)
    BY <2>1, SameControlWorks
  <2> QED
    BY <1>1, <1>4, <2>2, SaveWithRoute DEF Outcomes
<1> QED
  BY <1>3, <1>4 DEF DispatchFresh, i

\* _dispatch_skill_stage and _dispatch_review_only_stage for stage i.
LEMMA DispatchStageInvocationFits ==
  ASSUME IInv, used' \in UsedType, NEW r \in Runs, NEW R, NEW i \in Stages, NEW tk, NEW T,
         Working(r, R, tk, T), R.stage \in Stages,
         DispatchSkillStage(r, R, i, tk, T) \/ DispatchReviewOnlyStage(r, R, i, tk, T)
  PROVE  StepKeeps
<1> DEFINE m == [kind |-> "skill", idx |-> i, phase |-> "main", iter |-> 0]
           v == [kind |-> "review", idx |-> i, phase |-> "review", iter |-> 1]
<1>1. m \in ExecType /\ v \in ExecType
  BY StagesTyped DEF ExecType
<1>2. m.kind = "skill" /\ v.kind = "review" /\ m.idx = i /\ v.idx = i
  OBVIOUS
<1>3. DispatchFresh(r, R, m, tk, T) \/ DispatchFresh(r, R, v, tk, T)
  BY DEF DispatchSkillStage, DispatchReviewOnlyStage
<1> HIDE DEF m, v
<1> QED
  BY <1>1, <1>2, <1>3, DispatchFreshFits

\* _dispatch_provision_stage parks the run on a new workspace id.
LEMMA DispatchProvisionFits ==
  ASSUME IInv, used' \in UsedType, NEW r \in Runs, NEW R, NEW tk, NEW T,
         Working(r, R, tk, T), R.stage \in Stages, DispatchProvisionStage(r, R, tk, T)
  PROVE  StepKeeps
<1> DEFINE w == R.minted + 1
           e == [NoExec EXCEPT !.kind = "provision"]
           P == [R EXCEPT !.exec = e, !.ws = w, !.phase = "provision"]
<1>1. R \in RowType /\ tk \in TicketType /\ T \subseteq tasks /\ MaxCmds \in Nat
  BY BoundsAssumption DEF Working, RowFits
<1>2. Park(r, P, "provision", w, tk, T)
  BY DEF DispatchProvisionStage
<1>3. e \in ExecType /\ e.kind = "provision"
  BY NoExecTyped DEF ExecType, SystemKinds
<1>4. P.minted = R.minted /\ R.minted \in 0..MaxCmds
  BY <1>1 DEF RowType
<1>5. w \in 0..MaxCmds /\ w # 0
  BY <1>1, <1>2, <1>4 DEF Park
<1> HIDE DEF w, e
<1>6. /\ P \in RowType /\ P.exec = e /\ P.ws = w /\ P.state = R.state /\ P.stage = R.stage
      /\ P.pending = R.pending /\ P.minted = R.minted /\ P.cancel = R.cancel /\ P.pause = R.pause
  BY <1>1, <1>3, <1>5 DEF RowType
<1> HIDE DEF P
<1>7. RowFits(r, P) /\ Matches("provision", P.exec.kind)
  BY <1>3, <1>6 DEF Working, RowFits, RowUsable, Matches
<1>8. MsgsFit(r, P, T)
  BY <1>1 DEF MsgsFit, IInv, TypeOK
<1> QED
  BY <1>1, <1>2, <1>5, <1>6, <1>7, <1>8, ParkFits

\* START_STAGE, and the inline start after a send-back or an instruction.
LEMMA StartStageFits ==
  ASSUME IInv, used' \in UsedType, NEW r \in Runs, NEW R, NEW i \in Stages, NEW tk, NEW T,
         Working(r, R, tk, T), R.stage \in Stages, StartStageImpl(r, R, i, tk, T)
  PROVE  StepKeeps
<1>1. R \in RowType /\ i \in 0..Len(Pipeline)
  BY StagesTyped DEF Working, RowFits
<1>2. CASE Save(r, R, tk, T)
  BY <1>2, SaveQuietly
<1>3. CASE RunActionStage(r, R, i, tk, T)
  <2>1. PICK outcome \in {"success", "failure"} :
          Save(r, [R EXCEPT !.last = [idx |-> i,
                              status |-> IF outcome = "success" THEN "completed" ELSE "failed"]],
               tk, T \cup {RouteRun(r, i, outcome)})
    BY <1>3 DEF RunActionStage
  <2> DEFINE F == [R EXCEPT !.last = [idx |-> i,
                              status |-> IF outcome = "success" THEN "completed" ELSE "failed"]]
  <2>2. F \in RowType /\ SameControl(R, F) /\ F.exec = R.exec
    BY <1>1 DEF RowType, LastType, SameControl
  <2>3. Save(r, F, tk, T \cup {RouteRun(r, i, outcome)})
    BY <2>1
  <2> HIDE DEF F
  <2>4. Working(r, F, tk, T)
    BY <2>2, SameControlWorks
  <2> QED
    BY <1>1, <2>3, <2>4, SaveWithRoute DEF Outcomes
<1>4. CASE DispatchProvisionStage(r, R, tk, T)
  BY <1>4, DispatchProvisionFits
<1>5. CASE \/ DispatchSkillStage(r, [R EXCEPT !.revision = 0], i, tk, T)
           \/ DispatchReviewOnlyStage(r, [R EXCEPT !.revision = 0], i, tk, T)
  <2> DEFINE F == [R EXCEPT !.revision = 0]
  <2>1. F \in RowType /\ SameControl(R, F) /\ F.exec = R.exec
    BY <1>1, StagesTyped DEF RowType, SameControl
  <2>2. DispatchSkillStage(r, F, i, tk, T) \/ DispatchReviewOnlyStage(r, F, i, tk, T)
    BY <1>5
  <2> HIDE DEF F
  <2>3. Working(r, F, tk, T) /\ F.stage \in Stages
    BY <2>1, SameControlWorks DEF SameControl
  <2> QED
    BY <2>2, <2>3, DispatchStageInvocationFits
<1> QED
  BY <1>2, <1>3, <1>4, <1>5 DEF StartStageImpl

-----------------------------------------------------------------------------
(* ROUTE_RUN and HANDLE_AGENT_EVENT.                                        *)

\* _dispatch_stage moves the run to a stage of the pipeline and enqueues its start.
LEMMA DispatchStageFits ==
  ASSUME IInv, used' \in UsedType, NEW r \in Runs, NEW R, NEW i \in Stages, NEW T,
         Running(r, R, ticket, T), DispatchStage(r, R, i, T)
  PROVE  StepKeeps
<1> DEFINE S == [R EXCEPT !.stage = i]
<1>1. R \in RowType /\ i \in 0..Len(Pipeline)
  BY StagesTyped DEF Running, Working, RowFits
<1>2. /\ S \in RowType /\ S.stage = i /\ S.exec = R.exec /\ S.state = R.state /\ S.ws = R.ws
      /\ S.pending = R.pending /\ S.minted = R.minted /\ S.cancel = R.cancel /\ S.pause = R.pause
  BY <1>1 DEF RowType
<1>3. Save(r, S, ticket, T \cup {StartStage(r, i)})
  BY DEF DispatchStage
<1> HIDE DEF S
<1>4. Working(r, S, ticket, T) /\ S.stage \in Stages
  BY <1>2 DEF Running, Working, RowFits, RowParked, RowUsable
<1> QED
  BY <1>3, <1>4, SaveWithStart

\* A row of the state may be worked on.
LEMMA RunningRow ==
  ASSUME IInv, NEW r \in Runs, NEW T, T \subseteq tasks, run[r].state # "none"
  PROVE  Working(r, run[r], ticket, T) /\ (run[r].state = "running" => Running(r, run[r], ticket, T))
BY DEF IInv, TypeOK, OneInFlight, NotAskedYet, ParkedOnItsExecution, HandlersApplicable, Running, Working, RowFits,
   RowParked, Matches, SlotFree, InFlight, Terminal

\* Every branch of _route_run_impl keeps the invariant.
LEMMA RouteRunFits ==
  ASSUME IInv, used' \in UsedType, NEW m \in tasks, NEW T, T \subseteq tasks, RouteRunImpl(m, T)
  PROVE  StepKeeps
<1> DEFINE r == m.run
           R == run[r]
<1>1. r \in Runs /\ m.idx \in 0..Len(Pipeline) /\ R \in RowType /\ ticket \in TicketType
  BY DEF IInv, TypeOK, MsgType
<1>2. CASE Drop(T)
  BY <1>2, DropFits
<1>3. CASE R.state = "running"
  <2>1. Running(r, R, ticket, T)
    BY <1>1, <1>3, RunningRow
  <2>2. "failed" \in Terminal /\ "cancelled" \in Terminal /\ "completed" \in Terminal
    BY DEF Terminal
  <2>3. CASE FinishOrCleanup(r, R, "failed", ticket, T) \/ FinishOrCleanup(r, R, "cancelled", ticket, T)
    BY <1>1, <2>1, <2>2, <2>3, FinishOrCleanupFits
  <2>4. CASE ~R.cancel /\ FinishOrCleanup(r, R, "completed", ticket, T)
    BY <1>1, <2>1, <2>2, <2>4, FinishOrCleanupFits
  <2>5. CASE DispatchStage(r, R, IF R.stage = 0 THEN 1 ELSE R.stage, T)
    <3>1. (IF R.stage = 0 THEN 1 ELSE R.stage) \in Stages
      BY <1>1, PipelineAssumption, SMTT(30) DEF Stages, RowType
    <3> QED
      BY <1>1, <2>1, <2>5, <3>1, DispatchStageFits
  <2>6. CASE m.idx < Len(Pipeline) /\ DispatchStage(r, R, m.idx + 1, T)
    <3>1. m.idx + 1 \in Stages
      BY <1>1, <2>6, PipelineAssumption DEF Stages
    <3> QED
      BY <1>1, <2>1, <2>6, <3>1, DispatchStageFits
  <2> QED
    BY <1>2, <2>3, <2>4, <2>5, <2>6 DEF RouteRunImpl
<1> QED
  BY <1>2, <1>3 DEF RouteRunImpl

\* The transaction of an event handler: the run is no longer parked.
Resuming(r, R, tk, T) == Running(r, R, tk, T) /\ R.pending = 0

\* The running invocation the event belongs to.
Invoked(R) == R.exec.kind \in {"skill", "review"}

\* Settling the execution an event belongs to leaves a row the handler can go on with.
LEMMA SettledResuming ==
  ASSUME NEW r, NEW R, NEW tk, NEW T, NEW status \in {"completed", "failed"}, Resuming(r, R, tk, T)
  PROVE  Resuming(r, Settled(R, status), tk, T)
BY SettledRow DEF Resuming, Running, Working, RowFits, RowParked, RowUsable, SameControl

\* _enter_pause keeps the invariant: the pause names a stage.
LEMMA EnterPauseFits ==
  ASSUME IInv, used' \in UsedType, NEW r \in Runs, NEW R, NEW i \in Stages, NEW tk, NEW T,
         Running(r, R, tk, T), EnterPause(r, R, i, tk, T)
  PROVE  StepKeeps
<1> DEFINE S == [R EXCEPT !.state = "paused", !.pause = i]
<1>1. R \in RowType /\ i \in 0..Len(Pipeline) /\ tk \in TicketType
  BY StagesTyped DEF Running, Working, RowFits
<1>2. /\ S \in RowType /\ S.state = "paused" /\ S.pause = i /\ S.exec = R.exec /\ S.stage = R.stage
      /\ S.ws = R.ws /\ S.pending = R.pending /\ S.minted = R.minted /\ S.cancel = R.cancel
  BY <1>1 DEF RowType, RunStates, InFlight
<1>3. Save(r, S, TransitionOnRunPaused(tk, r), T)
  BY DEF EnterPause
<1>4. TransitionOnRunPaused(tk, r) \in TicketType
  BY <1>1, TicketTyped DEF Terminal
<1> HIDE DEF S
<1>5. Working(r, S, TransitionOnRunPaused(tk, r), T)
  BY <1>2, <1>4 DEF Running, Working, RowFits, RowParked, RowUsable, InFlight, Terminal
<1> QED
  BY <1>3, <1>5, SaveQuietly

\* _send_back_to_stage rewinds to an earlier stage of the pipeline, or pauses.
LEMMA SendBackFits ==
  ASSUME IInv, used' \in UsedType, NEW r \in Runs, NEW R, NEW i \in Stages, NEW j \in Targets(i),
         NEW tk, NEW T, Running(r, R, tk, T), SendBackToStage(r, R, i, j, tk, T)
  PROVE  StepKeeps
<1> DEFINE S == [R EXCEPT !.sentBack = @ \cup {j}, !.revision = j, !.stage = j]
<1>1. j \in Stages /\ j \in 0..Len(Pipeline) /\ R \in RowType
  BY StagesTyped DEF Targets, Stages, Running, Working, RowFits
<1>2. CASE EnterPause(r, R, i, tk, T)
  BY <1>2, EnterPauseFits
<1>3. CASE StartStageImpl(r, S, j, tk, T)
  <2>1. /\ S \in RowType /\ S.stage = j /\ S.state = R.state /\ S.pause = R.pause /\ S.exec = R.exec
        /\ S.ws = R.ws /\ S.pending = R.pending /\ S.minted = R.minted /\ S.cancel = R.cancel
    BY <1>1 DEF RowType
  <2> HIDE DEF S
  <2>2. Working(r, S, tk, T)
    BY <1>1, <2>1 DEF Running, Working, RowFits, RowParked, RowUsable
  <2> QED
    BY <1>1, <1>3, <2>1, <2>2, StartStageFits
<1> QED
  BY <1>2, <1>3 DEF SendBackToStage

\* _settle_stage_boundary sends back, pauses or routes on.
LEMMA SettleFits ==
  ASSUME IInv, used' \in UsedType, NEW r \in Runs, NEW R, NEW i \in Stages, NEW residuals,
         NEW tk, NEW T, Resuming(r, R, tk, T), SettleStageBoundary(r, R, i, residuals, tk, T)
  PROVE  StepKeeps
<1> DEFINE D == Settled(R, "completed")
<1>1. Resuming(r, D, tk, T) /\ i \in 0..Len(Pipeline)
  BY SettledResuming, StagesTyped
<1>2. CASE \E j \in Targets(i) : SendBackToStage(r, D, i, j, tk, T)
  BY <1>1, <1>2, SendBackFits DEF Resuming
<1>3. CASE EnterPause(r, D, i, tk, T)
  BY <1>1, <1>3, EnterPauseFits DEF Resuming
<1>4. CASE Save(r, D, tk, T \cup {RouteRun(r, i, "success")})
  BY <1>1, <1>4, SaveWithRoute DEF Resuming, Running, Outcomes
<1> QED
  BY <1>2, <1>3, <1>4 DEF SettleStageBoundary

\* The next pass of the attached loop, on the same execution.
LEMMA InvokeAgainFits ==
  ASSUME IInv, used' \in UsedType, NEW r \in Runs, NEW R, NEW tk, NEW T, NEW e \in ExecType,
         Resuming(r, R, tk, T), Invoked(R), e.kind = R.exec.kind, e.idx = R.exec.idx,
         InvokeAgain(r, R, e, tk, T)
  PROVE  StepKeeps
<1> DEFINE S == [R EXCEPT !.exec = e]
<1>1. R \in RowType /\ tk \in TicketType /\ T \subseteq tasks /\ e.idx \in Stages
  BY DEF Resuming, Running, Working, RowFits, RowUsable, Invoked
<1>2. CASE DispatchViaWorkspace(r, S, "invoke", tk, T)
  <2>1. S \in RowType /\ SameControl(R, S) /\ S.exec = e
    BY <1>1 DEF RowType, SameControl
  <2> HIDE DEF S
  <2>2. RowFits(r, S) /\ Matches("invoke", S.exec.kind)
    BY <2>1 DEF Resuming, Running, Working, RowFits, RowUsable, SameControl, Invoked, Matches
  <2> QED
    BY <1>1, <1>2, <2>2, DispatchFits
<1>3. CASE FailStage(r, R, e.idx, tk, T)
  BY <1>1, <1>3, FailStageFits DEF Resuming, Running
<1> QED
  BY <1>2, <1>3 DEF InvokeAgain

\* The execution of a review or fix pass is an execution record of the same stage.
LEMMA ExecTyped ==
  ASSUME NEW r, NEW R, NEW tk, NEW T, Resuming(r, R, tk, T), Invoked(R)
  PROVE  /\ R \in RowType /\ tk \in TicketType /\ R.exec.idx \in Stages /\ R.exec \in ExecType
         /\ [R.exec EXCEPT !.phase = "review", !.iter = @ + 1] \in ExecType
         /\ [R.exec EXCEPT !.phase = "fix"] \in ExecType
<1>1. R \in RowType /\ tk \in TicketType /\ R.exec.idx \in Stages
  BY DEF Resuming, Running, Working, RowFits, RowUsable, Invoked
<1>2. R.exec \in ExecType
  BY <1>1 DEF RowType
<1>3. ASSUME NEW e \in ExecType
      PROVE  [e EXCEPT !.phase = "review", !.iter = @ + 1] \in ExecType /\ [e EXCEPT !.phase = "fix"] \in ExecType
  <2>1. [e EXCEPT !.phase = "fix"] \in ExecType
    BY DEF ExecType
  <2>2. ASSUME NEW n \in Nat PROVE [e EXCEPT !.phase = "review", !.iter = n] \in ExecType
    BY DEF ExecType
  <2>3. e.iter + 1 \in Nat
    BY DEF ExecType
  <2> QED
    BY <2>1, <2>2, <2>3
<1> QED
  BY <1>1, <1>2, <1>3

\* _dispatch_review_invocation keeps the invariant.
LEMMA ReviewInvocationFits ==
  ASSUME IInv, used' \in UsedType, NEW r \in Runs, NEW R, NEW tk, NEW T,
         Resuming(r, R, tk, T), Invoked(R), DispatchReviewInvocation(r, R, tk, T)
  PROVE  StepKeeps
<1> DEFINE e == [R.exec EXCEPT !.phase = "review", !.iter = @ + 1]
<1>1. e \in ExecType /\ e.kind = R.exec.kind /\ e.idx = R.exec.idx
  BY ExecTyped DEF ExecType
<1>2. InvokeAgain(r, R, e, tk, T)
  BY DEF DispatchReviewInvocation
<1> HIDE DEF e
<1> QED
  BY <1>1, <1>2, InvokeAgainFits

\* _dispatch_fix_invocation keeps the invariant.
LEMMA FixInvocationFits ==
  ASSUME IInv, used' \in UsedType, NEW r \in Runs, NEW R, NEW tk, NEW T,
         Resuming(r, R, tk, T), Invoked(R), DispatchFixInvocation(r, R, tk, T)
  PROVE  StepKeeps
<1> DEFINE e == [R.exec EXCEPT !.phase = "fix"]
<1>1. e \in ExecType /\ e.kind = R.exec.kind /\ e.idx = R.exec.idx
  BY ExecTyped DEF ExecType
<1>2. InvokeAgain(r, R, e, tk, T)
  BY DEF DispatchFixInvocation
<1> HIDE DEF e
<1> QED
  BY <1>1, <1>2, InvokeAgainFits

\* _handle_main_return and _handle_fix_return keep the invariant.
LEMMA SkillReturnFits ==
  ASSUME IInv, used' \in UsedType, NEW r \in Runs, NEW R, NEW tk, NEW T,
         Resuming(r, R, tk, T), Invoked(R), HandleMainReturn(r, R, tk, T) \/ HandleFixReturn(r, R, tk, T)
  PROVE  StepKeeps
<1> DEFINE i == R.exec.idx
           stored == Stored(R, tk)
<1>1. i \in Stages /\ tk \in TicketType
  BY ExecTyped
<1>2. stored \in TicketType
  BY <1>1 DEF TicketType, Stored
<1> HIDE DEF stored
<1>3. Resuming(r, R, stored, T)
  BY <1>2 DEF Resuming, Running, Working
<1>4. CASE FailStage(r, R, i, tk, T)
  BY <1>1, <1>4, FailStageFits DEF Resuming, Running
<1>5. CASE \E j \in Targets(i) : SendBackToStage(r, Settled(R, "completed"), i, j, tk, T)
  <2>1. Resuming(r, Settled(R, "completed"), tk, T)
    BY SettledResuming
  <2> QED
    BY <1>1, <1>5, <2>1, SendBackFits DEF Resuming
<1>6. CASE SettleStageBoundary(r, R, i, FALSE, stored, T)
  BY <1>1, <1>3, <1>6, SettleFits
<1>7. CASE DispatchReviewInvocation(r, R, stored, T)
  BY <1>3, <1>7, ReviewInvocationFits
<1>8. \/ NoArtifact(r, R, tk, T) \/ SettleStageBoundary(r, R, i, FALSE, stored, T)
      \/ DispatchReviewInvocation(r, R, stored, T)
  BY DEF HandleMainReturn, HandleFixReturn, stored
<1> QED
  BY <1>4, <1>5, <1>6, <1>7, <1>8 DEF NoArtifact

\* _handle_review_return keeps the invariant.
LEMMA ReviewReturnFits ==
  ASSUME IInv, used' \in UsedType, NEW r \in Runs, NEW R, NEW tk, NEW T,
         Resuming(r, R, tk, T), Invoked(R), HandleReviewReturn(r, R, tk, T)
  PROVE  StepKeeps
<1> DEFINE i == R.exec.idx
<1>1. i \in Stages
  BY ExecTyped
<1> HIDE DEF i
<1>2. CASE FailStage(r, R, i, tk, T)
  BY <1>1, <1>2, FailStageFits DEF Resuming, Running
<1>3. CASE DispatchFixInvocation(r, R, tk, T)
  BY <1>3, FixInvocationFits
<1>4. CASE SettleStageBoundary(r, R, i, FALSE, tk, T)
  BY <1>1, <1>4, SettleFits
<1>5. CASE SettleStageBoundary(r, R, i, TRUE, tk, T)
  BY <1>1, <1>5, SettleFits
<1> QED
  BY <1>2, <1>3, <1>4, <1>5 DEF HandleReviewReturn, i

\* _handle_skill_stage_event, the auth-expired retry included.
LEMMA SkillStageEventFits ==
  ASSUME IInv, used' \in UsedType, NEW r \in Runs, NEW R, NEW outcome, NEW tk, NEW T,
         Resuming(r, R, tk, T), R.exec.kind = "skill", HandleSkillStageEvent(r, R, outcome, tk, T)
  PROVE  StepKeeps
<1> DEFINE i == R.exec.idx
           D == Settled(R, "failed")
           e == [NoExec EXCEPT !.kind = "refresh"]
           S == [D EXCEPT !.retried = @ \cup {i}, !.exec = e]
<1>1. Invoked(R) /\ i \in Stages /\ R.stage \in Stages /\ tk \in TicketType /\ T \subseteq tasks
  BY ExecTyped DEF Invoked, Resuming, Running, Working, RowFits, RowUsable
<1>2. CASE DispatchViaWorkspace(r, S, "refresh", tk, T)
  <2>1. e \in ExecType /\ e.kind = "refresh"
    BY NoExecTyped DEF ExecType, SystemKinds
  <2>2. D \in RowType /\ SameControl(R, D)
    BY SettledRow DEF Resuming, Running, Working, RowFits
  <2> HIDE DEF D, e, i
  <2>3. S \in RowType /\ SameControl(D, S) /\ S.exec = e
    BY <1>1, <2>1, <2>2 DEF RowType, SameControl
  <2> HIDE DEF S
  <2>4. RowFits(r, S) /\ Matches("refresh", S.exec.kind)
    BY <1>1, <2>1, <2>2, <2>3 DEF Resuming, Running, Working, RowFits, RowUsable, SameControl, Matches
  <2> QED
    BY <1>1, <1>2, <2>4, DispatchFits
<1>3. CASE FailStage(r, R, i, tk, T)
  BY <1>1, <1>3, FailStageFits DEF Resuming, Running
<1>4. CASE HandleReviewReturn(r, R, tk, T)
  BY <1>1, <1>4, ReviewReturnFits
<1>5. CASE HandleMainReturn(r, R, tk, T) \/ HandleFixReturn(r, R, tk, T)
  BY <1>1, <1>5, SkillReturnFits
<1> QED
  BY <1>2, <1>3, <1>4, <1>5 DEF HandleSkillStageEvent

\* _handle_review_stage_event keeps the invariant.
LEMMA ReviewStageEventFits ==
  ASSUME IInv, used' \in UsedType, NEW r \in Runs, NEW R, NEW outcome, NEW tk, NEW T,
         Resuming(r, R, tk, T), R.exec.kind = "review", HandleReviewStageEvent(r, R, outcome, tk, T)
  PROVE  StepKeeps
<1> DEFINE i == R.exec.idx
<1>1. i \in Stages
  BY ExecTyped DEF Invoked
<1> HIDE DEF i
<1>2. CASE FailStage(r, R, i, tk, T)
  BY <1>1, <1>2, FailStageFits DEF Resuming, Running
<1>3. CASE \E residuals \in BOOLEAN : SettleStageBoundary(r, R, i, residuals, tk, T)
  BY <1>1, <1>3, SettleFits
<1> QED
  BY <1>2, <1>3 DEF HandleReviewStageEvent, i

\* _handle_system_stage_event: a provision, refresh or cleanup has answered.
LEMMA SystemStageEventFits ==
  ASSUME IInv, used' \in UsedType, NEW r \in Runs, NEW R, NEW outcome, NEW tk, NEW T,
         Resuming(r, R, tk, T), R.exec.kind \in SystemKinds,
         HandleSystemStageEvent(r, R, outcome, tk, T)
  PROVE  StepKeeps
<1> DEFINE over == [R EXCEPT !.exec = NoExec]
           S == [over EXCEPT !.phase = "stages"]
<1>1. R \in RowType
  BY DEF Resuming, Running, Working, RowFits
<1>2. over \in RowType /\ SameControl(R, over) /\ over.exec.kind = "none"
  BY <1>1, NoExecTyped DEF RowType, SameControl, NoExec
<1> HIDE DEF over
<1>3. Resuming(r, over, tk, T)
  BY <1>2 DEF Resuming, Running, Working, RowFits, RowParked, RowUsable, SameControl
<1>4. "failed" \in Terminal
  BY DEF Terminal
<1>5. CASE FinalizeAfterCleanup(r, over, tk, T)
  BY <1>3, <1>5, FinalizeFits DEF Resuming
<1>6. CASE FinishOrCleanup(r, over, "failed", tk, T)
  BY <1>3, <1>4, <1>6, FinishOrCleanupFits DEF Resuming
<1>7. CASE R.exec.kind = "provision" /\ Save(r, S, tk, T \cup {StartStage(r, R.stage)})
  <2>1. R.stage \in Stages
    BY <1>7 DEF Resuming, Running, Working, RowFits, RowUsable
  <2>2. S \in RowType /\ SameControl(over, S) /\ S.exec = over.exec
    BY <1>2 DEF RowType, SameControl
  <2>3. Save(r, S, tk, T \cup {StartStage(r, R.stage)})
    BY <1>7
  <2> HIDE DEF S
  <2>4. Working(r, S, tk, T) /\ S.stage \in Stages
    BY <1>2, <1>3, <2>1, <2>2, SameControlWorks DEF Resuming, Running, SameControl
  <2> QED
    BY <2>1, <2>3, <2>4, SaveWithStart
<1>8. CASE R.exec.kind = "refresh" /\ RetryAfterRefresh(r, over, tk, T)
  <2>1. over.stage \in Stages
    BY <1>2, <1>8 DEF Resuming, Running, Working, RowFits, RowUsable, SameControl
  <2>2. CASE DispatchSkillStage(r, over, over.stage, tk, T)
    BY <1>3, <2>1, <2>2, DispatchStageInvocationFits DEF Resuming, Running
  <2> QED
    BY <1>6, <1>8, <2>2 DEF RetryAfterRefresh
<1> QED
  BY <1>5, <1>6, <1>7, <1>8 DEF HandleSystemStageEvent, over

\* Clearing pending_agent_command_id changes nothing else.
LEMMA ResumedRow ==
  ASSUME NEW R \in RowType
  PROVE  /\ Resumed(R) \in RowType /\ Resumed(R).pending = 0 /\ Resumed(R).state = R.state
         /\ Resumed(R).stage = R.stage /\ Resumed(R).ws = R.ws /\ Resumed(R).minted = R.minted
         /\ Resumed(R).cancel = R.cancel /\ Resumed(R).pause = R.pause /\ Resumed(R).exec = R.exec
<1>1. 0 \in 0..MaxCmds
  BY BoundsAssumption
<1> QED
  BY <1>1 DEF Resumed, RowType

\* _handle_agent_event_impl: a stale event is dropped, any other resumes its run.
LEMMA HandleAgentEventFits ==
  ASSUME IInv, used' \in UsedType, NEW m \in tasks, NEW T, T \subseteq tasks, HandleAgentEventImpl(m, T)
  PROVE  StepKeeps
<1> DEFINE r == m.run
           R == run[r]
<1>1. r \in Runs /\ R \in RowType
  BY DEF IInv, TypeOK, MsgType
<1>2. CASE Drop(T)
  BY <1>2, DropFits
<1>3. CASE R.state = "running"
  <2>1. Running(r, R, ticket, T)
    BY <1>1, <1>3, RunningRow
  <2>2. /\ Resumed(R) \in RowType /\ Resumed(R).pending = 0 /\ Resumed(R).state = R.state
        /\ Resumed(R).stage = R.stage /\ Resumed(R).ws = R.ws /\ Resumed(R).minted = R.minted
        /\ Resumed(R).cancel = R.cancel /\ Resumed(R).pause = R.pause /\ Resumed(R).exec = R.exec
    BY <1>1, ResumedRow
  <2>3. R.minted \in Nat
    BY <1>1, BoundsAssumption DEF RowType
  <2>4. Resuming(r, Resumed(R), ticket, T)
    BY <2>1, <2>2, <2>3 DEF Resuming, Running, Working, RowFits, RowParked, RowUsable
  <2> QED
    BY <1>1, <1>2, <2>2, <2>4, SystemStageEventFits, ReviewStageEventFits, SkillStageEventFits
    DEF HandleAgentEventImpl
<1> QED
  BY <1>2, <1>3 DEF HandleAgentEventImpl

-----------------------------------------------------------------------------
(* The actions.                                                              *)

\* Consuming a message, once or with a redelivery to come, adds none.
LEMMA ConsumeTyped ==
  ASSUME IInv, NEW m \in tasks, NEW T \in {tasks, tasks \ {m}}, Consume(m, T)
  PROVE  used' \in UsedType /\ T \subseteq tasks
BY DEF IInv, TypeOK, UsedType, Consume

\* The three task bodies, and the loss of a message.
LEMMA TasksKeep ==
  ASSUME IInv, RouteRunTask \/ StartStageTask \/ HandleAgentEventTask \/ LoseTask
  PROVE  StepKeeps
<1>1. CASE RouteRunTask
  BY <1>1, ConsumeTyped, RouteRunFits DEF RouteRunTask
<1>2. CASE HandleAgentEventTask
  BY <1>2, ConsumeTyped, HandleAgentEventFits DEF HandleAgentEventTask
<1>3. CASE StartStageTask
  <2>1. PICK m \in tasks : \E T \in {tasks, tasks \ {m}} :
          m.type = "START_STAGE" /\ Consume(m, T) /\ StartStageImpl(m.run, run[m.run], m.idx, ticket, T)
    BY <1>3 DEF StartStageTask
  <2>2. PICK T \in {tasks, tasks \ {m}} :
          m.type = "START_STAGE" /\ Consume(m, T) /\ StartStageImpl(m.run, run[m.run], m.idx, ticket, T)
    BY <2>1
  <2>3. used' \in UsedType /\ T \subseteq tasks
    BY <2>2, ConsumeTyped
  <2>4. m.run \in Runs /\ m.idx \in Stages /\ run[m.run].stage \in Stages /\ run[m.run].state # "none"
    BY <2>2 DEF IInv, TypeOK, MsgType, HandlersApplicable, MessageUsable
  <2>5. Working(m.run, run[m.run], ticket, T)
    BY <2>3, <2>4, RunningRow
  <2> QED
    BY <2>2, <2>3, <2>4, <2>5, StartStageFits
<1>4. CASE LoseTask
  <2>1. used' \in UsedType
    BY <1>4 DEF LoseTask, IInv, TypeOK, UsedType
  <2> QED
    BY <1>4, <2>1, DropFits DEF LoseTask
<1> QED
  BY <1>1, <1>2, <1>3, <1>4

\* A step of an agent or the reaper: the engine's own rows stay as they are.
LEMMA OutsideStepKeeps ==
  ASSUME IInv, used' \in UsedType, run' = run, ticket' = ticket,
         cmd' \in [Runs -> [Cmds -> CmdType]], space' \in [Runs -> [Cmds -> SpaceType]],
         \A r \in Runs, c \in Cmds : /\ cmd'[r][c].kind = cmd[r][c].kind
                                     /\ cmd'[r][c].ws = cmd[r][c].ws
                                     /\ cmd[r][c] = NoCmd => cmd'[r][c] = NoCmd,
         SingleFlight',
         tasks' \subseteq MsgType,
         \A m \in tasks' : m \in tasks \/ (m.type # "START_STAGE" /\ run[m.run].state # "none")
  PROVE  StepKeeps
<1>1. TypeOK' /\ OneInFlight' /\ NotAskedYet'
  BY DEF IInv, TypeOK, UsedType, OneInFlight, NotAskedYet
<1>2. ParkedOnItsExecution'
  <2>1. \A r \in Runs : run[r].pending # 0 => run[r].pending \in Cmds
    BY BoundsAssumption DEF IInv, TypeOK, RowType, Cmds
  <2> QED
    BY <2>1, SMTT(30) DEF IInv, ParkedOnItsExecution
<1>3. HandlersApplicable'
  BY DEF IInv, HandlersApplicable, RowUsable, MessageUsable
<1>4. CancelKept
  BY DEF CancelKept
<1> QED
  BY <1>1, <1>2, <1>3, <1>4 DEF IInv, StepKeeps

\* Only a run with a row has commands.
LEMMA CommandExists ==
  ASSUME IInv, NEW r \in Runs, NEW c \in Cmds, cmd[r][c] # NoCmd
  PROVE  run[r].state # "none"
BY DEF IInv, HandlersApplicable, RowUsable, Cmds

\* claim_next: a pending command is claimed.
LEMMA ClaimsKeep ==
  ASSUME IInv, NEW r \in Runs, NEW c \in Cmds, AgentClaims(r, c)
  PROVE  StepKeeps
<1>1. /\ cmd \in [Runs -> [Cmds -> CmdType]] /\ cmd[r][c].status = "pending"
      /\ cmd' = [cmd EXCEPT ![r][c].status = "claimed"]
      /\ run' = run /\ space' = space /\ ticket' = ticket /\ tasks' = tasks /\ used' = used
  BY DEF AgentClaims, IInv, TypeOK
<1>2. \A C \in CmdType : [C EXCEPT !.status = "claimed"] \in CmdType
  BY DEF CmdType
<1>3. cmd' \in [Runs -> [Cmds -> CmdType]]
  BY <1>1, <1>2, Zenon
<1>4. \A q \in Runs, d \in Cmds :
        /\ cmd'[q][d].kind = cmd[q][d].kind /\ cmd'[q][d].ws = cmd[q][d].ws
        /\ (cmd'[q][d].status # "done" <=> cmd[q][d].status # "done")
        /\ cmd[q][d] = NoCmd => cmd'[q][d] = NoCmd
  BY <1>1 DEF CmdType, NoCmd
<1>5. SingleFlight'
  <2>1. \A q \in Runs, v \in Cmds : space[q][v].claim # 0 => space[q][v].claim \in Cmds
    BY BoundsAssumption DEF IInv, TypeOK, SpaceType, Cmds
  <2>2. \A q \in Runs, d \in Cmds :
          cmd'[q][d].kind = "invoke" /\ cmd'[q][d].status # "done" => space[q][cmd'[q][d].ws].claim = d
    BY <1>4 DEF IInv, SingleFlight
  <2>3. ASSUME NEW q \in Runs, NEW v \in Cmds, space[q][v].claim # 0
        PROVE  LET C == cmd'[q][space[q][v].claim] IN C.kind = "invoke" /\ C.ws = v /\ C.status # "done"
    <3>1. LET C == cmd[q][space[q][v].claim] IN C.kind = "invoke" /\ C.ws = v /\ C.status # "done"
      BY <2>3 DEF IInv, SingleFlight
    <3> QED
      BY <2>1, <2>3, <3>1, <1>4
  <2>4. space' = space
    BY <1>1
  <2> QED
    BY <2>2, <2>3, <2>4 DEF SingleFlight
<1> QED
  BY <1>1, <1>3, <1>4, <1>5, OutsideStepKeeps DEF IInv, TypeOK, UsedType

\* The agent's report retires its command and releases the claim it holds.
LEMMA ReportsKeep ==
  ASSUME IInv, NEW r \in Runs, NEW c \in Cmds, NEW outcome \in Outcomes, AgentReports(r, c, outcome)
  PROVE  StepKeeps
<1> DEFINE w == cmd[r][c].ws
           S == space[r][w]
           S2 == [S EXCEPT !.claim = IF @ = c THEN 0 ELSE @,
                           !.status = IF cmd[r][c].kind = "provision" /\ outcome = "success"
                                      THEN "active" ELSE @]
<1>1. /\ cmd \in [Runs -> [Cmds -> CmdType]] /\ space \in [Runs -> [Cmds -> SpaceType]]
      /\ cmd[r][c].status = "claimed"
      /\ cmd' = [cmd EXCEPT ![r][c].status = "done"]
      /\ space' = [space EXCEPT ![r][w] = S2]
      /\ tasks' = tasks \cup {AgentEvent(r, c, outcome)}
      /\ run' = run /\ ticket' = ticket /\ used' = used
  BY DEF AgentReports, IInv, TypeOK
<1>2. \A C \in CmdType : [C EXCEPT !.status = "done"] \in CmdType
  BY DEF CmdType
<1>3. cmd' \in [Runs -> [Cmds -> CmdType]]
  BY <1>1, <1>2, Zenon
<1>4. \A q \in Runs, d \in Cmds :
        /\ cmd'[q][d].kind = cmd[q][d].kind /\ cmd'[q][d].ws = cmd[q][d].ws
        /\ (q # r \/ d # c) => cmd'[q][d] = cmd[q][d]
        /\ cmd[q][d] = NoCmd => cmd'[q][d] = NoCmd
  BY <1>1 DEF CmdType, NoCmd
<1>5. cmd'[r][c].status = "done"
  BY <1>1 DEF CmdType
<1>6. w \in Cmds => S2 \in SpaceType /\ S2.claim = IF S.claim = c THEN 0 ELSE S.claim
  <2>1. 0 \in 0..MaxCmds
    BY BoundsAssumption
  <2>2. ASSUME NEW X \in SpaceType, NEW b \in BOOLEAN
        PROVE  LET Y == [X EXCEPT !.claim = IF @ = c THEN 0 ELSE @, !.status = IF b THEN "active" ELSE @]
               IN  Y \in SpaceType /\ Y.claim = IF X.claim = c THEN 0 ELSE X.claim
    BY <2>1 DEF SpaceType
  <2>3. ASSUME w \in Cmds PROVE S \in SpaceType
    BY <1>1, <2>3
  <2> DEFINE b == cmd[r][c].kind = "provision" /\ outcome = "success"
  <2>4. b \in BOOLEAN
    OBVIOUS
  <2> HIDE DEF S, b
  <2> QED
    BY <2>2, <2>3, <2>4 DEF b
<1>7. space' \in [Runs -> [Cmds -> SpaceType]]
  <2> HIDE DEF S2, w
  <2> QED
    BY <1>1, <1>6
<1>8. \A q \in Runs, v \in Cmds :
        space'[q][v].claim = IF q = r /\ v = w /\ space[q][v].claim = c THEN 0 ELSE space[q][v].claim
  <2> HIDE DEF S2, w
  <2> QED
    BY <1>1, <1>6
<1>9. SingleFlight'
  <2> HIDE DEF w
  <2>1. ASSUME NEW q \in Runs, NEW d \in Cmds, cmd'[q][d].kind = "invoke", cmd'[q][d].status # "done"
        PROVE  space'[q][cmd'[q][d].ws].claim = d
    <3>1. (q # r \/ d # c) /\ cmd'[q][d] = cmd[q][d]
      BY <2>1, <1>4, <1>5
    <3>2. cmd[q][d].ws \in Cmds /\ space[q][cmd[q][d].ws].claim = d
      BY <2>1, <3>1 DEF IInv, SingleFlight, HandlersApplicable
    <3> QED
      BY <3>1, <3>2, <1>8
  <2>2. ASSUME NEW q \in Runs, NEW v \in Cmds, space'[q][v].claim # 0
        PROVE  LET C == cmd'[q][space'[q][v].claim] IN C.kind = "invoke" /\ C.ws = v /\ C.status # "done"
    <3>1. space'[q][v].claim = space[q][v].claim /\ space[q][v].claim \in Cmds
          /\ ~(q = r /\ v = w /\ space[q][v].claim = c)
      BY <2>2, <1>1, <1>8, BoundsAssumption, SMTT(30) DEF SpaceType, Cmds
    <3>2. LET C == cmd[q][space[q][v].claim] IN C.kind = "invoke" /\ C.ws = v /\ C.status # "done"
      BY <2>2, <3>1 DEF IInv, SingleFlight
    <3>3. ~(q = r /\ space[q][v].claim = c)
      BY <3>1, <3>2 DEF w
    <3> QED
      BY <3>1, <3>2, <3>3, <1>4
  <2> QED
    BY <2>1, <2>2 DEF SingleFlight
<1>10. run[r].state # "none"
  BY <1>1, CommandExists DEF NoCmd
<1>11. /\ AgentEvent(r, c, outcome) \in MsgType /\ AgentEvent(r, c, outcome).run = r
       /\ AgentEvent(r, c, outcome).type = "HANDLE_AGENT_EVENT"
  BY EventTyped DEF Cmds
<1>12. tasks' \subseteq MsgType /\ used' \in UsedType
  BY <1>1, <1>11 DEF IInv, TypeOK, UsedType
<1>13. \A m \in tasks' : m \in tasks \/ (m.type # "START_STAGE" /\ run[m.run].state # "none")
  BY <1>1, <1>10, <1>11
<1> QED
  BY <1>1, <1>3, <1>4, <1>7, <1>9, <1>12, <1>13, OutsideStepKeeps

\* The single-flight claim looks at the commands and the claims only.
LEMMA ClaimsKept ==
  ASSUME IInv, cmd' = cmd,
         \A q \in Runs, v \in Cmds : space'[q][v].claim = space[q][v].claim
  PROVE  SingleFlight'
<1>1. \A q \in Runs, d \in Cmds : cmd[q][d].kind = "invoke" => cmd[q][d].ws \in Cmds
  BY DEF IInv, HandlersApplicable
<1>2. SingleFlight
  BY DEF IInv
<1> QED
  BY <1>1, <1>2 DEF SingleFlight

\* A workspace that ends, or is forgotten or lost, keeps its claim.
LEMMA WorkspaceEndKeeps ==
  ASSUME IInv, used' \in UsedType, NEW r \in Runs, NEW w \in Cmds, NEW S2 \in SpaceType,
         S2.claim = space[r][w].claim, space' = [space EXCEPT ![r][w] = S2],
         run' = run, cmd' = cmd, ticket' = ticket,
         tasks' \subseteq MsgType,
         \A m \in tasks' : m \in tasks \/ (m.type # "START_STAGE" /\ run[m.run].state # "none")
  PROVE  StepKeeps
<1>1. space \in [Runs -> [Cmds -> SpaceType]] /\ cmd \in [Runs -> [Cmds -> CmdType]]
  BY DEF IInv, TypeOK
<1>2. \A q \in Runs, v \in Cmds : space'[q][v].claim = space[q][v].claim
  BY <1>1
<1>3. SingleFlight'
  BY <1>2, ClaimsKept
<1> QED
  BY <1>1, <1>3, OutsideStepKeeps

\* The reaper's sweeps, forgotten_workspaces and the agent-loss failsafe.
LEMMA ReaperAndLossKeep ==
  ASSUME IInv, NEW r \in Runs, NEW w \in Cmds,
         ReaperExpires(r, w) \/ AgentForgets(r, w) \/ AgentLoss(r, w)
  PROVE  StepKeeps
<1> DEFINE S == space[r][w]
<1>1. space \in [Runs -> [Cmds -> SpaceType]] /\ S \in SpaceType /\ tasks \subseteq MsgType
  BY DEF IInv, TypeOK
<1>2. used' \in UsedType
  <2>1. used \in UsedType /\ \A u \in UsedType : [u EXCEPT !.expire = @ + 1] \in UsedType
    BY DEF IInv, TypeOK, UsedType
  <2>2. used' = used \/ used' = [used EXCEPT !.expire = @ + 1]
    BY DEF ReaperExpires, AgentForgets, AgentLoss
  <2> QED
    BY <2>1, <2>2
<1>3. ASSUME NEW X \in SpaceType
      PROVE  /\ [X EXCEPT !.status = "expired"] \in SpaceType
             /\ [X EXCEPT !.status = "expired"].claim = X.claim
             /\ [X EXCEPT !.agent = "forgot"] \in SpaceType
             /\ [X EXCEPT !.agent = "forgot"].claim = X.claim
             /\ [X EXCEPT !.agent = "lost", !.status = IF @ = "active" THEN "expired" ELSE @] \in SpaceType
             /\ [X EXCEPT !.agent = "lost", !.status = IF @ = "active" THEN "expired" ELSE @].claim = X.claim
  BY DEF SpaceType
<1>4. CASE ReaperExpires(r, w)
  <2> DEFINE S2 == [S EXCEPT !.status = "expired"]
  <2>1. space' = [space EXCEPT ![r][w] = S2]
    BY <1>1, <1>4 DEF ReaperExpires
  <2>2. S2 \in SpaceType /\ S2.claim = S.claim
    BY <1>1, <1>3
  <2>3. run' = run /\ cmd' = cmd /\ ticket' = ticket /\ tasks' = tasks
    BY <1>4 DEF ReaperExpires
  <2> HIDE DEF S2
  <2> QED
    BY <1>1, <1>2, <2>1, <2>2, <2>3, WorkspaceEndKeeps
<1>5. CASE AgentForgets(r, w)
  <2> DEFINE S2 == [S EXCEPT !.agent = "forgot"]
  <2>1. space' = [space EXCEPT ![r][w] = S2]
    BY <1>1, <1>5 DEF AgentForgets
  <2>2. S2 \in SpaceType /\ S2.claim = S.claim
    BY <1>1, <1>3
  <2>3. run' = run /\ cmd' = cmd /\ ticket' = ticket /\ tasks' = tasks
    BY <1>5 DEF AgentForgets
  <2> HIDE DEF S2
  <2> QED
    BY <1>1, <1>2, <2>1, <2>2, <2>3, WorkspaceEndKeeps
<1>6. CASE AgentLoss(r, w)
  <2>1. run[r].state # "none"
    BY <1>6, CommandExists DEF AgentLoss, NoCmd
  <2>2. S.claim \in 0..MaxCmds /\ "failure" \in Outcomes
    BY <1>1 DEF SpaceType, Outcomes
  <2>3. /\ AgentEvent(r, S.claim, "failure") \in MsgType /\ AgentEvent(r, S.claim, "failure").run = r
        /\ AgentEvent(r, S.claim, "failure").type = "HANDLE_AGENT_EVENT"
    BY <2>2, EventTyped
  <2>4. tasks' \subseteq tasks \cup {AgentEvent(r, S.claim, "failure")}
    BY <1>6 DEF AgentLoss
  <2>5. tasks' \subseteq MsgType
        /\ \A m \in tasks' : m \in tasks \/ (m.type # "START_STAGE" /\ run[m.run].state # "none")
    BY <1>1, <2>1, <2>3, <2>4
  <2> QED
    BY <1>1, <1>2, <1>3, <1>6, <2>5, WorkspaceEndKeeps DEF AgentLoss
<1> QED
  BY <1>4, <1>5, <1>6

\* The counters keep their type when they do not change.
LEMMA UsedUnchanged == ASSUME IInv, used' = used PROVE used' \in UsedType
BY DEF IInv, TypeOK, UsedType

\* start_run and start_rerun_from_stage: the new row holds the slot only if it
\* is free.
LEMMA InsertKeeps ==
  ASSUME IInv, NEW r \in Runs, NEW row \in RowType, row.minted = 0, row.pending = 0,
         row.exec.kind = "none", InsertAndPromote(r, row)
  PROVE  StepKeeps
<1>1. /\ run[r].state = "none" /\ run[r].minted = 0 /\ run[r].stage = 0 /\ run[r] \in RowType
      /\ ticket \in TicketType /\ used' \in UsedType /\ ~run[r].cancel
  BY UsedUnchanged DEF InsertAndPromote, IInv, TypeOK, HandlersApplicable, RowUsable, NotAskedYet
<1>2. ASSUME NEW st \in {"running", "inserting"}, st = "running" => SlotFree(r), NEW tk \in TicketType
      PROVE  Working(r, [row EXCEPT !.state = st], tk, tasks)
  <2> DEFINE N == [row EXCEPT !.state = st]
  <2>1. /\ N \in RowType /\ N.state = st /\ N.minted = 0 /\ N.pending = 0 /\ N.exec.kind = "none"
    BY DEF RowType, RunStates, InFlight
  <2> HIDE DEF N
  <2>2. RowFits(r, N)
    BY <1>1, <1>2, <2>1 DEF RowFits, RowUsable, InFlight, Terminal, Stages
  <2>3. RowParked(r, N)
    BY <2>1 DEF RowParked
  <2> QED
    BY <2>2, <2>3 DEF Working, N
<1>3. CASE SlotFree(r) /\ Save(r, [row EXCEPT !.state = "running"], TransitionOnRunStart(ticket, r),
                               tasks \cup {RouteRun(r, 0, "none")})
  <2>1. TransitionOnRunStart(ticket, r) \in TicketType
    BY <1>1, TicketTyped DEF Terminal
  <2>2. Working(r, [row EXCEPT !.state = "running"], TransitionOnRunStart(ticket, r), tasks)
    BY <1>2, <1>3, <2>1
  <2> QED
    BY <1>1, <1>3, <2>2, SaveWithRoute, StagesTyped DEF Outcomes
<1>4. CASE Save(r, [row EXCEPT !.state = "inserting"], ticket, tasks)
  <2>1. Working(r, [row EXCEPT !.state = "inserting"], ticket, tasks)
    BY <1>1, <1>2
  <2> QED
    BY <1>1, <1>4, <2>1, SaveQuietly
<1> QED
  BY <1>3, <1>4 DEF InsertAndPromote

\* start_run and start_rerun_from_stage keep the invariant.
LEMMA StartsKeep ==
  ASSUME IInv, NEW r \in Runs, StartRun(r) \/ \E i \in Stages : StartRerunFromStage(r, i)
  PROVE  StepKeeps
<1>1. /\ 0 \in 0..MaxCmds /\ NoExec \in ExecType /\ NoLast \in LastType
      /\ {} \in SUBSET Stages
  BY BoundsAssumption, NoExecTyped, StagesTyped DEF NoLast, LastType
<1>2. NoRow \in RowType /\ NoRow.minted = 0 /\ NoRow.pending = 0 /\ NoRow.exec = NoExec
  BY <1>1, StagesTyped DEF NoRow, RowType, RunStates
<1>3. NoExec.kind = "none"
  BY DEF NoExec
<1>4. CASE StartRun(r)
  BY <1>2, <1>3, <1>4, InsertKeeps DEF StartRun
<1>5. CASE \E i \in Stages : StartRerunFromStage(r, i)
  <2>1. PICK i \in Stages : InsertAndPromote(r, [NoRow EXCEPT !.stage = i, !.revision = i])
    BY <1>5 DEF StartRerunFromStage
  <2>2. i \in 0..Len(Pipeline)
    BY StagesTyped
  <2> DEFINE N == [NoRow EXCEPT !.stage = i, !.revision = i]
  <2>3. N \in RowType /\ N.minted = NoRow.minted /\ N.pending = NoRow.pending /\ N.exec = NoRow.exec
    BY <1>2, <2>2 DEF RowType
  <2> HIDE DEF N
  <2> QED
    BY <1>2, <1>3, <2>1, <2>3, InsertKeeps DEF N
<1> QED
  BY <1>4, <1>5

\* A request that changes only the state, the cancel flag, the kill mark or
\* the open pause of an existing row.
LEMMA RequestRow ==
  ASSUME IInv, NEW r \in Runs, NEW N \in RowType, run[r].state \notin Terminal \cup {"none"},
         N.state \notin {"none", "paused", "completed"},
         N.state \in InFlight => run[r].state \in InFlight,
         N.stage = run[r].stage, N.ws = run[r].ws, N.pending = run[r].pending,
         N.minted = run[r].minted, N.exec = run[r].exec, run[r].cancel => N.cancel,
         NEW tk \in TicketType
  PROVE  /\ Working(r, N, tk, tasks)
         /\ N.state = "running" => Running(r, N, tk, tasks)
<1>1. RowUsable(run[r]) /\ RowParked(r, run[r]) /\ (run[r].state \in InFlight => SlotFree(r))
  BY DEF IInv, HandlersApplicable, ParkedOnItsExecution, OneInFlight, RowParked, Matches, SlotFree
<1> QED
  BY <1>1 DEF Running, Working, RowFits, RowUsable, RowParked, InFlight

\* The updates the request handlers make to a row.
LEMMA RowUpdates ==
  ASSUME NEW R \in RowType
  PROVE  /\ \A st \in {"queued", "cancelled", "running"} :
              LET N == [R EXCEPT !.state = st] IN
              /\ N \in RowType /\ N.state = st /\ N.stage = R.stage /\ N.ws = R.ws /\ N.cancel = R.cancel
              /\ N.pending = R.pending /\ N.minted = R.minted /\ N.exec = R.exec /\ N.pause = R.pause
         /\ LET N == [R EXCEPT !.cancel = TRUE] IN
              /\ N \in RowType /\ N.state = R.state /\ N.stage = R.stage /\ N.ws = R.ws
              /\ N.pending = R.pending /\ N.minted = R.minted /\ N.exec = R.exec /\ N.pause = R.pause
              /\ N.cancel
         /\ LET N == [R EXCEPT !.state = "running", !.cancel = TRUE, !.pause = 0] IN
              /\ N \in RowType /\ N.state = "running" /\ N.stage = R.stage /\ N.ws = R.ws
              /\ N.pending = R.pending /\ N.minted = R.minted /\ N.exec = R.exec /\ N.cancel
         /\ LET N == [R EXCEPT !.state = "running", !.pause = 0, !.killed = TRUE] IN
              /\ N \in RowType /\ N.state = "running" /\ N.stage = R.stage /\ N.ws = R.ws
              /\ N.pending = R.pending /\ N.minted = R.minted /\ N.exec = R.exec /\ N.cancel = R.cancel
         /\ LET N == [R EXCEPT !.state = "running", !.pause = 0] IN
              /\ N \in RowType /\ N.state = "running" /\ N.stage = R.stage /\ N.ws = R.ws
              /\ N.pending = R.pending /\ N.minted = R.minted /\ N.exec = R.exec /\ N.cancel = R.cancel
<1>1. 0 \in 0..Len(Pipeline)
  BY StagesTyped
<1> QED
  BY <1>1 DEF RowType, RunStates, InFlight, Terminal

\* The commit of a start, and request_cancel in each state of the run.
LEMMA CancelKeeps ==
  ASSUME IInv, NEW r \in Runs, CommitStart(r) \/ RequestCancel(r)
  PROVE  StepKeeps
<1>1. run[r] \in RowType /\ ticket \in TicketType /\ used' \in UsedType
  BY UsedUnchanged DEF CommitStart, RequestCancel, IInv, TypeOK
<1>2. CASE CommitStart(r)
  <2> DEFINE N == [run[r] EXCEPT !.state = "queued"]
  <2>1. run[r].state = "inserting" /\ Save(r, N, ticket, tasks)
    BY <1>2 DEF CommitStart
  <2>2. /\ N \in RowType /\ N.state = "queued" /\ N.stage = run[r].stage /\ N.ws = run[r].ws
        /\ N.pending = run[r].pending /\ N.minted = run[r].minted /\ N.exec = run[r].exec
        /\ N.cancel = run[r].cancel
    BY <1>1, RowUpdates
  <2> HIDE DEF N
  <2>3. Working(r, N, ticket, tasks)
    BY <1>1, <2>1, <2>2, RequestRow DEF Terminal, InFlight
  <2> QED
    BY <1>1, <2>1, <2>3, SaveQuietly
<1>3. CASE CancelQueued(r)
  <2> DEFINE N == [run[r] EXCEPT !.state = "cancelled"]
  <2>1. run[r].state = "queued" /\ Save(r, N, ticket, tasks)
    BY <1>3 DEF CancelQueued
  <2>2. /\ N \in RowType /\ N.state = "cancelled" /\ N.stage = run[r].stage /\ N.ws = run[r].ws
        /\ N.pending = run[r].pending /\ N.minted = run[r].minted /\ N.exec = run[r].exec
        /\ N.cancel = run[r].cancel
    BY <1>1, RowUpdates
  <2> HIDE DEF N
  <2>3. Working(r, N, ticket, tasks)
    BY <1>1, <2>1, <2>2, RequestRow DEF Terminal, InFlight
  <2> QED
    BY <1>1, <2>1, <2>3, SaveQuietly
<1>4. CASE CancelRunning(r)
  <2> DEFINE N == [run[r] EXCEPT !.cancel = TRUE]
  <2>1. run[r].state # "none" /\ Save(r, N, ticket, tasks)
    BY <1>4 DEF CancelRunning, InFlight
  <2>2. /\ N \in RowType /\ N.state = run[r].state /\ N.stage = run[r].stage /\ N.ws = run[r].ws
        /\ N.pending = run[r].pending /\ N.minted = run[r].minted /\ N.exec = run[r].exec
        /\ N.pause = run[r].pause /\ N.cancel
    BY <1>1, RowUpdates
  <2> HIDE DEF N
  <2>3. Working(r, run[r], ticket, tasks)
    BY <2>1, RunningRow
  <2>4. Working(r, N, ticket, tasks)
    BY <2>2, <2>3 DEF Working, RowFits, RowParked, RowUsable
  <2> QED
    BY <1>1, <2>1, <2>4, SaveQuietly
<1>5. CASE CancelPaused(r)
  <2> DEFINE N == [run[r] EXCEPT !.state = "running", !.cancel = TRUE, !.pause = 0]
  <2>1. run[r].state = "paused" /\ FinishOrCleanup(r, N, "cancelled", ticket, tasks)
    BY <1>5 DEF CancelPaused
  <2>2. /\ N \in RowType /\ N.state = "running" /\ N.stage = run[r].stage /\ N.ws = run[r].ws
        /\ N.pending = run[r].pending /\ N.minted = run[r].minted /\ N.exec = run[r].exec
        /\ N.cancel
    BY <1>1, RowUpdates
  <2> HIDE DEF N
  <2>3. Running(r, N, ticket, tasks)
    BY <1>1, <2>1, <2>2, RequestRow DEF Terminal, InFlight
  <2>4. "cancelled" \in Terminal
    BY DEF Terminal
  <2> QED
    BY <1>1, <2>1, <2>3, <2>4, FinishOrCleanupFits
<1> QED
  BY <1>2, <1>3, <1>4, <1>5 DEF RequestCancel

\* The four answers to a pause, each from the paused row.
LEMMA ResolveKeeps ==
  ASSUME IInv, NEW r \in Runs, ResolvePause(r)
  PROVE  StepKeeps
<1> DEFINE i == run[r].pause
           N == [run[r] EXCEPT !.state = "running", !.pause = 0]
           K == [run[r] EXCEPT !.state = "running", !.pause = 0, !.killed = TRUE]
           tk == TransitionOnRunResumed(ticket, r)
<1>1. run[r] \in RowType /\ ticket \in TicketType /\ run[r].state = "paused"
  BY DEF ResolvePause, Approve, Instruct, Kill, HumanSendBack, IInv, TypeOK
<1>2. i \in Stages /\ i \in 0..Len(Pipeline) /\ tk \in TicketType
  BY <1>1, StagesTyped, TicketTyped DEF IInv, HandlersApplicable, RowUsable, Terminal
<1>3. /\ N \in RowType /\ N.state = "running" /\ N.stage = run[r].stage /\ N.ws = run[r].ws
      /\ N.pending = run[r].pending /\ N.minted = run[r].minted /\ N.exec = run[r].exec
      /\ N.cancel = run[r].cancel
  BY <1>1, RowUpdates
<1>4. /\ K \in RowType /\ K.state = "running" /\ K.stage = run[r].stage /\ K.ws = run[r].ws
      /\ K.pending = run[r].pending /\ K.minted = run[r].minted /\ K.exec = run[r].exec
      /\ K.cancel = run[r].cancel
  BY <1>1, RowUpdates
<1>5. CASE Approve(r)
  <2>1. Save(r, N, tk, tasks \cup {RouteRun(r, i, "success")}) /\ used' \in UsedType
    BY <1>5, UsedUnchanged DEF Approve
  <2> HIDE DEF N, i, tk
  <2>2. Working(r, N, tk, tasks)
    BY <1>1, <1>2, <1>3, RequestRow DEF Terminal, InFlight
  <2> QED
    BY <1>2, <2>1, <2>2, SaveWithRoute DEF Outcomes
<1>6. CASE Kill(r)
  <2>1. FinishOrCleanup(r, K, "killed", ticket, tasks) /\ used' \in UsedType
    BY <1>6, UsedUnchanged DEF Kill
  <2> HIDE DEF K
  <2>2. Running(r, K, ticket, tasks) /\ "killed" \in Terminal
    BY <1>1, <1>4, RequestRow DEF Terminal, InFlight
  <2> QED
    BY <2>1, <2>2, FinishOrCleanupFits
<1>7. CASE \E j \in Stages : HumanSendBack(r, j)
  <2>1. PICK j \in Targets(i) : SendBackToStage(r, N, i, j, tk, tasks) /\ used' \in UsedType
    BY <1>7, UsedUnchanged DEF HumanSendBack
  <2> HIDE DEF N, i, tk
  <2>2. Running(r, N, tk, tasks)
    BY <1>1, <1>2, <1>3, RequestRow DEF Terminal, InFlight
  <2> QED
    BY <1>2, <2>1, <2>2, SendBackFits
<1>8. CASE Instruct(r)
  <2> DEFINE S == [N EXCEPT !.stage = i, !.revision = i]
  <2>1. StartStageImpl(r, S, i, tk, tasks)
    BY <1>1, <1>8 DEF Instruct, RowType
  <2>2. used' \in UsedType
    <3>1. used \in UsedType /\ \A u \in UsedType : [u EXCEPT !.instruct = @ + 1] \in UsedType
      BY DEF IInv, TypeOK, UsedType
    <3> QED
      BY <1>8, <3>1 DEF Instruct
  <2> HIDE DEF N, i, tk
  <2>3. Running(r, N, tk, tasks)
    BY <1>1, <1>2, <1>3, RequestRow DEF Terminal, InFlight
  <2>4. /\ S \in RowType /\ S.stage = i /\ S.state = N.state /\ S.pause = N.pause /\ S.exec = N.exec
        /\ S.ws = N.ws /\ S.pending = N.pending /\ S.minted = N.minted /\ S.cancel = N.cancel
    BY <1>2, <1>3 DEF RowType
  <2> HIDE DEF S
  <2>5. Working(r, S, tk, tasks) /\ S.stage \in Stages
    BY <1>2, <2>3, <2>4 DEF Running, Working, RowFits, RowParked, RowUsable
  <2> QED
    BY <1>2, <2>1, <2>2, <2>5, StartStageFits
<1> QED
  BY <1>5, <1>6, <1>7, <1>8 DEF ResolvePause

\* resume_stalled_runs only adds a message for a run that exists, or promotes
\* a queued run when nobody is in flight.
LEMMA SweepsKeep ==
  ASSUME IInv, ResumeStalledRuns
  PROVE  StepKeeps
<1>1. ASSUME NEW r \in Runs, NEW m, SweepEnqueues(r, m)
      PROVE  used' \in UsedType /\ Save(r, run[r], ticket, tasks \cup {m})
  <2>1. used \in UsedType /\ \A u \in UsedType : [u EXCEPT !.dup = @ + 1] \in UsedType
    BY DEF IInv, TypeOK, UsedType
  <2>2. used' = used \/ used' = [used EXCEPT !.dup = @ + 1]
    <3>1. used' = [used EXCEPT !.dup = IF Quiet(r) THEN @ ELSE @ + 1]
      BY <1>1 DEF SweepEnqueues
    <3> QED
      BY <3>1, <2>1 DEF UsedType
  <2>3. run = [run EXCEPT ![r] = run[r]]
    BY DEF IInv, TypeOK
  <2> QED
    BY <1>1, <2>1, <2>2, <2>3 DEF SweepEnqueues, Drop, Save
<1>2. ASSUME NEW r \in Runs, ReconcileStaleRunning(r) PROVE StepKeeps
  <2> DEFINE l == run[r].last
             o == CASE l.status = "none" -> "none" [] l.status = "completed" -> "success" [] OTHER -> "failure"
  <2>1. run[r].state = "running" /\ SweepEnqueues(r, RouteRun(r, l.idx, o))
    BY <1>2 DEF ReconcileStaleRunning, Replay
  <2>2. l.idx \in 0..Len(Pipeline) /\ o \in Outcomes
    BY DEF IInv, TypeOK, RowType, LastType, Outcomes
  <2>3. Working(r, run[r], ticket, tasks)
    BY <2>1, RunningRow
  <2> QED
    BY <1>1, <2>1, <2>2, <2>3, SaveWithRoute
<1>3. ASSUME NEW r \in Runs, ReconcileLostResume(r) PROVE StepKeeps
  <2> DEFINE c == run[r].pending
             m == AgentEvent(r, c, "failure")
  <2>1. run[r].state = "running" /\ SweepEnqueues(r, m)
    BY <1>3 DEF ReconcileLostResume
  <2>2. c \in 0..MaxCmds /\ "failure" \in Outcomes
    BY DEF IInv, TypeOK, RowType, Outcomes
  <2>3. m \in MsgType /\ m.run = r /\ m.type = "HANDLE_AGENT_EVENT"
    BY <2>2, EventTyped
  <2> HIDE DEF m
  <2>4. Working(r, run[r], ticket, tasks)
    BY <2>1, RunningRow
  <2>5. Fits(r, run[r], ticket, tasks \cup {m})
    BY <2>3, <2>4, WorkingFits
  <2> QED
    BY <1>1, <2>1, <2>5, SaveFits
<1>4. CASE ReconcileOrphanedQueued
  <2>1. PICK q \in Runs :
          /\ OldestQueued(q)
          /\ Save(q, [run[q] EXCEPT !.state = "running"], TransitionOnRunStart(ticket, q),
                  tasks \cup {RouteRun(q, 0, "none")})
    BY <1>4 DEF ReconcileOrphanedQueued
  <2> DEFINE N == [run[q] EXCEPT !.state = "running"]
             tk == TransitionOnRunStart(ticket, q)
  <2>2. /\ used' \in UsedType /\ run[q] \in RowType /\ run[q].state = "queued" /\ SlotFree(q)
        /\ tk \in TicketType
    BY <1>4, <2>1, UsedUnchanged, TicketTyped
    DEF ReconcileOrphanedQueued, OldestQueued, Queued, SlotFree, IInv, TypeOK, Terminal
  <2>3. /\ N \in RowType /\ N.state = "running" /\ N.stage = run[q].stage /\ N.ws = run[q].ws
        /\ N.pending = run[q].pending /\ N.minted = run[q].minted /\ N.exec = run[q].exec
        /\ N.cancel = run[q].cancel
    BY <2>2, RowUpdates
  <2>4. Save(q, N, tk, tasks \cup {RouteRun(q, 0, "none")})
    BY <2>1
  <2> HIDE DEF N, tk
  <2>5. RowUsable(run[q]) /\ RowParked(q, run[q])
    BY DEF IInv, HandlersApplicable, ParkedOnItsExecution, RowParked, Matches
  <2>6. Working(q, N, tk, tasks)
    BY <2>2, <2>3, <2>5 DEF Working, RowFits, RowUsable, RowParked, Terminal
  <2> QED
    BY <2>2, <2>4, <2>6, SaveWithRoute, StagesTyped DEF Outcomes
<1> QED
  BY <1>2, <1>3, <1>4 DEF ResumeStalledRuns

-----------------------------------------------------------------------------

\* The invariant holds before any run is started.
LEMMA InitIInv == Init => IInv
<1> SUFFICES ASSUME Init PROVE IInv
  OBVIOUS
<1> USE DEF Init
<1>1. NoRow \in RowType /\ NoCmd \in CmdType /\ NoSpace \in SpaceType
  <2>1. 0 \in 0..MaxCmds /\ 0 \in 0..NRuns /\ NoLast \in LastType
    BY BoundsAssumption, StagesTyped DEF NoLast, LastType
  <2> QED
    BY <2>1, NoExecTyped, StagesTyped DEF NoRow, RowType, RunStates, NoCmd, CmdType, NoSpace, SpaceType
<1>2. TypeOK
  BY <1>1, BoundsAssumption DEF TypeOK, TicketType, TicketStatus
<1>3. OneInFlight /\ NotAskedYet /\ ParkedOnItsExecution
  BY DEF OneInFlight, NotAskedYet, ParkedOnItsExecution, NoRow, InFlight
<1>4. SingleFlight
  BY DEF SingleFlight, NoCmd, NoSpace
<1>5. HandlersApplicable
  BY DEF HandlersApplicable, RowUsable, NoRow, NoExec, NoCmd
<1> QED
  BY <1>2, <1>3, <1>4, <1>5 DEF IInv

\* Every step keeps the invariant and the runs that are over.
LEMMA NextKeeps == IInv /\ [Next]_vars => StepKeeps
<1> SUFFICES ASSUME IInv, [Next]_vars PROVE StepKeeps
  OBVIOUS
<1>1. CASE RouteRunTask \/ StartStageTask \/ HandleAgentEventTask \/ LoseTask
  BY <1>1, TasksKeep
<1>2. CASE \E r \in Runs : StartRun(r) \/ \E i \in Stages : StartRerunFromStage(r, i)
  BY <1>2, StartsKeep
<1>3. CASE \E r \in Runs : CommitStart(r) \/ RequestCancel(r)
  BY <1>3, CancelKeeps
<1>4. CASE \E r \in Runs : ResolvePause(r)
  BY <1>4, ResolveKeeps
<1>5. CASE \E r \in Runs, c \in Cmds : AgentClaims(r, c)
  BY <1>5, ClaimsKeep
<1>6. CASE \E r \in Runs, c \in Cmds : ReaperExpires(r, c) \/ AgentForgets(r, c) \/ AgentLoss(r, c)
  BY <1>6, ReaperAndLossKeep
<1>7. CASE \E r \in Runs, c \in Cmds, outcome \in Outcomes : AgentReports(r, c, outcome)
  BY <1>7, ReportsKeep
<1>8. CASE ResumeStalledRuns
  BY <1>8, SweepsKeep
<1>9. CASE UNCHANGED vars
  <2>1. Drop(tasks) /\ used' \in UsedType
    BY <1>9, UsedUnchanged DEF Drop, vars
  <2> QED
    BY <2>1, DropFits
<1> QED
  BY <1>1, <1>2, <1>3, <1>4, <1>5, <1>6, <1>7, <1>8, <1>9 DEF Next, Finished

\* The inductive invariant holds in every reachable state.
LEMMA Inductive == Spec => []IInv
<1>1. IInv /\ [Next]_vars => IInv'
  BY NextKeeps DEF StepKeeps
<1> QED
  BY <1>1, InitIInv, PTL DEF Spec

\* The rows, the messages and the counters keep their types.
THEOREM TypeCorrect == Spec => []TypeOK
<1>1. IInv => TypeOK
  BY DEF IInv
<1> QED
  BY <1>1, Inductive, PTL

\* At most one run of a ticket is running or paused, for any number of runs
\* and any order of starts, terminal promotions and sweeps.
THEOREM OneInFlightHolds == Spec => []OneInFlight
<1>1. IInv => OneInFlight
  BY DEF IInv
<1> QED
  BY <1>1, Inductive, PTL

\* The command a run waits for is the one its newest running execution was
\* dispatched for, on its current workspace: an event never resumes another
\* stage than the one it answers, however often messages are delivered.
THEOREM ParkedHolds == Spec => []ParkedOnItsExecution
<1>1. IInv => ParkedOnItsExecution
  BY DEF IInv
<1> QED
  BY <1>1, Inductive, PTL

\* Two invocations are never outstanding on one workspace.
THEOREM SingleFlightHolds == Spec => []SingleFlight
<1>1. IInv => SingleFlight
  BY DEF IInv
<1> QED
  BY <1>1, Inductive, PTL

\* Every row and message a handler loads is one it can work with.
THEOREM HandlersHold == Spec => []HandlersApplicable
<1>1. IInv => HandlersApplicable
  BY DEF IInv
<1> QED
  BY <1>1, Inductive, PTL

\* No step changes the state of a run that is over.
THEOREM TerminalHolds == Spec => TerminalIsFinal
<1>1. IInv /\ [Next]_vars =>
        [\A r \in Runs : run[r].state \in Terminal => run'[r].state = run[r].state]_vars
  BY NextKeeps DEF StepKeeps
<1> QED
  BY <1>1, Inductive, PTL DEF Spec, TerminalIsFinal

\* No step takes a requested cancellation back, and none that finds one
\* completes the run.  The request itself may commit after the run is over.
THEOREM CancelHolds == Spec => CancelIsHeeded
<1>1. IInv /\ [Next]_vars =>
        [\A r \in Runs : run[r].cancel =>
           /\ run'[r].cancel
           /\ run'[r].state = "completed" => run[r].state = "completed"]_vars
  BY NextKeeps DEF StepKeeps, CancelKept
<1> QED
  BY <1>1, Inductive, PTL DEF Spec, CancelIsHeeded

-----------------------------------------------------------------------------
(***************************************************************************)
(* Safety of the run engine while no task message is delivered twice, for  *)
(* every pipeline, every number of runs, any losses and any faults.        *)
(*                                                                         *)
(* Then a run has one driver at a time: a message of its own in Redis, the *)
(* command it is parked on, or a human who decides its pause.  What        *)
(* the first part shows of every working row is used here as it stands;    *)
(* the lemmas follow the calls of the code again, and carry the driver     *)
(* from one to the next.                                                   *)
(***************************************************************************)
NoRedelivery == MaxDup = 0

-----------------------------------------------------------------------------
(* The inductive invariant.                                                 *)

\* The pod that held workspace w of run r is gone for good.
Lost(r, w) == space[r][w].agent = "lost"

\* A workspace is active and nobody was told to clean it up.
Abandoned(r, w) ==
  /\ space[r][w].status = "active"
  /\ \A c \in Cmds : ~(cmd[r][c].kind = "cleanup" /\ cmd[r][c].ws = w)

\* A kill or a failure is on the row only once the run is on its way out.
OutcomeOk(R) ==
  /\ R.failed \/ R.killed => R.state \in Terminal \/ (R.state = "running" /\ R.phase = "cleanup")
  /\ ~(R.failed /\ R.killed)
  /\ R.state = "completed" => ~R.failed /\ ~R.killed
  /\ R.state = "failed" => R.failed
  /\ R.state = "killed" => R.killed

\* A row between two transactions: parked on a command with an execution, or
\* neither; cleaning up only with the cleanup's execution; paused by its pause.
RowDriven(R) ==
  /\ R.pending # 0 => R.state = "running" /\ R.exec.kind # "none"
  /\ R.pending = 0 => R.exec.kind = "none"
  /\ R.phase = "cleanup" => R.state \in Terminal \/ (R.state = "running" /\ R.exec.kind = "cleanup")
  /\ R.state = "paused" <=> R.pause # 0
  /\ OutcomeOk(R)
  /\ R.state = "none" => R = NoRow
  /\ R.state \in {"inserting", "queued"} => R.ws = 0

\* A message is for a running run: the answer of the command it is parked on,
\* or what moves it while it is parked on none.
Drives(m) ==
  /\ run[m.run].state = "running"
  /\ m.type = "HANDLE_AGENT_EVENT" => run[m.run].pending = m.cmd /\ m.cmd # 0
  /\ m.type # "HANDLE_AGENT_EVENT" => run[m.run].pending = 0

\* A dispatched command that is not done is the one its run waits for, with no
\* message on its way, or its pod is lost.
CommandDriven(r, c) ==
  cmd[r][c] # NoCmd =>
    /\ cmd[r][c].kind # "none" /\ cmd[r][c].status # "none" /\ cmd[r][c].ws \in Cmds
    /\ cmd[r][c].status # "done" =>
         Lost(r, cmd[r][c].ws) \/ (run[r].pending = c /\ Quiet(r))

\* A lost pod serves no active workspace, and what is active and uncleaned is
\* the workspace of a run that is not over.
SpaceKept(r, w) ==
  /\ Lost(r, w) => "agent_lost" \in Faults /\ space[r][w].status # "active"
  /\ Abandoned(r, w) => run[r].ws = w /\ run[r].state \notin Terminal

RowsDriven == \A r \in Runs : RowDriven(run[r])
OneDriver == \A m \in tasks : Drives(m) /\ \A n \in tasks : m.run = n.run => m = n
CommandsDriven == \A r \in Runs, c \in Cmds : CommandDriven(r, c)
SpacesKept == \A r \in Runs, w \in Cmds : SpaceKept(r, w)
TicketFollows == HitlMeansWaiting /\ (ticket.status \in {"hitl", "running"} => ticket.cur \in Runs)

DInv == RowsDriven /\ OneDriver /\ CommandsDriven /\ SpacesKept /\ TicketFollows

-----------------------------------------------------------------------------
(* Ends of a transaction.                                                   *)

\* No pod can still answer a command of r.
Released(r) ==
  \A c \in Cmds : cmd[r][c] # NoCmd /\ cmd[r][c].status # "done" => Lost(r, cmd[r][c].ws)

\* The messages left, once the transaction's own is consumed, are of other runs.
Others(r, T) == T \subseteq tasks /\ \A m \in T : m.run # r

\* Row R of run r and ticket tk agree.
TicketFits(r, R, tk) ==
  /\ tk = ticket \/ (tk.cur = r /\ (ticket.cur = r \/ SlotFree(r)))
  /\ R.state \in InFlight => tk.cur = r
  /\ tk.cur = r /\ tk.status = "hitl" =>
       R.state = "paused" \/ (R.state = "running" /\ R.phase = "cleanup")
  /\ tk.cur = r /\ tk.status = "running" => R.state = "running"

\* A run that waits for no command has no pod that can still answer one.
LEMMA IdleReleased ==
  ASSUME DInv, NEW r \in Runs, run[r].pending = 0
  PROVE  Released(r)
BY DEF DInv, CommandsDriven, CommandDriven, Released, Cmds

\* Taking a message up: it was the only driver of its run.
LEMMA TakenUp ==
  ASSUME IInv, DInv, NEW m \in tasks
  PROVE  Others(m.run, tasks \ {m}) /\ Released(m.run)
<1>1. m.run \in Runs
  BY DEF IInv, TypeOK, MsgType
<1> QED
  BY <1>1 DEF DInv, OneDriver, CommandsDriven, CommandDriven, Released, Others, Quiet

\* The ticket of the rows after a commit that changes the row of r.
LEMMA TicketCommits ==
  ASSUME IInv, DInv, NEW r \in Runs, NEW R \in RowType, NEW tk \in TicketType,
         TicketFits(r, R, tk), ticket' = tk, run' = [run EXCEPT ![r] = R]
  PROVE  TicketFollows'
<1>1. run'[r] = R /\ \A q \in Runs \ {r} : run'[q] = run[q]
  BY DEF IInv, TypeOK
<1>2. CASE tk.cur = r
  BY <1>1, <1>2 DEF DInv, TicketFollows, HitlMeansWaiting, TicketFits, SlotFree
<1>3. CASE tk.cur # r
  BY <1>1, <1>3 DEF DInv, TicketFollows, HitlMeansWaiting, TicketFits
<1> QED
  BY <1>2, <1>3

\* A commit that dispatches nothing: the run is moved by one message or none.
LEMMA SaveDriven ==
  ASSUME IInv, DInv, NEW r \in Runs, NEW R \in RowType, NEW tk \in TicketType, NEW T, NEW M,
         Others(r, T), Released(r), RowDriven(R), R.pending = 0, R.ws = run[r].ws,
         R.state \in Terminal => \A w \in Cmds : ~Abandoned(r, w),
         TicketFits(r, R, tk),
         \A m \in M : /\ m.run = r /\ m.type # "HANDLE_AGENT_EVENT" /\ R.state = "running"
                      /\ \A n \in M : n = m,
         Save(r, R, tk, T \cup M)
  PROVE  DInv'
<1>1. /\ run' = [run EXCEPT ![r] = R] /\ run \in [Runs -> RowType] /\ ticket' = tk
      /\ tasks' = T \cup M /\ cmd' = cmd /\ space' = space
  BY DEF Save, IInv, TypeOK
<1>2. run'[r] = R /\ \A q \in Runs \ {r} : run'[q] = run[q]
  BY <1>1
<1>3. RowsDriven'
  BY <1>2 DEF DInv, RowsDriven
<1>4. OneDriver'
  <2>1. ASSUME NEW m \in T PROVE m \in tasks /\ m.run # r /\ m.run \in Runs /\ Drives(m)'
    BY <2>1, <1>2 DEF Others, IInv, TypeOK, MsgType, DInv, OneDriver, Drives
  <2>2. ASSUME NEW m \in M PROVE m.run = r /\ Drives(m)'
    BY <2>2, <1>2 DEF Drives
  <2> QED
    BY <1>1, <2>1, <2>2 DEF DInv, OneDriver
<1>5. CommandsDriven'
  <2> SUFFICES ASSUME NEW q \in Runs, NEW c \in Cmds PROVE CommandDriven(q, c)'
    BY DEF CommandsDriven
  <2>1. CASE q = r
    BY <2>1, <1>1 DEF DInv, CommandsDriven, CommandDriven, Released, Lost
  <2>2. CASE q # r
    <3>1. Quiet(q) => Quiet(q)'
      BY <2>2, <1>1 DEF Quiet, Others
    <3> QED
      BY <2>2, <3>1, <1>1, <1>2 DEF DInv, CommandsDriven, CommandDriven, Lost
  <2> QED
    BY <2>1, <2>2
<1>6. SpacesKept'
  BY <1>1, <1>2 DEF DInv, SpacesKept, SpaceKept, Abandoned, Lost
<1>7. TicketFollows'
  BY <1>1, TicketCommits
<1> QED
  BY <1>3, <1>4, <1>5, <1>6, <1>7 DEF DInv

\* A commit that enqueues nothing.
LEMMA SaveQuietlyDriven ==
  ASSUME IInv, DInv, NEW r \in Runs, NEW R \in RowType, NEW tk \in TicketType, NEW T,
         Others(r, T), Released(r), RowDriven(R), R.pending = 0, R.ws = run[r].ws,
         R.state \in Terminal => \A w \in Cmds : ~Abandoned(r, w),
         TicketFits(r, R, tk), Save(r, R, tk, T)
  PROVE  DInv'
<1> DEFINE M == {}
<1>1. Save(r, R, tk, T \cup M)
  BY T \cup {} = T
<1>2. \A m \in M : /\ m.run = r /\ m.type # "HANDLE_AGENT_EVENT" /\ R.state = "running"
                  /\ \A n \in M : n = m
  OBVIOUS
<1> HIDE DEF M
<1> QED
  BY <1>1, <1>2, SaveDriven

\* An early return, a rollback or a lost message.
LEMMA DropDriven ==
  ASSUME IInv, DInv, NEW T, T \subseteq tasks, Drop(T)
  PROVE  DInv'
<1>1. run' = run /\ cmd' = cmd /\ space' = space /\ ticket' = ticket /\ tasks' \subseteq tasks
  BY DEF Drop
<1>2. \A r \in Runs : Quiet(r) => Quiet(r)'
  BY <1>1 DEF Quiet
<1>3. RowsDriven' /\ SpacesKept' /\ TicketFollows'
  BY <1>1 DEF DInv, RowsDriven, SpacesKept, SpaceKept, Abandoned, Lost, TicketFollows, HitlMeansWaiting
<1>4. OneDriver' /\ CommandsDriven'
  BY <1>1, <1>2 DEF DInv, OneDriver, Drives, CommandsDriven, CommandDriven, Lost
<1> QED
  BY <1>3, <1>4 DEF DInv

\* A row that may be parked on the command it dispatches next.
Parkable(r, R) ==
  /\ R \in RowType
  /\ R.state = "running" /\ R.pause = 0 /\ R.minted = run[r].minted
  /\ R.exec.kind # "none"
  /\ R.phase = "cleanup" => R.exec.kind = "cleanup"
  /\ R.failed \/ R.killed => R.phase = "cleanup"
  /\ ~(R.failed /\ R.killed)
  /\ \A w \in Cmds : Abandoned(r, w) => R.ws = w

\* A dispatch: the run is parked, and its new command is the one driver.
LEMMA ParkDriven ==
  ASSUME IInv, DInv, NEW r \in Runs, NEW R, NEW tk \in TicketType, NEW T, NEW kind,
         kind \in {"provision", "invoke", "refresh", "cleanup"},
         Others(r, T), Released(r), Parkable(r, R), TicketFits(r, R, tk),
         R.ws \in Cmds, Park(r, R, kind, R.ws, tk, T)
  PROVE  DInv'
<1> DEFINE c == R.minted + 1
           w == R.ws
           P == [R EXCEPT !.minted = c, !.pending = c]
           C == [kind |-> kind, ws |-> w, status |-> "pending"]
<1>1. /\ R \in RowType /\ R.minted < MaxCmds /\ MaxCmds \in Nat /\ R.minted \in 0..MaxCmds
      /\ run \in [Runs -> RowType] /\ cmd \in [Runs -> [Cmds -> CmdType]]
      /\ space \in [Runs -> [Cmds -> SpaceType]] /\ w \in Cmds
  BY BoundsAssumption DEF Parkable, Park, IInv, TypeOK, RowType
<1>2. c \in Cmds /\ c \in 0..MaxCmds /\ c # 0 /\ c > run[r].minted
  BY <1>1 DEF Parkable, Cmds
<1>3. /\ run' = [run EXCEPT ![r] = P] /\ cmd' = [cmd EXCEPT ![r][c] = C]
      /\ space' = IF kind = "invoke" THEN [space EXCEPT ![r][w].claim = c] ELSE space
      /\ ticket' = tk /\ tasks' = T
  BY DEF Park
<1>4. cmd[r][c] = NoCmd
  BY <1>2 DEF IInv, HandlersApplicable
<1> HIDE DEF c
<1>5. /\ P \in RowType /\ P.pending = c /\ P.ws = w /\ P.exec = R.exec /\ P.state = R.state
      /\ P.pause = R.pause /\ P.phase = R.phase /\ P.failed = R.failed /\ P.killed = R.killed
  BY <1>1, <1>2 DEF RowType
<1> HIDE DEF w, P
<1>6. run'[r] = P /\ \A q \in Runs \ {r} : run'[q] = run[q]
  BY <1>1, <1>3
<1>7. cmd'[r][c] = C /\ \A q \in Runs, d \in Cmds : q # r \/ d # c => cmd'[q][d] = cmd[q][d]
  BY <1>1, <1>2, <1>3
<1>8. \A q \in Runs, v \in Cmds :
        space'[q][v].status = space[q][v].status /\ space'[q][v].agent = space[q][v].agent
  <2>1. ASSUME NEW S \in SpaceType
        PROVE  [S EXCEPT !.claim = c].status = S.status /\ [S EXCEPT !.claim = c].agent = S.agent
    BY DEF SpaceType
  <2>2. \A q \in Runs, v \in Cmds : /\ space[q][v] \in SpaceType
                                    /\ space'[q][v] = space[q][v] \/ space'[q][v] = [space[q][v] EXCEPT !.claim = c]
    BY <1>1, <1>3
  <2> QED
    BY <2>1, <2>2
<1>9. RowDriven(P)
  BY <1>2, <1>5 DEF Parkable, RowDriven, OutcomeOk, Terminal
<1>10. RowsDriven'
  BY <1>6, <1>9 DEF DInv, RowsDriven
<1>11. OneDriver'
  <2>1. ASSUME NEW m \in T PROVE m \in tasks /\ Drives(m)'
    BY <2>1, <1>6 DEF Others, IInv, TypeOK, MsgType, DInv, OneDriver, Drives
  <2> QED
    BY <1>3, <2>1 DEF DInv, OneDriver
<1>12. CommandsDriven'
  <2> SUFFICES ASSUME NEW q \in Runs, NEW d \in Cmds PROVE CommandDriven(q, d)'
    BY DEF CommandsDriven
  <2>1. CASE q = r /\ d = c
    <3>1. Quiet(r)'
      BY <1>3 DEF Quiet, Others
    <3>2. C.kind = kind /\ C.ws = w /\ C.status = "pending"
      OBVIOUS
    <3> QED
      BY <2>1, <3>1, <3>2, <1>1, <1>5, <1>6, <1>7 DEF CommandDriven
  <2>2. CASE q = r /\ d # c
    <3>1. cmd'[r][d] = cmd[r][d] /\ CommandDriven(r, d)
      BY <2>2, <1>7 DEF DInv, CommandsDriven
    <3>2. cmd[r][d] # NoCmd /\ cmd[r][d].status # "done" => Lost(r, cmd[r][d].ws)
      BY <2>2, <3>1 DEF CommandDriven, Released
    <3>3. cmd[r][d] # NoCmd /\ cmd[r][d].status # "done" => Lost(r, cmd[r][d].ws)'
      BY <1>8, <3>1, <3>2 DEF CommandDriven, Lost
    <3> QED
      BY <2>2, <3>1, <3>3 DEF CommandDriven
  <2>3. CASE q # r
    <3>1. Quiet(q) => Quiet(q)'
      BY <1>3 DEF Quiet, Others
    <3>2. CommandDriven(q, d) /\ cmd'[q][d] = cmd[q][d] /\ run'[q] = run[q]
      BY <2>3, <1>6, <1>7 DEF DInv, CommandsDriven
    <3>3. \A v \in Cmds : Lost(q, v) => Lost(q, v)'
      BY <1>8 DEF Lost
    <3> QED
      BY <3>1, <3>2, <3>3 DEF CommandDriven
  <2> QED
    BY <2>1, <2>2, <2>3
<1>13. SpacesKept'
  <2> SUFFICES ASSUME NEW q \in Runs, NEW v \in Cmds PROVE SpaceKept(q, v)'
    BY DEF SpacesKept
  <2>1. Lost(q, v)' => "agent_lost" \in Faults /\ space'[q][v].status # "active"
    BY <1>8 DEF DInv, SpacesKept, SpaceKept, Lost
  <2>2. ASSUME Abandoned(q, v)' PROVE Abandoned(q, v)
    <3>1. \A d \in Cmds : cmd[q][d].kind = "cleanup" => cmd'[q][d] = cmd[q][d]
      BY <1>4, <1>7 DEF NoCmd
    <3> QED
      BY <2>2, <3>1, <1>8 DEF Abandoned
  <2>3. CASE q = r
    BY <2>1, <2>2, <2>3, <1>5, <1>6 DEF w, SpaceKept, Parkable, Terminal
  <2>4. CASE q # r
    BY <2>1, <2>2, <2>4, <1>6 DEF DInv, SpacesKept, SpaceKept
  <2> QED
    BY <2>3, <2>4
<1>14. TicketFollows'
  BY <1>3, <1>5, TicketCommits DEF TicketFits
<1> QED
  BY <1>10, <1>11, <1>12, <1>13, <1>14 DEF DInv

\* dispatch_via_workspace parks the run on its workspace, or raises.
LEMMA DispatchDriven ==
  ASSUME IInv, DInv, NEW r \in Runs, NEW R, NEW tk \in TicketType, NEW T, NEW kind,
         kind \in {"invoke", "refresh", "cleanup"},
         Others(r, T), Released(r), Parkable(r, R), TicketFits(r, R, tk),
         DispatchViaWorkspace(r, R, kind, tk, T)
  PROVE  DInv'
<1>1. CASE Drop(T)
  BY <1>1, DropDriven DEF Others
<1>2. CASE RowExists(r, R.ws) /\ Park(r, R, kind, R.ws, tk, T)
  <2>1. R.ws \in Cmds
    BY <1>2, BoundsAssumption DEF RowExists, Parkable, RowType, Cmds
  <2> QED
    BY <1>2, <2>1, ParkDriven
<1> QED
  BY <1>1, <1>2 DEF DispatchViaWorkspace

\* A row whose run is to end in the given state.
Ending(r, R, state) ==
  /\ R \in RowType
  /\ run[r].state \in InFlight
  /\ R.pending = 0 /\ R.exec.kind = "none" /\ R.pause = 0 /\ R.ws = run[r].ws
  /\ ~(R.failed /\ R.killed)
  /\ state = "completed" => ~R.failed /\ ~R.killed
  /\ state = "failed" => R.failed
  /\ state = "killed" => R.killed
  /\ \A w \in Cmds : ~Abandoned(r, w)

\* The run is over, its ticket with it, and the oldest queued run moves.
LEMMA EnterTerminalDriven ==
  ASSUME IInv, DInv, NEW r \in Runs, NEW R, NEW state \in Terminal, NEW tk \in TicketType, NEW T,
         Others(r, T), Released(r), Ending(r, R, state), ticket.cur = r, tk.cur = r,
         EnterTerminal(r, R, state, tk, T)
  PROVE  DInv'
<1> DEFINE D == [R EXCEPT !.state = state]
           left == TransitionOnRunTerminal(tk, r, TicketStatusOf(state))
<1>1. /\ D \in RowType /\ D.state = state /\ D.pending = 0 /\ D.exec = R.exec /\ D.pause = 0
      /\ D.ws = run[r].ws /\ D.failed = R.failed /\ D.killed = R.killed /\ state \notin InFlight
  BY DEF Ending, RowType, RunStates, Terminal, InFlight
<1>2. left \in TicketType /\ left.cur = r /\ left.status \notin {"hitl", "running"}
  BY TicketTyped DEF TransitionOnRunTerminal, TicketStatusOf, TicketType, TicketStatus, TicketTerminal
<1>3. RowDriven(D)
  BY <1>1 DEF RowDriven, OutcomeOk, Ending, Terminal
<1>4. CASE Save(r, D, left, T)
  <2>1. TicketFits(r, D, left)
    BY <1>1, <1>2 DEF TicketFits
  <2> HIDE DEF D, left
  <2> QED
    BY <2>1, <1>1, <1>2, <1>3, <1>4, SaveQuietlyDriven DEF Ending
<1>5. ASSUME NEW q \in Runs, OldestQueued(q), SlotFree(r),
             run' = [run EXCEPT ![r] = D, ![q].state = "running"],
             ticket' = TransitionOnRunStart(left, q),
             tasks' = T \cup {RouteRun(q, 0, "none")},
             UNCHANGED <<cmd, space>>
      PROVE  DInv'
  <2> DEFINE Q == [run[q] EXCEPT !.state = "running"]
  <2>1. run \in [Runs -> RowType] /\ run[q] \in RowType /\ run[q].state = "queued" /\ q # r
    BY <1>5 DEF IInv, TypeOK, OldestQueued, Queued, Ending, InFlight
  <2>2. /\ Q \in RowType /\ Q.state = "running" /\ Q.exec = run[q].exec /\ Q.pause = run[q].pause
        /\ Q.ws = run[q].ws /\ Q.pending = run[q].pending /\ Q.phase = run[q].phase
        /\ Q.failed = run[q].failed /\ Q.killed = run[q].killed
    BY <2>1 DEF RowType, RunStates, InFlight
  <2>3. run' = [run EXCEPT ![r] = D, ![q] = Q]
    BY <1>5, <2>1
  <2>4. RowDriven(run[q])
    BY DEF DInv, RowsDriven
  <2>5. RowDriven(Q) /\ Q.pending = 0
    BY <2>1, <2>2, <2>4 DEF RowDriven, OutcomeOk, Terminal
  <2> HIDE DEF D, Q
  <2>6. run'[r] = D /\ run'[q] = Q /\ \A p \in Runs \ {q, r} : run'[p] = run[p]
    BY <2>1, <2>3
  <2> DEFINE n == RouteRun(q, 0, "none")
  <2>7. n.run = q /\ n.type = "ROUTE_RUN"
    BY DEF RouteRun
  <2>8. \A m \in T : m \in tasks /\ m.run \in Runs \ {q, r}
    BY <2>1 DEF Others, IInv, TypeOK, MsgType, DInv, OneDriver, Drives
  <2> HIDE DEF n
  <2>9. RowsDriven'
    BY <2>5, <2>6, <1>3 DEF DInv, RowsDriven
  <2>10. OneDriver'
    <3>1. ASSUME NEW m \in T PROVE Drives(m)'
      BY <3>1, <2>6, <2>8 DEF DInv, OneDriver, Drives
    <3>2. Drives(n)'
      BY <2>2, <2>5, <2>6, <2>7 DEF Drives
    <3>3. tasks' = T \cup {n}
      BY <1>5 DEF n
    <3> QED
      BY <3>1, <3>2, <3>3, <2>7, <2>8 DEF DInv, OneDriver
  <2>11. CommandsDriven'
    <3> SUFFICES ASSUME NEW p \in Runs, NEW c \in Cmds PROVE CommandDriven(p, c)'
      BY DEF CommandsDriven
    <3>1. CASE p \in {q, r}
      <4>1. Released(p)
        BY <3>1, <2>2, <2>5, IdleReleased
      <4>2. CommandDriven(p, c) /\ cmd' = cmd /\ space' = space
        BY <1>5 DEF DInv, CommandsDriven
      <4> QED
        BY <4>1, <4>2 DEF CommandDriven, Released, Lost
    <3>2. CASE p \notin {q, r}
      <4>1. Quiet(p) => Quiet(p)'
        BY <3>2, <1>5, <2>7, <2>8 DEF Quiet, n
      <4>2. CommandDriven(p, c) /\ cmd' = cmd /\ space' = space /\ run'[p] = run[p]
        BY <3>2, <1>5, <2>6 DEF DInv, CommandsDriven
      <4> QED
        BY <4>1, <4>2 DEF CommandDriven, Lost
    <3> QED
      BY <3>1, <3>2
  <2>12. SpacesKept'
    <3> SUFFICES ASSUME NEW p \in Runs, NEW w \in Cmds PROVE SpaceKept(p, w)'
      BY DEF SpacesKept
    <3>1. /\ SpaceKept(p, w) /\ (Abandoned(p, w)' <=> Abandoned(p, w)) /\ (Lost(p, w)' <=> Lost(p, w))
          /\ space' = space
      BY <1>5 DEF DInv, SpacesKept, Abandoned, Lost
    <3>2. CASE p = r
      BY <3>1, <3>2 DEF SpaceKept, Ending
    <3>3. CASE p # r
      <4>1. run'[p].ws = run[p].ws /\ (run'[p].state = run[p].state \/ run'[p].state = "running")
        BY <3>3, <2>2, <2>6
      <4> QED
        BY <3>1, <4>1 DEF SpaceKept, Terminal
    <3> QED
      BY <3>2, <3>3
  <2>13. TicketFollows'
    <3>1. ticket'.cur = q /\ ticket'.status # "hitl"
      BY <1>2, <1>5 DEF TransitionOnRunStart, TicketType
    <3>2. \A p \in Runs : run'[p].state \in InFlight => p = q
      BY <1>1, <1>5, <2>6 DEF SlotFree
    <3> QED
      BY <3>1, <3>2, <2>2, <2>6 DEF TicketFollows, HitlMeansWaiting
  <2> QED
    BY <2>9, <2>10, <2>11, <2>12, <2>13 DEF DInv
<1> QED
  BY <1>4, <1>5 DEF EnterTerminal

-----------------------------------------------------------------------------
(* The helpers, in the order of the module.                                 *)

\* A transaction of the one driver of r works on row R: it is not parked, not
\* cleaning up, and its ticket is the run's.
InHand(r, R, tk, T) ==
  /\ R \in RowType /\ R.state = "running" /\ run[r].state \in InFlight
  /\ R.pending = 0 /\ R.pause = 0 /\ R.phase # "cleanup" /\ ~R.failed
  /\ R.minted = run[r].minted /\ R.ws = run[r].ws
  /\ Others(r, T) /\ Released(r)
  /\ tk \in TicketType /\ tk.cur = r /\ ticket.cur = r

\* The run goes on: nobody killed it, and its ticket waits for no human.
Going(r, R, tk, T) == InHand(r, R, tk, T) /\ ~R.killed /\ tk.status # "hitl"

\* No execution of R is running.
Idle(R) == R.exec.kind = "none"

\* What InHand looks at: S differs from R in its stage, its executions or its flags.
SameDriving(R, S) ==
  /\ S \in RowType /\ S.state = R.state /\ S.ws = R.ws /\ S.pending = R.pending
  /\ S.minted = R.minted /\ S.pause = R.pause /\ S.failed = R.failed /\ S.killed = R.killed
  /\ S.phase # "cleanup"

\* A row that differs in nothing that drives the run goes on as well.
LEMMA SameGoing ==
  ASSUME NEW r, NEW R, NEW S, NEW tk, NEW T, Going(r, R, tk, T), SameDriving(R, S)
  PROVE  Going(r, S, tk, T)
BY DEF Going, InHand, SameDriving

\* Only the run's own workspace may be active and uncleaned.
LEMMA OwnSpace ==
  ASSUME DInv, NEW r \in Runs, NEW w \in Cmds, Abandoned(r, w)
  PROVE  run[r].ws = w /\ w # 0 /\ run[r].state \notin Terminal
BY DEF DInv, SpacesKept, SpaceKept, Cmds

\* A running row in hand, given an execution, may be parked on a command.
LEMMA GoingParkable ==
  ASSUME DInv, NEW r \in Runs, NEW R, NEW tk, NEW T, Going(r, R, tk, T), ~Idle(R)
  PROVE  Parkable(r, R) /\ TicketFits(r, R, tk)
BY OwnSpace DEF Going, InHand, Idle, Parkable, TicketFits

\* The run goes on with one ROUTE_RUN or START_STAGE of its own.
LEMMA SendDriven ==
  ASSUME IInv, DInv, NEW r \in Runs, NEW R, NEW tk, NEW T, NEW m,
         Going(r, R, tk, T), Idle(R), m.run = r, m.type # "HANDLE_AGENT_EVENT",
         Save(r, R, tk, T \cup {m})
  PROVE  DInv'
<1>1. RowDriven(R) /\ R.state \notin Terminal /\ TicketFits(r, R, tk)
  BY DEF Going, InHand, Idle, RowDriven, OutcomeOk, TicketFits, Terminal
<1> DEFINE M == {m}
<1>2. \A n \in M : /\ n.run = r /\ n.type # "HANDLE_AGENT_EVENT" /\ R.state = "running"
                  /\ \A o \in M : o = n
  BY DEF Going, InHand
<1>3. Save(r, R, tk, T \cup M)
  OBVIOUS
<1> HIDE DEF M
<1> QED
  BY <1>1, <1>2, <1>3, SaveDriven DEF Going, InHand

\* A ROUTE_RUN of its own moves the run.
LEMMA RouteDriven ==
  ASSUME IInv, DInv, NEW r \in Runs, NEW R, NEW tk, NEW T, NEW i, NEW outcome,
         Going(r, R, tk, T), Idle(R), Save(r, R, tk, T \cup {RouteRun(r, i, outcome)})
  PROVE  DInv'
<1>1. RouteRun(r, i, outcome).run = r /\ RouteRun(r, i, outcome).type # "HANDLE_AGENT_EVENT"
  BY DEF RouteRun
<1> QED
  BY <1>1, SendDriven

\* A START_STAGE of its own moves the run.
LEMMA StartDriven ==
  ASSUME IInv, DInv, NEW r \in Runs, NEW R, NEW tk, NEW T, NEW i,
         Going(r, R, tk, T), Idle(R), Save(r, R, tk, T \cup {StartStage(r, i)})
  PROVE  DInv'
<1>1. StartStage(r, i).run = r /\ StartStage(r, i).type # "HANDLE_AGENT_EVENT"
  BY DEF StartStage
<1> QED
  BY <1>1, SendDriven

\* _finish_or_cleanup: the cleanup drives the run on, or there is nothing to
\* clean up and it ends.
LEMMA FinishOrCleanupDriven ==
  ASSUME IInv, DInv, NEW r \in Runs, NEW R, NEW target \in Terminal, NEW tk, NEW T,
         InHand(r, R, tk, T), Idle(R), R.killed <=> target = "killed",
         FinishOrCleanup(r, R, target, tk, T)
  PROVE  DInv'
<1> DEFINE D == [R EXCEPT !.failed = (target = "failed")]
           e == [NoExec EXCEPT !.kind = "cleanup"]
           K == [D EXCEPT !.exec = e, !.phase = "cleanup"]
<1>1. R \in RowType /\ tk \in TicketType
  BY DEF InHand
<1>e. e \in ExecType /\ e.kind = "cleanup"
  BY NoExecTyped DEF ExecType, SystemKinds
<1>2. /\ D \in RowType /\ D.state = R.state /\ D.ws = R.ws /\ D.pending = R.pending
      /\ D.minted = R.minted /\ D.pause = R.pause /\ D.phase = R.phase /\ D.exec = R.exec
      /\ (D.failed <=> target = "failed") /\ (D.killed <=> target = "killed")
  BY <1>1 DEF RowType
<1>3. CASE DispatchCleanupStage(r, D, tk, T)
  <2>2. DispatchViaWorkspace(r, K, "cleanup", tk, T)
    BY <1>3 DEF DispatchCleanupStage
  <2> HIDE DEF D, e
  <2>1. /\ K \in RowType /\ K.exec.kind = "cleanup" /\ K.phase = "cleanup"
        /\ K.state = R.state /\ K.ws = R.ws /\ K.minted = R.minted /\ K.pause = R.pause
        /\ (K.failed <=> target = "failed") /\ (K.killed <=> target = "killed")
    BY <1>2, <1>e DEF RowType
  <2> HIDE DEF K
  <2>3. Parkable(r, K) /\ TicketFits(r, K, tk)
    BY <2>1, OwnSpace DEF InHand, Parkable, TicketFits
  <2> QED
    BY <1>1, <2>2, <2>3, DispatchDriven DEF InHand
<1>4. CASE R.ws = 0 /\ EnterTerminal(r, D, target, tk, T)
  <2> HIDE DEF D
  <2>1. \A w \in Cmds : ~Abandoned(r, w)
    BY <1>4, OwnSpace DEF InHand
  <2>2. Ending(r, D, target)
    BY <1>2, <2>1 DEF Ending, InHand, Idle
  <2> QED
    BY <1>1, <1>4, <2>2, EnterTerminalDriven DEF InHand
<1> QED
  BY <1>3, <1>4 DEF FinishOrCleanup, InHand

\* Settling an execution leaves the run idle, and in hand.
LEMMA SettledGoing ==
  ASSUME NEW r, NEW R, NEW tk, NEW T, NEW status \in {"completed", "failed"}, Going(r, R, tk, T)
  PROVE  Going(r, Settled(R, status), tk, T) /\ Idle(Settled(R, status))
<1>1. R \in RowType
  BY DEF Going, InHand
<1>2. Settled(R, status) \in RowType /\ Settled(R, status).exec.kind = "none" /\ SameControl(R, Settled(R, status))
  BY <1>1, SettledRow
<1>3. /\ Settled(R, status).failed = R.failed /\ Settled(R, status).killed = R.killed
      /\ Settled(R, status).phase = R.phase
  BY <1>1 DEF Settled, RowType
<1>4. SameDriving(R, Settled(R, status))
  BY <1>2, <1>3 DEF SameDriving, SameControl, Going, InHand
<1> QED
  BY <1>2, <1>4, SameGoing DEF Idle

\* A failed stage is settled and routed.
LEMMA FailStageDriven ==
  ASSUME IInv, DInv, NEW r \in Runs, NEW R, NEW tk, NEW T, NEW i,
         Going(r, R, tk, T), FailStage(r, R, i, tk, T)
  PROVE  DInv'
BY SettledGoing, RouteDriven DEF FailStage

\* A fresh invocation: parked, rolled back, or failed at once.
LEMMA DispatchFreshDriven ==
  ASSUME IInv, DInv, NEW r \in Runs, NEW R, NEW e \in ExecType, NEW tk, NEW T,
         Going(r, R, tk, T), Idle(R), e.kind # "none", e.idx \in Stages,
         DispatchFresh(r, R, e, tk, T)
  PROVE  DInv'
<1> DEFINE i == e.idx
           P == [R EXCEPT !.exec = e, !.last = [idx |-> i, status |-> "running"]]
           F == [R EXCEPT !.last = [idx |-> i, status |-> "failed"]]
<1>1. R \in RowType /\ R.phase # "cleanup" /\ tk \in TicketType /\ i \in 0..Len(Pipeline)
  BY StagesTyped DEF Going, InHand
<1>2. SameDriving(R, P) /\ P.exec = e
  BY <1>1 DEF SameDriving, RowType, LastType
<1>3. SameDriving(R, F) /\ F.exec = R.exec
  BY <1>1 DEF SameDriving, RowType, LastType
<1>4. \/ DispatchViaWorkspace(r, P, "invoke", tk, T)
      \/ Save(r, F, tk, T \cup {RouteRun(r, i, "failure")})
  BY DEF DispatchFresh
<1> HIDE DEF i, P, F
<1>5. CASE DispatchViaWorkspace(r, P, "invoke", tk, T)
  <2>1. Going(r, P, tk, T) /\ ~Idle(P)
    BY <1>2, SameGoing DEF Idle
  <2> QED
    BY <1>1, <1>5, <2>1, GoingParkable, DispatchDriven DEF Going, InHand
<1>6. CASE Save(r, F, tk, T \cup {RouteRun(r, i, "failure")})
  BY <1>3, <1>6, SameGoing, RouteDriven DEF Idle
<1> QED
  BY <1>4, <1>5, <1>6

\* _dispatch_skill_stage and _dispatch_review_only_stage for stage i.
LEMMA DispatchStageInvocationDriven ==
  ASSUME IInv, DInv, NEW r \in Runs, NEW R, NEW i \in Stages, NEW tk, NEW T,
         Going(r, R, tk, T), Idle(R),
         DispatchSkillStage(r, R, i, tk, T) \/ DispatchReviewOnlyStage(r, R, i, tk, T)
  PROVE  DInv'
<1> DEFINE m == [kind |-> "skill", idx |-> i, phase |-> "main", iter |-> 0]
           v == [kind |-> "review", idx |-> i, phase |-> "review", iter |-> 1]
<1>1. m \in ExecType /\ v \in ExecType
  BY StagesTyped DEF ExecType
<1>2. m.kind # "none" /\ v.kind # "none" /\ m.idx = i /\ v.idx = i
  OBVIOUS
<1>3. DispatchFresh(r, R, m, tk, T) \/ DispatchFresh(r, R, v, tk, T)
  BY DEF DispatchSkillStage, DispatchReviewOnlyStage
<1> HIDE DEF m, v
<1> QED
  BY <1>1, <1>2, <1>3, DispatchFreshDriven

\* _dispatch_provision_stage: the run's workspace is not live, so a new one
\* leaves none behind.
LEMMA DispatchProvisionDriven ==
  ASSUME IInv, DInv, NEW r \in Runs, NEW R, NEW tk, NEW T,
         Going(r, R, tk, T), ~Live(r, R.ws), DispatchProvisionStage(r, R, tk, T)
  PROVE  DInv'
<1> DEFINE w == R.minted + 1
           e == [NoExec EXCEPT !.kind = "provision"]
           P == [R EXCEPT !.exec = e, !.ws = w, !.phase = "provision"]
<1>1. R \in RowType /\ tk \in TicketType /\ MaxCmds \in Nat
  BY BoundsAssumption DEF Going, InHand
<1>2. Park(r, P, "provision", w, tk, T)
  BY DEF DispatchProvisionStage
<1>3. e \in ExecType /\ e.kind = "provision"
  BY NoExecTyped DEF ExecType, SystemKinds
<1>4. P.minted = R.minted /\ R.minted \in 0..MaxCmds
  BY <1>1 DEF RowType
<1>5. w \in 0..MaxCmds /\ w \in Cmds
  BY <1>1, <1>2, <1>4 DEF Park, Cmds
<1> HIDE DEF w, e
<1>6. /\ P \in RowType /\ P.exec = e /\ P.ws = w /\ P.state = R.state /\ P.phase = "provision"
      /\ P.minted = R.minted /\ P.pause = R.pause /\ P.failed = R.failed /\ P.killed = R.killed
  BY <1>1, <1>3, <1>5 DEF RowType
<1> HIDE DEF P
<1>7. \A v \in Cmds : ~Abandoned(r, v)
  BY OwnSpace DEF Live, Abandoned, Going, InHand
<1>8. Parkable(r, P) /\ TicketFits(r, P, tk)
  BY <1>3, <1>6, <1>7 DEF Parkable, TicketFits, Going, InHand
<1> QED
  BY <1>1, <1>2, <1>5, <1>6, <1>8, ParkDriven DEF Going, InHand

\* START_STAGE, and the inline start after a send-back or an instruction.
LEMMA StartStageDriven ==
  ASSUME IInv, DInv, NEW r \in Runs, NEW R, NEW i \in Stages, NEW tk, NEW T,
         Going(r, R, tk, T), Idle(R), StartStageImpl(r, R, i, tk, T)
  PROVE  DInv'
<1>1. R \in RowType /\ R.state = "running" /\ R.phase # "cleanup" /\ i \in 0..Len(Pipeline)
  BY StagesTyped DEF Going, InHand
<1>2. CASE RunActionStage(r, R, i, tk, T)
  <2>1. PICK outcome \in {"success", "failure"} :
          Save(r, [R EXCEPT !.last = [idx |-> i,
                              status |-> IF outcome = "success" THEN "completed" ELSE "failed"]],
               tk, T \cup {RouteRun(r, i, outcome)})
    BY <1>2 DEF RunActionStage
  <2> DEFINE F == [R EXCEPT !.last = [idx |-> i,
                              status |-> IF outcome = "success" THEN "completed" ELSE "failed"]]
  <2>2. SameDriving(R, F) /\ F.exec = R.exec
    BY <1>1 DEF RowType, LastType, SameDriving
  <2>3. Save(r, F, tk, T \cup {RouteRun(r, i, outcome)})
    BY <2>1
  <2> HIDE DEF F
  <2> QED
    BY <2>2, <2>3, SameGoing, RouteDriven DEF Idle
<1>3. CASE ~Live(r, R.ws) /\ DispatchProvisionStage(r, R, tk, T)
  BY <1>3, DispatchProvisionDriven
<1>4. CASE \/ DispatchSkillStage(r, [R EXCEPT !.revision = 0], i, tk, T)
           \/ DispatchReviewOnlyStage(r, [R EXCEPT !.revision = 0], i, tk, T)
  <2> DEFINE F == [R EXCEPT !.revision = 0]
  <2>1. SameDriving(R, F) /\ F.exec = R.exec
    BY <1>1, StagesTyped DEF RowType, SameDriving
  <2>2. DispatchSkillStage(r, F, i, tk, T) \/ DispatchReviewOnlyStage(r, F, i, tk, T)
    BY <1>4
  <2> HIDE DEF F
  <2>3. Going(r, F, tk, T) /\ Idle(F)
    BY <2>1, SameGoing DEF Idle
  <2> QED
    BY <2>2, <2>3, DispatchStageInvocationDriven
<1> QED
  BY <1>1, <1>2, <1>3, <1>4 DEF StartStageImpl

-----------------------------------------------------------------------------
(* ROUTE_RUN and HANDLE_AGENT_EVENT.                                        *)

\* _dispatch_stage moves the run to a stage and sends its start.
LEMMA DispatchStageDriven ==
  ASSUME IInv, DInv, NEW r \in Runs, NEW R, NEW i \in Stages, NEW T,
         Going(r, R, ticket, T), Idle(R), DispatchStage(r, R, i, T)
  PROVE  DInv'
<1> DEFINE S == [R EXCEPT !.stage = i]
<1>1. R \in RowType /\ R.phase # "cleanup" /\ i \in 0..Len(Pipeline)
  BY StagesTyped DEF Going, InHand
<1>2. SameDriving(R, S) /\ S.exec = R.exec
  BY <1>1 DEF RowType, SameDriving
<1>3. Save(r, S, ticket, T \cup {StartStage(r, i)})
  BY DEF DispatchStage
<1> HIDE DEF S
<1> QED
  BY <1>2, <1>3, SameGoing, StartDriven DEF Idle

\* The row of a run that its one driver resumes.
LEMMA RowInHand ==
  ASSUME IInv, DInv, NEW r \in Runs, NEW R, NEW T, run[r].state = "running", run[r].phase # "cleanup",
         Others(r, T), Released(r), SameDriving([run[r] EXCEPT !.pending = 0], R)
  PROVE  Going(r, R, ticket, T)
<1>1. run[r] \in RowType /\ ticket \in TicketType /\ RowDriven(run[r])
  BY DEF IInv, TypeOK, DInv, RowsDriven
<1>2. ~run[r].failed /\ ~run[r].killed /\ run[r].pause = 0
  BY <1>1 DEF RowDriven, OutcomeOk, Terminal
<1>3. ticket.cur = r /\ ticket.status # "hitl"
  BY DEF DInv, TicketFollows, HitlMeansWaiting, InFlight
<1>4. /\ R \in RowType /\ R.state = "running" /\ R.pending = 0 /\ R.pause = 0 /\ R.phase # "cleanup"
      /\ R.failed = run[r].failed /\ R.killed = run[r].killed
      /\ R.minted = run[r].minted /\ R.ws = run[r].ws
  BY <1>1, <1>2 DEF SameDriving, RowType
<1> QED
  BY <1>1, <1>2, <1>3, <1>4 DEF Going, InHand, InFlight

\* A run that waits for no command, taken up.
LEMMA IdleInHand ==
  ASSUME IInv, DInv, NEW r \in Runs, NEW T, run[r].state = "running", run[r].pending = 0, Others(r, T)
  PROVE  Going(r, run[r], ticket, T) /\ Idle(run[r])
<1>1. run[r] \in RowType /\ RowDriven(run[r])
  BY DEF IInv, TypeOK, DInv, RowsDriven
<1>2. run[r].exec.kind = "none" /\ run[r].phase # "cleanup"
  BY <1>1 DEF RowDriven, Terminal
<1>3. SameDriving([run[r] EXCEPT !.pending = 0], run[r])
  BY <1>1, <1>2 DEF SameDriving, RowType
<1> QED
  BY <1>2, <1>3, IdleReleased, RowInHand DEF Idle

\* ROUTE_RUN: the run is started, moved on or finished.
LEMMA RouteRunDriven ==
  ASSUME IInv, DInv, NEW m \in tasks, m.type = "ROUTE_RUN", RouteRunImpl(m, tasks \ {m})
  PROVE  DInv'
<1> DEFINE r == m.run
           R == run[r]
           T == tasks \ {m}
<1>1. r \in Runs /\ m.idx \in 0..Len(Pipeline) /\ R \in RowType /\ Others(r, T)
  BY TakenUp DEF IInv, TypeOK, MsgType
<1>2. R.state = "running" /\ R.pending = 0
  BY DEF DInv, OneDriver, Drives
<1>3. Going(r, R, ticket, T) /\ Idle(R)
  BY <1>1, <1>2, IdleInHand
<1>4. InHand(r, R, ticket, T) /\ ~R.killed
  BY <1>3 DEF Going
<1>5. ASSUME NEW target \in {"failed", "cancelled", "completed"}, FinishOrCleanup(r, R, target, ticket, T)
      PROVE  DInv'
  BY <1>1, <1>3, <1>4, <1>5, FinishOrCleanupDriven DEF Terminal
<1>6. CASE DispatchStage(r, R, IF R.stage = 0 THEN 1 ELSE R.stage, T)
  <2>1. (IF R.stage = 0 THEN 1 ELSE R.stage) \in Stages
    <3>1. R.stage \in 0 .. Len(Pipeline)
      BY <1>1 DEF RowType
    <3> HIDE DEF R
    <3> QED
      BY <3>1, PipelineAssumption DEF Stages
  <2> QED
    BY <1>1, <1>3, <1>6, <2>1, DispatchStageDriven
<1>7. CASE m.idx < Len(Pipeline) /\ DispatchStage(r, R, m.idx + 1, T)
  <2>1. m.idx + 1 \in Stages
    BY <1>1, <1>7, PipelineAssumption DEF Stages
  <2> QED
    BY <1>1, <1>3, <1>7, <2>1, DispatchStageDriven
<1> QED
  BY <1>2, <1>5, <1>6, <1>7 DEF RouteRunImpl

\* _enter_pause: the run waits for a human and nothing else, and its ticket says so.
LEMMA EnterPauseDriven ==
  ASSUME IInv, DInv, NEW r \in Runs, NEW R, NEW i \in Stages, NEW tk, NEW T,
         Going(r, R, tk, T), Idle(R), EnterPause(r, R, i, tk, T)
  PROVE  DInv'
<1> DEFINE S == [R EXCEPT !.state = "paused", !.pause = i]
           left == TransitionOnRunPaused(tk, r)
<1>1. R \in RowType /\ i \in 0..Len(Pipeline) /\ i # 0 /\ tk \in TicketType
  BY StagesTyped DEF Stages, Going, InHand
<1>2. /\ S \in RowType /\ S.state = "paused" /\ S.pause = i /\ S.exec = R.exec /\ S.phase = R.phase
      /\ S.ws = R.ws /\ S.pending = R.pending /\ S.failed = R.failed /\ S.killed = R.killed
  BY <1>1 DEF RowType, RunStates, InFlight
<1>3. Save(r, S, left, T)
  BY DEF EnterPause
<1> HIDE DEF S
<1>4. left \in TicketType /\ left.cur = r /\ left.status # "running"
  BY <1>1, TicketTyped DEF TransitionOnRunPaused, TicketType, TicketTerminal, Terminal, Going, InHand
<1> HIDE DEF left
<1>5. RowDriven(S) /\ S.state \notin Terminal /\ S.pending = 0
  BY <1>1, <1>2 DEF Going, InHand, Idle, RowDriven, OutcomeOk, Terminal
<1>6. TicketFits(r, S, left)
  BY <1>2, <1>4 DEF Going, InHand, TicketFits
<1> QED
  BY <1>2, <1>3, <1>4, <1>5, <1>6, SaveQuietlyDriven DEF Going, InHand

\* _send_back_to_stage rewinds the run, or asks a human.
LEMMA SendBackDriven ==
  ASSUME IInv, DInv, NEW r \in Runs, NEW R, NEW i \in Stages, NEW j \in Targets(i),
         NEW tk, NEW T, Going(r, R, tk, T), Idle(R), SendBackToStage(r, R, i, j, tk, T)
  PROVE  DInv'
<1> DEFINE S == [R EXCEPT !.sentBack = @ \cup {j}, !.revision = j, !.stage = j]
<1>1. j \in Stages /\ j \in 0..Len(Pipeline) /\ R \in RowType /\ R.phase # "cleanup"
  BY StagesTyped DEF Targets, Stages, Going, InHand
<1>2. CASE EnterPause(r, R, i, tk, T)
  BY <1>2, EnterPauseDriven
<1>3. CASE StartStageImpl(r, S, j, tk, T)
  <2>1. SameDriving(R, S) /\ S.exec = R.exec
    BY <1>1 DEF RowType, SameDriving
  <2> HIDE DEF S
  <2> QED
    BY <1>1, <1>3, <2>1, SameGoing, StartStageDriven DEF Idle
<1> QED
  BY <1>2, <1>3 DEF SendBackToStage

\* _settle_stage_boundary sends back, pauses or routes on.
LEMMA SettleDriven ==
  ASSUME IInv, DInv, NEW r \in Runs, NEW R, NEW i \in Stages, NEW residuals,
         NEW tk, NEW T, Going(r, R, tk, T), SettleStageBoundary(r, R, i, residuals, tk, T)
  PROVE  DInv'
<1> DEFINE D == Settled(R, "completed")
<1>1. Going(r, D, tk, T) /\ Idle(D)
  BY SettledGoing
<1>2. \/ \E j \in Targets(i) : SendBackToStage(r, D, i, j, tk, T)
      \/ EnterPause(r, D, i, tk, T)
      \/ Save(r, D, tk, T \cup {RouteRun(r, i, "success")})
  BY DEF SettleStageBoundary
<1> HIDE DEF D
<1> QED
  BY <1>1, <1>2, SendBackDriven, EnterPauseDriven, RouteDriven

\* The next pass of the attached loop, on the same execution.
LEMMA InvokeAgainDriven ==
  ASSUME IInv, DInv, NEW r \in Runs, NEW R, NEW tk, NEW T, NEW e \in ExecType,
         Going(r, R, tk, T), e.kind # "none", InvokeAgain(r, R, e, tk, T)
  PROVE  DInv'
<1> DEFINE S == [R EXCEPT !.exec = e]
<1>1. R \in RowType /\ R.phase # "cleanup" /\ tk \in TicketType
  BY DEF Going, InHand
<1>2. CASE DispatchViaWorkspace(r, S, "invoke", tk, T)
  <2>1. SameDriving(R, S) /\ S.exec = e
    BY <1>1 DEF RowType, SameDriving
  <2> HIDE DEF S
  <2>2. Going(r, S, tk, T) /\ ~Idle(S)
    BY <2>1, SameGoing DEF Idle
  <2> QED
    BY <1>1, <1>2, <2>2, GoingParkable, DispatchDriven DEF Going, InHand
<1>3. CASE FailStage(r, R, e.idx, tk, T)
  BY <1>3, FailStageDriven
<1> QED
  BY <1>2, <1>3 DEF InvokeAgain

\* The execution of a review or fix pass is an execution record.
LEMMA PassTyped ==
  ASSUME NEW r, NEW R, NEW tk, NEW T, Going(r, R, tk, T), R.exec.kind # "none"
  PROVE  \A e \in {[R.exec EXCEPT !.phase = "review", !.iter = @ + 1], [R.exec EXCEPT !.phase = "fix"]} :
           e \in ExecType /\ e.kind # "none"
<1>1. R.exec \in ExecType
  BY DEF Going, InHand, RowType
<1>2. ASSUME NEW e \in ExecType
      PROVE  /\ [e EXCEPT !.phase = "fix"] \in ExecType /\ [e EXCEPT !.phase = "fix"].kind = e.kind
             /\ [e EXCEPT !.phase = "review", !.iter = @ + 1] \in ExecType
             /\ [e EXCEPT !.phase = "review", !.iter = @ + 1].kind = e.kind
  <2>1. [e EXCEPT !.phase = "fix"] \in ExecType /\ [e EXCEPT !.phase = "fix"].kind = e.kind
    BY DEF ExecType
  <2>2. ASSUME NEW n \in Nat
        PROVE  /\ [e EXCEPT !.phase = "review", !.iter = n] \in ExecType
               /\ [e EXCEPT !.phase = "review", !.iter = n].kind = e.kind
    BY DEF ExecType
  <2>3. e.iter + 1 \in Nat
    BY DEF ExecType
  <2> QED
    BY <2>1, <2>2, <2>3
<1> QED
  BY <1>1, <1>2

\* _dispatch_review_invocation and _dispatch_fix_invocation.
LEMMA PassDriven ==
  ASSUME IInv, DInv, NEW r \in Runs, NEW R, NEW tk, NEW T, Going(r, R, tk, T), R.exec.kind # "none",
         DispatchReviewInvocation(r, R, tk, T) \/ DispatchFixInvocation(r, R, tk, T)
  PROVE  DInv'
<1> DEFINE E == {[R.exec EXCEPT !.phase = "review", !.iter = @ + 1], [R.exec EXCEPT !.phase = "fix"]}
<1>1. \E e \in E : InvokeAgain(r, R, e, tk, T)
  BY DEF DispatchReviewInvocation, DispatchFixInvocation
<1>2. \A e \in E : e \in ExecType /\ e.kind # "none"
  BY PassTyped
<1> HIDE DEF E
<1> QED
  BY <1>1, <1>2, InvokeAgainDriven

\* _handle_main_return and _handle_fix_return.
LEMMA SkillReturnDriven ==
  ASSUME IInv, DInv, NEW r \in Runs, NEW R, NEW tk, NEW T,
         Going(r, R, tk, T), R.exec.kind # "none", R.exec.idx \in Stages,
         HandleMainReturn(r, R, tk, T) \/ HandleFixReturn(r, R, tk, T)
  PROVE  DInv'
<1> DEFINE i == R.exec.idx
           stored == Stored(R, tk)
           D == Settled(R, "completed")
<1>1. stored \in TicketType /\ stored.cur = tk.cur /\ stored.status = tk.status
  BY DEF TicketType, Stored, Going, InHand
<1>2. /\ \/ FailStage(r, R, i, tk, T)
         \/ \E j \in Targets(i) : SendBackToStage(r, D, i, j, tk, T)
         \/ SettleStageBoundary(r, R, i, FALSE, stored, T)
         \/ DispatchReviewInvocation(r, R, stored, T)
      /\ i \in Stages
  BY DEF HandleMainReturn, HandleFixReturn, NoArtifact
<1> HIDE DEF i, stored
<1>3. Going(r, R, stored, T)
  BY <1>1 DEF Going, InHand
<1>4. Going(r, D, tk, T) /\ Idle(D)
  BY SettledGoing
<1> HIDE DEF D
<1> QED
  BY <1>2, <1>3, <1>4, FailStageDriven, SendBackDriven, SettleDriven, PassDriven

\* _handle_review_return.
LEMMA ReviewReturnDriven ==
  ASSUME IInv, DInv, NEW r \in Runs, NEW R, NEW tk, NEW T,
         Going(r, R, tk, T), R.exec.kind # "none", R.exec.idx \in Stages,
         HandleReviewReturn(r, R, tk, T)
  PROVE  DInv'
BY FailStageDriven, PassDriven, SettleDriven DEF HandleReviewReturn

\* _handle_skill_stage_event, the auth-expired retry included.
LEMMA SkillStageEventDriven ==
  ASSUME IInv, DInv, NEW r \in Runs, NEW R, NEW outcome, NEW tk, NEW T,
         Going(r, R, tk, T), R.exec.kind # "none", R.exec.idx \in Stages,
         HandleSkillStageEvent(r, R, outcome, tk, T)
  PROVE  DInv'
<1> DEFINE i == R.exec.idx
           D == Settled(R, "failed")
           e == [NoExec EXCEPT !.kind = "refresh"]
           S == [D EXCEPT !.retried = @ \cup {i}, !.exec = e]
<1>1. \/ DispatchViaWorkspace(r, S, "refresh", tk, T)
      \/ FailStage(r, R, i, tk, T)
      \/ HandleReviewReturn(r, R, tk, T)
      \/ HandleMainReturn(r, R, tk, T) \/ HandleFixReturn(r, R, tk, T)
  BY DEF HandleSkillStageEvent
<1>2. Going(r, D, tk, T) /\ i \in Stages
  BY SettledGoing
<1>3. e \in ExecType /\ e.kind = "refresh"
  BY NoExecTyped DEF ExecType, SystemKinds
<1> HIDE DEF D, e, i
<1>4. SameDriving(D, S) /\ S.exec = e
  BY <1>2, <1>3 DEF RowType, SameDriving, Going, InHand
<1> HIDE DEF S
<1>5. CASE DispatchViaWorkspace(r, S, "refresh", tk, T)
  <2>1. Going(r, S, tk, T) /\ ~Idle(S)
    BY <1>2, <1>3, <1>4, SameGoing DEF Idle
  <2> QED
    BY <1>5, <2>1, GoingParkable, DispatchDriven DEF Going, InHand
<1> QED
  BY <1>1, <1>5, FailStageDriven, ReviewReturnDriven, SkillReturnDriven

\* _handle_review_stage_event.
LEMMA ReviewStageEventDriven ==
  ASSUME IInv, DInv, NEW r \in Runs, NEW R, NEW outcome, NEW tk, NEW T,
         Going(r, R, tk, T), R.exec.idx \in Stages, HandleReviewStageEvent(r, R, outcome, tk, T)
  PROVE  DInv'
BY FailStageDriven, SettleDriven DEF HandleReviewStageEvent

\* _finalize_after_cleanup: the outcome agrees with the row, and the cleanup
\* was sent to the run's own workspace.
LEMMA FinalizeDriven ==
  ASSUME IInv, DInv, NEW r \in Runs, NEW T, run[r].state = "running", run[r].pending # 0,
         run[r].exec.kind = "cleanup", Others(r, T), Released(r),
         FinalizeAfterCleanup(r, [Resumed(run[r]) EXCEPT !.exec = NoExec], ticket, T)
  PROVE  DInv'
<1> DEFINE R == [Resumed(run[r]) EXCEPT !.exec = NoExec]
<1>1. run[r] \in RowType /\ ticket \in TicketType /\ RowDriven(run[r]) /\ run[r].pending \in Cmds
  BY BoundsAssumption, SMTT(30) DEF IInv, TypeOK, DInv, RowsDriven, RowType, Cmds
<1>2. /\ R \in RowType /\ R.pending = 0 /\ R.exec.kind = "none" /\ R.pause = run[r].pause /\ R.ws = run[r].ws
      /\ R.failed = run[r].failed /\ R.killed = run[r].killed /\ R.state = run[r].state
  <2>1. 0 \in 0..MaxCmds
    BY BoundsAssumption
  <2> QED
    BY <1>1, <2>1, NoExecTyped DEF Resumed, RowType, NoExec
<1>3. ~(R.failed /\ R.killed) /\ R.pause = 0
  BY <1>1, <1>2 DEF RowDriven, OutcomeOk
<1>4. \A w \in Cmds : ~Abandoned(r, w)
  <2>1. cmd[r][run[r].pending].kind = "cleanup" /\ cmd[r][run[r].pending].ws = run[r].ws
    BY DEF IInv, ParkedOnItsExecution
  <2> QED
    BY <1>1, <2>1, OwnSpace DEF Abandoned
<1>5. EnterTerminal(r, R, TargetState(R), ticket, T)
  BY DEF FinalizeAfterCleanup
<1> HIDE DEF R
<1>6. /\ TargetState(R) \in Terminal
      /\ TargetState(R) = "completed" => ~R.failed /\ ~R.killed
      /\ TargetState(R) = "failed" => R.failed
      /\ TargetState(R) = "killed" => R.killed
  BY DEF TargetState, Terminal
<1>7. Ending(r, R, TargetState(R))
  BY <1>2, <1>3, <1>4, <1>6 DEF Ending, InFlight
<1>8. ticket.cur = r
  BY DEF DInv, TicketFollows, HitlMeansWaiting, InFlight
<1> QED
  BY <1>1, <1>5, <1>6, <1>7, <1>8, EnterTerminalDriven

\* _handle_system_stage_event of a provision or a refresh.
LEMMA SystemStageEventDriven ==
  ASSUME IInv, DInv, NEW r \in Runs, NEW R, NEW outcome, NEW tk, NEW T, tk = ticket,
         Going(r, R, tk, T), R.exec.kind # "cleanup", R.stage \in Stages,
         HandleSystemStageEvent(r, R, outcome, tk, T)
  PROVE  DInv'
<1> DEFINE over == [R EXCEPT !.exec = NoExec]
           S == [over EXCEPT !.phase = "stages"]
<1>1. R \in RowType /\ R.phase # "cleanup"
  BY DEF Going, InHand
<1>2. SameDriving(R, over) /\ over.exec.kind = "none" /\ over.stage = R.stage
  BY <1>1, NoExecTyped DEF RowType, NoExec, SameDriving
<1> HIDE DEF over
<1>3. Going(r, over, tk, T) /\ Idle(over) /\ over \in RowType
  BY <1>2, SameGoing DEF Idle, SameDriving
<1>4. SameDriving(over, S) /\ S.exec = over.exec
  BY <1>3 DEF RowType, SameDriving
<1>5. \/ FinishOrCleanup(r, over, "failed", tk, T)
      \/ Save(r, S, tk, T \cup {StartStage(r, R.stage)})
      \/ RetryAfterRefresh(r, over, tk, T)
  BY DEF HandleSystemStageEvent, over
<1> HIDE DEF S
<1>6. CASE FinishOrCleanup(r, over, "failed", tk, T)
  <2>1. InHand(r, over, tk, T) /\ ~over.killed
    BY <1>3 DEF Going
  <2> QED
    BY <1>3, <1>6, <2>1, FinishOrCleanupDriven DEF Terminal
<1>7. CASE Save(r, S, tk, T \cup {StartStage(r, R.stage)})
  BY <1>3, <1>4, <1>7, SameGoing, StartDriven DEF Idle
<1>8. CASE DispatchSkillStage(r, over, over.stage, tk, T)
  BY <1>2, <1>3, <1>8, DispatchStageInvocationDriven
<1> QED
  BY <1>5, <1>6, <1>7, <1>8 DEF RetryAfterRefresh

\* HANDLE_AGENT_EVENT: the answer of the pending command resumes the run.
LEMMA HandleAgentEventDriven ==
  ASSUME IInv, DInv, NEW m \in tasks, HandleAgentEventImpl(m, tasks \ {m})
  PROVE  DInv'
<1> DEFINE r == m.run
           R == run[r]
           P == Resumed(R)
           T == tasks \ {m}
<1>1. r \in Runs /\ R \in RowType /\ Others(r, T) /\ Released(r) /\ RowUsable(R) /\ RowDriven(R)
  BY TakenUp DEF IInv, TypeOK, MsgType, HandlersApplicable, DInv, RowsDriven
<1>2. CASE Drop(T)
  BY <1>2, DropDriven
<1>3. ASSUME R.state = "running", R.exec.kind \notin {"none", "cleanup"}
      PROVE  Going(r, P, ticket, T) /\ P.exec = R.exec /\ P.stage = R.stage
  <2>1. R.phase # "cleanup"
    BY <1>1, <1>3 DEF RowDriven, Terminal
  <2>2. SameDriving(P, P) /\ P = [R EXCEPT !.pending = 0] /\ P.exec = R.exec /\ P.stage = R.stage
    <3>1. 0 \in 0..MaxCmds
      BY BoundsAssumption
    <3> QED
      BY <1>1, <2>1, <3>1 DEF Resumed, RowType, SameDriving
  <2> QED
    BY <1>1, <1>3, <2>1, <2>2, RowInHand
<1>4. CASE R.state = "running" /\ R.exec.kind = "review" /\ HandleReviewStageEvent(r, P, m.outcome, ticket, T)
  BY <1>1, <1>3, <1>4, ReviewStageEventDriven DEF RowUsable
<1>5. CASE R.state = "running" /\ R.exec.kind = "skill" /\ HandleSkillStageEvent(r, P, m.outcome, ticket, T)
  BY <1>1, <1>3, <1>5, SkillStageEventDriven DEF RowUsable
<1>6. CASE /\ R.state = "running" /\ R.exec.kind \in SystemKinds \ {"cleanup"}
           /\ HandleSystemStageEvent(r, P, m.outcome, ticket, T)
  BY <1>1, <1>3, <1>6, SystemStageEventDriven DEF RowUsable, SystemKinds
<1>7. CASE /\ R.state = "running" /\ R.pending # 0 /\ R.exec.kind = "cleanup"
           /\ HandleSystemStageEvent(r, P, m.outcome, ticket, T)
  <2>1. P.exec.kind = "cleanup"
    BY <1>1, <1>7, ResumedRow
  <2>2. FinalizeAfterCleanup(r, [P EXCEPT !.exec = NoExec], ticket, T)
    BY <1>7, <2>1 DEF HandleSystemStageEvent
  <2> QED
    BY <1>1, <1>7, <2>2, FinalizeDriven
<1>8. R.exec.kind # "none" => R.pending # 0
  BY <1>1 DEF RowDriven
<1> QED
  BY <1>2, <1>4, <1>5, <1>6, <1>7, <1>8 DEF HandleAgentEventImpl, SystemKinds

-----------------------------------------------------------------------------
(* The actions.                                                              *)

\* Without redelivery a consumed message is gone.
LEMMA ConsumedOnce ==
  ASSUME IInv, NoRedelivery, NEW m \in tasks, NEW T, Consume(m, T)
  PROVE  T = tasks \ {m}
BY DEF Consume, NoRedelivery, IInv, TypeOK

\* The three task bodies, and the loss of a message.
LEMMA TasksDrive ==
  ASSUME IInv, DInv, NoRedelivery, RouteRunTask \/ StartStageTask \/ HandleAgentEventTask \/ LoseTask
  PROVE  DInv'
<1>1. CASE RouteRunTask
  BY <1>1, ConsumedOnce, RouteRunDriven DEF RouteRunTask
<1>2. CASE HandleAgentEventTask
  BY <1>2, ConsumedOnce, HandleAgentEventDriven DEF HandleAgentEventTask
<1>3. CASE StartStageTask
  <2>1. PICK m \in tasks : \E T \in {tasks, tasks \ {m}} :
          m.type = "START_STAGE" /\ Consume(m, T) /\ StartStageImpl(m.run, run[m.run], m.idx, ticket, T)
    BY <1>3 DEF StartStageTask
  <2>2. m.type = "START_STAGE" /\ StartStageImpl(m.run, run[m.run], m.idx, ticket, tasks \ {m})
    BY <2>1, ConsumedOnce
  <2>3. m.run \in Runs /\ m.idx \in Stages
    BY <2>2 DEF IInv, TypeOK, MsgType, HandlersApplicable, MessageUsable
  <2>4. run[m.run].state = "running" /\ run[m.run].pending = 0 /\ Others(m.run, tasks \ {m})
    BY <2>2, TakenUp DEF DInv, OneDriver, Drives
  <2>5. Going(m.run, run[m.run], ticket, tasks \ {m}) /\ Idle(run[m.run])
    BY <2>3, <2>4, IdleInHand
  <2> QED
    BY <2>2, <2>3, <2>5, StartStageDriven
<1>4. CASE LoseTask
  BY <1>4, DropDriven DEF LoseTask
<1> QED
  BY <1>1, <1>2, <1>3, <1>4

\* A step of an agent or the reaper leaves the rows and the ticket alone.
LEMMA OutsideDriven ==
  ASSUME DInv, run' = run, ticket' = ticket, OneDriver', CommandsDriven', SpacesKept'
  PROVE  DInv'
BY DEF DInv, RowsDriven, TicketFollows, HitlMeansWaiting

\* The messages stay as they are.
LEMMA SameMessages ==
  ASSUME DInv, run' = run, tasks' = tasks
  PROVE  OneDriver' /\ \A q \in Runs : Quiet(q)' <=> Quiet(q)
BY DEF DInv, OneDriver, Drives, Quiet

\* The answer of the command a quiet run waits for becomes its one driver.
LEMMA AnswerDrives ==
  ASSUME IInv, DInv, NEW r \in Runs, NEW outcome, run[r].pending # 0, Quiet(r), run' = run,
         tasks' = tasks \cup {AgentEvent(r, run[r].pending, outcome)}
  PROVE  OneDriver' /\ \A q \in Runs \ {r} : Quiet(q)' <=> Quiet(q)
<1> DEFINE n == AgentEvent(r, run[r].pending, outcome)
<1>1. n.run = r /\ n.type = "HANDLE_AGENT_EVENT" /\ n.cmd = run[r].pending
  BY DEF AgentEvent
<1> HIDE DEF n
<1>2. tasks' = tasks \cup {n} /\ \A m \in tasks : m.run # r
  BY DEF n, Quiet
<1>3. run[r].state = "running"
  BY DEF DInv, RowsDriven, RowDriven
<1>4. \A m \in tasks' : Drives(m)'
  BY <1>1, <1>2, <1>3 DEF DInv, OneDriver, Drives
<1> QED
  BY <1>1, <1>2, <1>4 DEF DInv, OneDriver, Quiet

\* claim_next: a pending command is claimed.
LEMMA ClaimsDrive ==
  ASSUME IInv, DInv, NEW r \in Runs, NEW c \in Cmds, AgentClaims(r, c)
  PROVE  DInv'
<1>1. /\ cmd \in [Runs -> [Cmds -> CmdType]] /\ cmd[r][c].status = "pending"
      /\ cmd' = [cmd EXCEPT ![r][c].status = "claimed"]
      /\ run' = run /\ space' = space /\ ticket' = ticket /\ tasks' = tasks
  BY DEF AgentClaims, IInv, TypeOK
<1>2. \A q \in Runs, d \in Cmds :
        /\ cmd'[q][d].kind = cmd[q][d].kind /\ cmd'[q][d].ws = cmd[q][d].ws
        /\ (q = r /\ d = c) \/ cmd'[q][d] = cmd[q][d]
  BY <1>1 DEF CmdType
<1>3. cmd'[r][c].status = "claimed" /\ cmd[r][c] # NoCmd
  BY <1>1 DEF CmdType, NoCmd
<1>4. OneDriver' /\ \A q \in Runs : Quiet(q)' <=> Quiet(q)
  BY <1>1, SameMessages
<1>5. CommandsDriven'
  BY <1>1, <1>2, <1>3, <1>4 DEF DInv, CommandsDriven, CommandDriven, Lost
<1>6. SpacesKept'
  BY <1>1, <1>2 DEF DInv, SpacesKept, SpaceKept, Abandoned, Lost
<1> QED
  BY <1>1, <1>4, <1>5, <1>6, OutsideDriven

\* The report of an agent that is there answers the command its run waits for.
LEMMA ReportsDrive ==
  ASSUME IInv, DInv, NEW r \in Runs, NEW c \in Cmds, NEW outcome, AgentReports(r, c, outcome)
  PROVE  DInv'
<1> DEFINE w == cmd[r][c].ws
           S == space[r][w]
           b == cmd[r][c].kind = "provision" /\ outcome = "success"
           S2 == [S EXCEPT !.claim = IF @ = c THEN 0 ELSE @, !.status = IF b THEN "active" ELSE @]
<1>1. /\ cmd \in [Runs -> [Cmds -> CmdType]] /\ space \in [Runs -> [Cmds -> SpaceType]]
      /\ cmd[r][c].status = "claimed" /\ S.agent # "lost"
      /\ cmd' = [cmd EXCEPT ![r][c].status = "done"]
      /\ space' = [space EXCEPT ![r][w] = S2]
      /\ tasks' = tasks \cup {AgentEvent(r, c, outcome)}
      /\ run' = run /\ ticket' = ticket
  BY DEF AgentReports, IInv, TypeOK
<1>2. w \in Cmds /\ run[r].pending = c /\ c # 0 /\ Quiet(r)
  BY <1>1 DEF DInv, CommandsDriven, CommandDriven, Lost, NoCmd, Cmds
<1>3. run[r].state = "running" /\ run[r].ws = w
  BY <1>2 DEF DInv, RowsDriven, RowDriven, IInv, ParkedOnItsExecution
<1>4. \A q \in Runs, d \in Cmds :
        /\ cmd'[q][d].kind = cmd[q][d].kind /\ cmd'[q][d].ws = cmd[q][d].ws
        /\ (q = r /\ d = c) \/ cmd'[q][d] = cmd[q][d]
  BY <1>1 DEF CmdType
<1>5. cmd'[r][c].status = "done" /\ cmd[r][c] # NoCmd
  BY <1>1 DEF CmdType, NoCmd
<1>6. S2.agent = S.agent /\ S2.status = IF b THEN "active" ELSE S.status
  <2>1. S \in SpaceType
    BY <1>1, <1>2
  <2> HIDE DEF S, b
  <2> QED
    BY <2>1 DEF SpaceType
<1> HIDE DEF S2
<1>7. \A q \in Runs, v \in Cmds :
        /\ space'[q][v].agent = space[q][v].agent
        /\ space'[q][v].status = IF q = r /\ v = w /\ b THEN "active" ELSE space[q][v].status
  <2> HIDE DEF w, b
  <2> QED
    BY <1>1, <1>2, <1>6
<1> HIDE DEF w, S, b
<1>8. OneDriver' /\ \A q \in Runs \ {r} : Quiet(q)' <=> Quiet(q)
  BY <1>1, <1>2, AnswerDrives
<1>9. CommandsDriven'
  <2> SUFFICES ASSUME NEW q \in Runs, NEW d \in Cmds PROVE CommandDriven(q, d)'
    BY DEF CommandsDriven
  <2>1. CommandDriven(q, d) /\ CommandDriven(r, c) /\ \A v \in Cmds : Lost(q, v)' <=> Lost(q, v)
    BY <1>7 DEF DInv, CommandsDriven, Lost
  <2>2. CASE q = r /\ d = c
    BY <2>1, <2>2, <1>4, <1>5 DEF CommandDriven
  <2>3. CASE q # r \/ d # c
    BY <2>1, <2>3, <1>1, <1>2, <1>4, <1>8 DEF CommandDriven
  <2> QED
    BY <2>2, <2>3
<1>10. SpacesKept'
  <2> SUFFICES ASSUME NEW q \in Runs, NEW v \in Cmds PROVE SpaceKept(q, v)'
    BY DEF SpacesKept
  <2>1. SpaceKept(q, v) /\ run' = run
    BY <1>1 DEF DInv, SpacesKept
  <2>2. CASE q = r /\ v = w
    <3>1. ~Lost(q, v)'
      BY <2>2, <1>1, <1>7 DEF Lost, S
    <3>2. run'[q].ws = v /\ run'[q].state \notin Terminal
      BY <2>1, <2>2, <1>3 DEF Terminal
    <3> QED
      BY <3>1, <3>2 DEF SpaceKept
  <2>3. CASE q # r \/ v # w
    BY <2>1, <2>3, <1>4, <1>7 DEF SpaceKept, Lost, Abandoned
  <2> QED
    BY <2>2, <2>3
<1> QED
  BY <1>1, <1>8, <1>9, <1>10, OutsideDriven

\* The reaper's sweeps, forgotten_workspaces and the agent-loss failsafe, which
\* answers for the pod that is gone.
LEMMA ReaperAndLossDrive ==
  ASSUME IInv, DInv, NEW r \in Runs, NEW w \in Cmds,
         ReaperExpires(r, w) \/ AgentForgets(r, w) \/ AgentLoss(r, w)
  PROVE  DInv'
<1> DEFINE S == space[r][w]
<1>1. /\ space \in [Runs -> [Cmds -> SpaceType]] /\ S \in SpaceType
      /\ run' = run /\ cmd' = cmd /\ ticket' = ticket
  BY DEF IInv, TypeOK, ReaperExpires, AgentForgets, AgentLoss
<1>2. ASSUME NEW X \in SpaceType
      PROVE  LET E == [X EXCEPT !.status = "expired"]
                 F == [X EXCEPT !.agent = "forgot"]
                 L == [X EXCEPT !.agent = "lost", !.status = IF @ = "active" THEN "expired" ELSE @]
             IN  /\ E.status = "expired" /\ E.agent = X.agent
                 /\ F.status = X.status /\ F.agent = "forgot"
                 /\ L.status # "active" /\ L.agent = "lost"
  BY DEF SpaceType
<1> DEFINE Ends(S2) == /\ space' = [space EXCEPT ![r][w] = S2]
                       /\ S2.status = "active" => S.status = "active"
                       /\ S2.agent = "lost" => "agent_lost" \in Faults /\ S2.status # "active"
                       /\ S.agent = "lost" => S2.agent = "lost"
<1>3. ASSUME NEW S2, Ends(S2)
      PROVE  /\ SpacesKept'
             /\ \A q \in Runs, v \in Cmds : Lost(q, v) => Lost(q, v)'
  <2> HIDE DEF S
  <2>1. \A q \in Runs, v \in Cmds : space'[q][v] = IF q = r /\ v = w THEN S2 ELSE space[q][v]
    BY <1>1, <1>3
  <2>2. \A q \in Runs, v \in Cmds : Abandoned(q, v)' => Abandoned(q, v)
    BY <1>1, <1>3, <2>1 DEF Abandoned, S
  <2>3. \A q \in Runs, v \in Cmds : Lost(q, v)' => "agent_lost" \in Faults /\ space'[q][v].status # "active"
    BY <1>3, <2>1 DEF DInv, SpacesKept, SpaceKept, Lost
  <2>4. \A q \in Runs, v \in Cmds : Lost(q, v) => Lost(q, v)'
    BY <1>3, <2>1 DEF Lost, S
  <2> QED
    BY <1>1, <2>2, <2>3, <2>4 DEF DInv, SpacesKept, SpaceKept
<1>4. ASSUME NEW S2, Ends(S2), tasks' = tasks
      PROVE  DInv'
  <2>1. OneDriver' /\ \A q \in Runs : Quiet(q)' <=> Quiet(q)
    BY <1>1, <1>4, SameMessages
  <2>2. SpacesKept' /\ \A q \in Runs, v \in Cmds : Lost(q, v) => Lost(q, v)'
    BY <1>3, <1>4
  <2>3. CommandsDriven'
    BY <1>1, <2>1, <2>2 DEF DInv, CommandsDriven, CommandDriven
  <2> QED
    BY <1>1, <2>1, <2>2, <2>3, OutsideDriven
<1>5. CASE ReaperExpires(r, w)
  <2> DEFINE S2 == [S EXCEPT !.status = "expired"]
  <2>1. space' = [space EXCEPT ![r][w] = S2] /\ tasks' = tasks /\ S.status = "active"
    BY <1>1, <1>5 DEF ReaperExpires
  <2>2. S2.status = "expired" /\ S2.agent = S.agent /\ (S.agent = "lost" => S.status # "active")
    BY <1>1, <1>2 DEF DInv, SpacesKept, SpaceKept, Lost
  <2> HIDE DEF S2, S
  <2>3. Ends(S2)
    BY <2>1, <2>2
  <2> QED
    BY <1>4, <2>1, <2>3
<1>6. CASE AgentForgets(r, w)
  <2> DEFINE S2 == [S EXCEPT !.agent = "forgot"]
  <2>1. space' = [space EXCEPT ![r][w] = S2] /\ tasks' = tasks /\ S.agent = "holds"
    BY <1>1, <1>6 DEF AgentForgets
  <2>2. S2.status = S.status /\ S2.agent = "forgot"
    BY <1>1, <1>2
  <2> HIDE DEF S2, S
  <2>3. Ends(S2)
    BY <2>1, <2>2
  <2> QED
    BY <1>4, <2>1, <2>3
<1>7. CASE AgentLoss(r, w)
  <2> DEFINE S2 == [S EXCEPT !.agent = "lost", !.status = IF @ = "active" THEN "expired" ELSE @]
             c == S.claim
  <2>1. /\ space' = [space EXCEPT ![r][w] = S2] /\ "agent_lost" \in Faults /\ S.agent # "lost"
        /\ tasks' = IF S.status = "active" /\ c # 0 THEN tasks \cup {AgentEvent(r, c, "failure")} ELSE tasks
    BY <1>7 DEF AgentLoss
  <2>2. S2.status # "active" /\ S2.agent = "lost"
    BY <1>1, <1>2
  <2>3. c \in 0..MaxCmds /\ (c # 0 => cmd[r][c].kind = "invoke" /\ cmd[r][c].ws = w /\ cmd[r][c].status # "done")
    BY <1>1 DEF IInv, SingleFlight, SpaceType
  <2>4. ~Lost(r, w)
    BY <2>1 DEF Lost
  <2> HIDE DEF S2, S, c
  <2>5. Ends(S2)
    BY <2>1, <2>2
  <2>6. CASE tasks' = tasks
    BY <1>4, <2>5, <2>6
  <2>7. CASE c # 0 /\ tasks' = tasks \cup {AgentEvent(r, c, "failure")}
    <3>1. c \in Cmds /\ cmd[r][c] # NoCmd
      BY <2>3, <2>7, BoundsAssumption DEF Cmds, NoCmd
    <3>2. run[r].pending = c /\ Quiet(r)
      BY <2>3, <2>4, <2>7, <3>1 DEF DInv, CommandsDriven, CommandDriven
    <3>3. OneDriver' /\ \A q \in Runs \ {r} : Quiet(q)' <=> Quiet(q)
      BY <1>1, <2>7, <3>2, AnswerDrives
    <3>4. SpacesKept' /\ \A q \in Runs, v \in Cmds : Lost(q, v) => Lost(q, v)'
      BY <1>3, <2>5
    <3>5. Lost(r, w)'
      BY <1>1, <2>1, <2>2 DEF Lost
    <3>6. CommandsDriven'
      <4> SUFFICES ASSUME NEW q \in Runs, NEW d \in Cmds PROVE CommandDriven(q, d)'
        BY DEF CommandsDriven
      <4>1. CommandDriven(q, d)
        BY DEF DInv, CommandsDriven
      <4>2. CASE q = r /\ d = c
        BY <4>1, <4>2, <1>1, <2>3, <2>7, <3>5 DEF CommandDriven
      <4>3. CASE q # r \/ d # c
        BY <4>1, <4>3, <1>1, <3>2, <3>3, <3>4 DEF CommandDriven
      <4> QED
        BY <4>2, <4>3
    <3> QED
      BY <1>1, <3>3, <3>4, <3>6, OutsideDriven
  <2> QED
    BY <2>1, <2>6, <2>7
<1> QED
  BY <1>5, <1>6, <1>7

\* No message moves a run that is not running.
LEMMA NobodyDrives ==
  ASSUME DInv, NEW r \in Runs, run[r].state # "running"
  PROVE  Others(r, tasks) /\ Released(r) /\ run[r].pending = 0 /\ run[r].exec.kind = "none"
BY IdleReleased DEF DInv, OneDriver, Drives, Others, RowsDriven, RowDriven

\* No message moves a quiet run.
LEMMA QuietOthers ==
  ASSUME NEW r \in Runs, Quiet(r)
  PROVE  Others(r, tasks)
BY DEF Quiet, Others

\* The ticket of a run that takes the free slot is the run's, and is not at `hitl`.
LEMMA PromotedTicket ==
  ASSUME IInv, DInv, NEW r \in Runs, SlotFree(r), run[r].state \notin InFlight
  PROVE  LET tk == TransitionOnRunStart(ticket, r)
         IN  tk \in TicketType /\ tk.cur = r /\ tk.status # "hitl"
<1>1. ticket.status # "hitl"
  BY DEF DInv, TicketFollows, HitlMeansWaiting, SlotFree, InFlight
<1>2. ticket \in TicketType
  BY DEF IInv, TypeOK
<1> QED
  BY <1>1, <1>2, TicketTyped DEF TransitionOnRunStart, TicketType, Terminal

\* The ticket stays when a row that is not in flight is written.
LEMMA WaitingTicket ==
  ASSUME DInv, NEW r \in Runs, NEW R, run[r].state \notin InFlight, R.state \notin InFlight
  PROVE  TicketFits(r, R, ticket)
BY DEF DInv, TicketFollows, HitlMeansWaiting, TicketFits, InFlight

\* A waiting run is promoted: ROUTE_RUN is its one driver.
LEMMA PromoteDriven ==
  ASSUME IInv, DInv, NEW r \in Runs, NEW R \in RowType, SlotFree(r), run[r].state \notin InFlight,
         R.state = "running", R.pending = 0, R.exec.kind = "none", R.pause = 0, R.phase # "cleanup",
         ~R.failed, ~R.killed, R.ws = run[r].ws,
         Save(r, R, TransitionOnRunStart(ticket, r), tasks \cup {RouteRun(r, 0, "none")})
  PROVE  DInv'
<1> DEFINE tk == TransitionOnRunStart(ticket, r)
           n == RouteRun(r, 0, "none")
           M == {n}
<1>1. tk \in TicketType /\ tk.cur = r /\ tk.status # "hitl"
  BY PromotedTicket
<1>2. Others(r, tasks) /\ Released(r)
  BY NobodyDrives DEF InFlight
<1>3. RowDriven(R) /\ R.state \notin Terminal
  BY DEF RowDriven, OutcomeOk, Terminal
<1>4. TicketFits(r, R, tk)
  BY <1>1 DEF TicketFits
<1>5. n.run = r /\ n.type # "HANDLE_AGENT_EVENT"
  BY DEF RouteRun
<1>6. Save(r, R, tk, tasks \cup M)
  OBVIOUS
<1> HIDE DEF tk, n
<1>7. \A m \in M : /\ m.run = r /\ m.type # "HANDLE_AGENT_EVENT" /\ R.state = "running"
                  /\ \A o \in M : o = m
  BY <1>5
<1> HIDE DEF M
<1> QED
  BY <1>1, <1>2, <1>3, <1>4, <1>6, <1>7, SaveDriven

\* A run that waits stays waiting, or is given up before it held anything.
LEMMA WaitDriven ==
  ASSUME IInv, DInv, NEW r \in Runs, NEW R \in RowType,
         run[r].state \in {"none", "inserting", "queued"}, R.state \in {"inserting", "queued", "cancelled"},
         R.pending = 0, R.exec.kind = "none", R.pause = 0, R.phase # "cleanup", ~R.failed, ~R.killed,
         R.ws = 0, Save(r, R, ticket, tasks)
  PROVE  DInv'
<1>1. run[r].state \notin InFlight \cup Terminal /\ R.state \notin InFlight
  BY DEF InFlight, Terminal
<1>2. Others(r, tasks) /\ Released(r) /\ ticket \in TicketType
  BY <1>1, NobodyDrives DEF InFlight, IInv, TypeOK
<1>3. RowDriven(R)
  BY DEF RowDriven, OutcomeOk, Terminal
<1>4. TicketFits(r, R, ticket)
  BY <1>1, WaitingTicket
<1>5. run[r].ws = 0
  BY DEF DInv, RowsDriven, RowDriven, NoRow
<1>6. \A w \in Cmds : ~Abandoned(r, w)
  BY <1>5, OwnSpace
<1> QED
  BY <1>2, <1>3, <1>4, <1>5, <1>6, SaveQuietlyDriven

\* start_run and start_rerun_from_stage.
LEMMA InsertDriven ==
  ASSUME IInv, DInv, NEW r \in Runs, NEW row \in RowType, row.pending = 0, row.exec.kind = "none",
         row.pause = 0, row.phase = "stages", ~row.failed, ~row.killed, row.ws = 0, InsertAndPromote(r, row)
  PROVE  DInv'
<1>1. run[r].state = "none" /\ run[r].ws = 0
  BY DEF InsertAndPromote, DInv, RowsDriven, RowDriven, NoRow
<1>2. ASSUME NEW st \in {"running", "inserting"}
      PROVE  LET N == [row EXCEPT !.state = st]
             IN  /\ N \in RowType /\ N.state = st /\ N.pending = 0 /\ N.exec.kind = "none" /\ N.pause = 0
                 /\ N.phase = "stages" /\ ~N.failed /\ ~N.killed /\ N.ws = 0
  BY DEF RowType, RunStates, InFlight
<1>3. CASE SlotFree(r) /\ Save(r, [row EXCEPT !.state = "running"], TransitionOnRunStart(ticket, r),
                               tasks \cup {RouteRun(r, 0, "none")})
  <2> DEFINE N == [row EXCEPT !.state = "running"]
  <2>1. /\ N \in RowType /\ N.state = "running" /\ N.pending = 0 /\ N.exec.kind = "none" /\ N.pause = 0
        /\ N.phase = "stages" /\ ~N.failed /\ ~N.killed /\ N.ws = 0
    BY <1>2
  <2>2. Save(r, N, TransitionOnRunStart(ticket, r), tasks \cup {RouteRun(r, 0, "none")})
    BY <1>3
  <2> HIDE DEF N
  <2> QED
    BY <1>1, <1>3, <2>1, <2>2, PromoteDriven DEF InFlight
<1>4. CASE Save(r, [row EXCEPT !.state = "inserting"], ticket, tasks)
  <2> DEFINE N == [row EXCEPT !.state = "inserting"]
  <2>1. /\ N \in RowType /\ N.state = "inserting" /\ N.pending = 0 /\ N.exec.kind = "none" /\ N.pause = 0
        /\ N.phase = "stages" /\ ~N.failed /\ ~N.killed /\ N.ws = 0
    BY <1>2
  <2>2. Save(r, N, ticket, tasks)
    BY <1>4
  <2> HIDE DEF N
  <2> QED
    BY <1>1, <2>1, <2>2, WaitDriven
<1> QED
  BY <1>3, <1>4 DEF InsertAndPromote

\* The rows that start_run and start_rerun_from_stage insert.
LEMMA StartsDrive ==
  ASSUME IInv, DInv, NEW r \in Runs, StartRun(r) \/ \E i \in Stages : StartRerunFromStage(r, i)
  PROVE  DInv'
<1>1. /\ 0 \in 0..MaxCmds /\ NoExec \in ExecType /\ NoLast \in LastType
      /\ {} \in SUBSET Stages
  BY BoundsAssumption, NoExecTyped, StagesTyped DEF NoLast, LastType
<1>2. /\ NoRow \in RowType /\ NoRow.pending = 0 /\ NoRow.exec.kind = "none" /\ NoRow.pause = 0
      /\ NoRow.phase = "stages" /\ ~NoRow.failed /\ ~NoRow.killed /\ NoRow.ws = 0
  BY <1>1, StagesTyped DEF NoRow, RowType, RunStates, NoExec
<1>3. CASE StartRun(r)
  BY <1>2, <1>3, InsertDriven DEF StartRun
<1>4. CASE \E i \in Stages : StartRerunFromStage(r, i)
  <2>1. PICK i \in Stages : InsertAndPromote(r, [NoRow EXCEPT !.stage = i, !.revision = i])
    BY <1>4 DEF StartRerunFromStage
  <2>2. i \in 0..Len(Pipeline)
    BY StagesTyped
  <2> DEFINE N == [NoRow EXCEPT !.stage = i, !.revision = i]
  <2>3. /\ N \in RowType /\ N.pending = 0 /\ N.exec.kind = "none" /\ N.pause = 0
        /\ N.phase = "stages" /\ ~N.failed /\ ~N.killed /\ N.ws = 0
    BY <1>2, <2>2 DEF RowType
  <2> HIDE DEF N
  <2> QED
    BY <2>1, <2>3, InsertDriven DEF N
<1> QED
  BY <1>3, <1>4

\* A paused run that a request resumes: its pause is closed, and the request
\* is what moves it.
LEMMA PausedInHand ==
  ASSUME IInv, DInv, NEW r \in Runs, run[r].state = "paused", NEW R \in RowType,
         R.state = "running", R.pause = 0, R.pending = run[r].pending, R.exec = run[r].exec,
         R.phase = run[r].phase, R.failed = run[r].failed, R.minted = run[r].minted, R.ws = run[r].ws
  PROVE  /\ InHand(r, R, ticket, tasks) /\ Idle(R) /\ ~run[r].killed
         /\ R.killed = run[r].killed => Going(r, R, TransitionOnRunResumed(ticket, r), tasks)
<1>1. Others(r, tasks) /\ Released(r) /\ run[r].pending = 0 /\ run[r].exec.kind = "none"
  BY NobodyDrives
<1>2. run[r].phase # "cleanup" /\ ~run[r].failed /\ ~run[r].killed
  BY DEF DInv, RowsDriven, RowDriven, OutcomeOk, Terminal
<1>3. ticket \in TicketType /\ ticket.cur = r
  BY DEF IInv, TypeOK, DInv, TicketFollows, HitlMeansWaiting, InFlight
<1>4. InHand(r, R, ticket, tasks)
  BY <1>1, <1>2, <1>3 DEF InHand, InFlight
<1> DEFINE tk == TransitionOnRunResumed(ticket, r)
<1>5. tk \in TicketType /\ tk.cur = r /\ tk.status # "hitl"
  BY <1>3, TicketTyped DEF TransitionOnRunResumed, TicketType, Terminal
<1> HIDE DEF tk
<1>6. R.killed = run[r].killed => Going(r, R, tk, tasks)
  BY <1>2, <1>4, <1>5 DEF Going, InHand
<1> QED
  BY <1>1, <1>2, <1>4, <1>6 DEF Idle, tk

\* The commit of a start, and request_cancel in each state of the run.
LEMMA CancelDriven ==
  ASSUME IInv, DInv, NEW r \in Runs, CommitStart(r) \/ RequestCancel(r)
  PROVE  DInv'
<1>1. run[r] \in RowType /\ RowDriven(run[r])
  BY DEF IInv, TypeOK, DInv, RowsDriven
<1>2. CASE CommitStart(r) \/ CancelQueued(r)
  <2>1. PICK st \in {"queued", "cancelled"} : Save(r, [run[r] EXCEPT !.state = st], ticket, tasks)
    BY <1>2 DEF CommitStart, CancelQueued
  <2>2. run[r].state \in {"inserting", "queued"}
    BY <1>2 DEF CommitStart, CancelQueued
  <2> DEFINE N == [run[r] EXCEPT !.state = st]
  <2>3. /\ N \in RowType /\ N.state = st /\ N.ws = run[r].ws /\ N.pending = run[r].pending
        /\ N.exec = run[r].exec /\ N.pause = run[r].pause /\ N.phase = run[r].phase
        /\ N.failed = run[r].failed /\ N.killed = run[r].killed
    BY <1>1 DEF RowType, RunStates, Terminal
  <2>4. /\ run[r].pending = 0 /\ run[r].exec.kind = "none" /\ run[r].pause = 0 /\ run[r].ws = 0
        /\ run[r].phase # "cleanup" /\ ~run[r].failed /\ ~run[r].killed
    BY <1>1, <2>2 DEF RowDriven, OutcomeOk, Terminal
  <2> HIDE DEF N
  <2>5. N.state \in {"inserting", "queued", "cancelled"} /\ Save(r, N, ticket, tasks)
    BY <2>1, <2>3 DEF N
  <2> QED
    BY <2>2, <2>3, <2>4, <2>5, WaitDriven
<1>3. CASE CancelRunning(r)
  <2> DEFINE N == [run[r] EXCEPT !.cancel = TRUE]
  <2>1. run[r].state # "none" /\ Save(r, N, ticket, tasks)
    BY <1>3 DEF CancelRunning, InFlight
  <2>2. /\ N.state = run[r].state /\ N.ws = run[r].ws /\ N.pending = run[r].pending
        /\ N.exec = run[r].exec /\ N.pause = run[r].pause /\ N.phase = run[r].phase
        /\ N.failed = run[r].failed /\ N.killed = run[r].killed
    BY <1>1 DEF RowType
  <2> HIDE DEF N
  <2>3. run' = [run EXCEPT ![r] = N] /\ cmd' = cmd /\ space' = space /\ ticket' = ticket /\ tasks' = tasks
    BY <2>1 DEF Save
  <2>4. run'[r] = N /\ \A q \in Runs \ {r} : run'[q] = run[q]
    BY <2>3 DEF IInv, TypeOK
  <2>5. RowsDriven'
    <3>1. RowDriven(N)
      BY <1>1, <2>1, <2>2 DEF RowDriven, OutcomeOk
    <3> QED
      BY <2>4, <3>1 DEF DInv, RowsDriven
  <2>6. OneDriver' /\ \A q \in Runs : Quiet(q)' <=> Quiet(q)
    BY <2>2, <2>3, <2>4 DEF DInv, OneDriver, Drives, Quiet, IInv, TypeOK, MsgType
  <2>7. CommandsDriven'
    BY <2>2, <2>3, <2>4, <2>6 DEF DInv, CommandsDriven, CommandDriven, Lost
  <2>8. SpacesKept'
    BY <2>2, <2>3, <2>4 DEF DInv, SpacesKept, SpaceKept, Abandoned, Lost
  <2>9. TicketFollows'
    BY <2>2, <2>3, <2>4 DEF DInv, TicketFollows, HitlMeansWaiting
  <2> QED
    BY <2>5, <2>6, <2>7, <2>8, <2>9 DEF DInv
<1>4. CASE CancelPaused(r)
  <2> DEFINE N == [run[r] EXCEPT !.state = "running", !.cancel = TRUE, !.pause = 0]
  <2>1. run[r].state = "paused" /\ FinishOrCleanup(r, N, "cancelled", ticket, tasks)
    BY <1>4 DEF CancelPaused
  <2>2. /\ N \in RowType /\ N.state = "running" /\ N.pause = 0 /\ N.ws = run[r].ws
        /\ N.pending = run[r].pending /\ N.minted = run[r].minted /\ N.exec = run[r].exec
    BY <1>1, StagesTyped DEF RowType, RunStates, InFlight
  <2>3. N.phase = run[r].phase /\ N.failed = run[r].failed /\ N.killed = run[r].killed
    BY <1>1 DEF RowType
  <2> HIDE DEF N
  <2>4. InHand(r, N, ticket, tasks) /\ Idle(N) /\ ~N.killed
    BY <2>1, <2>2, <2>3, PausedInHand
  <2> QED
    BY <2>1, <2>4, FinishOrCleanupDriven DEF Terminal
<1> QED
  BY <1>2, <1>3, <1>4 DEF RequestCancel

\* request_hitl_resolution: the human's decision is the one driver of the run.
LEMMA ResolveDriven ==
  ASSUME IInv, DInv, NEW r \in Runs, ResolvePause(r)
  PROVE  DInv'
<1> DEFINE i == run[r].pause
           N == [run[r] EXCEPT !.state = "running", !.pause = 0]
           K == [run[r] EXCEPT !.state = "running", !.pause = 0, !.killed = TRUE]
           tk == TransitionOnRunResumed(ticket, r)
<1>1. run[r] \in RowType /\ run[r].state = "paused"
  BY DEF ResolvePause, Approve, Instruct, Kill, HumanSendBack, IInv, TypeOK
<1>2. i \in Stages /\ i \in 0..Len(Pipeline)
  BY <1>1, StagesTyped DEF IInv, HandlersApplicable, RowUsable
<1>3. /\ N \in RowType /\ N.state = "running" /\ N.pause = 0 /\ N.ws = run[r].ws
      /\ N.pending = run[r].pending /\ N.minted = run[r].minted /\ N.exec = run[r].exec
      /\ N.phase = run[r].phase /\ N.failed = run[r].failed /\ N.killed = run[r].killed
  BY <1>1, StagesTyped DEF RowType, RunStates, InFlight
<1>4. /\ K \in RowType /\ K.state = "running" /\ K.pause = 0 /\ K.ws = run[r].ws
      /\ K.pending = run[r].pending /\ K.minted = run[r].minted /\ K.exec = run[r].exec
      /\ K.phase = run[r].phase /\ K.failed = run[r].failed /\ K.killed
  BY <1>1, StagesTyped DEF RowType, RunStates, InFlight
<1>5. CASE Approve(r)
  <2>1. Save(r, N, tk, tasks \cup {RouteRun(r, i, "success")})
    BY <1>5 DEF Approve
  <2> HIDE DEF N, i
  <2>2. Going(r, N, tk, tasks) /\ Idle(N)
    BY <1>1, <1>3, PausedInHand
  <2> QED
    BY <2>1, <2>2, RouteDriven
<1>6. CASE Kill(r)
  <2>1. FinishOrCleanup(r, K, "killed", ticket, tasks)
    BY <1>6 DEF Kill
  <2> HIDE DEF K
  <2>2. InHand(r, K, ticket, tasks) /\ Idle(K)
    BY <1>1, <1>4, PausedInHand
  <2> QED
    BY <1>4, <2>1, <2>2, FinishOrCleanupDriven DEF Terminal
<1>7. CASE \E j \in Stages : HumanSendBack(r, j)
  <2>1. PICK j \in Targets(i) : SendBackToStage(r, N, i, j, tk, tasks)
    BY <1>7 DEF HumanSendBack
  <2> HIDE DEF N
  <2>2. Going(r, N, tk, tasks) /\ Idle(N)
    BY <1>1, <1>3, PausedInHand
  <2> HIDE DEF i
  <2> QED
    BY <1>2, <2>1, <2>2, SendBackDriven
<1>8. CASE Instruct(r)
  <2> DEFINE S == [N EXCEPT !.stage = i, !.revision = i]
  <2>1. StartStageImpl(r, S, i, tk, tasks)
    BY <1>1, <1>8 DEF Instruct, RowType
  <2> HIDE DEF N
  <2>2. Going(r, N, tk, tasks) /\ Idle(N)
    BY <1>1, <1>3, PausedInHand
  <2> HIDE DEF i
  <2>3. SameDriving(N, S) /\ S.exec = N.exec
    BY <1>2, <1>3, <2>2 DEF RowType, SameDriving, Going, InHand
  <2> HIDE DEF S
  <2> QED
    BY <1>2, <2>1, <2>2, <2>3, SameGoing, StartStageDriven DEF Idle
<1> QED
  BY <1>5, <1>6, <1>7, <1>8 DEF ResolvePause

\* resume_stalled_runs: with no message delivered twice it fires only for a run
\* whose driver was lost, and is the new one.
LEMMA SweepsDrive ==
  ASSUME IInv, DInv, NoRedelivery, ResumeStalledRuns
  PROVE  DInv'
<1>1. ASSUME NEW r \in Runs, NEW m, SweepEnqueues(r, m)
      PROVE  Quiet(r) /\ Drop(tasks \cup {m})
  BY <1>1 DEF SweepEnqueues, NoRedelivery, IInv, TypeOK
<1>2. ASSUME NEW r \in Runs, ReconcileStaleRunning(r) PROVE DInv'
  <2> DEFINE l == run[r].last
             o == CASE l.status = "none" -> "none" [] l.status = "completed" -> "success" [] OTHER -> "failure"
  <2>1. /\ run[r].state = "running" /\ run[r].pending = 0
        /\ SweepEnqueues(r, RouteRun(r, l.idx, o))
    BY <1>2 DEF ReconcileStaleRunning, Replay
  <2> HIDE DEF l, o
  <2>2. Quiet(r) /\ Drop(tasks \cup {RouteRun(r, l.idx, o)})
    BY <1>1, <2>1
  <2>3. Save(r, run[r], ticket, tasks \cup {RouteRun(r, l.idx, o)})
    <3>1. run = [run EXCEPT ![r] = run[r]]
      BY DEF IInv, TypeOK
    <3> QED
      BY <2>2, <3>1 DEF Save, Drop
  <2>4. Going(r, run[r], ticket, tasks) /\ Idle(run[r])
    BY <2>1, <2>2, QuietOthers, IdleInHand
  <2> QED
    BY <2>3, <2>4, RouteDriven
<1>3. ASSUME NEW r \in Runs, ReconcileLostResume(r) PROVE DInv'
  <2> DEFINE c == run[r].pending
  <2>1. c # 0 /\ cmd[r][c].status = "done" /\ SweepEnqueues(r, AgentEvent(r, c, "failure"))
    BY <1>3 DEF ReconcileLostResume
  <2>2. Quiet(r) /\ Drop(tasks \cup {AgentEvent(r, c, "failure")})
    BY <1>1, <2>1
  <2>3. /\ run' = run /\ cmd' = cmd /\ space' = space /\ ticket' = ticket
        /\ tasks' = tasks \cup {AgentEvent(r, c, "failure")}
    BY <2>2 DEF Drop
  <2>4. OneDriver' /\ \A q \in Runs \ {r} : Quiet(q)' <=> Quiet(q)
    BY <2>1, <2>2, <2>3, AnswerDrives
  <2>5. CommandsDriven'
    BY <2>1, <2>3, <2>4 DEF DInv, CommandsDriven, CommandDriven, Lost
  <2>6. SpacesKept'
    BY <2>3 DEF DInv, SpacesKept, SpaceKept, Abandoned, Lost
  <2> QED
    BY <2>3, <2>4, <2>5, <2>6, OutsideDriven
<1>4. CASE ReconcileOrphanedQueued
  <2>1. PICK q \in Runs :
          /\ OldestQueued(q)
          /\ Save(q, [run[q] EXCEPT !.state = "running"], TransitionOnRunStart(ticket, q),
                  tasks \cup {RouteRun(q, 0, "none")})
    BY <1>4 DEF ReconcileOrphanedQueued
  <2> DEFINE N == [run[q] EXCEPT !.state = "running"]
  <2>2. run[q] \in RowType /\ run[q].state = "queued" /\ SlotFree(q) /\ RowDriven(run[q])
    BY <1>4, <2>1 DEF ReconcileOrphanedQueued, OldestQueued, Queued, SlotFree, IInv, TypeOK, DInv, RowsDriven
  <2>3. /\ N \in RowType /\ N.state = "running" /\ N.exec = run[q].exec /\ N.pause = run[q].pause
        /\ N.ws = run[q].ws /\ N.pending = run[q].pending /\ N.phase = run[q].phase
        /\ N.failed = run[q].failed /\ N.killed = run[q].killed
    BY <2>2 DEF RowType, RunStates, InFlight
  <2>4. Save(q, N, TransitionOnRunStart(ticket, q), tasks \cup {RouteRun(q, 0, "none")})
    BY <2>1
  <2> HIDE DEF N
  <2>5. N.pending = 0 /\ N.exec.kind = "none" /\ N.pause = 0 /\ N.phase # "cleanup" /\ ~N.failed /\ ~N.killed
    BY <2>2, <2>3 DEF RowDriven, OutcomeOk, Terminal
  <2> QED
    BY <2>2, <2>3, <2>4, <2>5, PromoteDriven DEF InFlight
<1> QED
  BY <1>2, <1>3, <1>4 DEF ResumeStalledRuns

-----------------------------------------------------------------------------
(* The invariant holds from the start and is kept by every step.            *)

\* No run is started, nothing is dispatched and no message is on its way.
LEMMA InitDriven == Init => DInv
<1> SUFFICES ASSUME Init PROVE DInv
  OBVIOUS
<1> USE DEF Init
<1>1. RowsDriven
  BY DEF RowsDriven, RowDriven, OutcomeOk, NoRow, NoExec, Terminal
<1>2. OneDriver /\ CommandsDriven
  BY DEF OneDriver, CommandsDriven, CommandDriven
<1>3. SpacesKept
  BY DEF SpacesKept, SpaceKept, Abandoned, Lost, NoSpace
<1>4. TicketFollows
  BY DEF TicketFollows, HitlMeansWaiting, NoRow, InFlight
<1> QED
  BY <1>1, <1>2, <1>3, <1>4 DEF DInv

\* Every step leaves each run with one driver.
LEMMA NextDrives ==
  ASSUME NoRedelivery, IInv, DInv, [Next]_vars
  PROVE  DInv'
<1>1. CASE RouteRunTask \/ StartStageTask \/ HandleAgentEventTask \/ LoseTask
  BY <1>1, TasksDrive
<1>2. CASE \E r \in Runs : StartRun(r) \/ \E i \in Stages : StartRerunFromStage(r, i)
  BY <1>2, StartsDrive
<1>3. CASE \E r \in Runs : CommitStart(r) \/ RequestCancel(r)
  BY <1>3, CancelDriven
<1>4. CASE \E r \in Runs : ResolvePause(r)
  BY <1>4, ResolveDriven
<1>5. CASE \E r \in Runs, c \in Cmds : AgentClaims(r, c)
  BY <1>5, ClaimsDrive
<1>6. CASE \E r \in Runs, c \in Cmds : ReaperExpires(r, c) \/ AgentForgets(r, c) \/ AgentLoss(r, c)
  BY <1>6, ReaperAndLossDrive
<1>7. CASE \E r \in Runs, c \in Cmds, outcome \in Outcomes : AgentReports(r, c, outcome)
  BY <1>7, ReportsDrive
<1>8. CASE ResumeStalledRuns
  BY <1>8, SweepsDrive
<1>9. CASE UNCHANGED vars
  BY <1>9, DropDriven DEF Drop, vars
<1> QED
  BY <1>1, <1>2, <1>3, <1>4, <1>5, <1>6, <1>7, <1>8, <1>9 DEF Next, Finished

\* The two invariants hold in every reachable state.
LEMMA OnceInductive ==
  ASSUME NoRedelivery
  PROVE  Spec => [](IInv /\ DInv)
<1>1. Init => IInv /\ DInv
  BY InitIInv, InitDriven
<1>2. IInv /\ DInv /\ [Next]_vars => (IInv /\ DInv)'
  BY NextKeeps, NextDrives DEF StepKeeps
<1> QED
  BY <1>1, <1>2, PTL DEF Spec

\* A killed run never ends completed or failed, a failed run has its reason and
\* a completed one none: the state _finalize_after_cleanup derives, many steps
\* later, is the one that was decided, as no second driver decides another.
THEOREM OutcomeHolds ==
  ASSUME NoRedelivery
  PROVE  Spec => []OutcomeMatchesRow
<1>1. DInv => OutcomeMatchesRow
  BY DEF DInv, RowsDriven, RowDriven, OutcomeOk, OutcomeMatchesRow
<1> QED
  BY <1>1, OnceInductive, PTL

\* _enter_terminal leaves no command waited for and no execution running.
THEOREM NothingPendingHolds ==
  ASSUME NoRedelivery
  PROVE  Spec => []NothingPendingAtTerminal
<1>1. DInv => NothingPendingAtTerminal
  BY DEF DInv, RowsDriven, RowDriven, NothingPendingAtTerminal, Terminal
<1> QED
  BY <1>1, OnceInductive, PTL

\* A run paused by _enter_pause waits for no agent and no message that could
\* move it: only request_hitl_resolution or a cancel does.
THEOREM PausedHolds ==
  ASSUME NoRedelivery
  PROVE  Spec => []PausedWaitsForHuman
<1>1. DInv => PausedWaitsForHuman
  BY DEF DInv, RowsDriven, RowDriven, OneDriver, Drives, Quiet, PausedWaitsForHuman
<1> QED
  BY <1>1, OnceInductive, PTL

\* The ticket asks for a human exactly while its run waits for one or is being
\* cleaned up after the human's kill or cancel, and is `running` with its run.
THEOREM HitlHolds ==
  ASSUME NoRedelivery
  PROVE  Spec => []HitlMeansWaiting
<1>1. DInv => HitlMeansWaiting
  BY DEF DInv, TicketFollows
<1> QED
  BY <1>1, OnceInductive, PTL

\* A run is over only after each workspace it ever provisioned was told to be
\* cleaned up or expired: re-provisioning after an expiry abandons none.
THEOREM NoWorkspaceAbandonedHolds ==
  ASSUME NoRedelivery
  PROVE  Spec => []NoLiveWorkspaceAbandoned
<1>1. DInv => NoLiveWorkspaceAbandoned
  BY DEF DInv, SpacesKept, SpaceKept, Abandoned, NoLiveWorkspaceAbandoned
<1> QED
  BY <1>1, OnceInductive, PTL

\* A run never has two agent commands outstanding while no pod is lost for
\* good; the failsafe of a lost pod answers for a command that no pod will.
THEOREM OneCommandHolds ==
  ASSUME NoRedelivery, "agent_lost" \notin Faults
  PROVE  Spec => []OneCommandOutstanding
<1>1. ASSUME DInv PROVE OneCommandOutstanding
  <2> SUFFICES ASSUME NEW r \in Runs, NEW c \in Cmds, cmd[r][c].status \in {"pending", "claimed"}
               PROVE  run[r].pending = c
    BY DEF OneCommandOutstanding
  <2>1. cmd[r][c] # NoCmd
    BY DEF NoCmd
  <2> QED
    BY <1>1, <2>1 DEF DInv, CommandsDriven, CommandDriven, SpacesKept, SpaceKept
<1> QED
  BY <1>1, OnceInductive, PTL

-----------------------------------------------------------------------------
(***************************************************************************)
(* A single-use revision reaches the stage it was written for, for every   *)
(* pipeline, every number of runs and any faults, while no task message is *)
(* delivered twice and none is lost.                                       *)
(*                                                                         *)
(* The stall sweep replays the boundary after the newest execution, which  *)
(* is not the one a send-back, an instruction or a rerun has aimed the run *)
(* at.  It fires for a run that no message moves, so the proof carries two *)
(* things along the calls of the code: where an unconsumed revision aims,  *)
(* and that a run waiting for no command has a message on its way.         *)
(***************************************************************************)
NoLoss == MaxLoss = 0

-----------------------------------------------------------------------------
(* The inductive invariant.                                                 *)

\* An unconsumed revision is for the current stage, and that stage has an
\* invocation to consume it.
Aimed(R) == R.revision # 0 => R.stage = R.revision /\ Pipeline[R.revision].kind # "action"

\* A dispatched invocation has consumed the revision; what it works on, and
\* what a human decides on, is no action.
RowAimed(R) ==
  /\ Aimed(R)
  /\ R.state = "paused" \/ R.exec.kind \in {"skill", "review", "refresh"} => R.revision = 0
  /\ R.pause # 0 => Pipeline[R.pause].kind # "action"
  /\ R.exec.kind \in {"skill", "review"} => Pipeline[R.exec.idx].kind # "action"

\* Once its provision has answered, the workspaces row of row R exists.
Provisioned(r, R) ==
  R.ws # 0 /\ R.state \in InFlight /\ R.exec.kind # "provision" => space[r][R.ws].status # "absent"

\* A running run that waits for no command has a message on its way.
Moved(r) == run[r].state = "running" /\ run[r].pending = 0 => ~Quiet(r)

\* A boundary is routed only with no revision unconsumed, a START_STAGE names
\* the current stage, and a success comes from a workspace whose row exists.
Expected(m) ==
  LET R == run[m.run] IN
  /\ m.type = "ROUTE_RUN" /\ m.idx # 0 => R.revision = 0
  /\ m.type = "START_STAGE" => m.idx = R.stage
  /\ m.type = "HANDLE_AGENT_EVENT" /\ m.outcome = "success" => space[m.run][R.ws].status # "absent"

RunsAimed == \A r \in Runs : RowAimed(run[r]) /\ Provisioned(r, run[r]) /\ Moved(r)

RInv == RunsAimed /\ \A m \in tasks : Expected(m)

-----------------------------------------------------------------------------
(* Ends of a transaction.                                                   *)

\* The messages of other runs stay, the run's own is consumed.
Rest(r, T) == Others(r, T) /\ \A m \in tasks : m.run # r => m \in T

\* What a transaction of run r sends when it leaves row R.
Sent(r, R, m) ==
  /\ m.run = r /\ m.type # "HANDLE_AGENT_EVENT"
  /\ m.type = "ROUTE_RUN" /\ m.idx # 0 => R.revision = 0
  /\ m.type = "START_STAGE" => m.idx = R.stage

\* The run waits for a command or a human, so the message that is given up
\* was not what moves it.
Droppable(r) == run[r].state = "running" => run[r].pending # 0

\* A workspace id of a row is in range.
LEMMA WorkspaceNamed ==
  ASSUME IInv, NEW r \in Runs, run[r].ws # 0
  PROVE  run[r].ws \in Cmds
<1>1. run[r] \in RowType
  BY DEF IInv, TypeOK
<1>2. run[r].ws \in 0..MaxCmds
  BY <1>1 DEF RowType
<1> QED
  BY <1>2, BoundsAssumption DEF Cmds

\* The answer of a command is for a run whose row names a workspace.
LEMMA AnswersNamed ==
  ASSUME IInv, DInv, NEW m \in tasks, m.type = "HANDLE_AGENT_EVENT"
  PROVE  run[m.run].ws \in Cmds
<1>1. m.run \in Runs /\ m.cmd \in 0..MaxCmds
  BY DEF IInv, TypeOK, MsgType
<1>2. run[m.run].pending = m.cmd /\ m.cmd # 0
  BY DEF DInv, OneDriver, Drives
<1>3. m.cmd \in Cmds /\ run[m.run].exec.kind # "none"
  BY <1>1, <1>2, BoundsAssumption DEF Cmds, DInv, RowsDriven, RowDriven
<1>4. cmd[m.run][m.cmd].ws = run[m.run].ws /\ cmd[m.run][m.cmd].kind # "none"
  BY <1>1, <1>2, <1>3 DEF IInv, ParkedOnItsExecution
<1> QED
  BY <1>1, <1>3, <1>4 DEF DInv, CommandsDriven, CommandDriven, NoCmd

\* No workspaces row disappears, and no message of another run changes.
LEMMA RestAimed ==
  ASSUME IInv, DInv, RInv, NEW r \in Runs, NEW T, Rest(r, T),
         \A q \in Runs \ {r} : run'[q] = run[q], T \subseteq tasks', \A m \in tasks' \ T : m.run = r,
         \A q \in Runs, w \in Cmds : space'[q][w].status = space[q][w].status
  PROVE  /\ \A q \in Runs \ {r} : RowAimed(run'[q]) /\ Provisioned(q, run[q])' /\ Moved(q)'
         /\ \A m \in T : Expected(m)'
<1>1. ASSUME NEW q \in Runs \ {r} PROVE RowAimed(run'[q]) /\ Provisioned(q, run[q])' /\ Moved(q)'
  <2>1. run[q].ws # 0 => run[q].ws \in Cmds
    BY WorkspaceNamed
  <2>2. Quiet(q)' => Quiet(q)
    BY DEF Quiet, Rest
  <2>3. RowAimed(run[q]) /\ Provisioned(q, run[q]) /\ Moved(q) /\ run'[q] = run[q]
    BY DEF RInv, RunsAimed
  <2>4. Provisioned(q, run[q])'
    BY <2>1, <2>3 DEF Provisioned
  <2>5. Moved(q)'
    BY <2>2, <2>3 DEF Moved
  <2> QED
    BY <2>3, <2>4, <2>5
<1>2. ASSUME NEW m \in T PROVE Expected(m)'
  <2>1. m \in tasks /\ m.run \in Runs \ {r} /\ Drives(m) /\ Expected(m)
    BY DEF Rest, Others, IInv, TypeOK, MsgType, DInv, OneDriver, RInv
  <2>2. m.type = "HANDLE_AGENT_EVENT" => run[m.run].ws \in Cmds
    BY <2>1, AnswersNamed
  <2> QED
    BY <2>1, <2>2 DEF Expected
<1> QED
  BY <1>1, <1>2

\* A commit that dispatches nothing, and sends at least one message when it
\* leaves the run running.
LEMMA SaveAims ==
  ASSUME IInv, DInv, RInv, NEW r \in Runs, NEW R, NEW tk, NEW T, NEW M,
         Rest(r, T), RowAimed(R), Provisioned(r, R),
         R.state = "running" /\ R.pending = 0 => M # {},
         \A m \in M : Sent(r, R, m), Save(r, R, tk, T \cup M)
  PROVE  RInv'
<1>1. /\ run' = [run EXCEPT ![r] = R] /\ run \in [Runs -> RowType]
      /\ tasks' = T \cup M /\ space' = space
  BY DEF Save, IInv, TypeOK
<1>2. run'[r] = R /\ \A q \in Runs \ {r} : run'[q] = run[q]
  BY <1>1
<1>3. /\ \A q \in Runs \ {r} : RowAimed(run'[q]) /\ Provisioned(q, run[q])' /\ Moved(q)'
      /\ \A m \in T : Expected(m)'
  <2>1. T \subseteq tasks' /\ \A m \in tasks' \ T : m.run = r
    BY <1>1 DEF Sent
  <2>2. \A q \in Runs, w \in Cmds : space'[q][w].status = space[q][w].status
    BY <1>1
  <2> QED
    BY <1>2, <2>1, <2>2, RestAimed
<1>4. RowAimed(run'[r]) /\ Provisioned(r, run[r])'
  BY <1>1, <1>2 DEF Provisioned
<1>5. Moved(r)'
  BY <1>1, <1>2 DEF Moved, Quiet, Sent
<1>6. \A m \in M : Expected(m)'
  BY <1>2 DEF Sent, Expected
<1> QED
  BY <1>1, <1>3, <1>4, <1>5, <1>6 DEF RInv, RunsAimed

\* An early return or a rollback of a transaction that was not what moves r.
LEMMA DropAims ==
  ASSUME IInv, DInv, RInv, NEW r \in Runs, NEW T, Rest(r, T), Droppable(r), Drop(T)
  PROVE  RInv'
<1>1. run' = run /\ space' = space /\ tasks' = T
  BY DEF Drop
<1>2. /\ \A q \in Runs \ {r} : RowAimed(run'[q]) /\ Provisioned(q, run[q])' /\ Moved(q)'
      /\ \A m \in T : Expected(m)'
  BY <1>1, RestAimed
<1>3. RowAimed(run'[r]) /\ Provisioned(r, run[r])' /\ Moved(r)'
  BY <1>1 DEF RInv, RunsAimed, Provisioned, Moved, Droppable
<1> QED
  BY <1>1, <1>2, <1>3 DEF RInv, RunsAimed

\* A dispatch parks the run.
LEMMA ParkAims ==
  ASSUME IInv, DInv, RInv, NEW r \in Runs, NEW R \in RowType, NEW tk, NEW T, NEW kind,
         Rest(r, T), RowAimed(R), Provisioned(r, R), R.ws \in Cmds, Park(r, R, kind, R.ws, tk, T)
  PROVE  RInv'
<1> DEFINE c == R.minted + 1
           w == R.ws
           P == [R EXCEPT !.minted = c, !.pending = c]
<1>1. /\ R.minted < MaxCmds /\ MaxCmds \in Nat /\ R.minted \in 0..MaxCmds
      /\ run \in [Runs -> RowType] /\ space \in [Runs -> [Cmds -> SpaceType]]
  BY BoundsAssumption DEF Park, IInv, TypeOK, RowType
<1>2. c \in 0..MaxCmds /\ c # 0
  BY <1>1
<1>3. /\ run' = [run EXCEPT ![r] = P]
      /\ space' = IF kind = "invoke" THEN [space EXCEPT ![r][w].claim = c] ELSE space
      /\ tasks' = T
  BY DEF Park
<1> HIDE DEF c
<1>4. /\ P.pending = c /\ P.ws = R.ws /\ P.exec = R.exec /\ P.state = R.state
      /\ P.pause = R.pause /\ P.revision = R.revision /\ P.stage = R.stage
  BY <1>1, <1>2 DEF RowType
<1> HIDE DEF w, P
<1>5. run'[r] = P /\ \A q \in Runs \ {r} : run'[q] = run[q]
  BY <1>1, <1>3
<1>6. \A q \in Runs, v \in Cmds : space'[q][v].status = space[q][v].status
  <2>1. ASSUME NEW S \in SpaceType PROVE [S EXCEPT !.claim = c].status = S.status
    BY DEF SpaceType
  <2>2. \A q \in Runs, v \in Cmds : /\ space[q][v] \in SpaceType
                                    /\ space'[q][v] = space[q][v] \/ space'[q][v] = [space[q][v] EXCEPT !.claim = c]
    BY <1>1, <1>3
  <2> QED
    BY <2>1, <2>2
<1>7. /\ \A q \in Runs \ {r} : RowAimed(run'[q]) /\ Provisioned(q, run[q])' /\ Moved(q)'
      /\ \A m \in T : Expected(m)'
  BY <1>3, <1>5, <1>6, RestAimed
<1>8. RowAimed(P)
  BY <1>4 DEF RowAimed, Aimed
<1>9. Provisioned(r, run[r])' /\ Moved(r)'
  BY <1>2, <1>4, <1>5, <1>6 DEF Provisioned, Moved
<1> QED
  BY <1>3, <1>5, <1>7, <1>8, <1>9 DEF RInv, RunsAimed

\* dispatch_via_workspace parks the run; it raises only where the message that
\* is lost was not what moves the run.
LEMMA DispatchAims ==
  ASSUME IInv, DInv, RInv, NEW r \in Runs, NEW R \in RowType, NEW tk, NEW T, NEW kind,
         Rest(r, T), RowAimed(R),
         Droppable(r) \/ (RowExists(r, R.ws) /\ (kind = "invoke" => Claimable(r, R.ws))),
         DispatchViaWorkspace(r, R, kind, tk, T)
  PROVE  RInv'
<1>1. CASE Droppable(r) /\ Drop(T)
  BY <1>1, DropAims
<1>2. CASE RowExists(r, R.ws) /\ Park(r, R, kind, R.ws, tk, T)
  <2>1. R.ws \in Cmds /\ Provisioned(r, R)
    BY <1>2, BoundsAssumption DEF RowExists, RowType, Cmds, Provisioned
  <2> QED
    BY <1>2, <2>1, ParkAims
<1> QED
  BY <1>1, <1>2 DEF DispatchViaWorkspace

\* The run is over; the oldest queued run is moved by a ROUTE_RUN.
LEMMA EnterTerminalAims ==
  ASSUME IInv, DInv, RInv, NEW r \in Runs, NEW R \in RowType, NEW state \in Terminal, NEW tk, NEW T,
         Rest(r, T), Aimed(R), R.exec.kind = "none", R.pause = 0, run[r].state \in InFlight,
         EnterTerminal(r, R, state, tk, T)
  PROVE  RInv'
<1> DEFINE D == [R EXCEPT !.state = state]
           left == TransitionOnRunTerminal(tk, r, TicketStatusOf(state))
<1>1. /\ D.state = state /\ D.exec = R.exec /\ D.pause = 0 /\ D.revision = R.revision
      /\ D.stage = R.stage /\ state \notin InFlight /\ state # "paused"
  BY DEF RowType, Terminal, InFlight
<1>2. CASE Save(r, D, left, T)
  <2>1. RowAimed(D) /\ Provisioned(r, D) /\ D.state # "running"
    BY <1>1 DEF RowAimed, Aimed, Provisioned, InFlight
  <2> DEFINE M == {}
  <2>2. Save(r, D, left, T \cup M)
    BY <1>2, T \cup {} = T
  <2>3. \A m \in M : Sent(r, D, m)
    OBVIOUS
  <2> HIDE DEF D, left, M
  <2> QED
    BY <2>1, <2>2, <2>3, SaveAims
<1>3. ASSUME NEW q \in Runs, OldestQueued(q),
             run' = [run EXCEPT ![r] = D, ![q].state = "running"],
             tasks' = T \cup {RouteRun(q, 0, "none")}, space' = space
      PROVE  RInv'
  <2> DEFINE Q == [run[q] EXCEPT !.state = "running"]
             n == RouteRun(q, 0, "none")
  <2>1. run \in [Runs -> RowType] /\ run[q] \in RowType /\ run[q].state = "queued" /\ q # r
    BY <1>3 DEF IInv, TypeOK, OldestQueued, Queued, InFlight
  <2>2. /\ Q.state = "running" /\ Q.exec = run[q].exec /\ Q.pause = run[q].pause
        /\ Q.ws = run[q].ws /\ Q.revision = run[q].revision /\ Q.stage = run[q].stage
    BY <2>1 DEF RowType
  <2>3. run' = [run EXCEPT ![r] = D, ![q] = Q]
    BY <1>3, <2>1
  <2>4. RowAimed(run[q]) /\ run[q].ws = 0
    BY <2>1 DEF RInv, RunsAimed, DInv, RowsDriven, RowDriven
  <2>5. RowAimed(Q) /\ Q.ws = 0
    BY <2>2, <2>4 DEF RowAimed, Aimed
  <2>6. n.run = q /\ n.type = "ROUTE_RUN" /\ n.idx = 0
    BY DEF RouteRun
  <2>7. RowAimed(D)
    BY <1>1 DEF RowAimed, Aimed
  <2> HIDE DEF D, Q, n
  <2>8. run'[r] = D /\ run'[q] = Q /\ \A p \in Runs \ {q, r} : run'[p] = run[p]
    BY <2>1, <2>3
  <2>9. tasks' = T \cup {n}
    BY <1>3 DEF n
  <2>10. \A m \in T : m \in tasks /\ m.run \in Runs \ {q, r} /\ Expected(m)
    BY <2>1 DEF Rest, Others, IInv, TypeOK, MsgType, DInv, OneDriver, Drives, RInv
  <2>11. \A m \in tasks' : Expected(m)'
    BY <1>3, <2>6, <2>8, <2>9, <2>10 DEF Expected
  <2>12. ASSUME NEW p \in Runs PROVE RowAimed(run'[p]) /\ Provisioned(p, run[p])' /\ Moved(p)'
    <3>1. CASE p = r
      BY <3>1, <1>1, <2>7, <2>8 DEF D, Provisioned, Moved, InFlight, Terminal
    <3>2. CASE p = q
      BY <3>2, <2>5, <2>6, <2>8, <2>9 DEF Provisioned, Moved, Quiet
    <3>3. CASE p \notin {q, r}
      <4>1. RowAimed(run[p]) /\ Provisioned(p, run[p]) /\ Moved(p) /\ run'[p] = run[p]
        BY <3>3, <2>8 DEF RInv, RunsAimed
      <4>2. Quiet(p)' => Quiet(p)
        BY <3>3, <2>9 DEF Quiet, Rest
      <4> QED
        BY <1>3, <4>1, <4>2 DEF Provisioned, Moved
    <3> QED
      BY <3>1, <3>2, <3>3
  <2> QED
    BY <2>11, <2>12 DEF RInv, RunsAimed
<1> QED
  BY <1>2, <1>3 DEF EnterTerminal

-----------------------------------------------------------------------------
(* The helpers, in the order of the module.                                 *)

\* The workspaces row that R names exists.
Held(r, R) == R.ws # 0 => space[r][R.ws].status # "absent"

\* A running row in hand: the run's other drivers are gone, and its revision,
\* if there is one, is for its current stage.
Aims(r, R, tk, T) == Going(r, R, tk, T) /\ Rest(r, T) /\ Aimed(R) /\ Held(r, R)

\* What Aims looks at: S is aimed, and differs from R in nothing that drives the run.
LEMMA SameAims ==
  ASSUME NEW r, NEW R, NEW S, NEW tk, NEW T, Aims(r, R, tk, T), SameDriving(R, S), Aimed(S)
  PROVE  Aims(r, S, tk, T)
BY SameGoing DEF Aims, SameDriving, Held

\* An idle row in hand may be committed with a message.
LEMMA AimsRow ==
  ASSUME NEW r, NEW R, NEW tk, NEW T, Aims(r, R, tk, T), Idle(R)
  PROVE  R \in RowType /\ R.state = "running" /\ R.pause = 0 /\ RowAimed(R) /\ Provisioned(r, R)
BY DEF Aims, Going, InHand, Idle, RowAimed, Held, Provisioned

\* The run goes on with one message of its own.
LEMMA SendAims ==
  ASSUME IInv, DInv, RInv, NEW r \in Runs, NEW R, NEW tk, NEW T, NEW m,
         Aims(r, R, tk, T), Idle(R), Sent(r, R, m), Save(r, R, tk, T \cup {m})
  PROVE  RInv'
<1> DEFINE M == {m}
<1>1. M # {} /\ (\A n \in M : Sent(r, R, n)) /\ Save(r, R, tk, T \cup M)
  OBVIOUS
<1>2. RowAimed(R) /\ Provisioned(r, R) /\ Rest(r, T)
  BY AimsRow DEF Aims
<1> HIDE DEF M
<1> QED
  BY <1>1, <1>2, SaveAims

\* A boundary is routed with the revision consumed.
LEMMA RouteAims ==
  ASSUME IInv, DInv, RInv, NEW r \in Runs, NEW R, NEW tk, NEW T, NEW i, NEW outcome,
         Aims(r, R, tk, T), Idle(R), R.revision = 0, Save(r, R, tk, T \cup {RouteRun(r, i, outcome)})
  PROVE  RInv'
<1>1. Sent(r, R, RouteRun(r, i, outcome))
  BY DEF RouteRun, Sent
<1> QED
  BY <1>1, SendAims

\* The current stage is started.
LEMMA StartAims ==
  ASSUME IInv, DInv, RInv, NEW r \in Runs, NEW R, NEW tk, NEW T, NEW i,
         Aims(r, R, tk, T), Idle(R), R.stage = i, Save(r, R, tk, T \cup {StartStage(r, i)})
  PROVE  RInv'
<1>1. Sent(r, R, StartStage(r, i))
  BY DEF StartStage, Sent
<1> QED
  BY <1>1, SendAims

\* _finish_or_cleanup: the cleanup is dispatched where a workspace may exist.
LEMMA FinishOrCleanupAims ==
  ASSUME IInv, DInv, RInv, NEW r \in Runs, NEW R \in RowType, NEW target \in Terminal, NEW tk, NEW T,
         Rest(r, T), Aimed(R), Idle(R), R.state = "running", R.pause = 0, run[r].state \in InFlight,
         Droppable(r) \/ Held(r, R), FinishOrCleanup(r, R, target, tk, T)
  PROVE  RInv'
<1> DEFINE D == [R EXCEPT !.failed = (target = "failed")]
           e == [NoExec EXCEPT !.kind = "cleanup"]
           K == [D EXCEPT !.exec = e, !.phase = "cleanup"]
<1>e. e \in ExecType /\ e.kind = "cleanup"
  BY NoExecTyped DEF ExecType, SystemKinds
<1>1. /\ D \in RowType /\ D.state = R.state /\ D.ws = R.ws /\ D.stage = R.stage
      /\ D.revision = R.revision /\ D.pause = R.pause /\ D.exec = R.exec
  BY DEF RowType
<1>2. CASE R.ws # 0 /\ DispatchCleanupStage(r, D, tk, T)
  <2>1. DispatchViaWorkspace(r, K, "cleanup", tk, T)
    BY <1>2 DEF DispatchCleanupStage
  <2> HIDE DEF D, e
  <2>a. K \in RowType
    BY <1>1, <1>e, ZenonT(60) DEF RowType
  <2>b. K.exec = e /\ K.state = D.state /\ K.ws = D.ws
    BY <1>1, SMTT(30) DEF RowType
  <2>c. K.stage = D.stage /\ K.revision = D.revision /\ K.pause = D.pause
    BY <1>1, SMTT(30) DEF RowType
  <2>2. /\ K \in RowType /\ K.exec = e /\ K.state = R.state /\ K.ws = R.ws /\ K.stage = R.stage
        /\ K.revision = R.revision /\ K.pause = R.pause
    BY <1>1, <2>a, <2>b, <2>c
  <2> HIDE DEF K
  <2>3. RowAimed(K)
    BY <1>e, <2>2 DEF RowAimed, Aimed
  <2>4. Droppable(r) \/ RowExists(r, K.ws)
    BY <1>2, <2>2 DEF Held, RowExists
  <2> QED
    BY <2>1, <2>2, <2>3, <2>4, DispatchAims
<1>3. CASE EnterTerminal(r, D, target, tk, T)
  <2> HIDE DEF D
  <2> QED
    BY <1>1, <1>3, EnterTerminalAims DEF Aimed, Idle
<1> QED
  BY <1>2, <1>3 DEF FinishOrCleanup

\* Settling an execution consumes no revision.
LEMMA SettledAims ==
  ASSUME NEW r, NEW R, NEW tk, NEW T, NEW status \in {"completed", "failed"}, Aims(r, R, tk, T)
  PROVE  LET S == Settled(R, status)
         IN  Aims(r, S, tk, T) /\ Idle(S) /\ S.revision = R.revision
<1> DEFINE S == Settled(R, status)
<1>1. R \in RowType
  BY DEF Aims, Going, InHand
<1>2. Going(r, S, tk, T) /\ Idle(S)
  BY SettledGoing DEF Aims
<1>3. S.revision = R.revision /\ S.stage = R.stage /\ S.ws = R.ws
  BY <1>1 DEF Settled, RowType
<1> HIDE DEF S
<1>4. Aims(r, S, tk, T)
  BY <1>2, <1>3 DEF Aims, Aimed, Held
<1> QED
  BY <1>2, <1>3, <1>4 DEF S

\* A failed stage is settled and routed.
LEMMA FailStageAims ==
  ASSUME IInv, DInv, RInv, NEW r \in Runs, NEW R, NEW tk, NEW T, NEW i,
         Aims(r, R, tk, T), R.revision = 0, FailStage(r, R, i, tk, T)
  PROVE  RInv'
<1> DEFINE S == Settled(R, "failed")
<1>1. Aims(r, S, tk, T) /\ Idle(S) /\ S.revision = 0 /\ Save(r, S, tk, T \cup {RouteRun(r, i, "failure")})
  BY SettledAims DEF FailStage
<1> HIDE DEF S
<1> QED
  BY <1>1, RouteAims

\* An active workspace of a run that no pod can still answer is claimable.
LEMMA LiveClaimable ==
  ASSUME IInv, DInv, NEW r \in Runs, NEW w \in Cmds, Released(r), Live(r, w)
  PROVE  RowExists(r, w) /\ Claimable(r, w)
<1>1. w # 0 /\ space[r][w].status = "active" /\ space[r][w].claim \in 0..MaxCmds
  BY DEF Live, IInv, TypeOK, SpaceType
<1>2. ASSUME space[r][w].claim # 0 PROVE FALSE
  <2> DEFINE c == space[r][w].claim
  <2>1. c \in Cmds
    BY <1>1, <1>2, BoundsAssumption DEF Cmds
  <2>2. cmd[r][c].kind = "invoke" /\ cmd[r][c].ws = w /\ cmd[r][c].status # "done"
    BY <1>2 DEF IInv, SingleFlight
  <2>3. Lost(r, w)
    BY <2>1, <2>2 DEF Released, NoCmd
  <2> QED
    BY <1>1, <2>3 DEF DInv, SpacesKept, SpaceKept
<1> QED
  BY <1>1, <1>2 DEF RowExists, Claimable

\* A fresh invocation of a stage that is no action, its revision consumed.
LEMMA DispatchFreshAims ==
  ASSUME IInv, DInv, RInv, NEW r \in Runs, NEW R, NEW e \in ExecType, NEW tk, NEW T,
         Aims(r, R, tk, T), Idle(R), R.revision = 0,
         e.kind \in {"skill", "review"}, e.idx \in Stages, Pipeline[e.idx].kind # "action",
         Droppable(r) \/ Live(r, R.ws), DispatchFresh(r, R, e, tk, T)
  PROVE  RInv'
<1> DEFINE i == e.idx
           P == [R EXCEPT !.exec = e, !.last = [idx |-> i, status |-> "running"]]
           F == [R EXCEPT !.last = [idx |-> i, status |-> "failed"]]
<1>1. R \in RowType /\ R.phase # "cleanup" /\ i \in 0..Len(Pipeline) /\ Released(r)
  BY StagesTyped DEF Aims, Going, InHand
<1>2. /\ P \in RowType /\ P.exec = e /\ P.revision = R.revision /\ P.stage = R.stage
      /\ P.ws = R.ws /\ P.state = R.state /\ P.pause = R.pause
  BY <1>1 DEF RowType, LastType
<1>3. SameDriving(R, F) /\ F.exec = R.exec /\ F.revision = R.revision /\ F.stage = R.stage
  BY <1>1 DEF SameDriving, RowType, LastType
<1>4. \/ DispatchViaWorkspace(r, P, "invoke", tk, T)
      \/ Save(r, F, tk, T \cup {RouteRun(r, i, "failure")})
  BY DEF DispatchFresh
<1>5. R.state = "running" /\ R.pause = 0
  BY DEF Aims, Going, InHand
<1> HIDE DEF i, P, F
<1>6. CASE DispatchViaWorkspace(r, P, "invoke", tk, T)
  <2>1. RowAimed(P)
    BY <1>2, <1>5 DEF RowAimed, Aimed
  <2>2. Live(r, R.ws) => RowExists(r, P.ws) /\ Claimable(r, P.ws)
    <3>1. R.ws # 0 => R.ws \in Cmds
      BY <1>1, BoundsAssumption DEF RowType, Cmds
    <3> QED
      BY <1>1, <1>2, <3>1, LiveClaimable DEF Live
  <2> QED
    BY <1>2, <1>6, <2>1, <2>2, DispatchAims DEF Aims
<1>7. CASE Save(r, F, tk, T \cup {RouteRun(r, i, "failure")})
  <2>1. Aims(r, F, tk, T) /\ Idle(F) /\ F.revision = 0
    BY <1>3, SameAims DEF Idle, Aimed
  <2> QED
    BY <1>7, <2>1, RouteAims
<1> QED
  BY <1>4, <1>6, <1>7

\* _dispatch_skill_stage and _dispatch_review_only_stage for stage i.
LEMMA DispatchStageInvocationAims ==
  ASSUME IInv, DInv, RInv, NEW r \in Runs, NEW R, NEW i \in Stages, NEW tk, NEW T,
         Aims(r, R, tk, T), Idle(R), R.revision = 0, Pipeline[i].kind # "action",
         Droppable(r) \/ Live(r, R.ws),
         DispatchSkillStage(r, R, i, tk, T) \/ DispatchReviewOnlyStage(r, R, i, tk, T)
  PROVE  RInv'
<1> DEFINE m == [kind |-> "skill", idx |-> i, phase |-> "main", iter |-> 0]
           v == [kind |-> "review", idx |-> i, phase |-> "review", iter |-> 1]
<1>1. m \in ExecType /\ v \in ExecType
  BY StagesTyped DEF ExecType
<1>2. m.kind \in {"skill", "review"} /\ v.kind \in {"skill", "review"} /\ m.idx = i /\ v.idx = i
  OBVIOUS
<1>3. DispatchFresh(r, R, m, tk, T) \/ DispatchFresh(r, R, v, tk, T)
  BY DEF DispatchSkillStage, DispatchReviewOnlyStage
<1> HIDE DEF m, v
<1> QED
  BY <1>1, <1>2, <1>3, DispatchFreshAims

\* _dispatch_provision_stage keeps the revision for the stage it delays.
LEMMA DispatchProvisionAims ==
  ASSUME IInv, DInv, RInv, NEW r \in Runs, NEW R, NEW tk, NEW T,
         Aims(r, R, tk, T), DispatchProvisionStage(r, R, tk, T)
  PROVE  RInv'
<1> DEFINE w == R.minted + 1
           e == [NoExec EXCEPT !.kind = "provision"]
           P == [R EXCEPT !.exec = e, !.ws = w, !.phase = "provision"]
<1>1. R \in RowType /\ R.state = "running" /\ R.pause = 0 /\ MaxCmds \in Nat
  BY BoundsAssumption DEF Aims, Going, InHand
<1>2. Park(r, P, "provision", w, tk, T)
  BY DEF DispatchProvisionStage
<1>3. e \in ExecType /\ e.kind = "provision"
  BY NoExecTyped DEF ExecType, SystemKinds
<1>4. P.minted = R.minted /\ R.minted \in 0..MaxCmds
  BY <1>1 DEF RowType
<1>5. w \in 0..MaxCmds /\ w \in Cmds
  BY <1>1, <1>2, <1>4 DEF Park, Cmds
<1> HIDE DEF w, e
<1>6. /\ P \in RowType /\ P.exec = e /\ P.ws = w /\ P.state = R.state
      /\ P.pause = R.pause /\ P.revision = R.revision /\ P.stage = R.stage
  BY <1>1, <1>3, <1>5 DEF RowType
<1> HIDE DEF P
<1>7. RowAimed(P) /\ Provisioned(r, P) /\ Rest(r, T)
  BY <1>1, <1>3, <1>6 DEF RowAimed, Aimed, Provisioned, Aims
<1> QED
  BY <1>2, <1>5, <1>6, <1>7, ParkAims

\* The start of the current stage: an action has no revision to consume, a
\* provision keeps it, and an invocation consumes it.
LEMMA StartStageAims ==
  ASSUME IInv, DInv, RInv, NEW r \in Runs, NEW R, NEW i \in Stages, NEW tk, NEW T,
         Aims(r, R, tk, T), Idle(R), R.stage = i, StartStageImpl(r, R, i, tk, T)
  PROVE  RInv'
<1>1. R \in RowType /\ R.state = "running" /\ R.phase # "cleanup" /\ i \in 0..Len(Pipeline)
  BY StagesTyped DEF Aims, Going, InHand
<1>2. CASE Pipeline[i].kind = "action" /\ RunActionStage(r, R, i, tk, T)
  <2>1. PICK outcome \in {"success", "failure"} :
          Save(r, [R EXCEPT !.last = [idx |-> i,
                              status |-> IF outcome = "success" THEN "completed" ELSE "failed"]],
               tk, T \cup {RouteRun(r, i, outcome)})
    BY <1>2 DEF RunActionStage
  <2> DEFINE F == [R EXCEPT !.last = [idx |-> i,
                              status |-> IF outcome = "success" THEN "completed" ELSE "failed"]]
  <2>2. SameDriving(R, F) /\ F.exec = R.exec /\ F.revision = R.revision
    BY <1>1 DEF RowType, LastType, SameDriving
  <2>3. Save(r, F, tk, T \cup {RouteRun(r, i, outcome)})
    BY <2>1
  <2> HIDE DEF F
  <2>4. R.revision = 0
    BY <1>2 DEF Aims, Aimed
  <2>5. Aims(r, F, tk, T) /\ Idle(F)
    BY <2>2, <2>4, SameAims DEF Idle, Aimed
  <2> QED
    BY <2>2, <2>3, <2>4, <2>5, RouteAims
<1>3. CASE DispatchProvisionStage(r, R, tk, T)
  BY <1>3, DispatchProvisionAims
<1>4. CASE /\ Live(r, R.ws) /\ Pipeline[i].kind # "action"
           /\ \/ DispatchSkillStage(r, [R EXCEPT !.revision = 0], i, tk, T)
              \/ DispatchReviewOnlyStage(r, [R EXCEPT !.revision = 0], i, tk, T)
  <2> DEFINE F == [R EXCEPT !.revision = 0]
  <2>1. SameDriving(R, F) /\ F.exec = R.exec /\ F.revision = 0 /\ F.ws = R.ws
    BY <1>1, StagesTyped DEF RowType, SameDriving
  <2>2. DispatchSkillStage(r, F, i, tk, T) \/ DispatchReviewOnlyStage(r, F, i, tk, T)
    BY <1>4
  <2> HIDE DEF F
  <2>3. Aims(r, F, tk, T) /\ Idle(F)
    BY <2>1, SameAims DEF Idle, Aimed
  <2> QED
    BY <1>4, <2>1, <2>2, <2>3, DispatchStageInvocationAims
<1> QED
  BY <1>1, <1>2, <1>3, <1>4 DEF StartStageImpl

-----------------------------------------------------------------------------
(* ROUTE_RUN and HANDLE_AGENT_EVENT.                                        *)

\* _dispatch_stage moves the run to a stage that its revision, if any, is for.
LEMMA DispatchStageAims ==
  ASSUME IInv, DInv, RInv, NEW r \in Runs, NEW R, NEW i \in Stages, NEW T,
         Aims(r, R, ticket, T), Idle(R), R.revision \in {0, i}, DispatchStage(r, R, i, T)
  PROVE  RInv'
<1> DEFINE S == [R EXCEPT !.stage = i]
<1>1. R \in RowType /\ R.phase # "cleanup" /\ i \in 0..Len(Pipeline)
  BY StagesTyped DEF Aims, Going, InHand
<1>2. SameDriving(R, S) /\ S.exec = R.exec /\ S.stage = i /\ S.revision = R.revision
  BY <1>1 DEF RowType, SameDriving
<1>3. Save(r, S, ticket, T \cup {StartStage(r, i)})
  BY DEF DispatchStage
<1> HIDE DEF S
<1>4. Aims(r, S, ticket, T) /\ Idle(S)
  BY <1>2, SameAims DEF Idle, Aims, Aimed
<1> QED
  BY <1>2, <1>3, <1>4, StartAims

\* A run that waits for no command, taken up with its message.
LEMMA IdleAims ==
  ASSUME IInv, DInv, RInv, NEW r \in Runs, NEW T, run[r].state = "running", run[r].pending = 0, Rest(r, T)
  PROVE  Aims(r, run[r], ticket, T) /\ Idle(run[r])
<1>1. Going(r, run[r], ticket, T) /\ Idle(run[r])
  BY IdleInHand DEF Rest
<1>2. Aimed(run[r]) /\ Provisioned(r, run[r])
  BY DEF RInv, RunsAimed, RowAimed
<1> QED
  BY <1>1, <1>2 DEF Aims, Held, Provisioned, Idle, InFlight

\* Taking a message up leaves those of the other runs.
LEMMA TakenUpRest ==
  ASSUME IInv, DInv, NEW m \in tasks
  PROVE  m.run \in Runs /\ Rest(m.run, tasks \ {m})
<1>1. Others(m.run, tasks \ {m})
  BY TakenUp
<1> QED
  BY <1>1 DEF Rest, IInv, TypeOK, MsgType

\* ROUTE_RUN: a run with an unconsumed revision is only ever started.
LEMMA RouteRunAims ==
  ASSUME IInv, DInv, RInv, NEW m \in tasks, m.type = "ROUTE_RUN", RouteRunImpl(m, tasks \ {m})
  PROVE  RInv'
<1> DEFINE r == m.run
           R == run[r]
           T == tasks \ {m}
<1>1. r \in Runs /\ m.idx \in 0..Len(Pipeline) /\ R \in RowType /\ Rest(r, T)
  BY TakenUpRest DEF IInv, TypeOK, MsgType
<1>2. R.state = "running" /\ R.pending = 0
  BY DEF DInv, OneDriver, Drives
<1>3. Aims(r, R, ticket, T) /\ Idle(R)
  BY <1>1, <1>2, IdleAims
<1>4. m.idx # 0 => R.revision = 0
  BY DEF RInv, Expected
<1>5. ASSUME NEW target \in {"failed", "cancelled", "completed"}, FinishOrCleanup(r, R, target, ticket, T)
      PROVE  RInv'
  <2>1. Aimed(R) /\ R.pause = 0 /\ Held(r, R) /\ R.state \in InFlight /\ target \in Terminal
    BY <1>2, <1>3 DEF Aims, Going, InHand, InFlight, Terminal
  <2> QED
    BY <1>1, <1>2, <1>3, <1>5, <2>1, FinishOrCleanupAims
<1>6. CASE DispatchStage(r, R, IF R.stage = 0 THEN 1 ELSE R.stage, T)
  <2> DEFINE i == IF R.stage = 0 THEN 1 ELSE R.stage
  <2>1. i \in Stages
    BY <1>1, PipelineAssumption DEF Stages, RowType
  <2>2. R.revision \in {0, i}
    BY <1>3 DEF Aims, Aimed
  <2> HIDE DEF i
  <2> QED
    BY <1>1, <1>3, <1>6, <2>1, <2>2, DispatchStageAims DEF i
<1>7. CASE m.idx # 0 /\ m.idx < Len(Pipeline) /\ DispatchStage(r, R, m.idx + 1, T)
  <2>1. m.idx + 1 \in Stages
    BY <1>1, <1>7, PipelineAssumption DEF Stages
  <2> QED
    BY <1>1, <1>3, <1>4, <1>7, <2>1, DispatchStageAims
<1> QED
  BY <1>2, <1>5, <1>6, <1>7 DEF RouteRunImpl

\* _enter_pause at a stage with an invocation, its revision consumed.
LEMMA EnterPauseAims ==
  ASSUME IInv, DInv, RInv, NEW r \in Runs, NEW R, NEW i \in Stages, NEW tk, NEW T,
         Aims(r, R, tk, T), Idle(R), R.revision = 0, Pipeline[i].kind # "action",
         EnterPause(r, R, i, tk, T)
  PROVE  RInv'
<1> DEFINE S == [R EXCEPT !.state = "paused", !.pause = i]
           left == TransitionOnRunPaused(tk, r)
           M == {}
<1>1. R \in RowType /\ i \in 0..Len(Pipeline)
  BY StagesTyped DEF Aims, Going, InHand
<1>2. /\ S.state = "paused" /\ S.pause = i /\ S.exec = R.exec /\ S.revision = R.revision
      /\ S.stage = R.stage /\ S.ws = R.ws
  BY <1>1 DEF RowType
<1>3. Save(r, S, left, T \cup M)
  BY T \cup {} = T DEF EnterPause
<1>4. \A m \in M : Sent(r, S, m)
  OBVIOUS
<1> HIDE DEF S, left, M
<1>5. RowAimed(S) /\ Provisioned(r, S) /\ Rest(r, T)
  BY <1>2 DEF RowAimed, Aimed, Provisioned, Aims, Held, Idle
<1> QED
  BY <1>2, <1>3, <1>4, <1>5, SaveAims

\* _send_back_to_stage writes the revision and moves to its stage at once.
LEMMA SendBackAims ==
  ASSUME IInv, DInv, RInv, NEW r \in Runs, NEW R, NEW i \in Stages, NEW j \in Targets(i),
         NEW tk, NEW T, Aims(r, R, tk, T), Idle(R), R.revision = 0, Pipeline[i].kind # "action",
         SendBackToStage(r, R, i, j, tk, T)
  PROVE  RInv'
<1> DEFINE S == [R EXCEPT !.sentBack = @ \cup {j}, !.revision = j, !.stage = j]
<1>1. j \in Stages /\ j \in 0..Len(Pipeline) /\ R \in RowType /\ R.phase # "cleanup"
  BY StagesTyped DEF Targets, Stages, Aims, Going, InHand
<1>2. CASE EnterPause(r, R, i, tk, T)
  BY <1>2, EnterPauseAims
<1>3. CASE StartStageImpl(r, S, j, tk, T)
  <2>1. SameDriving(R, S) /\ S.exec = R.exec /\ S.revision = j /\ S.stage = j
    BY <1>1 DEF RowType, SameDriving
  <2> HIDE DEF S
  <2>2. Aims(r, S, tk, T) /\ Idle(S)
    BY <2>1, SameAims DEF Idle, Aimed, Targets
  <2> QED
    BY <1>1, <1>3, <2>1, <2>2, StartStageAims
<1> QED
  BY <1>2, <1>3 DEF SendBackToStage

\* _settle_stage_boundary of a stage with an invocation.
LEMMA SettleAims ==
  ASSUME IInv, DInv, RInv, NEW r \in Runs, NEW R, NEW i \in Stages, NEW residuals, NEW tk, NEW T,
         Aims(r, R, tk, T), R.revision = 0, Pipeline[i].kind # "action",
         SettleStageBoundary(r, R, i, residuals, tk, T)
  PROVE  RInv'
<1> DEFINE D == Settled(R, "completed")
<1>1. Aims(r, D, tk, T) /\ Idle(D) /\ D.revision = 0
  BY SettledAims
<1>2. \/ \E j \in Targets(i) : SendBackToStage(r, D, i, j, tk, T)
      \/ EnterPause(r, D, i, tk, T)
      \/ Save(r, D, tk, T \cup {RouteRun(r, i, "success")})
  BY DEF SettleStageBoundary
<1> HIDE DEF D
<1> QED
  BY <1>1, <1>2, SendBackAims, EnterPauseAims, RouteAims

\* The answer of an invocation is handled: it consumed the revision, and works
\* on a stage that is no action.
Works(r, R, tk, T) ==
  /\ Aims(r, R, tk, T) /\ Droppable(r) /\ R.revision = 0
  /\ R.exec.kind \in {"skill", "review"} /\ R.exec.idx \in Stages
  /\ Pipeline[R.exec.idx].kind # "action"

\* The next pass of the attached loop, on the same execution.
LEMMA InvokeAgainAims ==
  ASSUME IInv, DInv, RInv, NEW r \in Runs, NEW R, NEW tk, NEW T, NEW e \in ExecType,
         Works(r, R, tk, T), e.kind = R.exec.kind, e.idx = R.exec.idx, InvokeAgain(r, R, e, tk, T)
  PROVE  RInv'
<1> DEFINE S == [R EXCEPT !.exec = e]
<1>1. R \in RowType /\ R.state = "running" /\ R.pause = 0
  BY DEF Works, Aims, Going, InHand
<1>2. CASE DispatchViaWorkspace(r, S, "invoke", tk, T)
  <2>1. /\ S \in RowType /\ S.exec = e /\ S.revision = R.revision /\ S.stage = R.stage
        /\ S.state = R.state /\ S.pause = R.pause
    BY <1>1 DEF RowType
  <2> HIDE DEF S
  <2>2. RowAimed(S)
    BY <1>1, <2>1 DEF RowAimed, Aimed, Works
  <2> QED
    BY <1>2, <2>1, <2>2, DispatchAims DEF Works, Aims
<1>3. CASE FailStage(r, R, e.idx, tk, T)
  BY <1>3, FailStageAims DEF Works
<1> QED
  BY <1>2, <1>3 DEF InvokeAgain

\* _dispatch_review_invocation and _dispatch_fix_invocation.
LEMMA PassAims ==
  ASSUME IInv, DInv, RInv, NEW r \in Runs, NEW R, NEW tk, NEW T, Works(r, R, tk, T),
         DispatchReviewInvocation(r, R, tk, T) \/ DispatchFixInvocation(r, R, tk, T)
  PROVE  RInv'
<1> DEFINE E == {[R.exec EXCEPT !.phase = "review", !.iter = @ + 1], [R.exec EXCEPT !.phase = "fix"]}
<1>1. \E e \in E : InvokeAgain(r, R, e, tk, T)
  BY DEF DispatchReviewInvocation, DispatchFixInvocation
<1>2. Going(r, R, tk, T) /\ R.exec.kind # "none" /\ R.exec \in ExecType
  BY DEF Works, Aims, Going, InHand, RowType
<1>3. \A e \in E : e \in ExecType
  BY <1>2, PassTyped
<1>4. \A e \in E : e.kind = R.exec.kind /\ e.idx = R.exec.idx
  BY <1>2 DEF ExecType
<1> HIDE DEF E
<1> QED
  BY <1>1, <1>3, <1>4, InvokeAgainAims

\* _handle_main_return, _handle_fix_return and _handle_review_return.
LEMMA ReturnAims ==
  ASSUME IInv, DInv, RInv, NEW r \in Runs, NEW R, NEW tk, NEW T, Works(r, R, tk, T),
         HandleMainReturn(r, R, tk, T) \/ HandleFixReturn(r, R, tk, T) \/ HandleReviewReturn(r, R, tk, T)
  PROVE  RInv'
<1> DEFINE i == R.exec.idx
           stored == Stored(R, tk)
           D == Settled(R, "completed")
<1>1. stored \in TicketType /\ stored.cur = tk.cur /\ stored.status = tk.status
  BY DEF TicketType, Stored, Works, Aims, Going, InHand
<1>2. /\ i \in Stages /\ Pipeline[i].kind # "action"
      /\ \/ FailStage(r, R, i, tk, T)
         \/ \E j \in Targets(i) : SendBackToStage(r, D, i, j, tk, T)
         \/ \E u \in {tk, stored}, residuals \in BOOLEAN :
              \/ SettleStageBoundary(r, R, i, residuals, u, T)
              \/ DispatchReviewInvocation(r, R, u, T) \/ DispatchFixInvocation(r, R, u, T)
  BY DEF HandleMainReturn, HandleFixReturn, HandleReviewReturn, NoArtifact, Works
<1> HIDE DEF i, stored
<1>3. Works(r, R, stored, T)
  BY <1>1 DEF Works, Aims, Going, InHand
<1>4. Aims(r, D, tk, T) /\ Idle(D) /\ D.revision = 0
  BY SettledAims DEF Works
<1> HIDE DEF D
<1>5. Aims(r, R, tk, T) /\ Aims(r, R, stored, T) /\ R.revision = 0
  BY <1>3 DEF Works
<1> QED
  BY <1>2, <1>3, <1>4, <1>5, FailStageAims, SendBackAims, SettleAims, PassAims

\* _handle_skill_stage_event, the auth-expired retry included.
LEMMA SkillStageEventAims ==
  ASSUME IInv, DInv, RInv, NEW r \in Runs, NEW R, NEW outcome, NEW tk, NEW T, Works(r, R, tk, T),
         HandleSkillStageEvent(r, R, outcome, tk, T)
  PROVE  RInv'
<1> DEFINE i == R.exec.idx
           D == Settled(R, "failed")
           e == [NoExec EXCEPT !.kind = "refresh"]
           S == [D EXCEPT !.retried = @ \cup {i}, !.exec = e]
<1>1. \/ DispatchViaWorkspace(r, S, "refresh", tk, T)
      \/ FailStage(r, R, i, tk, T)
      \/ HandleReviewReturn(r, R, tk, T)
      \/ HandleMainReturn(r, R, tk, T) \/ HandleFixReturn(r, R, tk, T)
  BY DEF HandleSkillStageEvent
<1>2. Aims(r, D, tk, T) /\ D.revision = 0 /\ i \in Stages
  BY SettledAims DEF Works
<1>3. e \in ExecType /\ e.kind = "refresh"
  BY NoExecTyped DEF ExecType, SystemKinds
<1> HIDE DEF D, e, i
<1>4. D \in RowType /\ D.state = "running" /\ D.pause = 0
  BY <1>2 DEF Aims, Going, InHand
<1>5. /\ S \in RowType /\ S.exec = e /\ S.revision = D.revision /\ S.state = D.state /\ S.pause = D.pause
  BY <1>2, <1>3, <1>4 DEF RowType
<1> HIDE DEF S
<1>6. CASE DispatchViaWorkspace(r, S, "refresh", tk, T)
  <2>1. RowAimed(S) /\ Rest(r, T) /\ Droppable(r)
    BY <1>2, <1>3, <1>4, <1>5 DEF RowAimed, Aimed, Works, Aims
  <2> QED
    BY <1>5, <1>6, <2>1, DispatchAims
<1>7. CASE FailStage(r, R, i, tk, T)
  BY <1>7, FailStageAims DEF Works
<1> QED
  BY <1>1, <1>6, <1>7, ReturnAims

\* _handle_review_stage_event.
LEMMA ReviewStageEventAims ==
  ASSUME IInv, DInv, RInv, NEW r \in Runs, NEW R, NEW outcome, NEW tk, NEW T, Works(r, R, tk, T),
         HandleReviewStageEvent(r, R, outcome, tk, T)
  PROVE  RInv'
BY FailStageAims, SettleAims DEF HandleReviewStageEvent, Works

\* _finalize_after_cleanup ends the run, its revision consumed or not.
LEMMA FinalizeAims ==
  ASSUME IInv, DInv, RInv, NEW r \in Runs, NEW R \in RowType, NEW tk, NEW T,
         Rest(r, T), Aimed(R), Idle(R), R.pause = 0, run[r].state \in InFlight,
         FinalizeAfterCleanup(r, R, tk, T)
  PROVE  RInv'
<1>1. TargetState(R) \in Terminal
  BY DEF TargetState, Terminal
<1> QED
  BY <1>1, EnterTerminalAims DEF FinalizeAfterCleanup, Idle

\* _handle_system_stage_event: a provision starts the stage it was delayed
\* for, a refresh retries a stage whose revision was consumed.
LEMMA SystemStageEventAims ==
  ASSUME IInv, DInv, RInv, NEW r \in Runs, NEW R, NEW outcome, NEW T,
         Going(r, R, ticket, T), Rest(r, T), Droppable(r), Aimed(R), R.stage \in Stages,
         R.exec.kind # "cleanup", R.exec.kind = "refresh" => R.revision = 0,
         outcome = "success" => Held(r, R), HandleSystemStageEvent(r, R, outcome, ticket, T)
  PROVE  RInv'
<1> DEFINE over == [R EXCEPT !.exec = NoExec]
           S == [over EXCEPT !.phase = "stages"]
<1>1. R \in RowType /\ R.phase # "cleanup" /\ R.pause = 0 /\ R.state = "running" /\ run[r].state \in InFlight
  BY DEF Going, InHand
<1>2. /\ SameDriving(R, over) /\ over.exec.kind = "none" /\ over.stage = R.stage
      /\ over.revision = R.revision /\ over.ws = R.ws
  BY <1>1, NoExecTyped DEF RowType, NoExec, SameDriving
<1>3. \/ FinishOrCleanup(r, over, "failed", ticket, T)
      \/ outcome = "success" /\ Save(r, S, ticket, T \cup {StartStage(r, R.stage)})
      \/ /\ R.exec.kind = "refresh" /\ outcome = "success"
         /\ \/ Pipeline[over.stage].kind = "skill" /\ DispatchSkillStage(r, over, over.stage, ticket, T)
            \/ FinishOrCleanup(r, over, "failed", ticket, T)
  BY DEF HandleSystemStageEvent, RetryAfterRefresh
<1> HIDE DEF over
<1>4. Going(r, over, ticket, T) /\ Idle(over) /\ over \in RowType /\ Aimed(over)
  BY <1>2, SameGoing DEF Idle, SameDriving, Aimed
<1>5. outcome = "success" => Aims(r, over, ticket, T)
  BY <1>2, <1>4 DEF Aims, Held
<1>6. SameDriving(over, S) /\ S.exec = over.exec /\ S.revision = over.revision /\ S.stage = over.stage
  <2>1. over.phase # "cleanup"
    BY <1>2 DEF SameDriving
  <2> QED
    BY <1>4, <2>1 DEF RowType, SameDriving
<1> HIDE DEF S
<1>7. CASE FinishOrCleanup(r, over, "failed", ticket, T)
  <2>1. over.state = "running" /\ over.pause = 0
    BY <1>1, <1>2 DEF SameDriving
  <2> QED
    BY <1>1, <1>4, <1>7, <2>1, FinishOrCleanupAims DEF Terminal
<1>8. CASE outcome = "success" /\ Save(r, S, ticket, T \cup {StartStage(r, R.stage)})
  <2>1. Aims(r, S, ticket, T) /\ Idle(S) /\ S.stage = R.stage
    BY <1>2, <1>4, <1>5, <1>6, <1>8, SameAims DEF Idle, Aimed
  <2> QED
    BY <1>8, <2>1, StartAims
<1>9. CASE /\ R.exec.kind = "refresh" /\ outcome = "success"
           /\ Pipeline[over.stage].kind = "skill" /\ DispatchSkillStage(r, over, over.stage, ticket, T)
  <2>1. over.revision = 0 /\ over.stage \in Stages /\ Aims(r, over, ticket, T)
    BY <1>2, <1>5, <1>9
  <2> QED
    BY <1>4, <1>9, <2>1, DispatchStageInvocationAims
<1> QED
  BY <1>3, <1>7, <1>8, <1>9

\* HANDLE_AGENT_EVENT: the answer of the pending command resumes the run.
LEMMA HandleAgentEventAims ==
  ASSUME IInv, DInv, RInv, NEW m \in tasks, m.type = "HANDLE_AGENT_EVENT",
         HandleAgentEventImpl(m, tasks \ {m})
  PROVE  RInv'
<1> DEFINE r == m.run
           R == run[r]
           P == Resumed(R)
           T == tasks \ {m}
<1>1. /\ r \in Runs /\ R \in RowType /\ Others(r, T) /\ Released(r) /\ Rest(r, T)
      /\ RowUsable(R) /\ RowDriven(R) /\ RowAimed(R) /\ Provisioned(r, R)
  BY TakenUp, TakenUpRest DEF IInv, TypeOK, HandlersApplicable, DInv, RowsDriven, RInv, RunsAimed
<1>2. R.state = "running" /\ R.pending # 0 /\ Droppable(r) /\ R.state \in InFlight /\ R.pause = 0
  BY <1>1 DEF DInv, OneDriver, Drives, Droppable, InFlight, RowDriven
<1>3. m.outcome = "success" => space[r][R.ws].status # "absent"
  BY DEF RInv, Expected
<1>4. /\ P = [R EXCEPT !.pending = 0] /\ P \in RowType /\ P.exec = R.exec /\ P.stage = R.stage
      /\ P.revision = R.revision /\ P.ws = R.ws /\ P.pause = R.pause
  <2>1. 0 \in 0..MaxCmds
    BY BoundsAssumption
  <2> QED
    BY <1>1, <2>1 DEF Resumed, RowType
<1>5. Aimed(P)
  BY <1>1, <1>4 DEF RowAimed, Aimed
<1>6. ASSUME R.exec.kind \notin {"none", "cleanup"} PROVE Going(r, P, ticket, T)
  <2>1. R.phase # "cleanup"
    BY <1>1, <1>2, <1>6 DEF RowDriven, Terminal
  <2>2. SameDriving(P, P)
    BY <1>1, <1>4, <2>1 DEF RowType, SameDriving
  <2> QED
    BY <1>1, <1>2, <1>4, <2>1, <2>2, RowInHand
<1> HIDE DEF T
<1>7. CASE Drop(T)
  BY <1>1, <1>2, <1>7, DropAims
<1>8. CASE \/ R.exec.kind = "review" /\ HandleReviewStageEvent(r, P, m.outcome, ticket, T)
           \/ R.exec.kind = "skill" /\ HandleSkillStageEvent(r, P, m.outcome, ticket, T)
  <2>1. R.revision = 0 /\ R.exec.idx \in Stages /\ Pipeline[R.exec.idx].kind # "action" /\ Held(r, R)
    BY <1>1, <1>2, <1>8 DEF RowAimed, RowUsable, Provisioned, Held
  <2>2. Held(r, P)
    BY <1>4, <2>1 DEF Held
  <2>3. Works(r, P, ticket, T)
    BY <1>1, <1>2, <1>4, <1>5, <1>6, <1>8, <2>1, <2>2 DEF Works, Aims
  <2> QED
    BY <1>1, <1>8, <2>3, ReviewStageEventAims, SkillStageEventAims
<1>9. CASE /\ R.exec.kind \in SystemKinds \ {"cleanup"}
           /\ HandleSystemStageEvent(r, P, m.outcome, ticket, T)
  <2>1. /\ R.exec.kind \notin {"none", "cleanup"} /\ P.stage \in Stages
        /\ (R.exec.kind = "refresh" => R.revision = 0)
    BY <1>1, <1>4, <1>9 DEF SystemKinds, RowUsable, RowAimed
  <2>2. m.outcome = "success" => Held(r, P)
    BY <1>3, <1>4 DEF Held
  <2> QED
    BY <1>1, <1>2, <1>4, <1>5, <1>6, <1>9, <2>1, <2>2, SystemStageEventAims
<1>10. CASE R.exec.kind = "cleanup" /\ HandleSystemStageEvent(r, P, m.outcome, ticket, T)
  <2> DEFINE over == [P EXCEPT !.exec = NoExec]
  <2>1. FinalizeAfterCleanup(r, over, ticket, T)
    BY <1>4, <1>10 DEF HandleSystemStageEvent
  <2> HIDE DEF P
  <2>2. /\ over \in RowType /\ over.exec.kind = "none" /\ over.stage = P.stage
        /\ over.revision = P.revision /\ over.pause = P.pause
    BY <1>4, NoExecTyped DEF RowType, NoExec
  <2> HIDE DEF over
  <2>3. Aimed(over) /\ Idle(over) /\ over.pause = 0
    BY <1>2, <1>4, <1>5, <2>2 DEF Aimed, Idle
  <2> QED
    BY <1>1, <1>2, <2>1, <2>2, <2>3, FinalizeAims
<1> QED
  BY <1>7, <1>8, <1>9, <1>10 DEF HandleAgentEventImpl, SystemKinds, T

-----------------------------------------------------------------------------
(* The actions.                                                              *)

\* The three task bodies; no message is lost.
LEMMA TasksAim ==
  ASSUME IInv, DInv, RInv, NoRedelivery, NoLoss,
         RouteRunTask \/ StartStageTask \/ HandleAgentEventTask \/ LoseTask
  PROVE  RInv'
<1>1. CASE RouteRunTask
  BY <1>1, ConsumedOnce, RouteRunAims DEF RouteRunTask
<1>2. CASE HandleAgentEventTask
  BY <1>2, ConsumedOnce, HandleAgentEventAims DEF HandleAgentEventTask
<1>3. CASE StartStageTask
  <2>1. PICK m \in tasks : \E T \in {tasks, tasks \ {m}} :
          m.type = "START_STAGE" /\ Consume(m, T) /\ StartStageImpl(m.run, run[m.run], m.idx, ticket, T)
    BY <1>3 DEF StartStageTask
  <2>2. m.type = "START_STAGE" /\ StartStageImpl(m.run, run[m.run], m.idx, ticket, tasks \ {m})
    BY <2>1, ConsumedOnce
  <2>3. m.run \in Runs /\ m.idx \in Stages /\ Rest(m.run, tasks \ {m})
    BY <2>2, TakenUpRest DEF IInv, HandlersApplicable, MessageUsable
  <2>4. run[m.run].state = "running" /\ run[m.run].pending = 0 /\ run[m.run].stage = m.idx
    BY <2>2 DEF DInv, OneDriver, Drives, RInv, Expected
  <2>5. Aims(m.run, run[m.run], ticket, tasks \ {m}) /\ Idle(run[m.run])
    BY <2>3, <2>4, IdleAims
  <2> QED
    BY <2>2, <2>3, <2>4, <2>5, StartStageAims
<1>4. CASE LoseTask
  BY <1>4 DEF LoseTask, NoLoss, IInv, TypeOK
<1> QED
  BY <1>1, <1>2, <1>3, <1>4

\* A step outside the rows: no workspaces row disappears, and an answer that
\* comes in is a success only of a workspace whose row exists.
LEMMA OutsideAims ==
  ASSUME IInv, DInv, RInv, run' = run, tasks \subseteq tasks',
         \A q \in Runs, w \in Cmds : space[q][w].status # "absent" => space'[q][w].status # "absent",
         \A m \in tasks' \ tasks : Expected(m)'
  PROVE  RInv'
<1>1. ASSUME NEW m \in tasks PROVE Expected(m)'
  <2>1. m.run \in Runs /\ Expected(m)
    BY DEF IInv, TypeOK, MsgType, RInv
  <2> QED
    BY <2>1, AnswersNamed DEF Expected
<1>2. ASSUME NEW q \in Runs PROVE RowAimed(run'[q]) /\ Provisioned(q, run[q])' /\ Moved(q)'
  <2>1. RowAimed(run[q]) /\ Provisioned(q, run[q]) /\ Moved(q)
    BY DEF RInv, RunsAimed
  <2> QED
    BY <2>1, WorkspaceNamed DEF Provisioned, Moved, Quiet
<1> QED
  BY <1>1, <1>2 DEF RInv, RunsAimed

\* claim_next, the reaper's sweeps, forgotten_workspaces and the agent-loss failsafe.
LEMMA EnvironmentAims ==
  ASSUME IInv, DInv, RInv, NEW r \in Runs, NEW w \in Cmds,
         AgentClaims(r, w) \/ ReaperExpires(r, w) \/ AgentForgets(r, w) \/ AgentLoss(r, w)
  PROVE  RInv'
<1> DEFINE S == space[r][w]
<1>1. space \in [Runs -> [Cmds -> SpaceType]] /\ S \in SpaceType /\ run' = run
  BY DEF IInv, TypeOK, AgentClaims, ReaperExpires, AgentForgets, AgentLoss
<1>2. ASSUME NEW X \in SpaceType
      PROVE  /\ [X EXCEPT !.status = "expired"].status = "expired"
             /\ [X EXCEPT !.agent = "forgot"].status = X.status
             /\ X.status # "absent" =>
                  [X EXCEPT !.agent = "lost", !.status = IF @ = "active" THEN "expired" ELSE @].status # "absent"
  BY DEF SpaceType
<1> DEFINE Ends(S2) == /\ space' = [space EXCEPT ![r][w] = S2]
                       /\ S.status # "absent" => S2.status # "absent"
<1>3. space' = space \/ \E S2 : Ends(S2)
  <2>1. CASE AgentClaims(r, w)
    BY <2>1 DEF AgentClaims
  <2>2. CASE ReaperExpires(r, w)
    <3> DEFINE S2 == [S EXCEPT !.status = "expired"]
    <3>1. space' = [space EXCEPT ![r][w] = S2]
      BY <1>1, <2>2 DEF ReaperExpires
    <3>2. S2.status = "expired"
      BY <1>1, <1>2
    <3> HIDE DEF S2, S
    <3>3. Ends(S2)
      BY <3>1, <3>2
    <3> QED
      BY <3>3
  <2>3. CASE AgentForgets(r, w)
    <3> DEFINE S2 == [S EXCEPT !.agent = "forgot"]
    <3>1. space' = [space EXCEPT ![r][w] = S2]
      BY <1>1, <2>3 DEF AgentForgets
    <3>2. S2.status = S.status
      BY <1>1, <1>2
    <3> HIDE DEF S2, S
    <3>3. Ends(S2)
      BY <3>1, <3>2
    <3> QED
      BY <3>3
  <2>4. CASE AgentLoss(r, w)
    <3> DEFINE S2 == [S EXCEPT !.agent = "lost", !.status = IF @ = "active" THEN "expired" ELSE @]
    <3>1. space' = [space EXCEPT ![r][w] = S2]
      BY <2>4 DEF AgentLoss
    <3>2. S.status # "absent" => S2.status # "absent"
      BY <1>1, <1>2
    <3> HIDE DEF S2, S
    <3>3. Ends(S2)
      BY <3>1, <3>2
    <3> QED
      BY <3>3
  <2> QED
    BY <2>1, <2>2, <2>3, <2>4
<1>4. \/ tasks' = tasks
      \/ tasks' = tasks \cup {AgentEvent(r, S.claim, "failure")}
  BY DEF AgentClaims, ReaperExpires, AgentForgets, AgentLoss
<1> HIDE DEF S
<1>5. tasks \subseteq tasks' /\ \A m \in tasks' \ tasks : \E c : m = AgentEvent(r, c, "failure")
  BY <1>4
<1>6. \A q \in Runs, v \in Cmds : space[q][v].status # "absent" => space'[q][v].status # "absent"
  BY <1>1, <1>3 DEF S
<1>7. ASSUME NEW m \in tasks' \ tasks PROVE Expected(m)'
  BY <1>5, <1>7 DEF Expected, AgentEvent
<1> QED
  BY <1>1, <1>5, <1>6, <1>7, OutsideAims

\* The success of a provision inserts the workspaces row; any other answer is
\* of a command whose workspace was there.
LEMMA ReportsAim ==
  ASSUME IInv, DInv, RInv, NEW r \in Runs, NEW c \in Cmds, NEW outcome, AgentReports(r, c, outcome)
  PROVE  RInv'
<1> DEFINE w == cmd[r][c].ws
           S == space[r][w]
           b == cmd[r][c].kind = "provision" /\ outcome = "success"
           S2 == [S EXCEPT !.claim = IF @ = c THEN 0 ELSE @, !.status = IF b THEN "active" ELSE @]
<1>1. /\ space \in [Runs -> [Cmds -> SpaceType]]
      /\ cmd[r][c].status = "claimed" /\ S.agent # "lost"
      /\ space' = [space EXCEPT ![r][w] = S2]
      /\ tasks' = tasks \cup {AgentEvent(r, c, outcome)}
      /\ run' = run
  BY DEF AgentReports, IInv, TypeOK
<1>2. w \in Cmds /\ run[r].pending = c /\ c # 0
  BY <1>1 DEF DInv, CommandsDriven, CommandDriven, Lost, NoCmd, Cmds
<1>3. run[r].state = "running" /\ run[r].ws = w /\ w # 0
  BY <1>2 DEF DInv, RowsDriven, RowDriven, IInv, ParkedOnItsExecution, Cmds
<1>4. cmd[r][c].kind # "provision" => run[r].exec.kind # "provision"
  BY <1>2 DEF IInv, ParkedOnItsExecution
<1>5. cmd[r][c].kind # "provision" => S.status # "absent"
  BY <1>3, <1>4 DEF RInv, RunsAimed, Provisioned, InFlight
<1>6. S2.status = IF b THEN "active" ELSE S.status
  <2>1. S \in SpaceType
    BY <1>1, <1>2
  <2> HIDE DEF S, b
  <2> QED
    BY <2>1 DEF SpaceType
<1>7. outcome = "success" => S2.status # "absent"
  BY <1>5, <1>6
<1>8. S.status # "absent" => S2.status # "absent"
  BY <1>6
<1> HIDE DEF S2, b
<1>9. \A q \in Runs, v \in Cmds : space'[q][v] = IF q = r /\ v = w THEN S2 ELSE space[q][v]
  <2> HIDE DEF w, S
  <2> QED
    BY <1>1, <1>2
<1>10. Expected(AgentEvent(r, c, outcome))'
  BY <1>1, <1>2, <1>3, <1>7, <1>9 DEF Expected, AgentEvent
<1>11. \A q \in Runs, v \in Cmds : space[q][v].status # "absent" => space'[q][v].status # "absent"
  BY <1>8, <1>9
<1> QED
  BY <1>1, <1>10, <1>11, OutsideAims

\* No message moves a run that is not running.
LEMMA NobodyRest ==
  ASSUME DInv, NEW r \in Runs, run[r].state # "running"
  PROVE  Rest(r, tasks) /\ Droppable(r)
BY NobodyDrives DEF Rest, Droppable

\* A waiting run stays so, is given up, or is moved by its first ROUTE_RUN.
LEMMA WaitAims ==
  ASSUME IInv, DInv, RInv, NEW r \in Runs, NEW R, NEW tk, run[r].state # "running",
         RowAimed(R), R.ws = 0,
         \/ R.state # "running" /\ Save(r, R, tk, tasks)
         \/ Save(r, R, tk, tasks \cup {RouteRun(r, 0, "none")})
  PROVE  RInv'
<1>1. Rest(r, tasks) /\ Provisioned(r, R)
  BY NobodyRest DEF Provisioned
<1>2. CASE R.state # "running" /\ Save(r, R, tk, tasks)
  <2> DEFINE M == {}
  <2>1. Save(r, R, tk, tasks \cup M) /\ \A m \in M : Sent(r, R, m)
    BY <1>2, tasks \cup {} = tasks
  <2> HIDE DEF M
  <2> QED
    BY <1>1, <1>2, <2>1, SaveAims
<1>3. CASE Save(r, R, tk, tasks \cup {RouteRun(r, 0, "none")})
  <2> DEFINE M == {RouteRun(r, 0, "none")}
  <2>1. M # {} /\ \A m \in M : Sent(r, R, m)
    BY DEF RouteRun, Sent
  <2>2. Save(r, R, tk, tasks \cup M)
    BY <1>3
  <2> HIDE DEF M
  <2> QED
    BY <1>1, <2>1, <2>2, SaveAims
<1> QED
  BY <1>2, <1>3

\* start_run and start_rerun_from_stage: an instruction is for the first stage.
LEMMA StartsAim ==
  ASSUME IInv, DInv, RInv, NEW r \in Runs, StartRun(r) \/ \E i \in Stages : StartRerunFromStage(r, i)
  PROVE  RInv'
<1>1. /\ 0 \in 0..MaxCmds /\ NoExec \in ExecType /\ NoLast \in LastType
      /\ {} \in SUBSET Stages
  BY BoundsAssumption, NoExecTyped, StagesTyped DEF NoLast, LastType
<1>2. /\ NoRow \in RowType /\ NoRow.exec.kind = "none" /\ NoRow.pause = 0
      /\ NoRow.ws = 0 /\ NoRow.revision = 0
  BY <1>1, StagesTyped DEF NoRow, RowType, RunStates, NoExec
<1>3. ASSUME NEW row \in RowType, row.exec.kind = "none", row.pause = 0, row.ws = 0, Aimed(row),
             InsertAndPromote(r, row)
      PROVE  RInv'
  <2>1. run[r].state # "running"
    BY <1>3 DEF InsertAndPromote
  <2>2. ASSUME NEW st \in {"running", "inserting"}
        PROVE  LET N == [row EXCEPT !.state = st]
               IN  RowAimed(N) /\ N.ws = 0 /\ N.state = st
    <3> DEFINE N == [row EXCEPT !.state = st]
    <3>1. /\ N.exec = row.exec /\ N.pause = row.pause /\ N.ws = row.ws /\ N.state = st
          /\ N.revision = row.revision /\ N.stage = row.stage
      BY <1>3 DEF RowType
    <3> HIDE DEF N
    <3>2. RowAimed(N) /\ N.ws = 0 /\ N.state = st
      BY <1>3, <3>1 DEF RowAimed, Aimed
    <3> QED
      BY <3>2 DEF N
  <2>3. \/ \E tk : Save(r, [row EXCEPT !.state = "running"], tk, tasks \cup {RouteRun(r, 0, "none")})
        \/ Save(r, [row EXCEPT !.state = "inserting"], ticket, tasks)
    BY <1>3 DEF InsertAndPromote
  <2> DEFINE N(st) == [row EXCEPT !.state = st]
  <2>4. \/ \E tk : Save(r, N("running"), tk, tasks \cup {RouteRun(r, 0, "none")})
        \/ Save(r, N("inserting"), ticket, tasks)
    BY <2>3
  <2>5. /\ RowAimed(N("running")) /\ N("running").ws = 0
        /\ RowAimed(N("inserting")) /\ N("inserting").ws = 0 /\ N("inserting").state = "inserting"
    BY <2>2
  <2> HIDE DEF N
  <2> QED
    BY <2>1, <2>4, <2>5, WaitAims
<1>4. CASE StartRun(r)
  BY <1>2, <1>3, <1>4 DEF StartRun, Aimed
<1>5. CASE \E i \in Stages : StartRerunFromStage(r, i)
  <2>1. PICK i \in Stages : /\ Pipeline[i].kind \in {"skill", "review"}
                            /\ InsertAndPromote(r, [NoRow EXCEPT !.stage = i, !.revision = i])
    BY <1>5 DEF StartRerunFromStage
  <2>2. i \in 0..Len(Pipeline)
    BY StagesTyped
  <2> DEFINE N == [NoRow EXCEPT !.stage = i, !.revision = i]
  <2>3. /\ N \in RowType /\ N.exec = NoRow.exec /\ N.pause = NoRow.pause /\ N.ws = NoRow.ws
        /\ N.stage = i /\ N.revision = i
    BY <1>2, <2>2 DEF RowType
  <2>4. InsertAndPromote(r, N)
    BY <2>1
  <2> HIDE DEF N
  <2>5. Aimed(N)
    BY <2>1, <2>3 DEF Aimed
  <2> QED
    BY <1>2, <1>3, <2>3, <2>4, <2>5
<1> QED
  BY <1>4, <1>5

\* The commit of a start, and request_cancel in each state of the run.
LEMMA CancelAims ==
  ASSUME IInv, DInv, RInv, NEW r \in Runs, CommitStart(r) \/ RequestCancel(r)
  PROVE  RInv'
<1>1. run[r] \in RowType /\ RowAimed(run[r]) /\ RowDriven(run[r])
  BY DEF IInv, TypeOK, RInv, RunsAimed, DInv, RowsDriven
<1>2. CASE CommitStart(r) \/ CancelQueued(r)
  <2>1. PICK st \in {"queued", "cancelled"} : Save(r, [run[r] EXCEPT !.state = st], ticket, tasks)
    BY <1>2 DEF CommitStart, CancelQueued
  <2>2. run[r].state \in {"inserting", "queued"}
    BY <1>2 DEF CommitStart, CancelQueued
  <2> DEFINE N == [run[r] EXCEPT !.state = st]
  <2>3. /\ N.state = st /\ N.ws = run[r].ws /\ N.exec = run[r].exec /\ N.pause = run[r].pause
        /\ N.revision = run[r].revision /\ N.stage = run[r].stage
    BY <1>1 DEF RowType
  <2>4. Save(r, N, ticket, tasks)
    BY <2>1
  <2> HIDE DEF N
  <2>5. RowAimed(N) /\ N.ws = 0
    BY <1>1, <2>2, <2>3 DEF RowAimed, Aimed, RowDriven
  <2> QED
    BY <2>2, <2>3, <2>4, <2>5, WaitAims
<1>3. CASE CancelRunning(r)
  <2> DEFINE N == [run[r] EXCEPT !.cancel = TRUE]
  <2>1. Save(r, N, ticket, tasks)
    BY <1>3 DEF CancelRunning
  <2>2. /\ N.state = run[r].state /\ N.ws = run[r].ws /\ N.pending = run[r].pending
        /\ N.exec = run[r].exec /\ N.pause = run[r].pause
        /\ N.revision = run[r].revision /\ N.stage = run[r].stage
    BY <1>1 DEF RowType
  <2> HIDE DEF N
  <2>3. run' = [run EXCEPT ![r] = N] /\ space' = space /\ tasks' = tasks
    BY <2>1 DEF Save
  <2>4. run'[r] = N /\ \A q \in Runs \ {r} : run'[q] = run[q]
    BY <2>3 DEF IInv, TypeOK
  <2>5. \A m \in tasks : Expected(m)'
    BY <2>2, <2>3, <2>4 DEF RInv, Expected, IInv, TypeOK, MsgType
  <2>6. ASSUME NEW q \in Runs PROVE RowAimed(run'[q]) /\ Provisioned(q, run[q])' /\ Moved(q)'
    <3>1. RowAimed(run[q]) /\ Provisioned(q, run[q]) /\ Moved(q)
      BY DEF RInv, RunsAimed
    <3>2. /\ run'[q].state = run[q].state /\ run'[q].ws = run[q].ws /\ run'[q].pending = run[q].pending
          /\ run'[q].exec = run[q].exec /\ run'[q].pause = run[q].pause
          /\ run'[q].revision = run[q].revision /\ run'[q].stage = run[q].stage
      BY <2>2, <2>4
    <3> QED
      BY <2>3, <3>1, <3>2 DEF RowAimed, Aimed, Provisioned, Moved, Quiet
  <2> QED
    BY <2>3, <2>5, <2>6 DEF RInv, RunsAimed
<1>4. CASE CancelPaused(r)
  <2> DEFINE N == [run[r] EXCEPT !.state = "running", !.cancel = TRUE, !.pause = 0]
  <2>1. run[r].state = "paused" /\ FinishOrCleanup(r, N, "cancelled", ticket, tasks)
    BY <1>4 DEF CancelPaused
  <2>2. /\ N \in RowType /\ N.state = "running" /\ N.pause = 0 /\ N.exec = run[r].exec
        /\ N.revision = run[r].revision
    BY <1>1, StagesTyped DEF RowType, RunStates, InFlight
  <2> HIDE DEF N
  <2>3. Aimed(N) /\ Idle(N) /\ Rest(r, tasks) /\ Droppable(r) /\ run[r].state \in InFlight
    BY <1>1, <2>1, <2>2, NobodyRest, NobodyDrives DEF RowAimed, Aimed, Idle, InFlight
  <2> QED
    BY <2>1, <2>2, <2>3, FinishOrCleanupAims DEF Terminal
<1> QED
  BY <1>2, <1>3, <1>4 DEF RequestCancel

\* request_hitl_resolution: a paused run has no revision, and an instruction
\* or a send-back moves it to the stage it writes one for.
LEMMA ResolveAims ==
  ASSUME IInv, DInv, RInv, NEW r \in Runs, ResolvePause(r)
  PROVE  RInv'
<1> DEFINE i == run[r].pause
           N == [run[r] EXCEPT !.state = "running", !.pause = 0]
           K == [run[r] EXCEPT !.state = "running", !.pause = 0, !.killed = TRUE]
           tk == TransitionOnRunResumed(ticket, r)
<1>1. run[r] \in RowType /\ run[r].state = "paused" /\ RowAimed(run[r]) /\ Provisioned(r, run[r])
  BY DEF ResolvePause, Approve, Instruct, Kill, HumanSendBack, IInv, TypeOK, RInv, RunsAimed
<1>2. i \in Stages /\ i \in 0..Len(Pipeline) /\ i # 0
  BY <1>1, StagesTyped DEF IInv, HandlersApplicable, RowUsable, Stages
<1>3. /\ N \in RowType /\ N.state = "running" /\ N.pause = 0 /\ N.ws = run[r].ws
      /\ N.pending = run[r].pending /\ N.minted = run[r].minted /\ N.exec = run[r].exec
      /\ N.phase = run[r].phase /\ N.failed = run[r].failed /\ N.killed = run[r].killed
      /\ N.revision = run[r].revision
  BY <1>1, StagesTyped DEF RowType, RunStates, InFlight
<1>4. /\ K \in RowType /\ K.state = "running" /\ K.pause = 0 /\ K.exec = run[r].exec
      /\ K.revision = run[r].revision
  BY <1>1, StagesTyped DEF RowType, RunStates, InFlight
<1>5. /\ Rest(r, tasks) /\ Droppable(r) /\ run[r].exec.kind = "none" /\ run[r].revision = 0
      /\ Pipeline[i].kind # "action"
  BY <1>1, <1>2, NobodyRest, NobodyDrives DEF RowAimed
<1> HIDE DEF N
<1>6. Aims(r, N, tk, tasks) /\ Idle(N) /\ N.revision = 0
  <2>1. Going(r, N, tk, tasks) /\ Idle(N)
    BY <1>1, <1>3, PausedInHand
  <2>2. Aimed(N) /\ Held(r, N)
    BY <1>1, <1>3, <1>5 DEF Aimed, Held, Provisioned, InFlight
  <2> QED
    BY <1>3, <1>5, <2>1, <2>2 DEF Aims
<1>7. CASE Approve(r)
  <2>1. Save(r, N, tk, tasks \cup {RouteRun(r, i, "success")})
    BY <1>7 DEF Approve, N
  <2> HIDE DEF i
  <2> QED
    BY <1>6, <2>1, RouteAims
<1>8. CASE Kill(r)
  <2>1. FinishOrCleanup(r, K, "killed", ticket, tasks)
    BY <1>8 DEF Kill
  <2> HIDE DEF K
  <2>2. Aimed(K) /\ Idle(K) /\ run[r].state \in InFlight
    BY <1>1, <1>4, <1>5 DEF Aimed, Idle, InFlight
  <2> QED
    BY <1>4, <1>5, <2>1, <2>2, FinishOrCleanupAims DEF Terminal
<1>9. CASE \E j \in Stages : HumanSendBack(r, j)
  <2>1. PICK j \in Targets(i) : SendBackToStage(r, N, i, j, tk, tasks)
    BY <1>9 DEF HumanSendBack, N
  <2> HIDE DEF i
  <2> QED
    BY <1>2, <1>5, <1>6, <2>1, SendBackAims
<1>10. CASE Instruct(r)
  <2> DEFINE S == [N EXCEPT !.stage = i, !.revision = i]
  <2>1. StartStageImpl(r, S, i, tk, tasks)
    BY <1>1, <1>10 DEF Instruct, RowType, N
  <2> HIDE DEF i
  <2>2. SameDriving(N, S) /\ S.exec = N.exec /\ S.stage = i /\ S.revision = i
    BY <1>2, <1>3, <1>6 DEF RowType, SameDriving, Aims, Going, InHand
  <2> HIDE DEF S
  <2>3. Aims(r, S, tk, tasks) /\ Idle(S)
    BY <1>5, <1>6, <2>2, SameAims DEF Idle, Aimed
  <2> QED
    BY <1>2, <2>1, <2>2, <2>3, StartStageAims
<1> QED
  BY <1>7, <1>8, <1>9, <1>10 DEF ResolvePause

\* resume_stalled_runs: no boundary is replayed, as every run that waits for no
\* command has a message; a lost resume answers with a failure.
LEMMA SweepsAim ==
  ASSUME IInv, DInv, RInv, NoRedelivery, ResumeStalledRuns
  PROVE  RInv'
<1>1. ASSUME NEW r \in Runs, NEW m, SweepEnqueues(r, m)
      PROVE  Quiet(r) /\ Drop(tasks \cup {m})
  BY <1>1 DEF SweepEnqueues, NoRedelivery, IInv, TypeOK
<1>2. ASSUME NEW r \in Runs, ReconcileStaleRunning(r) PROVE FALSE
  BY <1>1, <1>2 DEF ReconcileStaleRunning, RInv, RunsAimed, Moved
<1>3. ASSUME NEW r \in Runs, ReconcileLostResume(r) PROVE RInv'
  <2>1. Drop(tasks \cup {AgentEvent(r, run[r].pending, "failure")})
    BY <1>1, <1>3 DEF ReconcileLostResume
  <2>2. /\ run' = run /\ space' = space /\ tasks \subseteq tasks'
        /\ \A m \in tasks' \ tasks : \E c : m = AgentEvent(r, c, "failure")
    BY <2>1 DEF Drop
  <2>3. ASSUME NEW m \in tasks' \ tasks PROVE Expected(m)'
    BY <2>2, <2>3 DEF Expected, AgentEvent
  <2> QED
    BY <2>2, <2>3, OutsideAims
<1>4. CASE ReconcileOrphanedQueued
  <2>1. PICK q \in Runs :
          /\ OldestQueued(q)
          /\ Save(q, [run[q] EXCEPT !.state = "running"], TransitionOnRunStart(ticket, q),
                  tasks \cup {RouteRun(q, 0, "none")})
    BY <1>4 DEF ReconcileOrphanedQueued
  <2> DEFINE N == [run[q] EXCEPT !.state = "running"]
  <2>2. run[q] \in RowType /\ run[q].state = "queued" /\ RowDriven(run[q]) /\ RowAimed(run[q])
    BY <2>1 DEF OldestQueued, Queued, IInv, TypeOK, DInv, RowsDriven, RInv, RunsAimed
  <2>3. /\ N.state = "running" /\ N.exec = run[q].exec /\ N.pause = run[q].pause
        /\ N.ws = run[q].ws /\ N.revision = run[q].revision /\ N.stage = run[q].stage
    BY <2>2 DEF RowType
  <2>4. Save(q, N, TransitionOnRunStart(ticket, q), tasks \cup {RouteRun(q, 0, "none")})
    BY <2>1
  <2> HIDE DEF N
  <2>5. RowAimed(N) /\ N.ws = 0
    BY <2>2, <2>3 DEF RowAimed, Aimed, RowDriven
  <2> QED
    BY <2>2, <2>4, <2>5, WaitAims
<1> QED
  BY <1>2, <1>3, <1>4 DEF ResumeStalledRuns

-----------------------------------------------------------------------------
(* The invariant holds from the start and is kept by every step.            *)

\* No run has a revision, and no message is on its way.
LEMMA InitAims == Init => RInv
BY DEF Init, RInv, RunsAimed, RowAimed, Aimed, Provisioned, Moved, NoRow, NoExec

\* Every step leaves each unconsumed revision aimed at the current stage.
LEMMA NextAims ==
  ASSUME NoRedelivery, NoLoss, IInv, DInv, RInv, [Next]_vars
  PROVE  RInv'
<1>1. CASE RouteRunTask \/ StartStageTask \/ HandleAgentEventTask \/ LoseTask
  BY <1>1, TasksAim
<1>2. CASE \E r \in Runs : StartRun(r) \/ \E i \in Stages : StartRerunFromStage(r, i)
  BY <1>2, StartsAim
<1>3. CASE \E r \in Runs : CommitStart(r) \/ RequestCancel(r)
  BY <1>3, CancelAims
<1>4. CASE \E r \in Runs : ResolvePause(r)
  BY <1>4, ResolveAims
<1>5. CASE \E r \in Runs, c \in Cmds :
             AgentClaims(r, c) \/ ReaperExpires(r, c) \/ AgentForgets(r, c) \/ AgentLoss(r, c)
  BY <1>5, EnvironmentAims
<1>6. CASE \E r \in Runs, c \in Cmds, outcome \in Outcomes : AgentReports(r, c, outcome)
  BY <1>6, ReportsAim
<1>7. CASE ResumeStalledRuns
  BY <1>7, SweepsAim
<1>8. CASE UNCHANGED vars
  BY <1>8, OutsideAims DEF vars
<1> QED
  BY <1>1, <1>2, <1>3, <1>4, <1>5, <1>6, <1>7, <1>8 DEF Next, Finished

\* A send-back, an instruction or a rerun reaches the stage it was written for
\* (kickoff.revision): until an invocation of that stage consumes it, no
\* boundary is routed, no human is asked and the stage stays the current one,
\* through expired workspaces, re-provisioning and the stall sweep.
THEOREM RevisionHolds ==
  ASSUME NoRedelivery, NoLoss
  PROVE  Spec => []RevisionReachesItsStage
<1>1. Init => IInv /\ DInv /\ RInv
  BY InitIInv, InitDriven, InitAims
<1>2. IInv /\ DInv /\ RInv /\ [Next]_vars => (IInv /\ DInv /\ RInv)'
  BY NextKeeps, NextDrives, NextAims DEF StepKeeps
<1>3. RInv => RevisionReachesItsStage
  BY DEF RInv, RunsAimed, RowAimed, Aimed, RevisionReachesItsStage
<1> QED
  BY <1>1, <1>2, <1>3, PTL DEF Spec

\* While no message is lost either, a running run is never waiting for nothing:
\* a message of its own is on its way or a command it dispatched is pending,
\* so reconcile (a) of resume_stalled_runs has no run to replay.
THEOREM NeverStranded ==
  ASSUME NoRedelivery, NoLoss
  PROVE  Spec => [](\A r \in Runs : Moved(r))
<1>1. Init => IInv /\ DInv /\ RInv
  BY InitIInv, InitDriven, InitAims
<1>2. IInv /\ DInv /\ RInv /\ [Next]_vars => (IInv /\ DInv /\ RInv)'
  BY NextKeeps, NextDrives, NextAims DEF StepKeeps
<1>3. RInv => \A r \in Runs : Moved(r)
  BY DEF RInv, RunsAimed
<1> QED
  BY <1>1, <1>2, <1>3, PTL DEF Spec
=============================================================================
