------------------------------ MODULE RunEngine ------------------------------
(***************************************************************************)
(* The pipeline run engine (domain/pipelines) for the runs of one ticket:  *)
(* the rows of pipeline_runs, stage_executions and run_pauses it keeps,    *)
(* the agent_commands and workspaces rows it dispatches through, the       *)
(* ticket it drives, and the task messages (ROUTE_RUN, START_STAGE,        *)
(* HANDLE_AGENT_EVENT) that carry a run from one transaction to the next.  *)
(*                                                                         *)
(* Every action is one committed transaction.  A transaction body that     *)
(* calls another helper is an operator that passes the working copies on:  *)
(* R (the run's row), tk (the ticket's row) and T (the messages after this *)
(* one was consumed); the last helper of a chain assigns the primed        *)
(* variables.  An exception rolls the transaction back and loses the       *)
(* message: no retry middleware is installed.                              *)
(***************************************************************************)
EXTENDS Naturals, Sequences

CONSTANTS
  Pipeline,     \* the flattened definition, pinned at start: a sequence of stages
  NRuns,        \* bound: runs started on the ticket
  MaxCmds,      \* bound: agent commands dispatched for one run
  MaxDup,       \* bound: task messages delivered once more than they were sent
  MaxLoss,      \* bound: task messages lost after the outbox drain
  MaxExpire,    \* bound: workspaces expired by the reaper (TTL or idle)
  MaxInstruct,  \* bound: "instruct" resolutions by a human
  Faults        \* which environment faults may occur, a subset of FaultKinds

FaultKinds ==
  { "provision_fails",    \* an agent reports a ProvisionWorkspace failure
    "agent_forgets",      \* the agent drops a workspace it was told to forget
    "agent_lost",         \* the agent owning a workspace goes offline for good
    "late_cancel" }       \* a cancel request commits when its run is in cleanup, paused or over

Stages == 1..Len(Pipeline)
Runs   == 1..NRuns
Cmds   == 1..MaxCmds

StageKinds    == {"skill", "review", "action"}
BoundaryModes == {"always_proceed", "always_hitl", "conditional"}

\* review = max_iterations of the attached review loop, 0 when there is none;
\* context = the upstream stages shown to this one (all of them when unrestricted).
StageType == [kind : StageKinds, review : Nat, context : SUBSET Nat, mode : BoundaryModes]

ASSUME PipelineAssumption == Pipeline \in Seq(StageType) /\ Len(Pipeline) > 0

ASSUME BoundsAssumption ==
  /\ NRuns \in Nat \ {0}
  /\ MaxCmds \in Nat
  /\ MaxDup \in Nat
  /\ MaxLoss \in Nat
  /\ MaxExpire \in Nat
  /\ MaxInstruct \in Nat
  /\ Faults \subseteq FaultKinds

VARIABLES
  run,     \* run[r]: the pipeline_runs row with its stage_executions and pause
  cmd,     \* cmd[r][c]: the c-th agent_commands row correlated to run r
  space,   \* space[r][w]: the workspaces row minted with provision command w
  ticket,  \* the tickets row, and the stages with a final artifact on it
  tasks,   \* task messages drained to Redis and not yet consumed
  used     \* how much of each environment bound is used up

vars == <<run, cmd, space, ticket, tasks, used>>

-----------------------------------------------------------------------------
(* Rows and messages.  0 stands for NULL in every index and id.             *)

Terminal == {"completed", "failed", "killed", "cancelled"}
InFlight == {"running", "paused"}

\* "none": no row yet.  "inserting": start_run flushed the row and failed to
\* promote it, and its transaction has not committed: nobody else sees it.
RunStates == {"none", "inserting", "queued"} \cup InFlight \cup Terminal

\* The newest stage_executions row that is still `running`.  Older running
\* rows are only left behind when a dispatch was duplicated; no query can
\* return one of them while a newer dispatch is pending.
SystemKinds == {"provision", "cleanup", "refresh"}
ExecType == [kind : {"none", "skill", "review"} \cup SystemKinds,
             idx : 0..Len(Pipeline), phase : {"main", "review", "fix"}, iter : Nat]
NoExec == [kind |-> "none", idx |-> 0, phase |-> "main", iter |-> 0]

\* The newest non-system row, which the stall sweep derives its replay from.
LastType == [idx : 0..Len(Pipeline), status : {"none", "running", "completed", "failed"}]
NoLast == [idx |-> 0, status |-> "none"]

RowType ==
  [state : RunStates, phase : {"provision", "stages", "cleanup"},
   stage : 0..Len(Pipeline),        \* current_stage_index
   ws : 0..MaxCmds,                 \* workspace_id: its provision command
   pending : 0..MaxCmds,            \* pending_agent_command_id
   minted : 0..MaxCmds,             \* commands dispatched so far
   cancel : BOOLEAN,                \* cancel_requested
   failed : BOOLEAN,                \* failure_reason IS NOT NULL
   killed : BOOLEAN,                \* a run_pauses row resolved `kill`
   revision : 0..Len(Pipeline),     \* stage kickoff.revision was written for
   sentBack : SUBSET Stages,        \* sendback_counts, per target
   retried : SUBSET Stages,         \* sendback_counts, auth_retry:<stage>
   pause : 0..Len(Pipeline),        \* stage of the open run_pauses row
   exec : ExecType, last : LastType]

NoRow ==
  [state |-> "none", phase |-> "stages", stage |-> 0, ws |-> 0, pending |-> 0, minted |-> 0,
   cancel |-> FALSE, failed |-> FALSE, killed |-> FALSE, revision |-> 0,
   sentBack |-> {}, retried |-> {}, pause |-> 0, exec |-> NoExec, last |-> NoLast]

CmdType == [kind : {"none", "provision", "invoke", "refresh", "cleanup"},
            ws : 0..MaxCmds, status : {"none", "pending", "claimed", "done"}]
NoCmd == [kind |-> "none", ws |-> 0, status |-> "none"]

\* agent: whether the pod that holds the directory still serves it.
SpaceType == [status : {"absent", "active", "expired"}, claim : 0..MaxCmds,
              agent : {"holds", "forgot", "lost"}]
NoSpace == [status |-> "absent", claim |-> 0, agent |-> "holds"]

TicketStatus   == {"pending", "running", "hitl", "done", "failed", "cancelled"}
TicketTerminal == {"done", "failed", "cancelled"}
TicketType == [status : TicketStatus, cur : 0..NRuns, finals : SUBSET Stages]

RouteRun(r, i, outcome)   == [type |-> "ROUTE_RUN", run |-> r, idx |-> i, cmd |-> 0, outcome |-> outcome]
StartStage(r, i)          == [type |-> "START_STAGE", run |-> r, idx |-> i, cmd |-> 0, outcome |-> "none"]
AgentEvent(r, c, outcome) == [type |-> "HANDLE_AGENT_EVENT", run |-> r, idx |-> 0, cmd |-> c, outcome |-> outcome]

Outcomes == {"none", "success", "failure", "auth_expired"}
MsgType == [type : {"ROUTE_RUN", "START_STAGE", "HANDLE_AGENT_EVENT"}, run : Runs,
            idx : 0..Len(Pipeline), cmd : 0..MaxCmds, outcome : Outcomes]

Init ==
  /\ run = [r \in Runs |-> NoRow]
  /\ cmd = [r \in Runs |-> [c \in Cmds |-> NoCmd]]
  /\ space = [r \in Runs |-> [w \in Cmds |-> NoSpace]]
  /\ ticket = [status |-> "pending", cur |-> 0, finals |-> {}]
  /\ tasks = {}
  /\ used = [dup |-> 0, loss |-> 0, expire |-> 0, instruct |-> 0]

-----------------------------------------------------------------------------
(* Ends of a transaction body.                                              *)

\* Commit the working rows; no command was dispatched.
Save(r, R, tk, T) ==
  /\ run' = [run EXCEPT ![r] = R]
  /\ ticket' = tk
  /\ tasks' = T
  /\ UNCHANGED <<cmd, space>>

\* An early return, or an exception: only the message is gone.
Drop(T) ==
  /\ tasks' = T
  /\ UNCHANGED <<run, cmd, space, ticket>>

\* enqueue_command, try_claim and the caller parking on the minted id.  Only an
\* invocation claims the workspace.
Park(r, R, kind, w, tk, T) ==
  LET c == R.minted + 1 IN
  /\ R.minted < MaxCmds
  /\ run' = [run EXCEPT ![r] = [R EXCEPT !.minted = c, !.pending = c]]
  /\ cmd' = [cmd EXCEPT ![r][c] = [kind |-> kind, ws |-> w, status |-> "pending"]]
  /\ space' = IF kind = "invoke" THEN [space EXCEPT ![r][w].claim = c] ELSE space
  /\ ticket' = tk
  /\ tasks' = T

\* Mutant: the conditional UPDATE lacks `current_command_id IS NULL`.
Claimable_IgnoresClaim(r, w) == space[r][w].status = "active"

\* The row the handler reads by id, and try_claim's conditional UPDATE.
RowExists(r, w) == w # 0 /\ space[r][w].status # "absent"
Claimable(r, w) == space[r][w].status = "active" /\ space[r][w].claim = 0

\* WorkspaceNotFoundError and WorkspaceClaimFailed propagate to the task.
DispatchViaWorkspace(r, R, kind, tk, T) ==
  LET ok == RowExists(r, R.ws) /\ (kind = "invoke" => Claimable(r, R.ws)) IN
  \/ ok /\ Park(r, R, kind, R.ws, tk, T)
  \/ ~ok /\ Drop(T)

\* What an update of the settling execution does to the newest non-system row.
Settled(R, status) ==
  [R EXCEPT !.exec = NoExec,
            !.last.status = IF R.last.status = "running" THEN status ELSE @]

FailStage(r, R, i, tk, T) ==
  Save(r, Settled(R, "failed"), tk, T \cup {RouteRun(r, i, "failure")})

\* The next pass of the running execution; without credentials the stage fails.
InvokeAgain(r, R, e, tk, T) ==
  \/ DispatchViaWorkspace(r, [R EXCEPT !.exec = e], "invoke", tk, T)
  \/ FailStage(r, R, e.idx, tk, T)

-----------------------------------------------------------------------------
(* Promotion and terminal states.                                           *)

TransitionOnRunStart(tk, r) ==
  [tk EXCEPT !.cur = r, !.status = IF @ = "pending" THEN "running" ELSE @]

TransitionOnRunTerminal(tk, r, to) ==
  IF tk.cur = r /\ tk.status \notin TicketTerminal THEN [tk EXCEPT !.status = to] ELSE tk

TransitionOnRunPaused(tk, r) ==
  IF tk.cur = r /\ tk.status \notin TicketTerminal THEN [tk EXCEPT !.status = "hitl"] ELSE tk

\* Mutant: resolving a pause leaves the ticket at `hitl`.
TransitionOnRunResumed_Never(tk, r) == tk

TransitionOnRunResumed(tk, r) ==
  IF tk.cur = r /\ tk.status = "hitl" THEN [tk EXCEPT !.status = "running"] ELSE tk

TicketStatusOf(state) ==
  CASE state = "completed" -> "done"
    [] state = "failed"    -> "failed"
    [] OTHER               -> "cancelled"

Queued == {q \in Runs : run[q].state = "queued"}
OldestQueued(q) == q \in Queued /\ \A p \in Queued : q <= p

\* Mutant: the partial unique index covers `running` only.
SlotFree_RunningOnly(r) == \A q \in Runs \ {r} : run[q].state # "running"

\* ux_pipeline_runs_one_in_flight, as a promotion of a run other than r sees it.
SlotFree(r) == \A q \in Runs \ {r} : run[q].state \notin InFlight

\* The oldest queued run takes the slot that r's terminal state frees.
EnterTerminal(r, R, state, tk, T) ==
  LET done == [R EXCEPT !.state = state]
      left == TransitionOnRunTerminal(tk, r, TicketStatusOf(state))
  IN \/ \E q \in Runs :
           /\ OldestQueued(q) /\ SlotFree(r)
           /\ run' = [run EXCEPT ![r] = done, ![q].state = "running"]
           /\ ticket' = TransitionOnRunStart(left, q)
           /\ tasks' = T \cup {RouteRun(q, 0, "none")}
           /\ UNCHANGED <<cmd, space>>
     \/ /\ Queued = {} \/ ~SlotFree(r)
        /\ Save(r, done, left, T)

DispatchCleanupStage(r, R, tk, T) ==
  DispatchViaWorkspace(r, [R EXCEPT !.exec = [NoExec EXCEPT !.kind = "cleanup"], !.phase = "cleanup"],
                       "cleanup", tk, T)

\* Mutant: a killed run enters its terminal state directly.
FinishOrCleanup_SkipsOnKill(r, R, target, tk, T) ==
  LET decided == [R EXCEPT !.failed = (target = "failed")] IN
  \/ /\ R.ws # 0 /\ R.phase # "cleanup" /\ target # "killed"
     /\ DispatchCleanupStage(r, decided, tk, T)
  \/ /\ R.ws = 0 \/ R.phase = "cleanup" \/ target = "killed"
     /\ EnterTerminal(r, decided, target, tk, T)

FinishOrCleanup(r, R, target, tk, T) ==
  LET decided == [R EXCEPT !.failed = (target = "failed")] IN
  \/ /\ R.ws # 0 /\ R.phase # "cleanup"
     /\ DispatchCleanupStage(r, decided, tk, T)
  \/ /\ R.ws = 0 \/ R.phase = "cleanup"
     /\ EnterTerminal(r, decided, target, tk, T)

\* Mutants: the cancel flag, or the resolved pause, is not looked at.
TargetState_IgnoresCancel(R) ==
  IF R.failed THEN "failed" ELSE IF R.killed THEN "killed" ELSE "completed"
TargetState_IgnoresKill(R) ==
  IF R.failed THEN "failed" ELSE IF R.cancel THEN "cancelled" ELSE "completed"

\* The outcome _finalize_after_cleanup derives from the row.
TargetState(R) ==
  IF R.failed THEN "failed"
  ELSE IF R.cancel THEN "cancelled"
  ELSE IF R.killed THEN "killed"
  ELSE "completed"

FinalizeAfterCleanup(r, R, tk, T) == EnterTerminal(r, R, TargetState(R), tk, T)

-----------------------------------------------------------------------------
(* START_STAGE.                                                             *)

Live(r, w) == w # 0 /\ space[r][w].status = "active"

\* The action runs inside this transaction, in a SAVEPOINT of its own.
RunActionStage(r, R, i, tk, T) ==
  \E outcome \in {"success", "failure"} :
    Save(r, [R EXCEPT !.last = [idx |-> i,
                                status |-> IF outcome = "success" THEN "completed" ELSE "failed"]],
         tk, T \cup {RouteRun(r, i, outcome)})

\* Mutant: a re-provision leaves the run on the id of the dead workspace.
DispatchProvisionStage_KeepsOldId(r, R, tk, T) ==
  LET w == R.minted + 1 IN
  Park(r, [R EXCEPT !.exec = [NoExec EXCEPT !.kind = "provision"], !.ws = IF @ = 0 THEN w ELSE @,
                    !.phase = "provision"],
       "provision", w, tk, T)

\* No workspaces row yet: it is inserted when the agent reports success.
DispatchProvisionStage(r, R, tk, T) ==
  LET w == R.minted + 1 IN
  Park(r, [R EXCEPT !.exec = [NoExec EXCEPT !.kind = "provision"], !.ws = w, !.phase = "provision"],
       "provision", w, tk, T)

\* A fresh stage_executions row e.  Without credentials it fails at once, and
\* whatever was running before still is.
DispatchFresh(r, R, e, tk, T) ==
  \/ DispatchViaWorkspace(r, [R EXCEPT !.exec = e, !.last = [idx |-> e.idx, status |-> "running"]],
                          "invoke", tk, T)
  \/ Save(r, [R EXCEPT !.last = [idx |-> e.idx, status |-> "failed"]], tk,
          T \cup {RouteRun(r, e.idx, "failure")})

DispatchSkillStage(r, R, i, tk, T) ==
  DispatchFresh(r, R, [kind |-> "skill", idx |-> i, phase |-> "main", iter |-> 0], tk, T)

\* One pass, no loop.
DispatchReviewOnlyStage(r, R, i, tk, T) ==
  DispatchFresh(r, R, [kind |-> "review", idx |-> i, phase |-> "review", iter |-> 1], tk, T)

StartStageImpl(r, R, i, tk, T) ==
  \/ /\ R.state # "running"
     /\ Save(r, R, tk, T)
  \/ /\ R.state = "running" /\ Pipeline[i].kind = "action"
     /\ RunActionStage(r, R, i, tk, T)
  \/ /\ R.state = "running" /\ Pipeline[i].kind # "action" /\ ~Live(r, R.ws)
     /\ DispatchProvisionStage(r, R, tk, T)
  \/ /\ R.state = "running" /\ Pipeline[i].kind = "skill" /\ Live(r, R.ws)
     /\ DispatchSkillStage(r, [R EXCEPT !.revision = 0], i, tk, T)
  \/ /\ R.state = "running" /\ Pipeline[i].kind = "review" /\ Live(r, R.ws)
     /\ DispatchReviewOnlyStage(r, [R EXCEPT !.revision = 0], i, tk, T)

-----------------------------------------------------------------------------
(* ROUTE_RUN.                                                               *)

\* Mutant: the index is advanced once more than the caller already did.
DispatchStage_OffByOne(r, R, i, T) ==
  Save(r, [R EXCEPT !.stage = i + 1], ticket, T \cup {StartStage(r, i + 1)})

DispatchStage(r, R, i, T) ==
  Save(r, [R EXCEPT !.stage = i], ticket, T \cup {StartStage(r, i)})

RouteRunImpl(m, T) ==
  LET r == m.run
      R == run[r]
  IN \/ /\ R.state # "running"
        /\ Drop(T)
     \/ /\ R.state = "running" /\ m.idx = 0
        /\ DispatchStage(r, R, IF R.stage = 0 THEN 1 ELSE R.stage, T)
     \/ /\ R.state = "running" /\ m.idx # 0 /\ m.outcome = "failure"
        /\ FinishOrCleanup(r, R, "failed", ticket, T)
     \/ /\ R.state = "running" /\ m.idx # 0 /\ m.outcome # "failure" /\ R.cancel
        /\ FinishOrCleanup(r, R, "cancelled", ticket, T)
     \/ /\ R.state = "running" /\ m.idx # 0 /\ m.outcome # "failure" /\ ~R.cancel
        /\ m.idx = Len(Pipeline)
        /\ FinishOrCleanup(r, R, "completed", ticket, T)
     \/ /\ R.state = "running" /\ m.idx # 0 /\ m.outcome # "failure" /\ ~R.cancel
        /\ m.idx < Len(Pipeline)
        /\ DispatchStage(r, R, m.idx + 1, T)

-----------------------------------------------------------------------------
(* HANDLE_AGENT_EVENT.                                                      *)

EnterPause(r, R, i, tk, T) ==
  Save(r, [R EXCEPT !.state = "paused", !.pause = i], TransitionOnRunPaused(tk, r), T)

\* resolve_send_back_target: earlier skill stages this one is shown.
Targets(i) == {j \in 1..(i - 1) : Pipeline[j].kind = "skill" /\ j \in Pipeline[i].context}

\* Mutant: the rewind does not move current_stage_index.
SendBackToStage_KeepsStage(r, R, i, j, tk, T) ==
  \/ /\ j \in R.sentBack
     /\ EnterPause(r, R, i, tk, T)
  \/ /\ j \notin R.sentBack
     /\ StartStageImpl(r, [R EXCEPT !.sentBack = @ \cup {j}, !.revision = j], j, tk, T)

\* Loop protection: a target is rewound to at most once per run, then a human decides.
SendBackToStage(r, R, i, j, tk, T) ==
  \/ /\ j \in R.sentBack
     /\ EnterPause(r, R, i, tk, T)
  \/ /\ j \notin R.sentBack
     /\ StartStageImpl(r, [R EXCEPT !.sentBack = @ \cup {j}, !.revision = j, !.stage = j], j, tk, T)

\* evaluate_boundary: the mode decides, or conditions that may trip or not.
BoundaryDecisions(i) ==
  CASE Pipeline[i].mode = "always_proceed" -> {"proceed"}
    [] Pipeline[i].mode = "always_hitl"    -> {"pause"}
    [] OTHER                               -> {"pause", "proceed"}

\* The boundary after stage i's own work: a residual that names an upstream
\* artifact sends back before the boundary is evaluated.
SettleStageBoundary(r, R, i, residuals, tk, T) ==
  LET done == Settled(R, "completed") IN
  \/ /\ residuals
     /\ \E j \in Targets(i) : SendBackToStage(r, done, i, j, tk, T)
  \/ /\ "pause" \in BoundaryDecisions(i)
     /\ EnterPause(r, done, i, tk, T)
  \/ /\ "proceed" \in BoundaryDecisions(i)
     /\ Save(r, done, tk, T \cup {RouteRun(r, i, "success")})

DispatchReviewInvocation(r, R, tk, T) ==
  InvokeAgain(r, R, [R.exec EXCEPT !.phase = "review", !.iter = @ + 1], tk, T)

DispatchFixInvocation(r, R, tk, T) ==
  InvokeAgain(r, R, [R.exec EXCEPT !.phase = "fix"], tk, T)

\* Returns of the main skill that store no artifact.  A schema violation,
\* cannot_complete, an unknown send-back target and a missing artifact fail.
NoArtifact(r, R, tk, T) ==
  LET i == R.exec.idx IN
  \/ FailStage(r, R, i, tk, T)
  \/ \E j \in Targets(i) : SendBackToStage(r, Settled(R, "completed"), i, j, tk, T)

Stored(R, tk) == [tk EXCEPT !.finals = @ \cup {R.exec.idx}]

HandleMainReturn(r, R, tk, T) ==
  LET i == R.exec.idx IN
  \/ NoArtifact(r, R, tk, T)
  \/ /\ Pipeline[i].review = 0
     /\ SettleStageBoundary(r, R, i, FALSE, Stored(R, tk), T)
  \/ /\ Pipeline[i].review # 0
     /\ DispatchReviewInvocation(r, R, Stored(R, tk), T)

HandleFixReturn(r, R, tk, T) ==
  NoArtifact(r, R, tk, T) \/ DispatchReviewInvocation(r, R, Stored(R, tk), T)

\* A SkillReviewReturn of the attached loop, leaving residual findings or not.
HandleReviewReturn(r, R, tk, T) ==
  LET i == R.exec.idx IN
  \/ FailStage(r, R, i, tk, T)
  \/ /\ R.exec.iter < Pipeline[i].review
     /\ DispatchFixInvocation(r, R, tk, T)
  \/ SettleStageBoundary(r, R, i, FALSE, tk, T)
  \/ /\ R.exec.iter >= Pipeline[i].review
     /\ SettleStageBoundary(r, R, i, TRUE, tk, T)

\* An expired token on the main pass is refreshed and retried once per stage.
HandleSkillStageEvent(r, R, outcome, tk, T) ==
  LET i == R.exec.idx
      retry == outcome = "auth_expired" /\ R.exec.phase = "main" /\ i \notin R.retried
  IN \/ /\ retry
        /\ DispatchViaWorkspace(r, [Settled(R, "failed") EXCEPT !.retried = @ \cup {i},
                                      !.exec = [NoExec EXCEPT !.kind = "refresh"]],
                                "refresh", tk, T)
     \/ /\ outcome # "success" /\ ~retry
        /\ FailStage(r, R, i, tk, T)
     \/ /\ outcome = "success" /\ R.exec.phase = "review"
        /\ HandleReviewReturn(r, R, tk, T)
     \/ /\ outcome = "success" /\ R.exec.phase = "fix"
        /\ HandleFixReturn(r, R, tk, T)
     \/ /\ outcome = "success" /\ R.exec.phase = "main"
        /\ HandleMainReturn(r, R, tk, T)

HandleReviewStageEvent(r, R, outcome, tk, T) ==
  \/ FailStage(r, R, R.exec.idx, tk, T)
  \/ /\ outcome = "success"
     /\ \E residuals \in BOOLEAN : SettleStageBoundary(r, R, R.exec.idx, residuals, tk, T)

\* The retry after a refresh dispatches the current stage afresh, unless a
\* duplicate has moved current_stage_index on to another kind of stage.
RetryAfterRefresh(r, R, tk, T) ==
  IF Pipeline[R.stage].kind = "skill"
  THEN DispatchSkillStage(r, R, R.stage, tk, T)
  ELSE FinishOrCleanup(r, R, "failed", tk, T)

HandleSystemStageEvent(r, R, outcome, tk, T) ==
  LET over == [R EXCEPT !.exec = NoExec] IN
  \/ /\ R.exec.kind = "cleanup"
     /\ FinalizeAfterCleanup(r, over, tk, T)
  \/ /\ R.exec.kind # "cleanup" /\ outcome # "success"
     /\ FinishOrCleanup(r, over, "failed", tk, T)
  \/ /\ R.exec.kind = "provision" /\ outcome = "success"
     /\ Save(r, [over EXCEPT !.phase = "stages"], tk, T \cup {StartStage(r, R.stage)})
  \/ /\ R.exec.kind = "refresh" /\ outcome = "success"
     /\ RetryAfterRefresh(r, over, tk, T)

\* Mutant: the command a handled event belongs to stays the pending one.
Resumed_KeepsPending(R) == R

\* The row once its pending command has answered.
Resumed(R) == [R EXCEPT !.pending = 0]

\* Only the pending command resumes a running run; anything else is stale.
HandleAgentEventImpl(m, T) ==
  LET r == m.run
      R == run[r]
      stale == R.state # "running" \/ R.pending # m.cmd \/ R.exec.kind = "none"
  IN \/ stale /\ Drop(T)
     \/ ~stale /\ R.exec.kind \in SystemKinds /\ HandleSystemStageEvent(r, Resumed(R), m.outcome, ticket, T)
     \/ ~stale /\ R.exec.kind = "review" /\ HandleReviewStageEvent(r, Resumed(R), m.outcome, ticket, T)
     \/ ~stale /\ R.exec.kind = "skill" /\ HandleSkillStageEvent(r, Resumed(R), m.outcome, ticket, T)

-----------------------------------------------------------------------------
(* Delivery of task messages: at least once up to Redis, at most once after. *)

\* A worker consumes m and runs the body to its commit.  The outbox drain may
\* deliver the same message again: T still holds it then.
Consume(m, T) ==
  \/ /\ T = tasks \ {m}
     /\ UNCHANGED used
  \/ /\ T = tasks
     /\ used.dup < MaxDup
     /\ used' = [used EXCEPT !.dup = @ + 1]

RouteRunTask ==
  \E m \in tasks : \E T \in {tasks, tasks \ {m}} :
    m.type = "ROUTE_RUN" /\ Consume(m, T) /\ RouteRunImpl(m, T)

StartStageTask ==
  \E m \in tasks : \E T \in {tasks, tasks \ {m}} :
    m.type = "START_STAGE" /\ Consume(m, T) /\ StartStageImpl(m.run, run[m.run], m.idx, ticket, T)

HandleAgentEventTask ==
  \E m \in tasks : \E T \in {tasks, tasks \ {m}} :
    m.type = "HANDLE_AGENT_EVENT" /\ Consume(m, T) /\ HandleAgentEventImpl(m, T)

\* A Redis flush, a worker that dies before its commit, a body that raises.
LoseTask ==
  /\ used.loss < MaxLoss
  /\ used' = [used EXCEPT !.loss = @ + 1]
  /\ \E m \in tasks : Drop(tasks \ {m})

-----------------------------------------------------------------------------
(* Agents and the reaper, as the engine's rows see them.                     *)

\* An agent asks for commands of the workspaces it holds idle, and for
\* provisions; a workspace it forgot is in none of its requests.
AgentClaims(r, c) ==
  LET w == cmd[r][c].ws IN
  /\ cmd[r][c].status = "pending"
  /\ space[r][w].agent = "holds"
  /\ \A d \in Cmds : cmd[r][d].ws = w => cmd[r][d].status # "claimed"
  /\ cmd' = [cmd EXCEPT ![r][c].status = "claimed"]
  /\ UNCHANGED <<run, space, ticket, tasks, used>>

ReportOutcomes(kind) ==
  CASE kind = "provision" -> {"success"} \cup (IF "provision_fails" \in Faults THEN {"failure"} ELSE {})
    [] kind = "invoke"    -> {"success", "failure", "auth_expired"}
    [] OTHER              -> {"success", "failure"}

\* record_agent_event on a terminal event: release the claim, retire the
\* command, insert the workspaces row of a provision, wake the engine.
AgentReports(r, c, outcome) ==
  LET w == cmd[r][c].ws
      S == space[r][w]
  IN /\ cmd[r][c].status = "claimed"
     /\ S.agent # "lost"
     /\ outcome \in ReportOutcomes(cmd[r][c].kind)
     /\ cmd' = [cmd EXCEPT ![r][c].status = "done"]
     /\ space' = [space EXCEPT ![r][w] =
          [S EXCEPT !.claim = IF @ = c THEN 0 ELSE @,
                    !.status = IF cmd[r][c].kind = "provision" /\ outcome = "success"
                               THEN "active" ELSE @]]
     /\ tasks' = tasks \cup {AgentEvent(r, c, outcome)}
     /\ UNCHANGED <<run, ticket, used>>

\* TTL or idle sweep; the row then goes through destroying to destroyed.
ReaperExpires(r, w) ==
  /\ space[r][w].status = "active"
  /\ used.expire < MaxExpire
  /\ used' = [used EXCEPT !.expire = @ + 1]
  /\ space' = [space EXCEPT ![r][w].status = "expired"]
  /\ UNCHANGED <<run, cmd, ticket, tasks>>

\* The heartbeat answer names a destroyed row in forgotten_workspaces.
AgentForgets(r, w) ==
  /\ "agent_forgets" \in Faults
  /\ space[r][w].status = "expired" /\ space[r][w].agent = "holds"
  /\ space' = [space EXCEPT ![r][w].agent = "forgot"]
  /\ UNCHANGED <<run, cmd, ticket, tasks, used>>

\* failsafe_agent_loss: an active workspace of the lost pod expires, and the
\* command that holds its claim, if any, gets a synthetic failure.
AgentLoss(r, w) ==
  LET S == space[r][w] IN
  /\ "agent_lost" \in Faults
  /\ cmd[r][w].kind = "provision" /\ cmd[r][w].status \in {"claimed", "done"}
  /\ S.agent # "lost"
  /\ used.expire < MaxExpire
  /\ used' = [used EXCEPT !.expire = @ + 1]
  /\ space' = [space EXCEPT ![r][w] =
       [S EXCEPT !.agent = "lost", !.status = IF @ = "active" THEN "expired" ELSE @]]
  /\ tasks' = IF S.status = "active" /\ S.claim # 0
              THEN tasks \cup {AgentEvent(r, S.claim, "failure")} ELSE tasks
  /\ UNCHANGED <<run, cmd, ticket>>

-----------------------------------------------------------------------------
(* Requests: starting, cancelling, and resolving a pause.                    *)

\* Insert `queued`, then try the promotion under the partial unique index.
InsertAndPromote(r, row) ==
  /\ run[r].state = "none"
  /\ \A q \in Runs : q < r => run[q].state # "none"
  /\ \/ /\ SlotFree(r)
        /\ Save(r, [row EXCEPT !.state = "running"], TransitionOnRunStart(ticket, r),
                tasks \cup {RouteRun(r, 0, "none")})
     \/ /\ ~SlotFree(r)
        /\ Save(r, [row EXCEPT !.state = "inserting"], ticket, tasks)
  /\ UNCHANGED used

StartRun(r) == InsertAndPromote(r, NoRow)

SkillsBefore(i) == {j \in 1..(i - 1) : Pipeline[j].kind = "skill"}

\* Start at stage i of the current definition, with an instruction for it; an
\* upstream artifact must resolve if there are upstream skill stages.
StartRerunFromStage(r, i) ==
  /\ ticket.cur # 0
  /\ Pipeline[i].kind \in {"skill", "review"}
  /\ SkillsBefore(i) = {} \/ SkillsBefore(i) \cap ticket.finals # {}
  /\ InsertAndPromote(r, [NoRow EXCEPT !.stage = i, !.revision = i])

\* The transaction that left its run queued commits.
CommitStart(r) ==
  /\ run[r].state = "inserting"
  /\ Save(r, [run[r] EXCEPT !.state = "queued"], ticket, tasks)
  /\ UNCHANGED used

\* Mutant: the UPDATE is not conditional on `queued`.
CancelQueued_AnyState(r) ==
  /\ run[r].state \notin InFlight \cup {"none", "inserting"}
  /\ Save(r, [run[r] EXCEPT !.state = "cancelled"], ticket, tasks)

CancelQueued(r) ==
  /\ run[r].state = "queued"
  /\ Save(r, [run[r] EXCEPT !.state = "cancelled"], ticket, tasks)

\* Running: only a flag, read at the next boundary.  The handler reads the row
\* without a lock and writes the flag by primary key: the run it found running
\* may be paused or over when the write commits (one that ended `cancelled` out
\* of `running` has the flag already).
CancelRunning(r) ==
  /\ run[r].state \in InFlight \cup {"completed", "failed", "killed"}
  /\ (run[r].state = "running" /\ run[r].phase # "cleanup") \/ "late_cancel" \in Faults
  /\ Save(r, [run[r] EXCEPT !.cancel = TRUE], ticket, tasks)

\* Paused: the pause is closed without a resolution and the run finishes now.
CancelPaused(r) ==
  /\ run[r].state = "paused"
  /\ FinishOrCleanup(r, [run[r] EXCEPT !.state = "running", !.cancel = TRUE, !.pause = 0],
                     "cancelled", ticket, tasks)

RequestCancel(r) == (CancelQueued(r) \/ CancelRunning(r) \/ CancelPaused(r)) /\ UNCHANGED used

\* Mutant: the pause row is not marked resolved.
Approve_LeavesPauseOpen(r) ==
  /\ run[r].state = "paused"
  /\ Save(r, [run[r] EXCEPT !.state = "running"], TransitionOnRunResumed(ticket, r),
          tasks \cup {RouteRun(r, run[r].pause, "success")})
  /\ UNCHANGED used

\* The paused stage settled already: replay the ROUTE_RUN it would have sent.
Approve(r) ==
  /\ run[r].state = "paused"
  /\ Save(r, [run[r] EXCEPT !.state = "running", !.pause = 0], TransitionOnRunResumed(ticket, r),
          tasks \cup {RouteRun(r, run[r].pause, "success")})
  /\ UNCHANGED used

\* The paused stage again, with the human's text as its revision.
Instruct(r) ==
  LET i == run[r].pause IN
  /\ run[r].state = "paused"
  /\ used.instruct < MaxInstruct
  /\ used' = [used EXCEPT !.instruct = @ + 1]
  /\ StartStageImpl(r, [run[r] EXCEPT !.state = "running", !.pause = 0, !.stage = i, !.revision = i],
                    i, TransitionOnRunResumed(ticket, r), tasks)

HumanSendBack(r, j) ==
  LET i == run[r].pause IN
  /\ run[r].state = "paused"
  /\ j \in Targets(i)
  /\ SendBackToStage(r, [run[r] EXCEPT !.state = "running", !.pause = 0], i, j,
                     TransitionOnRunResumed(ticket, r), tasks)
  /\ UNCHANGED used

\* Back to `running` so that the cleanup's own event is not dropped as stale.
Kill(r) ==
  /\ run[r].state = "paused"
  /\ FinishOrCleanup(r, [run[r] EXCEPT !.state = "running", !.pause = 0, !.killed = TRUE],
                     "killed", ticket, tasks)
  /\ UNCHANGED used

ResolvePause(r) == Approve(r) \/ Instruct(r) \/ Kill(r) \/ \E j \in Stages : HumanSendBack(r, j)

-----------------------------------------------------------------------------
(* resume_stalled_runs: at most one of the three reconciliations applies to  *)
(* a ticket, since (a) and (b) need its run in flight and (c) none in flight. *)

Quiet(r) == \A m \in tasks : m.run # r

\* The staleness threshold lets the sweep fire once the run's messages are
\* gone; a backlog longer than the threshold makes it one more duplicate.
SweepEnqueues(r, m) ==
  /\ Quiet(r) \/ used.dup < MaxDup
  /\ used' = [used EXCEPT !.dup = IF Quiet(r) THEN @ ELSE @ + 1]
  /\ Drop(tasks \cup {m})

Replay(r, l) ==
  RouteRun(r, l.idx, CASE l.status = "none" -> "none" [] l.status = "completed" -> "success" [] OTHER -> "failure")

\* Mutants: a run without any execution is skipped; a parked run is not.
ReconcileStaleRunning_NeedsExecution(r) ==
  /\ run[r].state = "running" /\ run[r].pending = 0
  /\ run[r].last.status \in {"completed", "failed"}
  /\ SweepEnqueues(r, Replay(r, run[r].last))
ReconcileStaleRunning_IgnoresPending(r) ==
  /\ run[r].state = "running"
  /\ run[r].last.status # "running"
  /\ SweepEnqueues(r, Replay(r, run[r].last))

\* (a) Replay ROUTE_RUN from the newest non-system execution.
ReconcileStaleRunning(r) ==
  /\ run[r].state = "running" /\ run[r].pending = 0
  /\ run[r].last.status # "running"
  /\ SweepEnqueues(r, Replay(r, run[r].last))

\* (b) The pending command is done but the run was never resumed.
ReconcileLostResume(r) ==
  LET c == run[r].pending IN
  /\ run[r].state = "running" /\ c # 0
  /\ cmd[r][c].status = "done"
  /\ SweepEnqueues(r, AgentEvent(r, c, "failure"))

\* Mutant: the ticket is asked has_run_in_flight, which counts queued runs.
ReconcileOrphanedQueued_AsksHasRunInFlight ==
  /\ \A r \in Runs : run[r].state \notin InFlight \cup {"queued"}
  /\ \E q \in Runs :
       /\ OldestQueued(q)
       /\ Save(q, [run[q] EXCEPT !.state = "running"], TransitionOnRunStart(ticket, q),
               tasks \cup {RouteRun(q, 0, "none")})
  /\ UNCHANGED used

\* (c) A queued run with nobody in flight.
ReconcileOrphanedQueued ==
  /\ \A r \in Runs : run[r].state \notin InFlight
  /\ \E q \in Runs :
       /\ OldestQueued(q)
       /\ Save(q, [run[q] EXCEPT !.state = "running"], TransitionOnRunStart(ticket, q),
               tasks \cup {RouteRun(q, 0, "none")})
  /\ UNCHANGED used

ResumeStalledRuns ==
  \/ \E r \in Runs : ReconcileStaleRunning(r) \/ ReconcileLostResume(r)
  \/ ReconcileOrphanedQueued

-----------------------------------------------------------------------------

\* Every run is over and no message is left: the ticket's work has ended.
Finished ==
  /\ \A r \in Runs : run[r].state \in Terminal
  /\ tasks = {}
  /\ UNCHANGED vars

Next ==
  \/ RouteRunTask \/ StartStageTask \/ HandleAgentEventTask \/ LoseTask
  \/ \E r \in Runs :
       \/ StartRun(r) \/ CommitStart(r) \/ RequestCancel(r) \/ ResolvePause(r)
       \/ \E i \in Stages : StartRerunFromStage(r, i)
       \/ \E c \in Cmds :
            \/ AgentClaims(r, c) \/ ReaperExpires(r, c) \/ AgentForgets(r, c) \/ AgentLoss(r, c)
            \/ \E outcome \in Outcomes : AgentReports(r, c, outcome)
  \/ ResumeStalledRuns
  \/ Finished

Spec == Init /\ [][Next]_vars

\* Workers keep consuming, the sweep runs every minute, live agents keep
\* claiming and reporting, and an open transaction commits.  Nobody promises
\* that a human answers, that a run is started, or that a fault occurs.
Fairness ==
  /\ WF_vars(RouteRunTask \/ StartStageTask \/ HandleAgentEventTask)
  /\ WF_vars(ResumeStalledRuns)
  /\ \A r \in Runs :
       /\ WF_vars(CommitStart(r))
       /\ WF_vars(\E c \in Cmds : AgentClaims(r, c))
       /\ WF_vars(\E c \in Cmds, outcome \in Outcomes : AgentReports(r, c, outcome))

FairSpec == Spec /\ Fairness

-----------------------------------------------------------------------------
(* Properties.                                                               *)

TypeOK ==
  /\ run \in [Runs -> RowType]
  /\ cmd \in [Runs -> [Cmds -> CmdType]]
  /\ space \in [Runs -> [Cmds -> SpaceType]]
  /\ ticket \in TicketType
  /\ tasks \in SUBSET MsgType
  /\ used \in [dup : Nat, loss : Nat, expire : Nat, instruct : Nat]

\* What a handler takes for granted of a row it loads: a running invocation
\* names the stage it is for, the system stages it resumes from were dispatched
\* for a current stage, and a paused run has the stage its human decides on.
RowUsable(R) ==
  /\ R.exec.kind \in {"skill", "review"} => R.exec.idx \in Stages
  /\ R.exec.kind \in {"skill", "provision", "refresh"} => R.stage \in Stages
  /\ R.state = "paused" => R.pause \in Stages
  /\ R.pending <= R.minted
  /\ R.state = "none" => R.minted = 0 /\ R.stage = 0

\* What a handler takes for granted of a message: its run exists, and a
\* START_STAGE names a stage of a run that has a current stage.
MessageUsable(m) ==
  /\ run[m.run].state # "none"
  /\ m.type = "START_STAGE" => m.idx \in Stages /\ run[m.run].stage \in Stages

\* No handler finds a row or a message it cannot work with, and no command
\* exists that its run did not dispatch (the assertions and list lookups of
\* _start_stage_impl, _handle_agent_event_impl and _handle_system_stage_event
\* do not fail), whatever is lost, delivered twice or swept again.
HandlersApplicable ==
  /\ \A r \in Runs : RowUsable(run[r])
  /\ \A m \in tasks : MessageUsable(m)
  /\ \A r \in Runs, c \in Cmds :
       /\ c > run[r].minted => cmd[r][c] = NoCmd
       /\ cmd[r][c].kind = "invoke" => cmd[r][c].ws \in Cmds

\* At most one run of a ticket is running or paused, whatever order starts,
\* terminal promotions and the sweep's promotion happen in (attempt_promotion).
OneInFlight ==
  \A q, r \in Runs : run[q].state \in InFlight /\ run[r].state \in InFlight => q = r

\* A queued run waits behind a running or paused one, so `queued` alone tells
\* that the ticket is committed to pipeline work (has_run_in_flight).
QueuedBehindInFlight ==
  Queued # {} => \E r \in Runs : run[r].state \in InFlight

\* _handle_agent_event_impl looks up the newest running execution, not the one
\* the event's command was dispatched for: they are the same one, and the
\* command acts on the run's current workspace.
ParkedOnItsExecution ==
  \A r \in Runs : run[r].pending # 0 =>
    LET C == cmd[r][run[r].pending]
        e == run[r].exec.kind
    IN /\ C.ws = run[r].ws
       /\ C.kind = "invoke" => e \in {"skill", "review"}
       /\ C.kind # "invoke" => e = C.kind

\* The single-flight claim: two invocations are never outstanding on one
\* workspace, and a claim is only ever held by an outstanding invocation.
SingleFlight ==
  \A r \in Runs, c \in Cmds :
    /\ cmd[r][c].kind = "invoke" /\ cmd[r][c].status # "done" => space[r][cmd[r][c].ws].claim = c
    /\ space[r][c].claim # 0 =>
         LET C == cmd[r][space[r][c].claim] IN C.kind = "invoke" /\ C.ws = c /\ C.status # "done"

\* A run has one agent command outstanding at a time: nothing is dispatched
\* while an earlier dispatch is unfinished (the tasks are idempotent).
OneCommandOutstanding ==
  \A r \in Runs : \A c, d \in Cmds :
    cmd[r][c].status \in {"pending", "claimed"} /\ cmd[r][d].status \in {"pending", "claimed"} => c = d

\* The terminal state agrees with what the row records: a killed run never
\* ends completed or failed, a failed run has a reason, a completed one none.
OutcomeMatchesRow ==
  \A r \in Runs :
    /\ run[r].state = "completed" => ~run[r].failed /\ ~run[r].killed
    /\ run[r].state = "failed" => run[r].failed /\ ~run[r].killed
    /\ run[r].state = "killed" => run[r].killed

\* A terminal run waits for no command and has no execution running: whatever
\* it dispatched, cleanup included, has been settled.
NothingPendingAtTerminal ==
  \A r \in Runs : run[r].state \in Terminal => run[r].pending = 0 /\ run[r].exec.kind = "none"

\* No workspace of a terminal run stays active without a cleanup command:
\* re-provisioning after an expiry abandons no live workspace.
NoLiveWorkspaceAbandoned ==
  \A r \in Runs : run[r].state \in Terminal =>
    \A w \in Cmds : space[r][w].status = "active" =>
      \E c \in Cmds : cmd[r][c].kind = "cleanup" /\ cmd[r][c].ws = w

\* A single-use revision (send-back, instruct, rerun) reaches the stage it was
\* written for: while it is unconsumed, that stage is the one being started.
RevisionReachesItsStage ==
  \A r \in Runs : run[r].revision # 0 /\ run[r].state \in InFlight => run[r].stage = run[r].revision

\* A paused run has exactly its open pause, waits for no agent, and no message
\* is on its way that could move it: only a human does.
PausedWaitsForHuman ==
  \A r \in Runs :
    /\ run[r].state = "paused" <=> run[r].pause # 0
    /\ run[r].state = "paused" => run[r].pending = 0 /\ run[r].exec.kind = "none" /\ Quiet(r)

\* The ticket asks for a human exactly while its run waits for one, or while
\* the cleanup after a kill or a cancel is in flight.
HitlMeansWaiting ==
  /\ ticket.status = "hitl" =>
       \/ run[ticket.cur].state = "paused"
       \/ run[ticket.cur].state = "running" /\ run[ticket.cur].phase = "cleanup"
  /\ \A r \in Runs : run[r].state \in InFlight => ticket.cur = r
  /\ ticket.status = "running" => run[ticket.cur].state = "running"

\* A run that is over stays over: no late message, duplicate or sweep revives it.
TerminalIsFinal ==
  [][\A r \in Runs : run[r].state \in Terminal => run'[r].state = run[r].state]_vars

\* A transaction that finds a cancellation requested does not complete the run,
\* and none takes the request back, whatever was lost, retried, swept or
\* delivered twice in between (_route_run_impl, _finalize_after_cleanup).  A
\* request that commits after the run completed leaves both on the row.
CancelIsHeeded ==
  [][\A r \in Runs : run[r].cancel =>
       /\ run'[r].cancel
       /\ run'[r].state = "completed" => run[r].state = "completed"]_vars

\* "a run cannot slip into `completed` after cancellation was requested"
\* (domain_pipelines.md): so no row is both, not even when the request read the
\* run before its last transaction and commits after it.
CancelNeverCompletes == \A r \in Runs : run[r].cancel => run[r].state # "completed"

\* Once cleanup is in flight the outcome _finalize_after_cleanup will derive is
\* the one _finish_or_cleanup decided.
OutcomeFrozenDuringCleanup ==
  [][\A r \in Runs : run[r].state = "running" /\ run[r].phase = "cleanup"
       => TargetState(run'[r]) = TargetState(run[r])]_vars

\* A running run reaches a terminal state or a human: no lost message, expired
\* workspace or failed command leaves it `running` for ever.
RunSettles ==
  \A r \in Runs : run[r].state = "running" ~> run[r].state \in Terminal \cup {"paused"}

\* A queued run gets its turn unless a human keeps a sibling paused.
QueuedGetsItsTurn ==
  \A r \in Runs : run[r].state \in {"inserting", "queued"} ~>
    run[r].state \notin {"inserting", "queued"} \/ \E q \in Runs : run[q].state = "paused"
==============================================================================
