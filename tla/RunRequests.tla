---------------------------- MODULE RunRequests ----------------------------
(***************************************************************************)
(* What people ask of the runs of one ticket while the engine works on     *)
(* them: answer a pause, cancel, rerun, look at the overview.  The handlers *)
(* read, decide and write by primary key without a lock, so each is two    *)
(* steps: the reads leave what the handler decided in `req', the commit     *)
(* applies it to whatever the rows have become.  The engine is reduced to  *)
(* what these requests meet: a run goes on while it has a continuation, of *)
(* its stages (a ROUTE_RUN message or a dispatched stage) or of its        *)
(* cleanup, and may pause or end; stages, commands and workspaces are      *)
(* RunEngine's.                                                            *)
(*                                                                         *)
(* Runs are numbered in uuid7 order.                                       *)
(***************************************************************************)
EXTENDS Naturals, Sequences, FiniteSets

CONSTANTS
    Users,      \* members of the org at the start
    Owner,      \* one of them, whom the org keeps
    Kickoffs,   \* how runs may be started: "user", "schedule", "github", "system"
    MaxRuns,    \* bound: runs of the ticket
    MaxPauses,  \* bound: pauses
    Reqs,       \* requests that may be open at once
    Ops         \* the operations a run exercises

BoundsAreNat == {MaxRuns, MaxPauses} \subseteq Nat /\ Owner \in Users

VARIABLES
    runs,       \* pipeline_runs of the ticket
    current,    \* tickets.current_run_id, 0 when there is none
    pauses,     \* run_pauses
    members,    \* the org's members
    req,        \* request slot -> what the handler decided
    effects     \* history: continuations each run was given

vars == <<runs, current, pauses, members, req, effects>>

-----------------------------------------------------------------------------
NoRow == [absent |-> TRUE]
Terminal == {"completed", "failed", "cancelled", "killed"}
InFlight == {"running", "paused"}
Decisions == {"approve", "instruct", "send_back", "kill"}
RunIds == 1 .. Len(runs)
Admins == {Owner}

Holder == {r \in RunIds : runs[r].state \in InFlight}
Queued(rs) == {r \in 1 .. Len(rs) : rs[r].state = "queued"}
Oldest(S) == CHOOSE r \in S : \A s \in S : r <= s
Continue(r) == effects' = [effects EXCEPT ![r] = @ + 1]

\* the unique index refuses the update when another run is running or paused
SlotFree(rs) == \A s \in 1 .. Len(rs) : rs[s].state \notin InFlight
\* runs rs with r promoted, if it can be
Promoted(rs, r) == [rs EXCEPT ![r].state = "running", ![r].work = 1]
AttemptPromotion(rs, r, eff) ==
    IF rs[r].state = "queued" /\ SlotFree(rs)
    THEN runs' = Promoted(rs, r) /\ current' = r /\ effects' = [eff EXCEPT ![r] = @ + 1]
    ELSE runs' = rs /\ effects' = eff /\ UNCHANGED current
PromoteOldestQueued(rs, eff) ==
    IF Queued(rs) = {} THEN runs' = rs /\ effects' = eff /\ UNCHANGED current
    ELSE AttemptPromotion(rs, Oldest(Queued(rs)), eff)

-----------------------------------------------------------------------------
(* Starting a run: an intake (or schedule) event, or a rerun *)

NoUser == "nobody"    \* a GitHub author without a linked identity
Kickoff(k, u) == [kind |-> k, user |-> u]
\* work and cleaning count the continuations of the run's stages and of its cleanup
NewRun(k, of) == [state |-> "queued", cancel |-> FALSE, failed |-> FALSE, work |-> 0, cleaning |-> 0,
                  kickoff |-> k, of |-> of, held |-> FALSE]
StartRun(k, of) ==
    /\ Len(runs) < MaxRuns
    /\ LET rs == Append(runs, NewRun(k, of))
       IN AttemptPromotion(rs, Len(rs), Append(effects, 0))

Intake(k, u) ==
    /\ "intake" \in Ops
    /\ IF u = NoUser THEN k = "github" ELSE u \in members
    /\ StartRun(Kickoff(k, u), 0) /\ UNCHANGED <<pauses, members, req>>

Rerunnable(r) == r = current /\ runs[r].state \in {"failed", "cancelled", "killed"}
StartRerun(q, r, u) ==
    /\ "rerun" \in Ops /\ req[q] = NoRow
    /\ r \in RunIds /\ Rerunnable(r) /\ u \in members
    /\ req' = [req EXCEPT ![q] = [op |-> "rerun", run |-> r, user |-> u]]
    /\ UNCHANGED <<runs, current, pauses, members, effects>>
CommitRerun(q) ==
    /\ req[q] # NoRow /\ req[q].op = "rerun"
    /\ StartRun(Kickoff("user", req[q].user), req[q].run)
    /\ req' = [req EXCEPT ![q] = NoRow] /\ UNCHANGED <<pauses, members>>

-----------------------------------------------------------------------------
(* The engine *)

\* resolve_escalation_targets
ResolveEscalationTargets(k) ==
    CASE k.kind \in {"user", "schedule"} -> {k.user}
      [] k.kind = "github" /\ k.user # NoUser -> {k.user}
      [] OTHER -> Admins

NewPause(r) ==
    LET targets == ResolveEscalationTargets(runs[r].kickoff)
    IN [run |-> r, open |-> TRUE, targets |-> targets, told |-> targets \cap members, resolution |-> "none"]

\* Mutant: what arrives late pauses a run that is no longer running.
EnterPause_Stale(r) ==
    /\ runs[r].work > 0
    /\ Len(pauses) < MaxPauses
    /\ pauses' = Append(pauses, NewPause(r))
    /\ runs' = [runs EXCEPT ![r].state = "paused", ![r].work = @ - 1, ![r].held = TRUE]
    /\ UNCHANGED <<current, members, req, effects>>

\* a stage whose boundary trips pauses its run, cancelled or not
EnterPause(r) ==
    /\ runs[r].state = "running" /\ runs[r].work > 0
    /\ Len(pauses) < MaxPauses
    /\ pauses' = Append(pauses, NewPause(r))
    /\ runs' = [runs EXCEPT ![r].state = "paused", ![r].work = @ - 1, ![r].held = TRUE]
    /\ UNCHANGED <<current, members, req, effects>>

\* a later answer of the same pause overwrites its resolution
RunWasKilled(r) == \E p \in 1 .. Len(pauses) : pauses[p].run = r /\ pauses[p].resolution = "kill"

\* the outcome _finalize_after_cleanup derives from the row and the run's pauses
TargetState(r) ==
    IF runs[r].failed THEN "failed"
    ELSE IF runs[r].cancel THEN "cancelled"
    ELSE IF RunWasKilled(r) THEN "killed"
    ELSE "completed"

\* what a stage may end its run as: it fails, or route_run finds a cancel or the last stage done, and the
\* cleanup (none, when there was one already) derives the outcome again
Outcome(r) ==
    {"failed"} \cup IF runs[r].cancel THEN {"cancelled"}
                   ELSE {"completed"} \cup IF RunWasKilled(r) THEN {"killed"} ELSE {}

EnterTerminal(r, s) ==
    /\ runs[r].state = "running"
    /\ \/ /\ runs[r].work > 0 /\ s \in Outcome(r)
          /\ PromoteOldestQueued([runs EXCEPT ![r].state = s, ![r].failed = (s = "failed"), ![r].work = @ - 1,
                                             ![r].held = TRUE], effects)
       \/ /\ runs[r].cleaning > 0 /\ s = TargetState(r)
          /\ PromoteOldestQueued([runs EXCEPT ![r].state = s, ![r].cleaning = @ - 1, ![r].held = TRUE], effects)
    /\ UNCHANGED <<pauses, members, req>>

\* route_run and handle_agent_event drop what is meant for a run that is not running; of two continuations
\* one is dropped when the other's command has become the one the run waits for, or holds the workspace
DropStale(r) ==
    /\ runs[r].state # "running" \/ runs[r].work + runs[r].cleaning > 1
    /\ \/ runs[r].work > 0 /\ runs' = [runs EXCEPT ![r].work = @ - 1]
       \/ runs[r].cleaning > 0 /\ runs' = [runs EXCEPT ![r].cleaning = @ - 1]
    /\ UNCHANGED <<current, pauses, members, req, effects>>

\* resume_stalled_runs, reconciliation (c)
ReconcileOrphanedQueued ==
    /\ Queued(runs) # {} /\ Holder = {}
    /\ PromoteOldestQueued(runs, effects) /\ UNCHANGED <<pauses, members, req>>

-----------------------------------------------------------------------------
(* Answering a pause *)

IsPauseResponder(u, p) == (u \in members /\ u \in Admins) \/ u \in pauses[p].targets
OpenPauses(r) == {p \in 1 .. Len(pauses) : pauses[p].run = r /\ pauses[p].open}

ResolvePause(q, p, u, action) ==
    /\ "respond" \in Ops /\ req[q] = NoRow
    /\ u \in members /\ IsPauseResponder(u, p)
    /\ pauses[p].open
    /\ req' = [req EXCEPT ![q] = [op |-> "respond", pause |-> p, action |-> action]]
    /\ UNCHANGED <<runs, current, pauses, members, effects>>

\* the run whose row a request will write
Target(q) == IF req[q].op = "respond" THEN pauses[req[q].pause].run ELSE req[q].run
\* the run has left the slot since the request read it, and another one holds it
SlotLost(q) == \E s \in Holder : s # Target(q)
\* the unique index refuses to put the run back in flight: the transaction is rolled back
RefusedByIndex(q) ==
    /\ req[q] # NoRow /\ (req[q].op = "respond" \/ (req[q].op = "cancel" /\ req[q].seen = "paused"))
    /\ SlotLost(q)
    /\ req' = [req EXCEPT ![q] = NoRow] /\ UNCHANGED <<runs, current, pauses, members, effects>>

\* approve: ROUTE_RUN; instruct, send_back: a stage is dispatched; kill: the cleanup is
CommitResolution(q) ==
    /\ req[q] # NoRow /\ req[q].op = "respond" /\ ~SlotLost(q)
    /\ LET p == req[q].pause
           r == pauses[p].run
       IN /\ pauses' = [pauses EXCEPT ![p].open = FALSE, ![p].resolution = req[q].action]
          /\ runs' = IF req[q].action = "kill"
                     THEN [runs EXCEPT ![r].state = "running", ![r].cleaning = @ + 1]
                     ELSE [runs EXCEPT ![r].state = "running", ![r].work = @ + 1]
          /\ Continue(r)
    /\ req' = [req EXCEPT ![q] = NoRow] /\ UNCHANGED <<current, members>>

-----------------------------------------------------------------------------
(* Cancelling *)

RequestCancel(q, r) ==
    /\ req[q] = NoRow
    /\ runs[r].state \notin Terminal
    /\ IF runs[r].state = "queued" THEN "cancelQueued" \in Ops ELSE "cancel" \in Ops
    /\ req' = [req EXCEPT ![q] = [op |-> "cancel", run |-> r, seen |-> runs[r].state, pauses |-> OpenPauses(r)]]
    /\ UNCHANGED <<runs, current, pauses, members, effects>>

CancelQueued(q) ==
    /\ req[q] # NoRow /\ req[q].op = "cancel" /\ req[q].seen = "queued"
    /\ runs' = [runs EXCEPT ![req[q].run].state = "cancelled", ![req[q].run].held = @ \/ runs[req[q].run].state \in InFlight]
    /\ req' = [req EXCEPT ![q] = NoRow] /\ UNCHANGED <<current, pauses, members, effects>>

CancelRunning(q) ==
    /\ req[q] # NoRow /\ req[q].op = "cancel" /\ req[q].seen = "running"
    /\ runs' = [runs EXCEPT ![req[q].run].cancel = TRUE]
    /\ req' = [req EXCEPT ![q] = NoRow] /\ UNCHANGED <<current, pauses, members, effects>>

CancelPaused(q) ==
    /\ req[q] # NoRow /\ req[q].op = "cancel" /\ req[q].seen = "paused" /\ ~SlotLost(q)
    /\ runs' = [runs EXCEPT ![req[q].run].state = "running", ![req[q].run].cancel = TRUE, ![req[q].run].cleaning = @ + 1]
    /\ pauses' = [p \in 1 .. Len(pauses) |-> IF p \in req[q].pauses THEN [pauses[p] EXCEPT !.open = FALSE] ELSE pauses[p]]
    /\ Continue(req[q].run)
    /\ req' = [req EXCEPT ![q] = NoRow] /\ UNCHANGED <<current, members>>

\* external to this module: a member is removed from the org
Leave(u) == /\ "leave" \in Ops /\ u \in members \ Admins /\ members' = members \ {u}
            /\ UNCHANGED <<runs, current, pauses, req, effects>>

\* the transaction of an answer or a cancel comes to its end
RequestEnds(q) ==
    CommitResolution(q) \/ CancelQueued(q) \/ CancelRunning(q) \/ CancelPaused(q) \/ RefusedByIndex(q)

-----------------------------------------------------------------------------
(* The read models *)

GetRunOverview ==
    IF current = 0 THEN [status |-> "none", pause |-> 0]
    ELSE LET s == runs[current].state
             open == OpenPauses(current)
         IN IF s = "paused"
            THEN IF Cardinality(open) = 1 THEN [status |-> "paused", pause |-> CHOOSE p \in open : TRUE]
                 ELSE [status |-> "error", pause |-> 0]
            ELSE [status |-> IF s \in Terminal THEN "terminal" ELSE "in_flight", pause |-> 0]
\* the decisions the timeline of a run shows: its resolved pauses
TimelineDecisions(r) == {p \in 1 .. Len(pauses) : pauses[p].run = r /\ ~pauses[p].open}

-----------------------------------------------------------------------------
Init == /\ runs = <<>> /\ current = 0 /\ pauses = <<>> /\ effects = <<>>
        /\ members = Users
        /\ req = [q \in Reqs |-> NoRow]

Next ==
    \/ \E k \in Kickoffs, u \in Users \cup {NoUser} : Intake(k, u)
    \/ \E q \in Reqs, u \in Users : \E r \in RunIds : StartRerun(q, r, u)
    \/ \E q \in Reqs : CommitRerun(q) \/ RequestEnds(q)
    \/ \E r \in RunIds : EnterPause(r) \/ DropStale(r) \/ (\E s \in Terminal : EnterTerminal(r, s))
    \/ ReconcileOrphanedQueued
    \/ \E q \in Reqs, u \in Users, a \in Decisions : \E p \in 1 .. Len(pauses) : ResolvePause(q, p, u, a)
    \/ \E q \in Reqs : \E r \in RunIds : RequestCancel(q, r)
    \/ \E u \in Users : Leave(u)

Spec == Init /\ [][Next]_vars

-----------------------------------------------------------------------------
(* Properties *)

\* The shape of the state: histories keep up with the runs and nothing counts below zero.
TypeOK ==
    /\ Len(effects) = Len(runs) /\ current \in 0 .. Len(runs)
    /\ \A r \in RunIds : runs[r].state \in Terminal \cup InFlight \cup {"queued"} /\ {runs[r].work, runs[r].cleaning} \subseteq Nat
    /\ \A p \in 1 .. Len(pauses) : pauses[p].run \in RunIds
    /\ members \subseteq Users
    /\ \A q \in Reqs : req[q] = NoRow \/ req[q].op \in {"respond", "cancel", "rerun"}

\* A person who opens the ticket finds the pause that waits for an answer: a paused run is the ticket's
\* current run, has exactly one open pause (get_run_overview's scalar_one, request_cancel's assertion), and
\* a member of the org may answer it.
PauseIsFound ==
    \A r \in RunIds : runs[r].state = "paused" =>
        /\ GetRunOverview.status = "paused"
        /\ pauses[GetRunOverview.pause].run = r
        /\ \E u \in members : IsPauseResponder(u, GetRunOverview.pause)

\* An open pause belongs to a run that waits for it: nobody is asked about a run that has gone on.
OpenPauseMeansPaused == \A p \in 1 .. Len(pauses) : pauses[p].open => runs[pauses[p].run].state = "paused"

\* What the timeline shows is what happened: a run is continued once for its start and once for every
\* closed pause.
EveryDecisionOnce ==
    \A r \in RunIds : effects[r] > 0 => effects[r] = 1 + Cardinality(TimelineDecisions(r))

\* A run that was cancelled as queued never held the slot (cancel_queued does no cleanup and no promotion).
CancelledInTheQueue ==
    \A r \in RunIds : runs[r].state = "cancelled" /\ ~runs[r].cancel => ~runs[r].held

\* Nothing is left to be decided about a run: none of its pauses is open, and no answer or cancel that
\* read its rows is still to be written.
Undisputed(r) ==
    /\ OpenPauses(r) = {}
    /\ \A q \in Reqs : req[q] # NoRow /\ req[q].op # "rerun" => Target(q) # r

\* A run that is over and undisputed stays both, whatever continuations of it are still on their way: no
\* late stage, cleanup, promotion or sweep revives it, and nobody can be asked about it or cancel it again.
TerminalStays ==
    \A r \in RunIds : runs[r].state \in Terminal /\ Undisputed(r) => runs'[r].state = runs[r].state /\ Undisputed(r)'

\* A kill is terminal: a run that ended stays over, whatever answers were on their way.
KillIsTerminal == \A r \in RunIds : runs[r].state \in Terminal => runs'[r].state = runs[r].state

\* A run is rerun once: the rerun supersedes it as the ticket's current run.
RerunOnce == \A r, s \in RunIds : runs[r].of # 0 /\ runs[r].of = runs[s].of => r = s

\* When a run pauses, someone who is in the org is told.
SomebodyIsTold == \A p \in 1 .. Len(pauses) : pauses[p].told # {}

=============================================================================
