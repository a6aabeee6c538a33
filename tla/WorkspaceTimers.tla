--------------------------- MODULE WorkspaceTimers ---------------------------
(***************************************************************************)
(* core/workspace: the life of one workspaces row against the clock.  It   *)
(* is inserted when an agent reports the workspace, claimed and released   *)
(* by the run's commands, kept alive by a pause of the run, closed, swept  *)
(* by the reaper when its TTL or its idle window is over, and destroyed.   *)
(* Every transition the service makes writes an audit row.                 *)
(***************************************************************************)
EXTENDS Naturals, Sequences, FiniteSets

CONSTANTS
  Agents,    \* pods that may report the workspace
  Reapers,   \* workers that may run the reaper task at the same time
  Ttl,       \* ttl_seconds of the provision command, in units of the clock
  MaxIdle,   \* max_idle_seconds of the provision command
  Grace,     \* PAUSED_RUN_WORKSPACE_GRACE_SECONDS
  MaxTime,   \* bound: the clock
  MaxFail,   \* bound: destroy calls that fail
  MaxEvents, \* bound: workspace events accepted
  Ops        \* optional operations: "pause", "close", "legacy"

TimersAssumption ==
  /\ IsFiniteSet(Agents) /\ IsFiniteSet(Reapers) /\ Ttl \in Nat \ {0} /\ MaxIdle \in Nat \ {0}
  /\ Grace \in Nat /\ MaxTime \in Nat /\ MaxFail \in Nat /\ MaxEvents \in Nat
  /\ {"none", "backend"} \cap Agents = {}

VARIABLES
  clock,   \* now
  row,     \* the workspaces row, and who wrote its status last
  paused,  \* whether the run is paused, and until when its pause keeps the workspace
  reaper,  \* reaper[r]: what an unfinished sweep has read or is doing
  trail,   \* the row's workspace.transitioned audit rows, oldest first
  fails,   \* destroy calls that failed
  events   \* workspace events accepted

vars == <<clock, row, paused, reaper, trail, fails, events>>

-----------------------------------------------------------------------------
Statuses == {"absent", "active", "expired", "destroying", "destroyed", "destroy_failed"}
Row    == [status : Statuses, owner : Agents \cup {"none"}, claim : {"none", "invoke"}, activated : 0..MaxTime,
           expires : 0..(MaxTime + Ttl + Grace), tries : Nat, last : Agents \cup {"backend"}]
Paused == [on : BOOLEAN, until : 0..(MaxTime + Grace)]
Sweep  == [step : {"idle", "sweeping", "listed", "destroying"}, reason : {"none", "ttl_expired", "idle_timeout"}]
Audit  == [from : Statuses, to : Statuses, reason : {"ttl_expired", "idle_timeout", "closed", "destroy"}]

NoSweep == [step |-> "idle", reason |-> "none"]

TypeOK ==
  /\ clock \in 0..MaxTime /\ row \in Row /\ paused \in Paused
  /\ reaper \in [Reapers -> Sweep] /\ trail \in Seq(Audit) /\ fails \in 0..MaxFail /\ events \in 0..MaxEvents

Init ==
  /\ clock = 0 /\ trail = <<>> /\ fails = 0 /\ events = 0
  /\ row = [status |-> "absent", owner |-> "none", claim |-> "none", activated |-> 0, expires |-> 0, tries |-> 0, last |-> "backend"]
  /\ paused = [on |-> FALSE, until |-> 0]
  /\ reaper = [r \in Reapers |-> NoSweep]

Tick ==
  /\ clock < MaxTime /\ clock' = clock + 1
  /\ UNCHANGED <<row, paused, reaper, trail, fails, events>>

\* _audit_transition.
AuditTransition(from, to, reason) == Append(trail, [from |-> from, to |-> to, reason |-> reason])

-----------------------------------------------------------------------------
(* Reports of the agents.                                                   *)

\* _insert_lean_workspace_row: active at once, with the TTL of the command.
InsertLeanWorkspaceRow(a) ==
  [row EXCEPT !.status = "active", !.owner = a, !.activated = clock, !.expires = clock + Ttl, !.last = a]

MaterialiseProvisionSuccess_Upsert(a) ==
  /\ row' = InsertLeanWorkspaceRow(a)
  /\ UNCHANGED <<clock, paused, reaper, trail, fails, events>>

\* A ProvisionWorkspace ended well, as reported once or again: a row that
\* exists is left alone.
MaterialiseProvisionSuccess(a) ==
  /\ row' = IF row.status = "absent" THEN InsertLeanWorkspaceRow(a) ELSE row
  /\ UNCHANGED <<clock, paused, reaper, trail, fails, events>>

\* _KIND_TO_STATUS: "created" writes no status.
KindToStatus == [ready |-> "active", destroyed |-> "destroyed", failed |-> "destroy_failed"]

\* _create_lean_workspace_row: on the first report, whichever of the two comes first.
CreateLeanWorkspaceRow(a, kind) == kind \in {"created", "ready"} /\ row' = InsertLeanWorkspaceRow(a)

\* An event the sink takes: it creates the row, or writes the status its kind
\* stands for unless another command holds the claim.  Nothing is audited.
ApplyWorkspaceEvent(a, kind, c) ==
  IF row.status = "absent" THEN CreateLeanWorkspaceRow(a, kind)
  ELSE /\ row.claim \in {"none", c} /\ kind \in DOMAIN KindToStatus
       /\ row' = [row EXCEPT !.status = KindToStatus[kind], !.last = a]

\* _require_workspace_owner: a row without an owner, or with this one.
RequireWorkspaceOwner(a) == row.owner \in {"none", a}

\* post_workspace_event; what the sink does not take is answered 410.
RecordWorkspaceEvent(a, kind, c) ==
  /\ "legacy" \in Ops /\ events < MaxEvents /\ events' = events + 1
  /\ RequireWorkspaceOwner(a) /\ ApplyWorkspaceEvent(a, kind, c)
  /\ UNCHANGED <<clock, paused, reaper, trail, fails>>

-----------------------------------------------------------------------------
(* The run.                                                                 *)

\* try_claim, with the dispatch of a stage of a run that is not paused.
TryClaim ==
  /\ row.status = "active" /\ row.claim = "none" /\ ~paused.on
  /\ row' = [row EXCEPT !.claim = "invoke"]
  /\ UNCHANGED <<clock, paused, reaper, trail, fails, events>>

\* release_claim, with the terminal event of the command.
ReleaseClaim ==
  /\ row.claim = "invoke"
  /\ row' = [row EXCEPT !.claim = "none"]
  /\ UNCHANGED <<clock, paused, reaper, trail, fails, events>>

\* _enter_pause and extend_expiry, in one transaction: the deadline moves
\* whatever the row's status is.
EnterPause ==
  /\ "pause" \in Ops /\ row.status = "active" /\ row.claim = "none" /\ ~paused.on
  /\ row' = [row EXCEPT !.expires = clock + Grace]
  /\ paused' = [on |-> TRUE, until |-> clock + Grace]
  /\ UNCHANGED <<clock, reaper, trail, fails, events>>

Resume ==
  /\ paused.on /\ paused' = [paused EXCEPT !.on = FALSE]
  /\ UNCHANGED <<clock, row, reaper, trail, fails, events>>

\* close_workspace: one conditional UPDATE.
CloseWorkspace ==
  /\ "close" \in Ops /\ row.status = "active"
  /\ row' = [row EXCEPT !.status = "expired", !.last = "backend"]
  /\ trail' = AuditTransition("active", "expired", "closed")
  /\ UNCHANGED <<clock, paused, reaper, fails, events>>

-----------------------------------------------------------------------------
(* The reaper.                                                              *)

Overdue == row.status = "active" /\ row.expires < clock
Idle    == row.status = "active" /\ row.claim = "none" /\ clock - row.activated > MaxIdle
Reason  == CASE Overdue -> "ttl_expired" [] Idle -> "idle_timeout" [] OTHER -> "none"

\* The sweep reads the row; one that finds nothing to do is left out.
SweepReads(r) ==
  /\ reaper[r].step = "idle" /\ (Overdue \/ Idle \/ (row.status = "expired" /\ row.tries < 3))
  /\ reaper' = [reaper EXCEPT ![r] = [step |-> "sweeping", reason |-> Reason]]
  /\ UNCHANGED <<clock, row, paused, trail, fails, events>>

\* It writes what it read as over by primary key, lists the row when it is
\* expired, and commits.
SweepCommits(r) ==
  /\ reaper[r].step = "sweeping"
  /\ IF reaper[r].reason = "none" THEN UNCHANGED <<row, trail>>
     ELSE /\ row' = [row EXCEPT !.status = "expired", !.last = "backend"]
          /\ trail' = AuditTransition("active", "expired", reaper[r].reason)
  /\ reaper' = [reaper EXCEPT ![r] = [step |-> IF row'.status = "expired" /\ row.tries < 3 THEN "listed" ELSE "idle",
                                      reason |-> "none"]]
  /\ UNCHANGED <<clock, paused, fails, events>>

\* _attempt_destroy: only a row that is still expired is taken.
DestroyBegins(r) ==
  /\ reaper[r].step = "listed"
  /\ IF row.status = "expired"
     THEN /\ row' = [row EXCEPT !.status = "destroying", !.tries = @ + 1, !.last = "backend"]
          /\ trail' = AuditTransition("expired", "destroying", "destroy")
          /\ reaper' = [reaper EXCEPT ![r].step = "destroying"]
     ELSE reaper' = [reaper EXCEPT ![r] = NoSweep] /\ UNCHANGED <<row, trail>>
  /\ UNCHANGED <<clock, paused, fails, events>>

DestroyEnds_Unknown(r, ok) ==
  /\ reaper[r].step = "destroying" /\ ~ok /\ fails < MaxFail
  /\ row' = [row EXCEPT !.status = "failed"]
  /\ UNCHANGED <<clock, paused, reaper, trail, fails, events>>

\* provider.destroy() returned, or raised: retried until the third attempt.
DestroyEnds(r, ok) ==
  LET to == IF ok THEN "destroyed" ELSE IF row.tries >= 3 THEN "destroy_failed" ELSE "expired" IN
  /\ reaper[r].step = "destroying"
  /\ ok \/ fails < MaxFail
  /\ fails' = IF ok THEN fails ELSE fails + 1
  /\ row' = [row EXCEPT !.status = to, !.last = "backend"]
  /\ trail' = AuditTransition("destroying", to, "destroy")
  /\ reaper' = [reaper EXCEPT ![r] = NoSweep]
  /\ UNCHANGED <<clock, paused, events>>

-----------------------------------------------------------------------------
ReaperStep(r) == SweepReads(r) \/ SweepCommits(r) \/ DestroyBegins(r) \/ DestroyEnds(r, TRUE)

Next ==
  \/ Tick \/ TryClaim \/ ReleaseClaim \/ EnterPause \/ Resume \/ CloseWorkspace
  \/ \E a \in Agents : MaterialiseProvisionSuccess(a)
  \/ \E a \in Agents, k \in {"created", "ready", "destroyed", "failed"}, c \in {"provision", "invoke"} :
       RecordWorkspaceEvent(a, k, c)
  \/ \E r \in Reapers : ReaperStep(r) \/ DestroyEnds(r, FALSE)

Spec == Init /\ [][Next]_vars

-----------------------------------------------------------------------------
\* The audit rows tell one story: each starts where the one before ended, and
\* the last says what the row is (_audit_transition, failsafe 7).
AuditChains ==
  /\ \A i \in 2..Len(trail) : trail[i].from = trail[i - 1].to
  /\ trail # <<>> => trail[Len(trail)].to = row.status

\* A destroyed workspace is never taken up again: not by a replayed report of
\* its provisioning, not by a sweep (which would destroy it once more).
DestroyedIsFinal == row.status = "destroyed" => row'.status = "destroyed"

\* What an agent reports about a workspace changes its row only when that
\* agent owns it, also when two pods were given the same provision command.
OwnerReports == row.status # "absent" => row.last \in {row.owner, "backend"}

\* A paused run's workspace is not collected before the grace is over
\* (PAUSED_RUN_WORKSPACE_GRACE_SECONDS and extend_expiry).
GraceKept == paused.on /\ clock <= paused.until => row.status = "active"

=============================================================================
