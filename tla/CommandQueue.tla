---------------------------- MODULE CommandQueue ----------------------------
(***************************************************************************)
(* The durable command queue between the run engine and the agent pods:    *)
(* agent_commands rows with their claim lease and completion token         *)
(* (core/agent_gateway), the workspaces rows with their single-flight      *)
(* claim, expiry and destruction (core/workspace), and the pods' pools and *)
(* dedup caches.  One run per workspace waits for one command at a time,   *)
(* as the engine does; agent-scoped commands are in AgentFleet.            *)
(***************************************************************************)
EXTENDS Naturals, FiniteSets, Sequences

CONSTANTS
  Agents,      \* pods
  Spaces,      \* workspace ids, each minted by one run
  Reapers,     \* workers that may run the reaper task at the same time
  PoolCap,     \* workspace_max_count
  MaxAttempt,  \* MAX_ATTEMPT
  RetireCap,   \* _HYDRATION_RETIRE_CAP
  MaxCmds,     \* bound: commands enqueued
  MaxLost,     \* bound: claim answers, receipts and event answers lost
  MaxCrash,    \* bound: pods killed
  MaxRestart,  \* bound: killed pods that come back
  MaxBreak,    \* bound: workspace subprocesses that die or time out
  MaxSecret,   \* bound: claims whose credentials cannot be read
  MaxExpire,   \* bound: sweeps that find a TTL or an idle expiry
  MaxAbort,    \* bound: destroy calls that fail
  MaxDie       \* bound: reaper tasks killed half-way

QueueAssumption ==
  /\ IsFiniteSet(Agents) /\ IsFiniteSet(Spaces) /\ IsFiniteSet(Reapers)
  /\ "null" \notin Agents
  /\ PoolCap \in Nat /\ MaxAttempt \in Nat \ {0} /\ RetireCap \in Nat
  /\ MaxCmds \in Nat /\ MaxLost \in Nat /\ MaxCrash \in Nat /\ MaxRestart \in Nat
  /\ MaxBreak \in Nat
  /\ MaxSecret \in Nat /\ MaxExpire \in Nat
  /\ MaxAbort \in Nat /\ MaxDie \in Nat

VARIABLES
  cmd,      \* agent_commands rows, in UUIDv7 order
  space,    \* space[w]: the workspaces row
  run,      \* run[w]: the run that minted w
  pod,      \* pod[a]: the supervisor's pool, work in progress and dedup cache
  reaper,   \* reaper[r]: what an unfinished reaper task has read or is doing
  used      \* how much of each environment bound is used up

vars == <<cmd, space, run, pod, reaper, used>>

-----------------------------------------------------------------------------
(* Rows and processes.  0 is NULL in command ids, "null" in agent ids.      *)

Kinds   == {"provision", "invoke", "cleanup"}
Cmds    == 1..MaxCmds
CmdType == [kind : Kinds, ws : Spaces, pin : Agents \cup {"null"},
            status : {"pending", "claimed", "delivered", "done"},
            claims : Nat, attempt : 0..MaxAttempt, late : BOOLEAN]

Statuses  == {"absent", "active", "expired", "destroying", "destroyed", "destroy_failed"}
SpaceType == [status : Statuses, claim : 0..MaxCmds, owner : Agents \cup {"null"}, tries : Nat]

\* What the engine keeps: the command it waits for, and how far it got.
RunType == [waits : 0..MaxCmds, phase : {"new", "provisioned", "cleaning", "over"}]

\* A command in a dispatch goroutine.  event: the token its terminal event carries.
WorkType == [c : Cmds, claim : Nat, step : {"received", "route", "post"},
             event : Nat, ok : BOOLEAN]
PodType  == [up : BOOLEAN, active : SUBSET Spaces, defunct : SUBSET Spaces,
             work : SUBSET WorkType, cache : SUBSET [c : Cmds, event : Nat, ok : BOOLEAN]]
NoPod == [up |-> FALSE, active |-> {}, defunct |-> {}, work |-> {}, cache |-> {}]

\* sel: rows read, ttl: those of them over their TTL, at: the row being destroyed.
ReaperType == [step : {"idle", "sweeping", "listed", "destroying"},
               sel : SUBSET Spaces, ttl : SUBSET Spaces, at : SUBSET Spaces]
NoReaper == [step |-> "idle", sel |-> {}, ttl |-> {}, at |-> {}]

Faults == {"lost", "crash", "restart", "break", "secret", "expire", "abort", "die"}

TypeOK ==
  /\ cmd \in Seq(CmdType) /\ Len(cmd) <= MaxCmds
  /\ space \in [Spaces -> SpaceType]
  /\ run \in [Spaces -> RunType]
  /\ pod \in [Agents -> PodType]
  /\ reaper \in [Reapers -> ReaperType]
  /\ used \in [Faults -> Nat]

Init ==
  /\ cmd = <<>>
  /\ space = [w \in Spaces |-> [status |-> "absent", claim |-> 0, owner |-> "null", tries |-> 0]]
  /\ run = [w \in Spaces |-> [waits |-> 0, phase |-> "new"]]
  /\ pod = [a \in Agents |-> [NoPod EXCEPT !.up = TRUE]]
  /\ reaper = [r \in Reapers |-> NoReaper]
  /\ used = [k \in Faults |-> 0]

Use(k, n) == used[k] < n /\ used' = [used EXCEPT ![k] = @ + 1]

-----------------------------------------------------------------------------
(* Dispatch: the engine enqueues a command in its own transaction.          *)

EnqueueCommand(kind, w, agent) ==
  Append(cmd, [kind |-> kind, ws |-> w, pin |-> agent, status |-> "pending",
               claims |-> 0, attempt |-> 0, late |-> FALSE])

\* Unpinned: any pod with room may take it.  The workspaces row comes later.
DispatchProvision(w) ==
  /\ run[w].phase = "new" /\ run[w].waits = 0 /\ Len(cmd) < MaxCmds
  /\ cmd' = EnqueueCommand("provision", w, "null")
  /\ run' = [run EXCEPT ![w].waits = Len(cmd) + 1]
  /\ UNCHANGED <<space, pod, reaper, used>>

\* The conditional UPDATE of try_claim.
TryClaim(w) == space[w].claim = 0 /\ space[w].status = "active"

\* Pinned to the owning pod; the claim is taken in the same transaction, and a
\* refused claim rolls the enqueue back.
DispatchInvoke(w) ==
  /\ run[w].phase = "provisioned" /\ run[w].waits = 0 /\ Len(cmd) + 1 < MaxCmds
  /\ space[w].status # "absent" /\ TryClaim(w)
  /\ cmd' = EnqueueCommand("invoke", w, space[w].owner)
  /\ space' = [space EXCEPT ![w].claim = Len(cmd) + 1]
  /\ run' = [run EXCEPT ![w].waits = Len(cmd) + 1]
  /\ UNCHANGED <<pod, reaper, used>>

\* Never claims, whatever the row's status is.
DispatchCleanup(w) ==
  /\ run[w].phase = "provisioned" /\ run[w].waits = 0 /\ Len(cmd) < MaxCmds
  /\ space[w].status # "absent"
  /\ cmd' = EnqueueCommand("cleanup", w, space[w].owner)
  /\ run' = [run EXCEPT ![w].waits = Len(cmd) + 1, ![w].phase = "cleaning"]
  /\ UNCHANGED <<space, pod, reaper, used>>

\* HANDLE_AGENT_EVENT: only the command the run waits for moves it.
Tell(R, w, c, ok) ==
  IF R[w].waits # c THEN R
  ELSE [R EXCEPT ![w] = [waits |-> 0,
                         phase |-> CASE cmd[c].kind = "provision" -> IF ok THEN "provisioned" ELSE "over"
                                     [] cmd[c].kind = "cleanup" -> "over"
                                     [] OTHER -> R[w].phase]]

\* The stall sweep's lost-resume reconciliation: a run still waiting for a
\* command that is done is told that it failed.
ReconcileLostResume(w) ==
  /\ run[w].waits # 0 /\ cmd[run[w].waits].status = "done"
  /\ run' = Tell(run, w, run[w].waits, FALSE)
  /\ UNCHANGED <<cmd, space, pod, reaper, used>>

-----------------------------------------------------------------------------
(* Claim.                                                                   *)

Busy(a) == {cmd[x.c].ws : x \in {y \in pod[a].work : y.step = "route"}}
Idle(a) == pod[a].active \ Busy(a)

\* Bucket 2: an unassigned provision, when the pod has room.  Bucket 3: what is
\* pinned to this pod for a workspace it names as idle.
Provisions(a) == {c \in DOMAIN cmd : /\ cmd[c].status = "pending" /\ cmd[c].kind = "provision"
                                     /\ cmd[c].pin = "null" /\ Cardinality(pod[a].active) < PoolCap}
Pinned(a) == {c \in DOMAIN cmd : cmd[c].status = "pending" /\ cmd[c].pin = a /\ cmd[c].ws \in Idle(a)}
SelectEligibleRow(a) == IF Provisions(a) # {} THEN Provisions(a) ELSE Pinned(a)
Oldest(C) == {c \in C : \A d \in C : c <= d}

\* The row is stamped and its token minted; the answer may be lost.
ClaimNext(a, arrives) ==
  /\ pod[a].up
  /\ \E c \in Oldest(SelectEligibleRow(a)) :
       /\ cmd' = [cmd EXCEPT ![c].status = "claimed", ![c].pin = a, ![c].claims = @ + 1, ![c].late = FALSE]
       /\ IF arrives
          THEN /\ pod' = [pod EXCEPT ![a].work = @ \cup {[c |-> c, claim |-> cmd[c].claims + 1,
                                                          step |-> "received", event |-> 0, ok |-> FALSE]}]
               /\ used' = used
          ELSE pod' = pod /\ Use("lost", MaxLost)
  /\ UNCHANGED <<space, run, reaper>>

\* The retirements of one claim: invokes whose credentials cannot be read end
\* `done` and their runs hear a failure.  The workspace claim stays.
ClaimRetires(a) ==
  /\ pod[a].up /\ Provisions(a) = {}
  /\ \E c \in Oldest(Pinned(a)) :
       /\ cmd[c].kind = "invoke" /\ RetireCap > 0
       /\ cmd' = [cmd EXCEPT ![c].status = "done", ![c].claims = @ + 1]
       /\ run' = Tell(run, cmd[c].ws, c, FALSE)
  /\ Use("secret", MaxSecret)
  /\ UNCHANGED <<space, pod, reaper>>

-----------------------------------------------------------------------------
(* Reports.                                                                 *)

TokenMatches(x, token) == cmd[x.c].claims = token

\* acknowledge_command_received; best effort on the pod's side.
PostReceived(a, x, arrives) ==
  /\ x \in pod[a].work /\ x.step = "received"
  /\ pod' = [pod EXCEPT ![a].work = (@ \ {x}) \cup {[x EXCEPT !.step = "route"]}]
  /\ IF arrives
     THEN /\ cmd' = [cmd EXCEPT ![x.c].status = IF @ = "claimed" /\ TokenMatches(x, x.claim) THEN "delivered" ELSE @]
          /\ used' = used
     ELSE cmd' = cmd /\ Use("lost", MaxLost)
  /\ UNCHANGED <<space, run, reaper>>

\* routeCommand: a command seen before answers with its cached event, the token
\* of its first delivery included; others go to the pool.
Cached(a, c) == {e \in pod[a].cache : e.c = c}

RouteCached(a, x) ==
  /\ x \in pod[a].work /\ x.step = "route"
  /\ \E e \in Cached(a, x.c) :
       pod' = [pod EXCEPT ![a].work = (@ \ {x}) \cup {[x EXCEPT !.step = "post", !.event = e.event, !.ok = e.ok]}]
  /\ UNCHANGED <<cmd, space, run, reaper, used>>

\* Pool.Dispatch: a provision reserves a slot or fails at the cap; anything else
\* needs an active record; a cleanup removes it; a broken runner is defunct.
PoolAfter(a, w, kind, ok, broken) ==
  CASE kind = "provision" /\ ok -> [pod[a] EXCEPT !.active = @ \cup {w}, !.defunct = @ \ {w}]
    [] kind = "cleanup" /\ ok   -> [pod[a] EXCEPT !.active = @ \ {w}]
    [] broken                   -> [pod[a] EXCEPT !.active = @ \ {w}, !.defunct = @ \cup {w}]
    [] OTHER                    -> pod[a]

RouteWorkspaceCmd(a, x, broken) ==
  LET kind == cmd[x.c].kind
      w == cmd[x.c].ws
      sendable == IF kind = "provision" THEN w \in pod[a].active \/ Cardinality(pod[a].active) < PoolCap
                                        ELSE w \in pod[a].active
      ok == sendable /\ ~broken
      done == [x EXCEPT !.step = "post", !.event = x.claim, !.ok = ok]
      after == PoolAfter(a, w, kind, ok, broken) IN
  /\ x \in pod[a].work /\ x.step = "route" /\ Cached(a, x.c) = {}
  /\ pod' = [pod EXCEPT ![a] = [after EXCEPT !.work = (@ \ {x}) \cup {done},
                                             !.cache = @ \cup {[c |-> x.c, event |-> x.claim, ok |-> ok]}]]
  /\ IF broken THEN sendable /\ Use("break", MaxBreak) ELSE used' = used
  /\ UNCHANGED <<cmd, space, run, reaper>>

\* release_command_claim, for whichever workspace holds the command.
ReleaseCommandClaim(c) == [w \in Spaces |-> IF space[w].claim = c THEN [space[w] EXCEPT !.claim = 0] ELSE space[w]]

\* The lean row of a provisioned workspace, owned by the pod that reports it.
MaterialiseProvisionSuccess(S, w, a) ==
  IF S[w].status = "absent" THEN [S EXCEPT ![w].status = "active", ![w].owner = a] ELSE S

Owns(a, c) == \A w \in Spaces : space[w].claim = c => space[w].owner = a

RetireCommand(c) == [cmd EXCEPT ![c].status = "done"]

RecordAgentEvent_WithoutRelease(a, x) ==
  /\ cmd' = RetireCommand(x.c)
  /\ space' = IF cmd[x.c].kind = "provision" /\ x.ok
              THEN MaterialiseProvisionSuccess(space, cmd[x.c].ws, a)
              ELSE space
  /\ run' = Tell(run, cmd[x.c].ws, x.c, x.ok)

\* A terminal event whose token is the last one minted: the claim is released,
\* the row retired, the workspace materialised and the run told, at once.
RecordAgentEvent(a, x) ==
  /\ cmd' = RetireCommand(x.c)
  /\ space' = IF cmd[x.c].kind = "provision" /\ x.ok
              THEN MaterialiseProvisionSuccess(ReleaseCommandClaim(x.c), cmd[x.c].ws, a)
              ELSE ReleaseCommandClaim(x.c)
  /\ run' = Tell(run, cmd[x.c].ws, x.c, x.ok)

\* Retried until it is answered; 410 (a stale token) is an answer.
PostTerminal(a, x, answered) ==
  /\ x \in pod[a].work /\ x.step = "post" /\ Owns(a, x.c)
  /\ IF TokenMatches(x, x.event) THEN RecordAgentEvent(a, x) ELSE UNCHANGED <<cmd, space, run>>
  /\ IF answered THEN used' = used /\ pod' = [pod EXCEPT ![a].work = @ \ {x}]
                 ELSE Use("lost", MaxLost) /\ pod' = pod
  /\ UNCHANGED reaper

Provisioning(w) == \E c \in DOMAIN cmd : cmd[c].ws = w /\ cmd[c].kind = "provision" /\ cmd[c].status # "done"

\* reconcile_heartbeat: what the control plane dropped, except what is still
\* being provisioned; the pod removes it.
Forgotten(a) == {w \in pod[a].active \cup pod[a].defunct : ~Provisioning(w) /\ space[w].status \in {"absent", "destroyed"}}

Heartbeat(a) ==
  /\ pod[a].up /\ Forgotten(a) # {}
  /\ pod' = [pod EXCEPT ![a].active = @ \ Forgotten(a), ![a].defunct = @ \ Forgotten(a)]
  /\ UNCHANGED <<cmd, space, run, reaper, used>>

-----------------------------------------------------------------------------
(* Faults of pods.                                                          *)

Crash(a) ==
  /\ pod[a].up /\ Use("crash", MaxCrash)
  /\ pod' = [pod EXCEPT ![a] = NoPod]
  /\ UNCHANGED <<cmd, space, run, reaper>>

Restart(a) ==
  /\ ~pod[a].up /\ Use("restart", MaxRestart)
  /\ pod' = [pod EXCEPT ![a] = [NoPod EXCEPT !.up = TRUE]]
  /\ UNCHANGED <<cmd, space, run, reaper>>

Held(a) == {w \in Spaces : space[w].owner = a /\ space[w].status = "active"}

\* failsafe_agent_loss when the sweep gives the pod up: its active workspaces
\* expire, and the runs whose command holds one of their claims are failed.
AgentLost(a) ==
  /\ ~pod[a].up /\ Held(a) # {}
  /\ space' = [w \in Spaces |-> IF w \in Held(a) THEN [space[w] EXCEPT !.status = "expired"] ELSE space[w]]
  /\ run' = [w \in Spaces |-> IF w \in Held(a) /\ space[w].claim # 0
                              THEN Tell(run, w, space[w].claim, FALSE)[w] ELSE run[w]]
  /\ UNCHANGED <<cmd, pod, reaper, used>>

-----------------------------------------------------------------------------
(* The reaper task: one transaction that expires and requeues, then one     *)
(* destroy attempt per listed row.  It is not exclusive.                    *)

LeaseLapses(c) ==
  /\ cmd[c].status = "claimed" /\ ~cmd[c].late
  /\ \A a \in Agents : \A x \in pod[a].work : ~(x.c = c /\ x.step = "received")
  /\ cmd' = [cmd EXCEPT ![c].late = TRUE]
  /\ UNCHANGED <<space, run, pod, reaper, used>>

SweepHasWork == \/ \E c \in DOMAIN cmd : cmd[c].late /\ cmd[c].status = "claimed"
                \/ \E w \in Spaces : space[w].status = "expired" /\ space[w].tries < 3

\* The sweep reads which active rows are over their TTL, and which others are
\* idle without a claim; a sweep that finds nothing at all is left out.
SweepReads(r, ttl, idle) ==
  /\ reaper[r].step = "idle"
  /\ \A w \in ttl \cup idle : space[w].status = "active"
  /\ \A w \in idle : space[w].claim = 0 /\ w \notin ttl
  /\ IF ttl \cup idle = {} THEN SweepHasWork /\ used' = used ELSE Use("expire", MaxExpire)
  /\ reaper' = [reaper EXCEPT ![r] = [step |-> "sweeping", sel |-> ttl \cup idle, ttl |-> ttl, at |-> {}]]
  /\ UNCHANGED <<cmd, space, run, pod>>

Requeued(c) ==
  IF ~(cmd[c].status = "claimed" /\ cmd[c].late) THEN cmd[c]
  ELSE IF cmd[c].attempt >= MaxAttempt - 1
  THEN [cmd[c] EXCEPT !.status = "done", !.attempt = MaxAttempt]
  ELSE [cmd[c] EXCEPT !.status = "pending", !.pin = "null", !.late = FALSE, !.attempt = @ + 1]

\* ... and later writes them by primary key, requeues and lists what to destroy.
SweepCommits(r) ==
  /\ reaper[r].step = "sweeping"
  /\ space' = [w \in Spaces |-> IF w \in reaper[r].sel THEN [space[w] EXCEPT !.status = "expired"] ELSE space[w]]
  /\ cmd' = [c \in DOMAIN cmd |-> Requeued(c)]
  /\ reaper' = [reaper EXCEPT ![r] = [step |-> "listed", at |-> {}, ttl |-> {},
                  sel |-> {w \in Spaces : space'[w].status = "expired" /\ space[w].tries < 3}]]
  /\ UNCHANGED <<run, pod, used>>

\* CAS expired -> destroying: a row another reaper took is skipped.
DestroyBegins(r, w) ==
  /\ reaper[r].step = "listed" /\ w \in reaper[r].sel
  /\ IF space[w].status = "expired"
     THEN /\ space' = [space EXCEPT ![w].status = "destroying", ![w].tries = @ + 1]
          /\ reaper' = [reaper EXCEPT ![r].step = "destroying", ![r].at = {w}]
     ELSE /\ reaper' = [reaper EXCEPT ![r].sel = @ \ {w}]
          /\ space' = space
  /\ UNCHANGED <<cmd, run, pod, used>>

\* provider.destroy() returned, or raised.
DestroyEnds(r, w, ok) ==
  /\ reaper[r].step = "destroying" /\ w \in reaper[r].at
  /\ space' = [space EXCEPT ![w].status = IF ok THEN "destroyed"
                                          ELSE IF space[w].tries >= 3 THEN "destroy_failed" ELSE "expired"]
  /\ reaper' = [reaper EXCEPT ![r].step = "listed", ![r].sel = @ \ {w}, ![r].at = {}]
  /\ IF ok THEN used' = used ELSE Use("abort", MaxAbort)
  /\ UNCHANGED <<cmd, run, pod>>

ReaperEnds(r) ==
  /\ reaper[r].step = "listed" /\ reaper[r].sel = {}
  /\ reaper' = [reaper EXCEPT ![r] = NoReaper]
  /\ UNCHANGED <<cmd, space, run, pod, used>>

\* The worker dies between two transactions of the task.
ReaperDies(r) ==
  /\ reaper[r].step # "idle" /\ Use("die", MaxDie)
  /\ reaper' = [reaper EXCEPT ![r] = NoReaper]
  /\ UNCHANGED <<cmd, space, run, pod>>

-----------------------------------------------------------------------------
EngineStep == \E w \in Spaces : \/ DispatchProvision(w) \/ DispatchInvoke(w) \/ DispatchCleanup(w)
                                \/ ReconcileLostResume(w)

WorkStep(a) == \E x \in pod[a].work : \/ PostReceived(a, x, TRUE) \/ RouteCached(a, x)
                                      \/ RouteWorkspaceCmd(a, x, FALSE) \/ PostTerminal(a, x, TRUE)

PodFault(a) == \/ Crash(a) \/ Restart(a) \/ ClaimNext(a, FALSE) \/ ClaimRetires(a)
               \/ \E x \in pod[a].work : \/ PostReceived(a, x, FALSE) \/ RouteWorkspaceCmd(a, x, TRUE)
                                         \/ PostTerminal(a, x, FALSE)

ReaperStep(r) == \/ \E ttl, idle \in SUBSET Spaces : SweepReads(r, ttl, idle)
                 \/ SweepCommits(r) \/ ReaperEnds(r)
                 \/ \E w \in Spaces : DestroyBegins(r, w) \/ DestroyEnds(r, w, TRUE)

Next ==
  \/ EngineStep
  \/ \E a \in Agents : ClaimNext(a, TRUE) \/ WorkStep(a) \/ Heartbeat(a) \/ PodFault(a) \/ AgentLost(a)
  \/ \E c \in DOMAIN cmd : LeaseLapses(c)
  \/ \E r \in Reapers : \/ ReaperStep(r) \/ ReaperDies(r)
                        \/ \E w \in Spaces : DestroyEnds(r, w, FALSE)

Spec == Init /\ [][Next]_vars

-----------------------------------------------------------------------------
(* Properties.                                                              *)

\* A workspace claim is held by a command still in the queue, or by one that
\* failsafe_agent_loss spoke for: no terminal event leaves the claim behind.
ClaimHolderOutstanding ==
  \A w \in Spaces : space[w].status = "active" /\ space[w].claim # 0 => cmd[space[w].claim].status # "done"

\* The run that waits for a command hears in the same transaction that it is
\* done, whoever claimed it how often.  Only the sweep that gives a command up
\* leaves its run untold, and only at the cap: after MAX_ATTEMPT claims no
\* receipt came of (requeue_stale_claimed).
DoneMeansTold ==
  \A w \in Spaces : LET c == run[w].waits IN
    c # 0 /\ cmd[c].status = "done" => cmd[c].attempt = MaxAttempt /\ cmd[c].claims >= MaxAttempt

\* A retirement is loud: no run waits for a command that is done.
RetirementIsLoud == \A w \in Spaces : run[w].waits # 0 => cmd[run[w].waits].status # "done"

\* A pod has answered an earlier delivery of the command w's run waits for: it answers
\* the one under way with that event, whose token is no longer the last.
AnsweredBefore(w) ==
  LET c == run[w].waits IN
    cmd[c].status = "delivered" /\ \E a \in Agents : \E e \in Cached(a, c) : e.event # cmd[c].claims

\* The sweep gave a provision of w up, perhaps while a pod was still busy with it.
GivenUp(w) ==
  \E c \in DOMAIN cmd : cmd[c].kind = "provision" /\ cmd[c].ws = w /\ cmd[c].attempt = MaxAttempt

\* The pod that owns an active workspace has its directory, until a cleanup was
\* sent, even when the provision was delivered to two pods; unless the provision
\* had been given up, since reconcile_heartbeat then has the pod drop it.
OwnerHoldsWorkspace ==
  \A w \in Spaces : space[w].status = "active" /\ run[w].phase = "provisioned" /\ ~GivenUp(w)
                    => w \in pod[space[w].owner].active

\* A pod keeps what it was told to set up: as above, given up or not.
OwnerAlwaysHolds ==
  \A w \in Spaces : space[w].status = "active" /\ run[w].phase = "provisioned"
                    => w \in pod[space[w].owner].active

\* No two reaper tasks destroy one workspace at the same time.
OneDestroyer ==
  \A r, s \in Reapers : r # s => reaper[r].at \cap reaper[s].at = {}

\* An invoke is only ever running on a workspace that its command claimed.
RunsUnderItsClaim ==
  \A a \in Agents : \A x \in pod[a].work :
    x.step = "route" /\ cmd[x.c].kind = "invoke" /\ cmd[x.c].status \in {"claimed", "delivered"}
      => space[cmd[x.c].ws].claim = x.c

\* The idle sweep takes workspaces "with no claim": a row that it expires, and
\* that is not over its TTL, has none when the sweep commits.
IdleMeansUnclaimed ==
  [][\A w \in Spaces : space[w].status = "active" /\ space'[w].status = "expired"
                       /\ (\E r \in Reapers : reaper[r].step = "sweeping" /\ reaper'[r].step = "listed"
                                              /\ w \in reaper[r].sel \ reaper[r].ttl)
                       => space[w].claim = 0]_vars
=============================================================================
