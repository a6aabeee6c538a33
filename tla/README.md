# Verification of yaaos

yaaos runs AI coding pipelines for tickets. A **pipeline** is a list of stages
(skill invocations with an optional review-fix loop, standalone reviews, and
actions such as "open the PR"); a **run** executes one flattened pipeline for
one ticket on a **workspace** (a checkout on a customer-hosted agent pod). The
backend is a set of Python processes over Postgres and Redis; the agent is a Go
supervisor that long-polls the backend for commands.

This directory models that system in TLA+, checks it with TLC on small
instances, and proves with TLAPS, for every instance, the central safety properties
of its two engines, the run engine and the task outbox, of the command queue between
the backend and its agents, of the agents' rows and bearers and the exchange that
issues them, of the OAuth connections and the sessions, and of what goes to a pull
request (findings and their comments) and comes from it (webhooks).

`PROJECT.json` is the index: components with their status, runs, one mutant per
checked property, the map from definitions to source lines, the finding, the
hazards, the theorems.

## 1. Inventory

| Component | State it keeps | Operations | Interacts with |
| --- | --- | --- | --- |
| `domain/pipelines` engine | `pipeline_runs`, `stage_executions`, `run_pauses` | tasks `ROUTE_RUN`, `START_STAGE`, `HANDLE_AGENT_EVENT`; promotion; pause and resume; send-back; review-fix loop; auth retry; cleanup; terminal | `core/tasks` (messages), `core/workspace` and `core/coding_agent` (dispatch), tickets, artifacts, findings |
| `domain/pipelines` service, web | the same rows, `pipelines` | `start_run`, reruns, `request_cancel`, `resolve_pause`, definition CRUD | HTTP, `pr_review`, the schedule tick |
| `domain/pipelines` scheduler jobs | none of its own | `pipeline_schedule_tick`, `resume_stalled_runs` (three reconciliations) | durable rows, tasks |
| `domain/tickets`, `core/intake`, `plugins/github` | `tickets`, `pull_requests`, `github_webhook_events`, `github_app_installations` | webhook intake, ticket transitions, installation handshake, actions | engine, GitHub |
| `core/workspace` | `workspaces` (status, single-flight claim, owner, expiry) | dispatch and claim, reaper, agent-loss failsafe, destroy | engine, `core/agent_gateway` |
| `core/agent_gateway` | `agent_commands`, `workspace_agents`, bearers, Redis membership keys | enqueue, claim, acknowledge, terminal event, lease requeue, liveness, shutdown, identity exchange, activity subscription | agents over HTTP and WebSocket |
| `core/tasks` | outbox, `scheduled_runs` | `enqueue`, `drain_once`, `tick_once`, receivers, shutdown | everybody |
| `core/coding_agent`, `plugins/claude_code`, `plugins/codex` | `coding_agent_runs`, activity partitions, installs | `dispatch_invocation`, run sink, activity rendering | engine, gateway |
| agent supervisor (Go) | pool of workspaces, dedup cache, drain flag | claim loop, heartbeat loop, dispatch, reconcile, drain | gateway |
| `domain/pr_review`, `domain/findings`, `domain/artifacts`, `domain/actions` | `pr_comments`, findings, artifacts | comment batching, verdicts, posting, auto-approval, artifact versions | engine, GitHub |
| `core/identity`, `core/sessions`, `core/tenancy`, `domain/orgs` | users, sessions, memberships, invitations, SSO | login, gate, idle windows, purge, invitations, SSO mirror, org settings | HTTP |
| `core/oauth`, `domain/integrations`, `domain/mcp_proxy`, `core/api_keys` | connections, credentials, bearers, keys | device flow, refresh, health check, proxy, key delivery | providers, agents |
| `core/notifications`, `core/sse`, `domain/lessons` | notifications, event stash, lessons | fan-out, bell, streams, edits | browsers |

`PROJECT.json` lists all of them, the ones left out too, with a reason.

**What is hard here.** A run advances only by messages between short
transactions: each is delivered at least once up to Redis and at most once after
it, and no retry middleware is installed, so an exception loses the message. A
run is *parked* on one agent command while humans cancel it, resolve its pauses,
and start siblings; the reaper expires its workspace under it; agents disappear;
a once-a-minute sweep re-derives lost messages from durable rows and may be
wrong about which message was lost. Around the engine, nearly every handler
reads at READ COMMITTED without a lock, decides, and writes by primary key; every
webhook, poll and callback may come twice; and every external call sits between
two transactions. What makes the system correct:

* one run of a ticket in flight, no queued run forgotten, every run settles;
* an event is applied to the execution its command was dispatched for, or not at
  all; a run that is over stays over; its terminal state agrees with the cancel,
  kill and failure records; a revision reaches the stage it was written for;
* one invocation at a time on a workspace, no live workspace left behind;
* a durable task is dispatched, a slot of a schedule is enqueued once;
* a command ends in one outcome its run is told; a pod that is lost is locked out;
* credentials, bearers, sessions and invitations are used by those they were made
  for, once where once is promised, and copies of a row follow the row;
* what is audited, mailed, notified and streamed is what happened.

The hazards at their lines, with the property that watches each, are in
`PROJECT.json`.

## 2. Modules

Three groups: the **engine** (`RunEngine`), the **outbox** (`Outbox`, which implements
`TaskQueue`), and the **components** around them, composed into three suites.

| Module | What it is |
| --- | --- |
| `RunEngine` | the engine, its requests, the sweep, and its environment (tasks, agent, reaper), for the runs of one ticket |
| `MCRunEngine` | the pipelines the configurations instantiate |
| `RunEngineProof` | the inductive invariant of the engine; that a run has one driver while nothing is delivered twice; where an unconsumed revision aims while nothing is lost either; and the theorems of each |
| `TaskQueue` | the abstract queue: a durable task's body runs, only then and at least once |
| `Outbox`, `MCOutbox` | rows, drain, scheduler, receivers and the shutdown of a worker process |
| `OutboxProof` | the inductive invariant of the outbox, its theorems, and the refinement of `TaskQueue` |
| `CommandQueueProof` | the invariants of the agents' command queue and of workspace claims, and their theorems |
| `OAuthConnectionsProof` | where a refresh token and a device code can be, and the theorems that follow |
| `SessionsProof` | what a step does to a session row, and the theorems that follow |
| `AgentIdentityProof` | who holds a signed envelope, what becomes of a bearer, and the theorems that follow |
| `AgentFleetProof` | what a step does to an agent's row, its bearers and the command its pod has in hand, and the theorems that follow |
| `PullRequestProof` | how GitHub, the action in hand and the finding rows agree, which request may act on a webhook event, and the theorems that follow |
| `MCAgents`, `MCReview`, `MCPlatform` | the suites: each component's module under the constants of several *scenes* |

### RunEngine

| Variable | Code |
| --- | --- |
| `run[r]` | the `pipeline_runs` row (state, phase, current_stage_index, workspace_id, pending_agent_command_id, cancel_requested, failure_reason, kickoff.revision, sendback_counts), the newest running `stage_executions` row (`exec`), the newest non-system one (`last`), and the open `run_pauses` row (`pause`); `killed` is `_run_was_killed` |
| `cmd[r][c]` | the c-th `agent_commands` row correlated to run r: kind, workspace, status (`claimed` stands for claimed and delivered) |
| `space[r][w]` | the `workspaces` row minted with provision command w: status, `current_command_id`, and whether its pod still serves it |
| `ticket` | status, `current_run_id`, and the stages with a final artifact |
| `tasks` | messages drained to Redis and not consumed |
| `used` | how much of each environment bound has been spent |

Ids are the number of the command that minted them: the w-th command, if it is a
provision, mints workspace w. Stages and runs are 1-based, 0 is `NULL`.

Every action is one committed transaction. The code passes an ORM session down
a chain of helpers; the operators do the same with working copies `R` (run row),
`tk` (ticket) and `T` (messages), and the last helper assigns the primed
variables. So `RouteRunImpl` → `FinishOrCleanup` → `EnterTerminal` is one step
that also promotes the oldest queued run, as in the code. An exception
(`WorkspaceNotFoundError`, `WorkspaceClaimFailed`) rolls everything back and loses
the message: `Drop`.

* Tasks: `RouteRunTask`, `StartStageTask`, `HandleAgentEventTask` (with everything
  `_handle_skill_stage_event`, `_handle_review_stage_event` and
  `_handle_system_stage_event` reach), `LoseTask`.
* Requests: `StartRun`, `CommitStart`, `StartRerunFromStage`, `RequestCancel`,
  `ResolvePause` (`Approve`, `Instruct`, `HumanSendBack`, `Kill`). A start that finds
  the slot taken is two steps: the flush with its failed promotion
  (`inserting`, invisible to others) and the commit (`queued`).
* Sweep: `ReconcileStaleRunning`, `ReconcileLostResume`, `ReconcileOrphanedQueued`.
* Environment: `AgentClaims`, `AgentReports`, `ReaperExpires`, `AgentForgets`, `AgentLoss`.

Data is abstracted to what the properties tell apart: a skill's answer is a
choice among the ways the engine can take it (violation, cannot_complete,
send-back to a visible upstream skill stage, artifact), a review's among clean,
residual findings and residuals that name an upstream artifact; conditional
boundaries are a free choice between pause and proceed; missing credentials are
a free choice at every invocation.

Three things are deliberately coarser than the code. The stall sweep's
staleness threshold is "the run has no message in `tasks`" (`Quiet`); a sweep that
fires while one is still queued counts against `MaxDup`, because that is what it
is. `destroying`, `destroyed` and `destroy_failed` are all `expired` for the engine,
which only asks whether a row is active and whether it exists. And requests are
atomic here, except that the flag of a cancel that read the run `running` may be
committed after the run has ended (`CancelRunning`): requests that read before another
commits are in `RunRequests`.

### Outbox and TaskQueue

| Variable | Code |
| --- | --- |
| `rows` | `outbox_entries`, oldest first: org of the metadata, whether a worker has the task registered, `dispatched_at` set, the schedule slot that enqueued it; `root`, the org at the start of the chain, is history |
| `ledger`, `clock` | `scheduled_runs`; the minute |
| `drain[w]`, `tick[w]` | the open transaction of worker w's drain loop (rows locked, still to do, stamped) and scheduler loop (slot, schedules to do, schedules won) |
| `redis`, `popped`, `body[w]`, `ran` | the broker's list; what was ever popped; the body in flight; the rows whose body ran to its end |
| `phase[w]`, `used` | where the process is between boot and exit; bounds spent |

Actions: `Enqueue`; `DrainBegins` (select with SKIP LOCKED), `DrainDispatch` (one row:
pushed and stamped, or left pending), `DrainCommits`, `DrainFails`; `TickBegins`,
`TickClaims` (one ON CONFLICT insert), `TickCommits`, `TickFails`, `PruneScheduledRuns`,
`ClockTicks`; `Receive`, `BodyEnds`, `BodyEnqueues`; `Sigterm`, `ConsumeStops`, `Exit`,
`Crash`, `Boot`. `Promise` is `TaskQueue` with the rows of registered tasks as its jobs.
`FailedClaimStays` states a comment of `scheduler.py` that the code does not keep
(section 5).

### Components and scenes

A suite's state is the state of all its components; a behaviour of the suite is
a behaviour of one of them, chosen initially as a *scene*: the component's module
with the constants of that scene. The others stay `Unused`. So one run asks one
question of a family of components, and each keeps its own state space.

**`MCAgents`**: The remote agents and what the backend keeps about them.

| Module | State and steps | Scenes |
| --- | --- | --- |
| `AgentFleet` | the `workspace_agents` row, the bearer ledger, the agent-scoped commands and the supervisor process; a request is accepted in one step and committed in a later one; liveness sweep, drain, cancel-shutdown, crash, restart, silence | `fleet_faults`: crashes and silences of one pod; `fleet_admin`: an admin drains the pod, and changes his mind; `fleet_configured`: a new pod, one of whose messages is lost |
| `CommandQueue` | `agent_commands` with lease, attempts and completion token, `workspaces` with their single-flight claim and destruction, the pods' pools and dedup caches, unfinished reapers | `queue_safety`: two pods; claims and receipts are lost; `queue_faults`: a pod crashes and returns, a workspace breaks or expires, a secret is unreadable, a destroy call fails, a reaper dies; `queue_reapers`: two reapers; destroy calls fail until the retries are used up; `queue_loss`: both pods die for good; `queue_cap`: as many claims and receipts are lost as a command is tried; `queue_live`: two workspaces, two pods with room for one each, and nothing fails |
| `WorkspaceTimers` | one `workspaces` row against the clock: claims, pauses that extend it, TTL and idle sweeps in their read and write steps, destroy and retries, audit rows | `timers_reaper`: a pause extends the deadline the reaper watches; `timers_reports`: pods that do not own the workspace report it; `timers_live`: as timers_reaper, for longer |
| `ApiKeyDelivery` | encrypted rows, ConfigUpdates by id, the claim loop of each agent and the keys in effect when work is claimed | `keys_rotation`: keys of two providers are set while an agent claims; `keys_faults`: a claim is lost, the master key is rotated; `keys_live`: nothing is lost |
| `AgentIdentity` | envelopes, nonces, rate-limit window, ARN lookup, region pin, bearers, and `PATCH /api/orgs` between its two loads | `identity_exchange`: one envelope, presented twice at once; `identity_rate`: more exchanges than the rate limit lets through; `identity_patch`: admins change what agents are recognised by |
| `CodingAgentRuns` | run rows, terminal events, live frames, stored activity, weekly partitions | `runs_activity`: activity is posted with loss, its pod may be lost; `runs_calendar`: weeks pass over the partitions; `runs_settle`: two commands of a review stage |
| `ActivityRender` | operators: how a CLI transcript becomes activity frames and what of a tool's input they show | used by `CodingAgentRuns` |
| `CodingAgentInstalls` | the install row, requests between check and insert, audit rows | `installs_trail`: two admins install, change and remove plugins; `installs_alone`: one admin |
| `ActivitySubscribers` | membership keys with their age, routes, control messages, sockets, the reconciler and the sweeper between their steps | `subs_storm`: watchers come and go, sockets drop, the backend crashes; `subs_two`: two watchers of one run; a publish is lost, an agent redials; `subs_repair`: the same with one watcher; `subs_calm`: one watcher, one socket, and no loss |

**`MCReview`**: What surrounds a pipeline run.

| Module | State and steps | Scenes |
| --- | --- | --- |
| `PullRequestIntake` | webhook ledger, handlers between their transactions, pull-request row, ticket, runs | `intake_duplicates`: deliveries are repeated, reordered and handled by two requests at once; `intake_failures`: as before, and a handler fails; `intake_order`: one handler takes the deliveries in the order GitHub made them |
| `CommentBatching` | `pr_comments`, classification, batches, the terminal hook, auto-approval, bodies that die between steps | `batch_claims`: two comments and a review run in between; `batch_crash`: one comment, delivered twice; a worker dies, GitHub fails; `batch_live`: two comments and nothing fails |
| `ReviewFindings` | findings and verdicts across passes, the three GitHub actions call by call, comments and threads on GitHub | `findings_posting`: a run that posts is killed and retried; `findings_disputes`: people dispute and dismiss between runs |
| `Artifacts` | artifact versions, stage executions, the ways a stage's input is looked up | `docs_reruns`: a second run on what the first one wrote; `docs_one_run`: reviewed stages before an action |
| `RunRequests` | requests that read, decide and then write by primary key while the engine works on the runs | `reqs_one_at_a_time`: people act on the runs of a ticket, one request at a time; `reqs_late`: two runs of one ticket, and two answers or cancels at a time that come late; `reqs_queue`: a queue of runs behind each other |
| `PipelineDefinitions` | `pipelines`, trigger bindings, edits between check and flush, the schedule tick, starts and reruns of stored definitions | `defs_sequential`: pipelines that include each other; `defs_templates`: the shipped templates, edited; `defs_bindings`: two admins bind and edit at once; `defs_runs`: a run starts while its pipeline is edited; `defs_reruns`: a rerun from a stage of an edited pipeline; `defs_schedule`: two workers tick, and die; `defs_tick`: bindings and their pipelines go while a tick is under way |
| `Lessons` | the lesson row, edits between read, write and second read, audit rows | `lessons_edit`: two editors of one lesson; `lessons_alone`: one editor, for longer |
| `LiveEvents` | transactions with their stash, publish tasks, streams, what each browser shows | `live_deploy`: savepoints, rollbacks and a deploy; `live_commit`: three writers, two browsers that stay connected |
| `Notifications` | fan-outs, the broker's list, open transactions of workers, inbox rows, the bell | `notes_fanout`: a fan-out is delivered twice and its worker dies; `notes_bell`: the bell is read while rows arrive; `notes_live`: members join, tickets change status |

**`MCPlatform`**: Accounts, outside services and the outbox.

| Module | State and steps | Scenes |
| --- | --- | --- |
| `OAuthConnections` | device sessions and connections with their row locks, polls, refreshes of consumers and of the sweeper, the provider | `oauth_refresh`: two requests and the sweep refresh one connection; an answer is lost, a process dies; `oauth_connect`: two polls of the device flow race each other and a disconnect; `oauth_live`: a grant is revoked, an answer is lost, a device code runs out |
| `Sessions` | users, mailboxes, OAuth identities, sessions, cookies of two browsers, requests inside the gate, purge | `sessions_gate`: requests through the gate while their session ends; `sessions_idle`: idle time-outs of two organisations, one of them with SSO; `sessions_identity`: mailboxes change hands; everybody logs out; `sessions_purge`: rows expire and the hourly purge runs |
| `OrgAccess` | orgs, members, invitations, SSO configuration and its copy, open transactions | `orgs_invite`: two people answer one invitation at once; `orgs_sso`: the SSO policy and its mirror on sessions; `orgs_reenroll`: members enrol again, change roles and handles under SSO; `orgs_sweep`: invitations run out |
| `GitHubInstallation` | handshakes, deliveries, the installation row, the org's VCS columns | `install_no_tunnel`: two calls pick and clear installations; a code expires; `install_faults`: webhooks and crashes in between; `install_status`: webhooks arrive in order |
| `McpIntegrations` | credentials, health check, validation, proxy dispatch between its two reads, bearers, mails | `mcp_health`: credentials age, are rotated, revoked and checked, and the provider is sometimes out of reach; `mcp_bearers`: bearers of two reviews; `mcp_proxy`: calls through the proxy while the settings change; `mcp_noticed`: the provider, the mail server and the worker fail |
| `Outbox` | as above | `outbox_faults`: a worker is killed, stopped or abandons a body; a transaction fails; `outbox_drains`: two drains, a refused push and a row nobody can dispatch; `outbox_slots`: two workers tick two schedules |

What the runs check of a suite is at the end of its module: each property of a run is
the conjunction of named ones, one per idea (`CommandsAccountedFor` is
`ClaimHolderOutstanding`, `DoneMeansTold`, `OwnerHoldsWorkspace`, ...). Each of those
says first for which scene it speaks, and the component's module says what it means
and which code it is about. A scene is named in the configurations by the constant
`Scenes`; checking one scene alone takes seconds.

## 3. Runs

| Run | Instance | Shows |
| --- | --- | --- |
| `engine_loop` | skill with a 2-pass review loop, then an action; 1 loss, 1 expiry, 1 instruct; fairness | types; outcome agrees with the row; nothing pending at the end; a paused run waits for a human only; one command outstanding; every run settles |
| `engine_sendback` | skill, action, review that sends back; 1 expiry, 1 instruct | revisions reach their stage; no live workspace without cleanup |
| `engine_queue` | two runs, one stage; 1 loss; fairness | one in flight; ticket agrees; the queued run gets its turn |
| `engine_dup` | one stage; 1 duplicate, 1 loss, 1 expiry, 1 instruct, all faults | the handlers' guards survive redelivery and every fault; a run that is over stays over; a cancel, once set, is heeded |
| `engine_provision_fails` | one stage; the provision may fail; fairness | violation: the run never settles (section 5) |
| `outbox` | 2 workers, 1 schedule, 2 rows, 1 rollback, 1 SIGTERM, 1 row of an unregistered task; fairness | stamped means pushed, one row per slot, a chain keeps its org, and the refinement of `TaskQueue` with its liveness |
| `agents`, `review`, `platform` | the scenes of section 2 without fairness | the safety of each component under its faults |
| `agents_live`, `review_live`, `platform_live` | smaller scenes, fairness | what has to happen happens |

`EveryTaskRuns` is the whole of `TaskQueue`, safety and fairness, under the refinement
mapping `Promise`; `platform` checks the safety half also with crashes and
abandoned bodies (`QueueStep`). `outbox` runs `FairSpec`, whose steps are those of one
minute in which no worker is killed: a killed worker takes the task it popped with it, so
liveness is promised only then. Kills, the clock and the pruning of the ledger are in the
scenes `OutboxFaults` and `OutboxSlots` of `platform`, and in all theorems of `OutboxProof`.

**Bounds of the engine.** `MaxCmds` is never reached in any passing run (checked
with the invariant `run[r].minted < MaxCmds`): the engine's own caps (one send-back
per target, one auth retry per stage, `max_iterations`) bound the commands of a run,
so the constant cuts nothing off. One loss, one duplicate and one expiry per
behaviour are enough for each to strike at every point of every run, which is
where the interesting cases are; two runs are enough for the slot and the queue;
pipelines are the smallest with the structure a property speaks of. The environment
faults are split over the runs because some of them (a failed provision, a
forgotten workspace, an agent lost with a claim-less command, a late cancel) are
cases of section 5: the passing liveness run shows that without them a run settles.

**Bounds of the others.** In the scene that asks about a race there are two of the
actors that race (workers, sweepers, admins, pods, viewers), and elsewhere one of each
fault, so that every ordered pair of steps and every single fault at every point
occurs. Not every race has such a scene: where two actors break what the words
promise, the passing scenes have one of them, section 5 names the place, and the
hazard's note says so. In `RunRequests` only `reqs_late` has two requests open at once
(answers and cancels that commit after the run has moved on); the other scenes have
one, because what they check is broken by two answers or two reruns at once
(section 5). `queue_safety` and `queue_cap`
lose as many claims and receipts as a command has attempts, so the attempt cap is
reached; clocks run just beyond the longest
timeout they are compared with. Each module names its bounds in the comment of its
`CONSTANTS`, each suite gives the numbers of a scene at its instance. Where two
faults together exceed what is feasible they are in two scenes.

**Fairness.** Weak fairness of what the code schedules in a loop: the task workers,
drain and tick of a running process and its restart, sweeps and reapers (crons),
agents' claim and heartbeat loops, pollers, receivers, the commit of an open
transaction, and clocks in the scenes that wait for a timeout. Nothing is assumed of
humans, browsers, webhooks, starts, or of faults. A run that waits for a human is
settled for `RunSettles`, and a paused sibling excuses `QueuedGetsItsTurn`.

**Deadlock** is checked in the engine runs except `engine_dup`, where a lost or
forgetful agent leaves a command nobody will claim. The others end when their
bounded requests, faults and clock are used up, so there it is not.

## 4. Proofs

TLC checks the instances above; the theorems hold for every value of the
constants that satisfies the assumptions.

### RunEngineProof

For every pipeline, every number of runs and every value of the bounds and fault
sets (`PipelineAssumption`: a non-empty sequence of stages; `BoundsAssumption`: bounds
are naturals, faults are among the named ones):

* `TypeCorrect`, `OneInFlightHolds`, `ParkedHolds`, `SingleFlightHolds`, `HandlersHold`:
  `Spec => []P` for `TypeOK`, `OneInFlight`, `ParkedOnItsExecution`, `SingleFlight`,
  `HandlersApplicable`;
* `TerminalHolds` and `CancelHolds`: the action properties `TerminalIsFinal` and
  `CancelIsHeeded`. The second is about the transaction that completes a run; a cancel
  whose flag is committed after it leaves a completed row with the flag (section 5).

The inductive invariant `IInv` is the conjunction of the five and of `NotAskedYet` (a
run that has not started has no cancel on its row, so neither its start nor its
promotion can lose one). None of the five is inductive alone: typing needs that a
parked run has dispatched its pending command (`HandlersApplicable`), a handler's stage
lookup needs that a running invocation names a stage, `ParkedOnItsExecution` needs that
ids above `minted` are unused, `SingleFlight` the same for claims, and `OneInFlight` the
slot test of each of the three promotion paths. `HandlersApplicable` and `NotAskedYet`
are there mainly for the others; the first says what the code's assertions rely on.

The argument follows the code: one lemma per helper ("…Fits": given rows that
satisfy the invariant, what the helper commits satisfies it), one per action
("…Keeps"), and `StepKeeps` over the disjuncts of `Next`.

### OutboxProof

For every number of workers, every sequence of schedules and every value of the
bounds (`OutboxAssumption`):

* `TypeCorrect`, `StampedHolds`, `SlotHolds`, `ChainHolds`: `Spec => []P` for `TypeOK`,
  `StampedWasPushed`, `SlotEnqueuedOnce`, `ChainKeepsOrg`;
* `QueueStepHolds` and `Implements`: every step of the outbox is a commit, a run, both
  at once (`RunAndCommit`, a body that enqueues its follow-up) or a stutter of
  `TaskQueue`, so `Spec => Promise!QSafety`, with crashes, rollbacks and any number of
  workers.

`IInv` adds two halves to the properties. `DrainInv` says where a row is between the
push and the commit: what is pushed was committed, an open drain holds rows that
exist, what it has stamped is pushed, and a body runs a popped row in its org.
`TickInv` says why a slot cannot have two rows. The unique index sees committed
claims only, so two open ticks with the same slot must have won different schedules
(the ON CONFLICT insert waits for the other transaction); and a row whose claim was
pruned must be too old for any open tick: a tick's slot is at most `Retention` behind
the clock (`ClockTicks`: a tick of one minute does not stay open for the ledger's
retention of days).

### RunEngineProof: one driver

For every pipeline, number of runs, set of faults and bound, under one more hypothesis,
`NoRedelivery` (`MaxDup = 0`: no task message is delivered a second time; messages may
still be lost, bodies may raise, workspaces may expire and pods may be lost). The runs
that check these properties make the same assumption, and it is needed: a duplicate is a
second driver of its run.

* `OutcomeHolds`, `NothingPendingHolds`, `PausedHolds`, `HitlHolds`,
  `NoWorkspaceAbandonedHolds`: `Spec => []P` for `OutcomeMatchesRow`,
  `NothingPendingAtTerminal`, `PausedWaitsForHuman`, `HitlMeansWaiting`,
  `NoLiveWorkspaceAbandoned`;
* `OneCommandHolds`: the same for `OneCommandOutstanding` if no pod is lost for good
  (`"agent_lost" \notin Faults`): the failsafe answers for the lost pod's command, which
  no pod will ever finish, and the run dispatches its next one.

The argument is that a run has one driver. `DInv` says it: a message in Redis is the only
one of its run (`OneDriver`), it is the answer of the command the run is parked on or the
run is parked on none (`Drives`), a dispatched command that is not done is the pending one
of a run without a message, or its pod is gone (`CommandDriven`); a human decides for a
paused run, which has neither. Around it stand what a row between two transactions looks
like (`RowDriven`), that a workspace which is active and not cleaned up is the current one
of a run that is not over (`SpaceKept`), and that the ticket follows the run in flight
(`TicketFollows`). The lemmas hand the driver along the calls of the code: `InHand` and
`Going` describe the row inside a transaction whose message has been consumed, each helper
ends by committing a new driver (a message, a command, a pause) or a terminal state, and
the sweep only fires for a run whose driver was lost. `IInv` is used
as it stands, so the invariant is the conjunction of both.

### RunEngineProof: revisions

For every pipeline, number of runs, set of faults and bound, under `NoRedelivery` and one
more hypothesis, `NoLoss` (`MaxLoss = 0`: no task message is lost between Redis and its
body). `engine_sendback`, the run that checks the property, makes both, and both are
needed. With `MaxDup = 1` TLC breaks it on that instance. With `MaxLoss = 1` it takes a
stage after the review and an expired workspace: when the START_STAGE after the
re-provision of a send-back is lost, the stall sweep replays the boundary after the
review as a success and the run goes on, its revision unconsumed (section 5).

* `RevisionHolds`: `Spec => []RevisionReachesItsStage`;
* `NeverStranded`: a running run that waits for no command has a message on its way.

`RevisionReachesItsStage` is the first conjunct of `RInv` and far from inductive. A
boundary that is routed moves the current stage, so no ROUTE_RUN may be on its way to a
run with an unconsumed revision, and a START_STAGE must name the current stage
(`Expected`). The sweep routes boundaries of its own, so every run it could pick must have
a message (`Moved`), which is where the lost message would hurt. A stage whose workspace
has expired is re-entered after a provision, and only if the success of the provision
finds a workspaces row does it resume the revision's stage (`Provisioned`). And a
revision may only be written for a stage that has an invocation to consume it, or it
would outlive the stage: the stage of a pause, and every target of a send-back, is no
action (`RowAimed`). The lemmas carry `Aims`, the same for the row inside a transaction,
along the calls of the code; `IInv` and `DInv` are used as they stand.

### CommandQueueProof

For any number of pods, workspaces and reapers and every value of the bounds
(`QueueAssumption`, which each instance of `MCAgents` evaluates):

* `QueueTypeCorrect`, `RunsUnderItsClaimHolds`: `Spec => []P` for `TypeOK` and
  `RunsUnderItsClaim`, with every fault;
* `SingleFlightHolds`: a workspace has at most one invoke in the queue that is not done;
* `DoneIsFinal`: the action property that a command is never dropped, never changed in
  what it is for, and never taken up again once it is done.

`QInv` is why: a workspace's claim names an invoke of that workspace (`ClaimsNamed`) and
an invoke that is not done has the claim (`InvokesClaim`). Neither half is enough: the
release at a terminal event clears the claim by command id, so it needs that nobody else's
claim has this id, and a new claim needs that the old one is gone from the queue, or a
second invoke could be outstanding.

Two more theorems, `ClaimHolderOutstandingHolds` and `ClaimIsAwaited`, say that the claim
of an active workspace never outlives its command and is the command its run waits for.
They assume `NothingRetiredUnseen`: every credential can be read (`MaxSecret = 0`) and a
command is tried more than once (`MAX_ATTEMPT` is 3). The first is needed, since a claim
that retires a command leaves the workspace's claim (section 5). `ClaimInv` adds two facts
nobody would state for their own sake. A workspace without a row has no claim
(`AbsentFree`), or materialising it would make a stale claim active. And what was requeued
once is unpinned (`Unpinned`): as only provisions are claimed unpinned, the sweep never
gives up an invoke, which would retire it under its claim.

### OAuthConnectionsProof

For any number of users, consumers, polls and disconnects and every value of the bounds
(`OAuthAssumption`: there is a user, the sweeper is not one of the consumers, bounds are
naturals), with every fault (lost and transient answers, failed notifications, crashes,
revocations, grants without a refresh token):

* `TypeCorrect`, `NoTokenReplayHolds`, `StoredTokenUnspentHolds`, `NoNeedlessRefreshHolds`,
  `ConsumedCodeNotPolledHolds`: `Spec => []P` for `TypeOK`, `NoTokenReplay`,
  `StoredTokenUnspent`, `NoNeedlessRefresh`, `ConsumedCodeNotPolled`, the conjuncts of the
  properties of `platform` that speak of this component.

A rotating provider takes a refresh token once, so what has to be shown is where a token
can be. `TokensApart` says in one place only: the row of one user, the answer of one
refresh or the answer of one poll; `TokensMinted` that what is minted next is none of them
and that an answer in hand is never spent. `ConnLocks` ties the answers to the row locks:
who calls the provider, or has its answer, holds the lock of a row that has a token. Only
then can `SpentInHand` say that a row with a spent token is locked by the refresh that was
given its successor, unless an answer was lost, and a second refresh finds no spent token
to show. A grant or a disconnect waits for the lock, which is why neither slips a row
under the answer. The same three ideas carry the device codes: `CodesOwned` (a code is one
user's: the start request's, then the session's and the polls' that read it there),
`SessLocks` and `ConsumedInHand`. That a refresh commits what it was answered, or leaves
the token it found, is one lemma (`ReleasedCall`) for the five ways a refresh ends.

### SessionsProof

For any number of people, browsers, requests in flight and organizations and every window
and lifetime (`BoundsAreNat`: bounds and windows are naturals, the staff are people, SSO
and short orgs are orgs, and nobody is called "none"):

* `TypeCorrect`, `SubjectIsMailboxOwnerHolds`: `Spec => []P` for `TypeOK` and
  `SubjectIsMailboxOwner`;
* `NeverRevivedHolds`, `ActiveNeverIdledOutHolds`: the action properties `NeverRevived` and
  `ActiveNeverIdledOut`;
* `RevokedForGood`: once the row of a token is deleted, the token is no session's at any
  later time, `[](Revoked(t) => [](Revoked(t) /\ lookup(t) = "none"))`;
* `ServedAsItselfHolds`: a request about to run its handler has a role that covered its
  action and its session, if it still lives, is that of the user the first question found.

`require()` asks its questions in transactions of their own, and a logout, a role change or
the purge may delete the session between any two. What keeps the answers about one user is
that the number of a row is never used again (`TokensMinted`): a request past its first
question names a row of its user or one that is gone for good (`RequestOwned`). Of a row a
step does one of three things (`RowMoves`): delete it, keep its user and its expiry and touch
it at most, or insert it under the next number; `RowsKept` draws the invariant from that for
all twenty-one actions. For the idle window, `ServedIsSeen` says that a session that lives
was touched at every request it served, which is why a request that finds the row stale
cannot be refusing one that was just served. The mailbox half stands by itself
(`MailboxesOwned`): only the bootstrap and the accounts SAML makes have a verified address,
so a verified address is its reader's, and a subject is bound to whoever it signed in as first.

What a session is owed when it ends (`EveryEndAudited`) and that a stale secret only is
purged (`FreshSecretKept`) are not theorems: the code does otherwise (section 5).

### AgentFleetProof

For any number of pods and every value of the bounds (`FleetAssumption`: finitely many pods,
none called "null", and a MAX_ATTEMPT and a number of tokens of at least one):

* `TypeCorrect`, `ShutdownMeansNoBearerHolds`, `LostPodIsLockedOutHolds`, `HeldByOneHolds`:
  `Spec => []P` for `TypeOK`, `ShutdownMeansNoBearer`, `LostPodIsLockedOut` and `HeldByOne`;
* `BearerRevokedForGood`: `[](Revoked(a, t) => []Revoked(a, t))`, where a bearer is revoked
  when it was issued and is not in force;
* `CommandsKeptHolds`, `ConfiguredByItselfHolds`: the action properties `CommandsKept` and
  `ConfiguredByItself`.

A pod goes on carrying out a command after its lease lapsed and the sweep put the row back,
so what it has in hand may be pending again, or given up. The sweep takes the pin off such a
row, which makes it nobody's to claim (the finding of section 5). That is what `HandOwned`
rests on: what a pod has in hand is pinned to it or to nobody, its claim is no newer than the
row's last, and a ConfigUpdate it is about to report it has applied. Hence a terminal report
whose token is the last one configures the reporting pod's own row. Every action is shown to
move a row and its bearers together (`BearerMoves`), to keep the commands (`CommandsKept`)
and to move a hand in one of three ways (`HandMoves`); `StepFollows` draws the invariant from
the three. Agreement on a drain (`DrainMirrored`) needs the order in which commands were
claimed and is left to TLC, as is what must eventually happen.

### AgentIdentityProof

For any number of organizations, pods, exchanges and PATCH requests in flight and every
value of the bounds (`IdentityAssumption`: finitely many exchanges at once, a limit of at
least one, and a nonce that lives as long as the dates AWS accepts on both sides of its
clock: `_NONCE_TTL_SECONDS` is ten minutes, AWS accepts five either way):

* `TypeCorrect`, `EnvelopeOnceHolds`, `RateBoundHolds`: `Spec => []P` for `TypeOK`,
  `EnvelopeOnce` and `RateBound`;
* `BearersKeptHolds`: the action property that a bearer keeps its subject and its expiry and
  that no revocation is taken back; `RefusedForGood`: `[](Refused(b) => []Refused(b))`;
* `BearerMatchesOrgHolds`: `Spec => []BearerMatchesOrg` if no PATCH body may carry the role
  and the region (`"arn" \notin Keys`);
* `PatchTouchesOnlyItsKeysHolds`: the action property `PatchTouchesOnlyItsKeys` if PATCH
  requests do not overlap (`OneEditor`).

The last two hypotheses are those of the instances `agents` checks, and both are needed: a
PATCH that changes the role revokes the bearers it saw before its commit, and two PATCHes
undo each other's columns (section 5).

An envelope may be presented again at any time, so two exchanges can both be past its nonce,
once the first nonce has lapsed. `HoldersApart` says what that costs: whoever holds an
envelope that somebody else holds comes after the signature has lapsed, so AWS vouches for it
no more. It rests on `NoncesHold`: an envelope is dated less than SigTTL after its nonce was
set, the signature lapses SigTTL after its date, and the nonce 2 SigTTL after it was set or
later. The rate limit counts before it adds. `RInv` bounds the hits in the window and the
exchanges that have counted together, and each add turns one into the other. A bearer's row
is written under the number of its exchange, and `TriesApart` says that no two exchanges
share a number and none has that of a bearer, which is why no revoked row is overwritten.

### PullRequestProof

Two components meet at the pull request, `ReviewFindings` (what goes to it) and
`PullRequestIntake` (what comes from it). Each has an invariant of its own.

For any set of findings, any number of runs, passes and deaths and every page size
(`FindingsAssumption`: findings are numbers from 1, bounds are naturals, switches are
Booleans):

* `TypeCorrect`, `AnchoredAtItsCommentHolds`: `Spec => []P` for `TypeOK` and
  `AnchoredAtItsComment`;
* `DismissedStaysHolds`, `NothingLeftUnpostedHolds`: the action properties `DismissedStays`
  and `NothingLeftUnposted`;
* `PostedOnceHolds`: `Spec => []PostedOnce` if the findings are finitely many and fit a page
  (`PageHolds`). Beyond the page an action posts again (section 5).

An action writes to GitHub at once and to the rows at its commit, and may die in between, so
GitHub knows of comments no row is anchored at. `ActInHand` relates the three: an anchor in
hand is a comment of its finding, and what the action listed is still the beginning of what
GitHub shows. `ResidualsKept` follows every open finding of the run past the listing: it is
anchored, in hand or still to do, which is `NothingLeftUnposted` at the commit. For
`PostedOnce`, `OneEach` says that no finding has two comments and that what is still to do has
none that was not listed; its first half makes the comments no more than the findings, hence
the listing complete, hence its second half true at the next listing.

For any number of requests at once, events, deliveries, failures and pauses
(`IntakeAssumption`: bounds are naturals, switches are Booleans):

* `IntakeTypeCorrect`, `DeliveryAppliedOnceHolds`: `Intake!Spec => []P` for `TypeOK` (which
  says that a ticket has one run in flight at most) and `DeliveryAppliedOnce`;
* `RowFollowsGitHubHolds`: `Intake!Spec => []RowFollowsGitHub` under `OneByOne`: one request
  at a time, deliveries in their order, none fails, nothing is reopened. These are the
  constants of the scene `intake_order`. Deliveries may still be repeated at any time.

`HandlersApart` says that at most one request has recorded an event and still acts on it, and
`RunsApart` that a run's event is recorded, is no other run's and is nobody's to act on any
more. `RowsTogether` carries the ticket: `_enter_terminal` ends one run and promotes the
oldest queued one in the same transaction, so no second run is ever in flight. `OrderInv` is
the argument of the last theorem: an event tells what the one before it told except for what
it is about (`EventsFollow`), the events that are recorded and nobody's to act on are an
initial stretch of GitHub's (`AppliedInOrder`), and the row says what the last of them said
(`RowOfLastApplied`). A close writes the state and leaves the head, which is right only
because of the first.

What `ReviewFindings` promises without being kept (`SecondDisputeDismisses`, `VerdictsApply`,
`RepliedOnce`, `ApprovedWithoutBlocker`), and `PullRequestIntake` (`ClosedStopsRuns`,
`ReopenedIsOpen`), is in section 5; what must eventually happen is left
to TLC.

### Only model-checked

* Every liveness property, and the fairness half of `EveryTaskRuns`: WF and ENABLED
  are out of the prover's reach.
* `RevisionReachesItsStage` with lost messages: the sweep can break it (above).
* The suites. Their properties range over some twenty modules and many scenes; they
  are checked on the instances of section 2, with every fault and race in them.

## 5. Where code and words disagree

One disagreement is a run of its own. `engine_provision_fails`: a failed
ProvisionWorkspace leaves `run.workspace_id` set without a `workspaces` row,
`_finish_or_cleanup` takes the cleanup branch, `dispatch_cleanup` raises
`WorkspaceNotFoundError`, the transaction rolls back, and the sweep replays the same
event for ever, while `app/domain/pipelines/engine.py:809` says "Route a decided run
outcome through cleanup first when the run ever provisioned a workspace; otherwise
enter the terminal state directly".

The modules found more such places. Each row names the property (of the module or of
its suite) that states the words, and the line that does otherwise. The scenes leave out the step or fault
that leads there, or the property excludes the case; where the property's definition
is kept it can be checked on the component's module with constants that allow that
step. A property named here that also holds in a scene holds there because of
that restriction.

| Module | Property | Source | What |
| --- | --- | --- | --- |
| `RunEngine` | `OutcomeFrozenDuringCleanup` | `domain/pipelines/engine.py:866` | _finalize_after_cleanup reads cancel_requested as it is when cleanup ends, and request_cancel sets it on any running run, cleanup included: a run decided `completed` or `killed` ends `cancelled`. The docstring at app/domain/pipelines/engine.py:860 says "Re-derive the terminal state `_finish_or_cleanup` decided before dispatching cleanup", and docs/domain_pipelines.md:54 "`_finalize_after_cleanup` re-derives the same target state once cleanup's terminal event arrives". |
| `RunEngine` | `RevisionReachesItsStage` | `domain/pipelines/scheduler_jobs.py:174` | When a re-entry (send-back or instruct) needed a new workspace and the START_STAGE after the provision is lost, the sweep replays ROUTE_RUN from the newest non-system execution, the stage that settled before the re-entry: current_stage_index moves on and the revision is handed to the next stage. app/domain/pipelines/scheduler_jobs.py:24 says "so replaying `ROUTE_RUN` reproduces exactly what the lost message would have done", and app/domain/pipelines/engine.py:918 that the revision is cleared "so a later stage or a later re-provision of a DIFFERENT stage never replays it". |
| `RunEngine` | `RunSettles` | `core/workspace/agent_report.py:65` | Once the reaper's destroyed row is named in forgotten_workspaces the agent drops it from its claim requests, and a CleanupWorkspace or refresh dispatched to it stays `pending`: its agent is healthy, so neither the lease requeue nor the agent-loss failsafe applies and the run hangs in `running`. app/core/workspace/service.py:427 says the failsafe exists so the engine "resumes (fails the stage) rather than hanging in `running` indefinitely". |
| `RunEngine` | `OneCommandOutstanding` | `domain/pipelines/engine.py:890` | ROUTE_RUN and START_STAGE only check that the run is `running`: a second delivery while the first dispatch is pending dispatches again (a second ProvisionWorkspace overwrites workspace_id). app/core/tasks/drain.py:5 says "a crash between dispatch and the stamp update redispatches on the next poll, so task bodies must tolerate duplicates", and docs/patterns.md:315 "read the durable row at body entry; no-op when state already indicates done or in-progress". |
| `RunEngine` | `QueuedBehindInFlight` | `domain/pipelines/service.py:752` | start_run tests the index before it commits; the in-flight sibling's terminal transaction cannot see the uncommitted queued row and promotes nobody, so the run is queued alone until the sweep. The docstring at app/domain/pipelines/service.py:752 says "`queued` is included because it means the ticket already has a `running` or `paused` run holding the one-in-flight slot (the `ux_pipeline_runs_one_in_flight` index guarantees this)". |
| `AgentFleet` | `RequeuedIsRedelivered` | `core/agent_gateway/service.py:956` | requeue_stale_claimed sets `row.agent_id = None`, and every claim query for ConfigUpdate, Shutdown and CancelShutdown asks for agent_id = this agent: a requeued one matches nobody. docs/workspace-agent-protocol.md:63 says the sweep "requeues the row to `pending`" for another delivery, and apps/agent/internal/supervisor/supervisor.go:855 "at worst the command gets re-queued to pending and re-delivered (at-least-once)". |
| `AgentFleet` | `DrainSettles` | `core/agent_gateway/service.py:1424` | A pod that dies mid-drain and restarts within five minutes exchanges again; the upsert keeps `draining`, its Shutdown command is done or lost, so it becomes active locally and takes no part in the drain, and shutdown_agents answers already_draining without a new command. The sweep's comment at app/core/agent_gateway/service.py:2077 says "Stuck-drain recovery: if the agent crashed mid-drain ... settle the lifecycle to "shutdown"". |
| `AgentFleet` | `AnyDrainSettles` | `core/agent_gateway/service.py:2068` | shutdown_agents drains offline rows too, and the stuck-drain recovery sits behind `if row.state == target_state: continue`: a row that was offline when it was drained never transitions and stays `draining`. app/core/agent_gateway/service.py:2078: "lifecycle is still "draining" but it stopped heartbeating), settle the lifecycle". |
| `AgentFleet` | `ShutdownIsOffline` | `core/agent_gateway/service.py:1001` | record_heartbeat sets state=reachable whatever the lifecycle, and its bearer was verified in an earlier transaction; the sweep then skips the row. app/core/agent_gateway/service.py:2035: "lifecycle='shutdown' is terminal (the agent process is gone and `mark_agent_shutdown_complete` already pinned state to offline)". |
| `AgentFleet` | `GoneStaysOffline` | `core/agent_gateway/service.py:2061` | compute_agent_liveness_transitions derives the state from the heartbeat's age alone. Its docstring, app/core/agent_gateway/service.py:2020, says "explicit shutdown (last_shutdown_at is set and agent is not reachable) → offline": last_shutdown_at is never read. |
| `CommandQueue` | `ClaimHolderOutstanding` | `core/agent_gateway/service.py:820` | claim_next retires an InvokeClaudeCode whose credentials cannot be read and tells the run, and never calls release_claim: the active workspace keeps a claim on a done command. docs/patterns.md:297 says "every `try_claim` call is paired with `release_claim(workspace_id, command_id=…)` after the terminal event is observed". |
| `CommandQueue` | `ExpiredIsDestroyed` | `core/workspace/service.py:387` | The sweep lists `expired` rows only; a row left `destroying` by a worker that died inside provider.destroy() is never looked at again. _reaper_sweep_once's docstring, app/core/workspace/service.py:306, says it will "destroy expired rows + mark stuck destroys failed". |
| `CommandQueue` | `CommandSettles` | `apps/agent/internal/supervisor/supervisor.go:991` | A dedup hit posts the cached event with the completion token of the first delivery; the second claim has minted another, so the answer is 410 and dropped, and the row stays `delivered`. apps/agent/internal/supervisor/supervisor.go:1064: "so that a re-delivery while the POST is in-flight or after a crash-restart still replays correctly". |
| `CommandQueue` | `IdleMeansUnclaimed` | `core/workspace/service.py:358` | The idle sweep selects unclaimed rows and expires them by id without a condition: a try_claim that commits in between is on an expired workspace. app/core/workspace/service.py:343: "active workspaces with no claim that have been activated longer than `max_idle_seconds` are abandoned". |
| `CommandQueue` | `InvokeSettles` | `core/workspace/service.py:444` | Agent loss is only handled on a liveness transition to offline; a pod that restarts within the threshold keeps its rows active with an empty pool, reconcile_heartbeat only looks at what the pod reports, and the pinned command stays unclaimable. docs/core_agent_gateway.md:33: "so pipeline runs resume rather than hanging in `AWAITING_AGENT`". |
| `CommandQueue` | `CommandSettles` | `apps/agent/internal/supervisor/pool.go:372` | IdleIDs names active records only, so nothing pinned to a defunct workspace, its CleanupWorkspace included, is ever claimed. apps/agent/internal/supervisor/supervisor.go:974: "so the run engine on the backend always sees an outcome (it never silently hangs waiting for our reply)". |
| `Outbox` | `EveryTaskRuns` | `core/tasks/broker.py:35` | ListQueueBroker pops without acknowledgement and the row is stamped when it is pushed, so a worker that dies in a body loses the task unless a sweep of the owning domain re-derives it. docs/patterns.md:280 says "Use core/tasks when work must survive backend restarts", and app/core/tasks/broker.py:1 calls the broker "Redis Streams-backed". |
| `Outbox` | `FailedClaimStays` | `core/tasks/scheduler.py:154` | tick_once raises out of the session the claim was made in, scheduler_loop rolls it back, and a later tick of the same minute claims and enqueues the slot. The comment at app/core/tasks/scheduler.py:151 says "the claim row stays so a retry on the same slot does NOT re-enqueue". |
| `OAuthConnections` | `CooldownSeen` | `core/oauth/user_connections.py:462` | last_polled_at is flushed inside the request's transaction and committed by the route after the provider answered, so a concurrent poll reads the old value, waits for the row lock and calls the provider within the interval. The comment at app/core/oauth/user_connections.py:458 says "Stamp last_polled_at before the upstream call so concurrent requests also see the cooldown immediately". |
| `OAuthConnections` | `FreshSessionKept` | `core/oauth/user_connections.py:508` | poll_device_auth deletes the session by user and provider although the code it polled was read before the restart replaced it. app/core/oauth/user_connections.py:383 says "replaces an existing pending session so re-starting the flow always uses fresh codes". |
| `OAuthConnections` | `FlipSurvives` | `core/oauth/user_connections.py:806` | _notify_needs_reauth writes in the flip's own session; when its flush fails the swallowed exception leaves the transaction rolled back, so the commit raises and the row stays connected. Its docstring at app/core/oauth/user_connections.py:639 says "Best-effort — never raises: the flip's commit must not be lost to a notification failure". |
| `OAuthConnections` | `AuditedIffRemoved` | `core/oauth/user_connections.py:629` | disconnect_user_connection audits whenever its read found the row, whether or not its delete removed it. Its docstring at app/core/oauth/user_connections.py:600 says "Audits `oauth_connection.disconnected` iff removed". |
| `OAuthConnections` | `NeedsReauthRecorded` | `core/oauth/user_connections.py:765` | ensure_fresh_access_token raises ConnectionNeedsReauthError for a row without refresh token and leaves it connected, so neither the page nor a notification says so. Its docstring at app/core/oauth/user_connections.py:704 says "ConnectionNeedsReauthError: row is `needs_reauth`, or a terminal OAuth error" flips it. |
| `PullRequestIntake` | `ClosedStopsRuns` | `plugins/github/intake_type.py:521` | _handle_closed completes the ticket and cancels the current run only when the ticket's status is `running`; a ticket at `hitl`, or one already final whose later run is in flight, keeps its run, and runs queued behind the cancelled one are promoted. app/plugins/github/intake_type.py:14 says "PR state → merged/closed, ticket completed, any in-flight pipeline run cancelled". |
| `PullRequestIntake` | `ReopenedIsOpen` | `plugins/github/intake_type.py:247` | `reopened` is taken by the first branch of _handle_pull_request, where an existing ticket makes it a duplicate_ticket no-op; the later branch with _handle_reopened is dead code and the row stays closed. app/plugins/github/intake_type.py:15 says "`reopened` / PR state → open". |
| `PullRequestIntake` | `DuplicateIsAcknowledged` | `plugins/github/service.py:900` | The unique constraint is met by the flush, which is outside the try that turns the race into a duplicate: the second of two concurrent deliveries answers 500. docs/plugins_github.md:39 says "Idempotency on `X-GitHub-Delivery` (`github_webhook_events`) — duplicate → ... 200 no-op". |
| `PullRequestIntake` | `MissedEventsRecover` | `plugins/github/intake_type.py:159` | The ledger row is committed before the event is applied and nothing polls GitHub, so an event whose handling failed is lost: its redelivery is answered as a duplicate. docs/core_intake.md:31 says "Missed events recover via the plugin's catch-up poller, not replay here". |
| `CommentBatching` | `WaitingIsClaimed` | `domain/pr_review/service.py:217` | A body that dies between the stamp and maybe_start_batch_run leaves a classified comment that nothing picks up until some other run ends; a redelivery returns early. app/domain/pr_review/service.py:245 says "No run in flight AND waiting comments exist → claim + batch + start_run", and the task's docstring at app/domain/pr_review/service.py:213 counts only a canned reply as lost. |
| `CommentBatching` | `WaitingIsClaimed` | `domain/pr_review/service.py:379` | The hook starts the batch run and evaluates auto-approval in one transaction; a GitHub failure in the approval rolls the batch back and the hook does not run again. docs/domain_pr_review.md:28 says "every pipeline run reaching a terminal state re-invokes `maybe_start_batch_run` for that ticket (so comments that arrived mid-run get their own batch once the ticket is free again)". |
| `CommentBatching` | `NoDoubleReply` | `domain/pr_review/service.py:177` | _stamp_classification reads the row without a lock and asks the LLM before it writes, so two concurrent executions of a duplicated task both reply. app/domain/pr_review/service.py:213 says "a crash between the two loses one canned reply rather than risking a double reply on redelivery". |
| `CommentBatching` | `ApprovedOnce` | `domain/pr_review/service.py:340` | has_active_approval and approve_pr are two calls without mutual exclusion, and every finished run of the ticket enqueues a hook. app/domain/pr_review/service.py:311 says "Idempotent by construction: GitHub is the source of truth for approval state". |
| `ReviewFindings` | `SecondDisputeDismisses` | `plugins/github/actions.py:232` | A verdict without status takes the defend branch whether or not the finding was defended before, so a second dispute that is answered with a reply does not dismiss. app/plugins/github/actions.py:199 says "a second dispute always ends in dismiss regardless of what the skill now asserts". |
| `ReviewFindings` | `VerdictsApply` | `domain/pipelines/engine.py:1159` | The status of a finding of another stage execution is taken to be open, so still_present on a resolved one calls reflag, which raises; the review return is rolled back and the body does not run again. app/domain/pipelines/engine.py:1141 says "`still_present -> reflag` when the finding is open, `reopen` when it's resolved", for any review stage. |
| `ReviewFindings` | `RepliedOnce` | `plugins/github/actions.py:249` | Verdict replies are posted without looking for one already posted; an action executed again after a crash replies twice. docs/domain_actions.md:28 says "an `Action` implementation must read durable state at entry and no-op (or reconcile) on already-done work" and names the three GitHub actions as reference implementations. |
| `ReviewFindings` | `PostedOnce` | `plugins/github/service.py:278` | list_yaaos_comments asks for one page of inline and one of top-level comments and follows no link, so a comment beyond GitHub's page is not found and the finding is posted again after a crash. app/plugins/github/actions.py:10 says "It is externally idempotent". |
| `ReviewFindings` | `ActionSettles` | `plugins/github/service.py:571` | A finding without file and line is posted to the issue-comments endpoint, which opens no review thread; when a later review calls it fixed, resolve_finding_thread raises VCSNotFoundError, which is not an ActionError, every time the stage is executed. docs/domain_actions.md:26 says the action "resolves the thread of every `fixed` finding via `vcs.resolve_finding_thread`". |
| `ReviewFindings` | `ApprovedWithoutBlocker` | `domain/pr_review/service.py:336` | The findings are read in the hook's transaction and the approval is given afterwards, while the run promoted by the same terminal may post a blocker in between. app/domain/pr_review/service.py:16 says it "approves an externally-authored PR once the repo's enabled conditions pass against posted-finding state". |
| `Sessions` | `EveryEndAudited` | `core/sessions/web.py:269` | logout_all deletes every session row of the user and calls no audit function. app/core/sessions/web.py:463 declares the kind "logout_all", and app/core/identity/scheduler.py:53 says "the audit timeline reflects every logout-style event (explicit, forced, expiry) per the spec". |
| `Sessions` | `EveryEndAudited` | `core/identity/scheduler.py:89` | The rows to audit are selected with one reading of the clock and cleanup_expired deletes with a later one, so a row that expires in between is deleted unaudited. app/core/identity/scheduler.py:52 says "Each purged session emits a `logout` audit row". |
| `Sessions` | `OnlyStaleCleared` | `core/auth/auth_failure.py:55` | The 401 clears the cookies by name, whatever value the browser holds by the time it arrives; an answer to a request sent with the old cookie signs the new session out. app/core/auth/auth_failure.py:10 says "Clear the stale cookies". |
| `Sessions` | `IdleIsFinal` | `core/sessions/dependencies.py:146` | An idle refusal writes a logout row and leaves the session row; a request in an org with a longer window touches last_seen_at, and the first org serves it again. app/core/auth/types.py:31 says a session untouched for the window "is treated as expired by the `require(...)` dep, regardless of its absolute `expires_at`". |
| `Sessions` | `FreshSecretKept` | `core/identity/repository.py:214` | upsert_totp_secret resets verified_at of the row it finds and keeps created_at, so the next hourly purge deletes a secret enrolled minutes ago. app/core/identity/scheduler.py:1 says it purges "unverified-TOTP secrets older than 24h". |
| `OrgAccess` | `MirrorInStep` | `domain/orgs/sso.py:115` | The ORM writes only the sso_configs columns that differ from what this request loaded, but set_sso_authz_for_org writes both copies from its in-memory row; with two saves at once orgs.sso_enabled or the exempt owner keeps the stale value of the second. app/core/tenancy/models.py:65 says "`sso_enabled` mirrors `sso_configs.enabled`". |
| `OrgAccess` | `OneMemberPerToken` | `domain/orgs/invitations.py:161` | accepted_at is read without a lock and stamped without a condition; only the unique handle stands between a second accept in flight and a second member, and the first may have changed its handle. docs/domain_orgs.md:15 says "Single-use: `accepted_at` clamps the row". |
| `OrgAccess` | `OwnerRemains` | `domain/orgs/invitations.py:251` | change_role and remove_member check neither the target's role nor how many owners are left (and create_org makes its caller an Admin). docs/domain_orgs.md:22 says "≥1 Owner required per org." |
| `OrgAccess` | `BreakGlassWorks` | `domain/orgs/sso_web.py:293` | The role and the TOTP secret of the exempt owner are looked at once, when the pointer is saved; enrolling again, a role change or a removal later leaves a break-glass owner who cannot get in. app/core/identity/totp.py:96 says "The rule: an exempt Owner must already have a verified TOTP secret so they can authenticate without SSO." |
| `OrgAccess` | `OneOrgPerDomain` | `domain/orgs/service.py:266` | Nothing checks that a domain is claimed by one org; the query takes whichever row comes first. app/domain/orgs/service.py:258 says "at most one enabled config per domain is expected". |
| `AgentIdentity` | `NoOldArnBearer` | `core/agent_gateway/web.py:347` | The org is looked up in one transaction and the bearer issued in a later one that does not look again: an ARN change in between revokes the bearers there are, and the new one, for the old ARN, verifies for its full hour. app/core/agent_gateway/bearers.py:21 says "old-ARN bearers 401 on next call". |
| `AgentIdentity` | `PatchTouchesOnlyItsKeys` | `domain/orgs/org_settings_web.py:270` | Absent keys are filled from the first read and written to a row that is loaded afresh, so a PATCH of the timeout undoes an ARN or region another PATCH has committed meanwhile. app/domain/orgs/org_settings_web.py:182 says "only the keys actually present are touched". |
| `AgentIdentity` | `CapReachesAgents` | `domain/orgs/org_settings_web.py:245` | Whether the cap changed is judged against the first read; a PATCH that writes the old value over a concurrent change fans nothing out and the agents keep the other cap. docs/domain_orgs.md:54 says "on any change it calls `enqueue_config_update_for_all_org_agents(org_id)` in the same transaction". |
| `GitHubInstallation` | `LinkDone` | `plugins/github/web.py:284` | The link is made only by a callback that inserts the row. When installation.created is applied first the callback updates, and the org gets neither the audit nor set_vcs. docs/plugins_github.md:70 says the callback "fires `github_app_installation_linked` audit + `set_vcs` exactly once per first bind". |
| `GitHubInstallation` | `OrgStays` | `plugins/github/service.py:638` | The webhook resolves its org before it upserts: no row then, and DEFAULT_ORG_ID overwrites the org the callback has committed meanwhile. docs/plugins_github.md:70 says "Webhook delivery later upserts the same row; both converge on `install_external_id`". |
| `GitHubInstallation` | `LoginKnown` | `plugins/github/service.py:639` | A callback that could not fetch the login overwrites the webhook's with the empty string, and nothing writes it again. app/plugins/github/web.py:264 says "Failures here degrade to \"\" — the webhook will populate it shortly when it arrives". |
| `GitHubInstallation` | `Disconnected` | `domain/orgs/vcs.py:102` | A webhook that resolved the org before the Remove inserts the row again after it: the org has no VCS and an active installation. app/domain/orgs/vcs.py:93 says "so Remove means \"fully disconnected\" — the next Add starts from a blank slate". |
| `GitHubInstallation` | `HealthAnswers` | `plugins/github/web.py:173` | health reads the org's active installation with scalar_one_or_none, which raises on two; nothing keeps an org to one (installation and _installation_token take LIMIT 1). docs/plugins_github.md:75 says "three-state: not provisioned / not installed / ok". |
| `ActivitySubscribers` | `MemberWhileWatching` | `core/sse/web.py:187` | The heartbeat runs only when a whole window passes without an event, and every event starts the wait again: a busy stream's member grows stale and is swept while it is served. app/core/agent_gateway/subscribers.py:560 says "only members for connections that died without untracking get reaped". |
| `ActivitySubscribers` | `WatchedIsStreamed` | `core/agent_gateway/subscribers.py:405` | untrack counts no members, and deletes the route after a new viewer's track has written it; the reconciler skips a run without a route, so the new viewer sees nothing. app/core/agent_gateway/subscribers.py:457 says "ZCARD ≥ 1 and agent not streaming → publish subscribe". |
| `ActivitySubscribers` | `UnwatchedStops` | `core/agent_gateway/subscribers.py:401` | After a failed publish untrack still deletes the route and the agent_routes entry, the two things the reconciler needs to send the unsubscribe again. app/core/agent_gateway/subscribers.py:452 says "Safety net against pub/sub at-most-once delivery". |
| `ActivitySubscribers` | `UnwatchedStops` | `core/agent_gateway/subscribers.py:568` | The dead viewer's member and its run's agent_routes entry have one age and go in one sweep; the reconciler looks only at agent_routes, and the agent streams to nobody. docs/core_agent_gateway.md:187 says "ZCARD = 0 and agent is streaming → publish unsubscribe". |
| `ActivitySubscribers` | `WatchedIsStreamed` | `core/agent_gateway/subscribers.py:287` | A handler that notices late that its socket died pops whatever sender the agent has and cancels its consumer: those of the socket that replaced it. app/core/agent_gateway/web.py:557 says SSE subscribers "won't reach this agent until it reconnects". |
| `LiveEvents` | `ToldIsCommitted` | `domain/pipelines/engine.py:257` | SQLAlchemy dispatches after_commit when a SAVEPOINT is released as well: a run that ends stashes its event and then promotes the next run inside begin_nested, so the event is published before the transaction commits, or though it rolls back. app/core/sse/service.py:115 says "Rollback silently discards the stashed entry — rolled-back transactions never emit SPA events". |
| `LiveEvents` | `ClientsCatchUp` | `core/sse/web.py:129` | The prelude, and with it the browser's refetch, comes before SUBSCRIBE: a commit after the refetch and before the subscription is neither refetched nor delivered. docs/core_sse.md:15 says "a publish racing the connect can be missed on the bus — the client reconciles via a full refetch on `onopen`". |
| `CodingAgentRuns` | `ActivityReadable` | `core/coding_agent/run_service.py:217` | get_run_id_for_stage ends in one_or_none(), but the review and fix invocations of a stage each insert a coding_agent_runs row with the same (run_id, stage_execution_id): the read raises MultipleResultsFound. app/core/coding_agent/run_service.py:212 says "Return the coding-agent run id for a given `(run_id, stage_execution_id)`, or None." |
| `CodingAgentRuns` | `OneActivityPerRun` | `core/agent_gateway/service.py:903` | retire_command keeps the row, so a terminal event posted again after a lost answer passes the token check and finalize_run inserts a second activity row. app/core/coding_agent/models.py:126 says "Row count: one per run." |
| `CodingAgentRuns` | `RunSettles` | `core/workspace/service.py:488` | The failure synthesized for a lost agent goes to the engine and not to the run sink: the coding_agent_runs row stays `running` for good. app/core/coding_agent/models.py:63 says "`status` transitions: `running` (created at dispatch) → `success` / `failure` (written by the run-sink on terminal event)." |
| `PipelineDefinitions` | `AllFlatten` | `domain/pipelines/service.py:226` | Two updates validate against the same committed definitions and neither locks the rows it relies on, so together they store a cycle and both pipelines stop starting. app/domain/pipelines/service.py:216 says "a cycle or name collision introduced anywhere in that set is rejected." |
| `PipelineDefinitions` | `NoDanglingCall` | `domain/pipelines/service.py:251` | A call stage is only JSON, so unlike a binding it has no foreign key: a delete checked before an edit that adds the call commits, and the caller then calls nothing. app/domain/pipelines/service.py:245 says "Raises `PipelineReferencedError` if a call stage or trigger binding references it." |
| `RunRequests` | `EveryDecisionOnce` | `domain/pipelines/service.py:595` | The check reads the pause without a lock and the write is by primary key: two answers that both read it open are both applied, the run is continued twice and the first decision is overwritten. docs/domain_pipelines.md:94 lists 409 `already_resolved` for the second answer; app/domain/pipelines/web.py:274 raises it only on what resolve_pause read. |
| `RunRequests` | `CancelledInTheQueue` | `domain/pipelines/service.py:552` | request_cancel reads `queued`, the run is promoted, and the cancel writes `cancelled` over `running`: no cleanup, no promotion of the next run. app/domain/pipelines/engine.py:312 says "Cancel a `queued` run directly — it never occupied the one-in-flight slot, so no promotion sweep is needed." |
| `RunRequests` | `RerunOnce` | `domain/pipelines/service.py:414` | Two reruns that both read the failed run as current both insert a run. app/domain/pipelines/service.py:401 says a run that isn't the ticket's current run (superseded) raises `RunNotRerunnableError`. |
| `RunRequests` | `SomebodyIsTold` | `domain/pipelines/escalation.py:34` | The targets of a schedule are the users stored with the binding, members or not: when they have left, nobody in the org is notified and the fall-back to the admins is not taken. app/domain/pipelines/escalation.py:29 says "a run's terminal notification (or, later, a pause) must never wait on nobody." |
| `McpIntegrations` | `StatusHonest` | `domain/integrations/scheduler.py:122` | The check passes the decrypted `str`; Linear and Notion call `access_token.get_secret_value()` on it, the AttributeError is caught and counts as a failure: every check turns a good credential to `failed`, the owners are mailed and the proxy refuses its calls. app/domain/integrations/types.py:30 says of validate "Minimal upstream call — returns True on 2xx, False otherwise." |
| `McpIntegrations` | `StatusHonest` | `domain/integrations/scheduler.py:148` | The verdict on the token that was read at the start is written on whatever the row holds when it is read again: a credential reconnected in between is marked failed. app/domain/integrations/models.py:4 says "`last_refresh_status` is `ok` after the most recent successful refresh / validate". |
| `McpIntegrations` | `OwnersTold` | `domain/integrations/scheduler.py:169` | last_failure_notified_at is committed before the mail is sent and the retry finds it set: a crash in between silences the credential for 24 hours. app/domain/integrations/scheduler.py:4 says the check "enqueues an email notification to the org's Owners on transition-to-failed". |
| `McpIntegrations` | `OneMailADayPerOrg` | `domain/integrations/scheduler.py:162` | The window is kept per credential row. docs/domain_integrations.md:18 says "failure notification fires at most once per 24h per org". |
| `McpIntegrations` | `WriteIsAllowed` | `domain/mcp_proxy/web.py:174` | The allowlist comes from one read of the row and the token from the next: after a disconnect and a new connection in between, a write goes out on a connection whose allowlist is empty. docs/domain_mcp_proxy.md:14 says "write tools require `allowed_tools` membership" and that "the proxy is the actual gate". |
| `McpIntegrations` | `EveryCallAudited` | `domain/mcp_proxy/web.py:203` | A transport error or a 5xx returns before the audit row is written, although the upstream may have carried the call out. app/domain/mcp_proxy/web.py:17 says it "Writes one `mcp.<provider>.dispatched` audit row per method call". |
| `ApiKeyDelivery` | `KeysArrive` | `core/agent_gateway/service.py:954` | A ConfigUpdate whose claim was not acknowledged goes back to pending without its agent_id, and bucket 1 only looks at rows that carry the agent's: nobody claims it again and the agent keeps the old keys. docs/core_api_keys.md:18 says "agents receive fresh `api_keys` on key rotation without polling". |
| `ApiKeyDelivery` | `WorkGetsTheNewKey` | `core/agent_gateway/service.py:610` | Bucket 1 is empty as soon as the ConfigUpdate is stamped `claimed`, delivered or not: the next claim gets work and starts it with the old keys. app/core/agent_gateway/service.py:612 says "ConfigUpdate must land before any workspace command so credential and endpoint rotations take effect before the next ProvisionWorkspace". |
| `ApiKeyDelivery` | `ConfigUpdateEnds` | `core/coding_agent/api_keys.py:76` | get_all_for_org raises ApiKeyDecryptError for any unreadable row, which claim_next does not catch (it handles CredentialHydrationError): the claim fails, the row stays pending, and being first in the queue it keeps the agent from all its work. docs/core_agent_gateway.md:138 says "the row is retried once the key is set or the queue ages out"; setting another key does not help and nothing ages a pending row. |
| `Notifications` | `OneRowPerSubject` | `core/notifications/service.py:80` | create looks for a row and inserts one, and notifications_dedup_subject_idx is not unique: two deliveries of a fan-out that run at once both insert. docs/core_notifications.md:13 says "Re-emitting the same event for the same subject is a no-op". |
| `Notifications` | `EveryoneTold` | `core/notifications/service.py:89` | Once two rows have the key, scalar_one_or_none raises in every later fan-out that names that user, type and ticket, and the whole list is rolled back: recipients without a row get none. app/core/notifications/tasks.py:3 says "`fanout` — receives a list of `NotificationSpec` dicts and writes one notification row per spec". |
| `Notifications` | `BellAgrees` | `core/notifications/service.py:148` | The rows and the count are two statements of a READ COMMITTED session: rows marked read in between are shown and not counted. app/core/notifications/service.py:137 says "Latest N unread for the sidebar bell + the unread count." |
| `WorkspaceTimers` | `GraceKept` | `core/workspace/service.py:352` | The idle window is measured from activated_at, which is written once, and a paused run holds no claim: the idle sweep (600 s by default) collects the workspace that extend_expiry kept for 1800 s. app/domain/pipelines/engine.py:160 says "How long a paused run's workspace is kept alive past the pause before the normal reaper can collect it." |
| `WorkspaceTimers` | `GraceKept` | `core/workspace/service.py:339` | The TTL sweep updates by id what it read as over its deadline; a pause that commits in between moves the deadline and loses its workspace all the same. app/core/workspace/service.py:754 says "keep a paused run's workspace alive through its HITL grace window". |
| `WorkspaceTimers` | `AuditChains` | `core/workspace/service.py:239` | close_workspace is conditional, the sweep is not: both write active -> expired for one transition. app/core/workspace/service.py:216 says "at most one audit row is written per real ACTIVE → EXPIRED transition". |
| `WorkspaceTimers` | `DestroyedIsFinal` | `core/workspace/service.py:371` | A sweep that read the row as active writes expired after another sweep has destroyed it, and destroys it again. app/core/workspace/service.py:621 says "Idempotent — every sweep step reads fresh state from the DB." |
| `Lessons` | `HistoryIsAudit` | `domain/lessons/service.py:225` | update and delete read the row without a lock and audit what they read: two edits name the same prior body, and two deletes are both audited. docs/domain_lessons.md:13 says "Edits overwrite in place; `audit_log` is the history." |
| `CodingAgentInstalls` | `DuplicateIs409` | `core/coding_agent/installs.py:82` | The check comes before the insert; when two admins install at once the second flush is an IntegrityError, which no caller catches (500). docs/core_coding_agent.md:149 says "Raises `CodingAgentAlreadyInstalledError` on conflict." |
| `Artifacts` | `InputSettled` | `domain/pipelines/engine.py:1912` | Every version is marked final as it is stored, so when a run fails in its review loop the half-reviewed version is the stage's latest final one, and a rerun from the next stage is fed it. docs/domain_artifacts.md:27 says "a stage failing mid-loop leaves only non-final rows visible in `list_for_ticket`/`get` but never fed downstream"; app/domain/artifacts/service.py:71 says "Never sees a half-reviewed loop intermediate". |
| `Artifacts` | `ContextBuilt` | `domain/pipelines/engine.py:1116` | A main skill whose send_back is refused by the loop protection pauses without having stored an artifact; approved, the run goes on to an action stage whose context asks for that artifact. The assertion at app/domain/pipelines/engine.py:1116 ("has no recorded artifact") fails, outside the action's own try, and again each time the stall sweep replays ROUTE_RUN: the run hangs in `running`. app/domain/pipelines/engine.py:416 says of approve "The paused stage already completed its own work". |
| `CommandQueue` | `OneDestroyer` | `core/workspace/service.py:333` | with two sweeps at once (`MaxExpire = 2`), a sweep that read a row `active` writes `expired` by primary key after another reaper's CAS to `destroying`; its own CAS then wins as well and the workspace is destroyed twice at once; app/core/workspace/service.py:532 says "Narrow by status='expired' so only one concurrent reaper cycle can win this transition" |
| `RunEngine` | `CancelNeverCompletes` | `domain/pipelines/service.py:552` | request_cancel reads `running` without a lock and its flag is written by primary key at commit: when the run's last transaction commits in between, the row is `completed` with cancel_requested set and the caller has its 202. docs/domain_pipelines.md:57 says "a run cannot slip into `completed` after cancellation was requested", app/domain/pipelines/service.py:540 "Raises `RunAlreadyTerminalError` on a run already in a terminal state". What holds, and is proved, is `CancelIsHeeded`: no transaction that finds the request completes the run |
| `RunRequests` | `KillIsTerminal` | `domain/pipelines/service.py:645` | two answers both read the pause open at line 595; the kill commits, its cleanup ends and the run is terminal, then the approve commits and writes `running` over it, unless another run holds the slot by then. app/domain/pipelines/engine.py:850 says "`kill` is terminal, so a run can carry at most one such row". `TerminalStays`, which is checked with two requests, speaks of runs without an answer or a cancel still to be written |
| `CommandQueue` | `RetirementIsLoud` | `core/agent_gateway/service.py:942` | requeue_stale_claimed retires a command at the attempt cap with a log line and no agent event: the run waits for a command that is done until the stall sweep or a lost pod's failsafe reaches it, and its claim stays. app/core/agent_gateway/service.py:918 says "retire to `done` (loud terminal failure)". `DoneMeansTold` excepts exactly the commands at the cap |
| `CommandQueue` | `OwnerAlwaysHolds` | `core/workspace/agent_report.py:85` | a provision whose receipts were lost is given up at the attempt cap while a pod is at work on it; the heartbeat finds no row and has the pod forget the workspace, and the pod's late success still inserts the row as active. app/core/workspace/agent_report.py:70 says the ids are those "the control plane no longer tracks (row missing)". `OwnerHoldsWorkspace` excepts a workspace whose provision was given up |
| `McpIntegrations` | `StatusHonest` | `domain/integrations/scheduler.py:129` | a transport error is a failed check: the providers' validate answers False on httpx.HTTPError, any other exception is caught, and line 148 writes `failed` on a credential whose token works. app/domain/integrations/types.py:23 says "`validate` runs a minimal upstream call to confirm the stored access token still works" |

## 6. Not modelled

* Wording and layout: prompts, views, contracts, renderings other than the activity
  log, audit payloads.
* SAML assertions, password hashing, encryption: cryptography has no steps to
  interleave; who is signed in by them is in `Sessions`.
* `core/llm`, `core/observability`, `core/config`, `core/database`, `core/webserver`,
  plugin loading: pure I/O or start-up code.
* The web application's rendering, the agent's workspace subprocess and support
  packages (what they answer is a free choice of `RunEngine` and `CommandQueue`), the
  fakes and the end-to-end tests.

The components of `PROJECT.json` say for each what is left out and why.

## 7. Plan

1. `CommandQueue` with unreadable credentials: what still holds of a claim then.
2. `OrgAccess`: an invitation makes one member, whoever accepts it twice.
