------------------------------- MODULE MCAgents -------------------------------
(***************************************************************************)
(* The remote agents and what the backend keeps about them: their          *)
(* identity, their life, the commands they claim, the keys they get, the   *)
(* timers of their workspaces, the coding agents that run there and the    *)
(* activity people watch. A behaviour of this module is a behaviour of one *)
(* of these components, under the constants of its scene.                  *)
(***************************************************************************)
EXTENDS Naturals

CONSTANT Scenes  \* the scenes this run follows

VARIABLES
    scene,  \* which component a behaviour follows, under which constants
    \* AgentFleet
    agent, bearer, cmd, flight, pod, used,
    \* CommandQueue
    queueCmd, space, run, queuePod, reaper, queueUsed,
    \* WorkspaceTimers
    clock, row, paused, timersReaper, trail, fails, events,
    \* ApiKeyDelivery
    key, stamp, issued, garbled, val, cmds, work, hand, config, spawned,
    \* AgentIdentity
    identityClock, orgs, agents, identityConfig, bearers, env, nonces, hits, tries, exch, txn,
    failures,
    \* CodingAgentRuns
    runsCmds, runs, acts, live, told, parts, week, ran, runsKey, reads,
    \* CodingAgentInstalls
    installed, req, installsTrail, asked,
    \* ActivitySubscribers
    conns, quiet, subs, route, aroute, socks, sender, running, queue, streaming, link, streams,
    rec, sweep, losses

Unused == "unused"  \* the value of a variable that its scene leaves alone

--------------------------------------------------------------------------------
\* AgentFleet.

\* Crashes and silences of one pod.
FleetFaults == INSTANCE AgentFleet WITH
    Agents <- {"p"}, MaxAttempt <- 3, MaxTokens <- 2, MaxCmds <- 3, MaxRequests <- 1,
    MaxLost <- 0, MaxCrash <- 1, MaxSilence <- 1

\* An admin drains the pod, and changes his mind.
FleetAdmin == INSTANCE AgentFleet WITH
    Agents <- {"p"}, MaxAttempt <- 3, MaxTokens <- 1, MaxCmds <- 3, MaxRequests <- 2,
    MaxLost <- 0, MaxCrash <- 1, MaxSilence <- 0

\* A new pod, one of whose messages is lost.
FleetConfigured == INSTANCE AgentFleet WITH
    Agents <- {"p"}, MaxAttempt <- 3, MaxTokens <- 2, MaxCmds <- 3, MaxRequests <- 0,
    MaxLost <- 1, MaxCrash <- 0, MaxSilence <- 0

fleetVars ==
    <<agent, bearer, cmd, flight, pod, used>>

NoFleet ==
    /\ agent = Unused /\ bearer = Unused /\ cmd = Unused /\ flight = Unused /\ pod = Unused
    /\ used = Unused

--------------------------------------------------------------------------------
\* CommandQueue.

\* Two pods; claims and receipts are lost.
QueueLost == INSTANCE CommandQueue WITH
    Agents <- {"a1", "a2"}, Spaces <- {"w1"}, Reapers <- {"r1"}, PoolCap <- 1, MaxAttempt <- 2,
    RetireCap <- 10, MaxCmds <- 4, MaxLost <- 2, MaxCrash <- 0, MaxRestart <- 0, MaxBreak <- 0,
    MaxSecret <- 0, MaxExpire <- 0, MaxAbort <- 0, MaxDie <- 0, cmd <- queueCmd, pod <- queuePod,
    used <- queueUsed

\* A pod crashes and returns, a workspace breaks or expires, a secret is unreadable, a destroy call fails, a reaper dies.
QueueFaults == INSTANCE CommandQueue WITH
    Agents <- {"a1", "a2"}, Spaces <- {"w1"}, Reapers <- {"r1"}, PoolCap <- 1, MaxAttempt <- 3,
    RetireCap <- 10, MaxCmds <- 3, MaxLost <- 0, MaxCrash <- 1, MaxRestart <- 1, MaxBreak <- 1,
    MaxSecret <- 1, MaxExpire <- 1, MaxAbort <- 1, MaxDie <- 1, cmd <- queueCmd, pod <- queuePod,
    used <- queueUsed

\* Two reapers; destroy calls fail until the retries are used up.
QueueReapers == INSTANCE CommandQueue WITH
    Agents <- {"a1"}, Spaces <- {"w1"}, Reapers <- {"r1", "r2"}, PoolCap <- 1, MaxAttempt <- 3,
    RetireCap <- 10, MaxCmds <- 3, MaxLost <- 0, MaxCrash <- 0, MaxRestart <- 0, MaxBreak <- 0,
    MaxSecret <- 0, MaxExpire <- 1, MaxAbort <- 3, MaxDie <- 0, cmd <- queueCmd, pod <- queuePod,
    used <- queueUsed

\* Both pods die for good.
QueueLoss == INSTANCE CommandQueue WITH
    Agents <- {"a1", "a2"}, Spaces <- {"w1"}, Reapers <- {"r1"}, PoolCap <- 1, MaxAttempt <- 3,
    RetireCap <- 10, MaxCmds <- 4, MaxLost <- 0, MaxCrash <- 2, MaxRestart <- 0, MaxBreak <- 0,
    MaxSecret <- 0, MaxExpire <- 0, MaxAbort <- 0, MaxDie <- 0, cmd <- queueCmd, pod <- queuePod,
    used <- queueUsed

\* As many claims and receipts are lost as a command is tried.
QueueCap == INSTANCE CommandQueue WITH
    Agents <- {"a1", "a2"}, Spaces <- {"w1"}, Reapers <- {"r1"}, PoolCap <- 1, MaxAttempt <- 2,
    RetireCap <- 10, MaxCmds <- 2, MaxLost <- 2, MaxCrash <- 0, MaxRestart <- 0, MaxBreak <- 0,
    MaxSecret <- 0, MaxExpire <- 0, MaxAbort <- 0, MaxDie <- 0, cmd <- queueCmd, pod <- queuePod,
    used <- queueUsed

\* Two workspaces, two pods with room for one each, and nothing fails.
QueueCalm == INSTANCE CommandQueue WITH
    Agents <- {"a1", "a2"}, Spaces <- {"w1", "w2"}, Reapers <- {"r1"}, PoolCap <- 1,
    MaxAttempt <- 3, RetireCap <- 10, MaxCmds <- 4, MaxLost <- 0, MaxCrash <- 0, MaxRestart <- 0,
    MaxBreak <- 0, MaxSecret <- 0, MaxExpire <- 0, MaxAbort <- 0, MaxDie <- 0, cmd <- queueCmd,
    pod <- queuePod, used <- queueUsed

queueVars ==
    <<queueCmd, space, run, queuePod, reaper, queueUsed>>

NoQueue ==
    /\ queueCmd = Unused /\ space = Unused /\ run = Unused /\ queuePod = Unused /\ reaper = Unused
    /\ queueUsed = Unused

--------------------------------------------------------------------------------
\* WorkspaceTimers.

\* A pause extends the deadline the reaper watches.
TimersReaper == INSTANCE WorkspaceTimers WITH
    Agents <- {"a1", "a2"}, Reapers <- {"r1"}, Ttl <- 1, MaxIdle <- 1, Grace <- 3, MaxTime <- 6,
    MaxFail <- 3, MaxEvents <- 0, Ops <- {"pause"}, reaper <- timersReaper

\* Pods that do not own the workspace report it.
TimersReports == INSTANCE WorkspaceTimers WITH
    Agents <- {"a1", "a2"}, Reapers <- {"r1"}, Ttl <- 1, MaxIdle <- 1, Grace <- 3, MaxTime <- 3,
    MaxFail <- 1, MaxEvents <- 2, Ops <- {"legacy", "close"}, reaper <- timersReaper

\* As timers_reaper, for longer.
TimersLive == INSTANCE WorkspaceTimers WITH
    Agents <- {"a1", "a2"}, Reapers <- {"r1"}, Ttl <- 1, MaxIdle <- 2, Grace <- 3, MaxTime <- 6,
    MaxFail <- 3, MaxEvents <- 0, Ops <- {"pause"}, reaper <- timersReaper

timersVars ==
    <<clock, row, paused, timersReaper, trail, fails, events>>

NoTimers ==
    /\ clock = Unused /\ row = Unused /\ paused = Unused /\ timersReaper = Unused
    /\ trail = Unused /\ fails = Unused /\ events = Unused

--------------------------------------------------------------------------------
\* ApiKeyDelivery.

\* Keys of two providers are set while an agent claims.
KeysRotation == INSTANCE ApiKeyDelivery WITH
    Providers <- {"anthropic", "rwx"}, Agents <- {"a1"}, MaxSets <- 2, MaxWork <- 1,
    MaxAttempt <- 2, Ops <- {"validate"}

\* A claim is lost, the master key is rotated.
KeysFaults == INSTANCE ApiKeyDelivery WITH
    Providers <- {"anthropic"}, Agents <- {"a1"}, MaxSets <- 3, MaxWork <- 0, MaxAttempt <- 2,
    Ops <- {"lost", "rotate"}

\* Nothing is lost.
KeysLive == INSTANCE ApiKeyDelivery WITH
    Providers <- {"anthropic"}, Agents <- {"a1"}, MaxSets <- 2, MaxWork <- 2, MaxAttempt <- 2,
    Ops <- {}

keysVars ==
    <<key, stamp, issued, garbled, val, cmds, work, hand, config, spawned>>

NoKeys ==
    /\ key = Unused /\ stamp = Unused /\ issued = Unused /\ garbled = Unused /\ val = Unused
    /\ cmds = Unused /\ work = Unused /\ hand = Unused /\ config = Unused /\ spawned = Unused

--------------------------------------------------------------------------------
\* AgentIdentity.

\* One envelope, presented twice at once.
Exchange == INSTANCE AgentIdentity WITH
    Orgs <- {"o1"}, Arns <- {"a1"}, Regions <- {"g1", "g2"}, Timeouts <- {}, Caps <- {"c4"},
    Cap0 <- "c4", Insts <- {"i1"}, Fleet <- {}, Procs <- {"p1", "p2"}, Txns <- {}, Keys <- {},
    Limit <- 2, Window <- 1, SigTTL <- 2, NonceTTL <- 4, BearerTTL <- 9, MaxEnv <- 1, MaxTry <- 2,
    MaxClock <- 3, clock <- identityClock, config <- identityConfig

\* More exchanges than the rate limit lets through.
Rate == INSTANCE AgentIdentity WITH
    Orgs <- {"o1"}, Arns <- {"a1"}, Regions <- {"g1"}, Timeouts <- {}, Caps <- {"c4"},
    Cap0 <- "c4", Insts <- {"i1"}, Fleet <- {}, Procs <- {"p1", "p2"}, Txns <- {}, Keys <- {},
    Limit <- 2, Window <- 1, SigTTL <- 2, NonceTTL <- 4, BearerTTL <- 9, MaxEnv <- 1, MaxTry <- 4,
    MaxClock <- 1, clock <- identityClock, config <- identityConfig

\* Admins change what agents are recognised by.
Patch == INSTANCE AgentIdentity WITH
    Orgs <- {"o1", "o2"}, Arns <- {"a1", "a2"}, Regions <- {"g1", "g2"}, Timeouts <- {"t1"},
    Caps <- {"c4", "c5"}, Cap0 <- "c4", Insts <- {"i1"}, Fleet <- {"i1"}, Procs <- {},
    Txns <- {"x1"}, Keys <- {"timeout", "arn", "cap"}, Limit <- 2, Window <- 1, SigTTL <- 2,
    NonceTTL <- 4, BearerTTL <- 9, MaxEnv <- 0, MaxTry <- 0, MaxClock <- 0,
    clock <- identityClock, config <- identityConfig

identityVars ==
    <<identityClock, orgs, agents, identityConfig, bearers, env, nonces, hits, tries, exch, txn,
      failures>>

NoIdentity ==
    /\ identityClock = Unused /\ orgs = Unused /\ agents = Unused /\ identityConfig = Unused
    /\ bearers = Unused /\ env = Unused /\ nonces = Unused /\ hits = Unused /\ tries = Unused
    /\ exch = Unused /\ txn = Unused /\ failures = Unused

--------------------------------------------------------------------------------
\* CodingAgentRuns.

\* Activity is posted with loss, its pod may be lost.
RunsActivity == INSTANCE CodingAgentRuns WITH
    Stages <- {"x1"}, Cmds <- {"c1"}, Plugins <- {"claude_code", "codex"},
    Registered <- {"claude_code", "codex"}, MaxLines <- 2, MaxPosts <- 1, MaxWeek <- 0,
    MaxMissed <- 1, YearLen <- 3, Ops <- {"lossy", "keys", "loss"}, cmds <- runsCmds,
    key <- runsKey

\* Weeks pass over the partitions.
RunsCalendar == INSTANCE CodingAgentRuns WITH
    Stages <- {"x1"}, Cmds <- {"c1"}, Plugins <- {"claude_code"}, Registered <- {"claude_code"},
    MaxLines <- 1, MaxPosts <- 1, MaxWeek <- 9, MaxMissed <- 1, YearLen <- 3, Ops <- {"calendar"},
    cmds <- runsCmds, key <- runsKey

\* Two commands of a review stage.
RunsSettle == INSTANCE CodingAgentRuns WITH
    Stages <- {"x1"}, Cmds <- {"c1", "c2"}, Plugins <- {"claude_code", "codex"},
    Registered <- {"claude_code", "codex"}, MaxLines <- 0, MaxPosts <- 1, MaxWeek <- 2,
    MaxMissed <- 1, YearLen <- 3, Ops <- {"review", "calendar"}, cmds <- runsCmds, key <- runsKey

runsVars ==
    <<runsCmds, runs, acts, live, told, parts, week, ran, runsKey, reads>>

NoRuns ==
    /\ runsCmds = Unused /\ runs = Unused /\ acts = Unused /\ live = Unused /\ told = Unused
    /\ parts = Unused /\ week = Unused /\ ran = Unused /\ runsKey = Unused /\ reads = Unused

--------------------------------------------------------------------------------
\* CodingAgentInstalls.

\* Two admins install, change and remove plugins.
InstallsTwo == INSTANCE CodingAgentInstalls WITH
    Admins <- {"ann", "ben"}, Plugins <- {"claude_code", "gone"}, Known <- {"claude_code"},
    Settings <- {"s1", "s2", "bad"}, MaxReq <- 5, trail <- installsTrail

\* One admin.
InstallsAlone == INSTANCE CodingAgentInstalls WITH
    Admins <- {"ann"}, Plugins <- {"claude_code", "gone"}, Known <- {"claude_code"},
    Settings <- {"s1", "s2", "bad"}, MaxReq <- 5, trail <- installsTrail

installsVars ==
    <<installed, req, installsTrail, asked>>

NoInstalls ==
    /\ installed = Unused /\ req = Unused /\ installsTrail = Unused /\ asked = Unused

--------------------------------------------------------------------------------
\* ActivitySubscribers.

\* Watchers come and go, sockets drop, the backend crashes.
SubsStorm == INSTANCE ActivitySubscribers WITH
    Conns <- {"c1"}, Socks <- {"s1", "s2"}, MaxLoss <- 0, MaxQueue <- 1,
    Ops <- {"detach", "tick", "events", "crash", "redial", "reconcile"}

\* Two watchers of one run; a publish is lost, an agent redials.
SubsTwo == INSTANCE ActivitySubscribers WITH
    Conns <- {"c1", "c2"}, Socks <- {"s1", "s2"}, MaxLoss <- 1, MaxQueue <- 2,
    Ops <- {"tick", "redial", "reconcile"}

\* The same with one watcher.
SubsRepair == INSTANCE ActivitySubscribers WITH
    Conns <- {"c1"}, Socks <- {"s1", "s2"}, MaxLoss <- 1, MaxQueue <- 2,
    Ops <- {"tick", "redial", "reconcile"}

\* One watcher, one socket, and no loss.
SubsCalm == INSTANCE ActivitySubscribers WITH
    Conns <- {"c1"}, Socks <- {"s1"}, MaxLoss <- 0, MaxQueue <- 2,
    Ops <- {"calm", "detach", "tick"}

subsVars ==
    <<conns, quiet, subs, route, aroute, socks, sender, running, queue, streaming, link, streams,
      rec, sweep, losses>>

NoSubs ==
    /\ conns = Unused /\ quiet = Unused /\ subs = Unused /\ route = Unused /\ aroute = Unused
    /\ socks = Unused /\ sender = Unused /\ running = Unused /\ queue = Unused
    /\ streaming = Unused /\ link = Unused /\ streams = Unused /\ rec = Unused /\ sweep = Unused
    /\ losses = Unused

--------------------------------------------------------------------------------
\* A behaviour starts in one scene and follows its component.

vars == <<scene, fleetVars, queueVars, timersVars, keysVars, identityVars, runsVars, installsVars, subsVars>>

Init ==
    /\ scene \in Scenes
    /\ IF scene \notin {"fleet_faults", "fleet_admin", "fleet_configured"} THEN NoFleet
       ELSE IF scene = "fleet_faults" THEN FleetFaults!Init
       ELSE IF scene = "fleet_admin" THEN FleetAdmin!Init
       ELSE FleetConfigured!Init
    /\ IF scene \notin {"queue_safety", "queue_faults", "queue_reapers", "queue_loss", "queue_cap",
                      "queue_live"} THEN NoQueue
       ELSE IF scene = "queue_safety" THEN QueueLost!Init
       ELSE IF scene = "queue_faults" THEN QueueFaults!Init
       ELSE IF scene = "queue_reapers" THEN QueueReapers!Init
       ELSE IF scene = "queue_loss" THEN QueueLoss!Init
       ELSE IF scene = "queue_cap" THEN QueueCap!Init
       ELSE QueueCalm!Init
    /\ IF scene \notin {"timers_reaper", "timers_reports", "timers_live"} THEN NoTimers
       ELSE IF scene = "timers_reaper" THEN TimersReaper!Init
       ELSE IF scene = "timers_reports" THEN TimersReports!Init
       ELSE TimersLive!Init
    /\ IF scene \notin {"keys_rotation", "keys_faults", "keys_live"} THEN NoKeys
       ELSE IF scene = "keys_rotation" THEN KeysRotation!Init
       ELSE IF scene = "keys_faults" THEN KeysFaults!Init
       ELSE KeysLive!Init
    /\ IF scene \notin {"identity_exchange", "identity_rate", "identity_patch"} THEN NoIdentity
       ELSE IF scene = "identity_exchange" THEN Exchange!Init
       ELSE IF scene = "identity_rate" THEN Rate!Init
       ELSE Patch!Init
    /\ IF scene \notin {"runs_activity", "runs_calendar", "runs_settle"} THEN NoRuns
       ELSE IF scene = "runs_activity" THEN RunsActivity!Init
       ELSE IF scene = "runs_calendar" THEN RunsCalendar!Init
       ELSE RunsSettle!Init
    /\ IF scene \notin {"installs_trail", "installs_alone"} THEN NoInstalls
       ELSE IF scene = "installs_trail" THEN InstallsTwo!Init
       ELSE InstallsAlone!Init
    /\ IF scene \notin {"subs_storm", "subs_two", "subs_repair", "subs_calm"} THEN NoSubs
       ELSE IF scene = "subs_storm" THEN SubsStorm!Init
       ELSE IF scene = "subs_two" THEN SubsTwo!Init
       ELSE IF scene = "subs_repair" THEN SubsRepair!Init
       ELSE SubsCalm!Init

FleetNext ==
    /\ \/ scene = "fleet_faults" /\ FleetFaults!Next
       \/ scene = "fleet_admin" /\ FleetAdmin!Next
       \/ scene = "fleet_configured" /\ FleetConfigured!Next
    /\ UNCHANGED <<scene, queueVars, timersVars, keysVars, identityVars, runsVars, installsVars, subsVars>>

QueueNext ==
    /\ \/ scene = "queue_safety" /\ QueueLost!Next
       \/ scene = "queue_faults" /\ QueueFaults!Next
       \/ scene = "queue_reapers" /\ QueueReapers!Next
       \/ scene = "queue_loss" /\ QueueLoss!Next
       \/ scene = "queue_cap" /\ QueueCap!Next
       \/ scene = "queue_live" /\ QueueCalm!Next
    /\ UNCHANGED <<scene, fleetVars, timersVars, keysVars, identityVars, runsVars, installsVars, subsVars>>

TimersNext ==
    /\ \/ scene = "timers_reaper" /\ TimersReaper!Next
       \/ scene = "timers_reports" /\ TimersReports!Next
       \/ scene = "timers_live" /\ TimersLive!Next
    /\ UNCHANGED <<scene, fleetVars, queueVars, keysVars, identityVars, runsVars, installsVars, subsVars>>

KeysNext ==
    /\ \/ scene = "keys_rotation" /\ KeysRotation!Next
       \/ scene = "keys_faults" /\ KeysFaults!Next
       \/ scene = "keys_live" /\ KeysLive!Next
    /\ UNCHANGED <<scene, fleetVars, queueVars, timersVars, identityVars, runsVars, installsVars, subsVars>>

IdentityNext ==
    /\ \/ scene = "identity_exchange" /\ Exchange!Next
       \/ scene = "identity_rate" /\ Rate!Next
       \/ scene = "identity_patch" /\ Patch!Next
    /\ UNCHANGED <<scene, fleetVars, queueVars, timersVars, keysVars, runsVars, installsVars, subsVars>>

RunsNext ==
    /\ \/ scene = "runs_activity" /\ RunsActivity!Next
       \/ scene = "runs_calendar" /\ RunsCalendar!Next
       \/ scene = "runs_settle" /\ RunsSettle!Next
    /\ UNCHANGED <<scene, fleetVars, queueVars, timersVars, keysVars, identityVars, installsVars, subsVars>>

InstallsNext ==
    /\ \/ scene = "installs_trail" /\ InstallsTwo!Next
       \/ scene = "installs_alone" /\ InstallsAlone!Next
    /\ UNCHANGED <<scene, fleetVars, queueVars, timersVars, keysVars, identityVars, runsVars, subsVars>>

SubsNext ==
    /\ \/ scene = "subs_storm" /\ SubsStorm!Next
       \/ scene = "subs_two" /\ SubsTwo!Next
       \/ scene = "subs_repair" /\ SubsRepair!Next
       \/ scene = "subs_calm" /\ SubsCalm!Next
    /\ UNCHANGED <<scene, fleetVars, queueVars, timersVars, keysVars, identityVars, runsVars, installsVars>>

Next ==
    \/ FleetNext
    \/ QueueNext
    \/ TimersNext
    \/ KeysNext
    \/ IdentityNext
    \/ RunsNext
    \/ InstallsNext
    \/ SubsNext

Spec == Init /\ [][Next]_vars

\* A pod that is up keeps polling and finishes what it has in hand; the server answers;
\* a bearer is renewed before it expires; the reaper runs every tick; a pod that is
\* gone ages. Nothing makes a pod that left come back, and nobody has to request
\* anything.
FleetAdminFairness ==
    /\ \A a \in {"p"} :
         /\ WF_fleetVars(scene = "fleet_admin" /\ FleetAdmin!SendClaim(a))
         /\ WF_fleetVars(scene = "fleet_admin" /\ (FleetAdmin!ClaimNothing(a) \/ FleetAdmin!ClaimNext(a, TRUE)))
         /\ WF_fleetVars(scene = "fleet_admin" /\ FleetAdmin!PostReceived(a, TRUE))
         /\ WF_fleetVars(scene = "fleet_admin" /\ FleetAdmin!RouteCommand(a))
         /\ WF_fleetVars(scene = "fleet_admin" /\ FleetAdmin!PostTerminal(a))
         /\ WF_fleetVars(scene = "fleet_admin" /\ FleetAdmin!WorkEnds(a) /\ pod[a].local = "draining")
         /\ WF_fleetVars(scene = "fleet_admin" /\ FleetAdmin!SayGoodbye(a))
         /\ WF_fleetVars(scene = "fleet_admin" /\ FleetAdmin!DeregisterIdentity(a))
         /\ WF_fleetVars(scene = "fleet_admin" /\ FleetAdmin!RecordHeartbeat(a))
         /\ WF_fleetVars(scene = "fleet_admin" /\ FleetAdmin!ExchangeIdentity(a))
         /\ WF_fleetVars(scene = "fleet_admin" /\ FleetAdmin!TimePasses(a) /\ ~pod[a].up)
    /\ WF_fleetVars(scene = "fleet_admin" /\ \E c \in DOMAIN cmd : FleetAdmin!LeaseLapses(c))
    /\ WF_fleetVars(scene = "fleet_admin" /\ FleetAdmin!ReaperSweep)

\* A pod that is up keeps polling and finishes what it has in hand; the server answers;
\* a bearer is renewed before it expires; the reaper runs every tick; a pod that is
\* gone ages. Nothing makes a pod that left come back, and nobody has to request
\* anything.
FleetConfiguredFairness ==
    /\ \A a \in {"p"} :
         /\ WF_fleetVars(scene = "fleet_configured" /\ FleetConfigured!SendClaim(a))
         /\ WF_fleetVars(scene = "fleet_configured" /\ (FleetConfigured!ClaimNothing(a) \/ FleetConfigured!ClaimNext(a, TRUE)))
         /\ WF_fleetVars(scene = "fleet_configured" /\ FleetConfigured!PostReceived(a, TRUE))
         /\ WF_fleetVars(scene = "fleet_configured" /\ FleetConfigured!RouteCommand(a))
         /\ WF_fleetVars(scene = "fleet_configured" /\ FleetConfigured!PostTerminal(a))
         /\ WF_fleetVars(scene = "fleet_configured" /\ FleetConfigured!WorkEnds(a) /\ pod[a].local = "draining")
         /\ WF_fleetVars(scene = "fleet_configured" /\ FleetConfigured!SayGoodbye(a))
         /\ WF_fleetVars(scene = "fleet_configured" /\ FleetConfigured!DeregisterIdentity(a))
         /\ WF_fleetVars(scene = "fleet_configured" /\ FleetConfigured!RecordHeartbeat(a))
         /\ WF_fleetVars(scene = "fleet_configured" /\ FleetConfigured!ExchangeIdentity(a))
         /\ WF_fleetVars(scene = "fleet_configured" /\ FleetConfigured!TimePasses(a) /\ ~pod[a].up)
    /\ WF_fleetVars(scene = "fleet_configured" /\ \E c \in DOMAIN cmd : FleetConfigured!LeaseLapses(c))
    /\ WF_fleetVars(scene = "fleet_configured" /\ FleetConfigured!ReaperSweep)

\* Pods poll and finish their work, the reaper runs every minute, a pod that is up
\* heartbeats, a pod that stays away is given up.
QueueReapersFairness ==
    /\ \A a \in {"a1"} :
         /\ WF_queueVars(scene = "queue_reapers" /\ QueueReapers!ClaimNext(a, TRUE))
         /\ WF_queueVars(scene = "queue_reapers" /\ QueueReapers!WorkStep(a))
         /\ WF_queueVars(scene = "queue_reapers" /\ QueueReapers!Heartbeat(a))
         /\ WF_queueVars(scene = "queue_reapers" /\ QueueReapers!AgentLost(a))
    /\ WF_queueVars(scene = "queue_reapers" /\ \E c \in DOMAIN queueCmd : QueueReapers!LeaseLapses(c))
    /\ \A r \in {"r1", "r2"} : WF_queueVars(scene = "queue_reapers" /\ QueueReapers!ReaperStep(r))
    /\ \A w \in {"w1"} : WF_queueVars(scene = "queue_reapers" /\ QueueReapers!ReconcileLostResume(w))

\* Pods poll and finish their work, the reaper runs every minute, a pod that is up
\* heartbeats, a pod that stays away is given up.
QueueLossFairness ==
    /\ \A a \in {"a1", "a2"} :
         /\ WF_queueVars(scene = "queue_loss" /\ QueueLoss!ClaimNext(a, TRUE))
         /\ WF_queueVars(scene = "queue_loss" /\ QueueLoss!WorkStep(a))
         /\ WF_queueVars(scene = "queue_loss" /\ QueueLoss!Heartbeat(a))
         /\ WF_queueVars(scene = "queue_loss" /\ QueueLoss!AgentLost(a))
    /\ WF_queueVars(scene = "queue_loss" /\ \E c \in DOMAIN queueCmd : QueueLoss!LeaseLapses(c))
    /\ \A r \in {"r1"} : WF_queueVars(scene = "queue_loss" /\ QueueLoss!ReaperStep(r))
    /\ \A w \in {"w1"} : WF_queueVars(scene = "queue_loss" /\ QueueLoss!ReconcileLostResume(w))

\* Pods poll and finish their work, the reaper runs every minute, a pod that is up
\* heartbeats, a pod that stays away is given up.
QueueCapFairness ==
    /\ \A a \in {"a1", "a2"} :
         /\ WF_queueVars(scene = "queue_cap" /\ QueueCap!ClaimNext(a, TRUE))
         /\ WF_queueVars(scene = "queue_cap" /\ QueueCap!WorkStep(a))
         /\ WF_queueVars(scene = "queue_cap" /\ QueueCap!Heartbeat(a))
         /\ WF_queueVars(scene = "queue_cap" /\ QueueCap!AgentLost(a))
    /\ WF_queueVars(scene = "queue_cap" /\ \E c \in DOMAIN queueCmd : QueueCap!LeaseLapses(c))
    /\ \A r \in {"r1"} : WF_queueVars(scene = "queue_cap" /\ QueueCap!ReaperStep(r))
    /\ \A w \in {"w1"} : WF_queueVars(scene = "queue_cap" /\ QueueCap!ReconcileLostResume(w))

\* Pods poll and finish their work, the reaper runs every minute, a pod that is up
\* heartbeats, a pod that stays away is given up.
QueueCalmFairness ==
    /\ \A a \in {"a1", "a2"} :
         /\ WF_queueVars(scene = "queue_live" /\ QueueCalm!ClaimNext(a, TRUE))
         /\ WF_queueVars(scene = "queue_live" /\ QueueCalm!WorkStep(a))
         /\ WF_queueVars(scene = "queue_live" /\ QueueCalm!Heartbeat(a))
         /\ WF_queueVars(scene = "queue_live" /\ QueueCalm!AgentLost(a))
    /\ WF_queueVars(scene = "queue_live" /\ \E c \in DOMAIN queueCmd : QueueCalm!LeaseLapses(c))
    /\ \A r \in {"r1"} : WF_queueVars(scene = "queue_live" /\ QueueCalm!ReaperStep(r))
    /\ \A w \in {"w1", "w2"} : WF_queueVars(scene = "queue_live" /\ QueueCalm!ReconcileLostResume(w))

\* A running agent keeps claiming, applying and reporting.
KeysLiveFairness ==
    \A a \in {"a1"} : WF_keysVars(scene = "keys_live" /\ KeysLive!Step(a))

\* Time passes, and the reaper runs every minute (core/tasks' scheduler).
TimersLiveFairness ==
    /\ WF_timersVars(scene = "timers_live" /\ TimersLive!Tick)
    /\ \A r \in {"r1"} : WF_timersVars(scene = "timers_live" /\ TimersLive!ReaperStep(r))

\* The wallclock limit ends every CLI, the supervisor posts until it is answered, and
\* the daily task is retried by its schedule.
RunsSettleFairness ==
    /\ WF_runsVars(scene = "runs_settle" /\ RunsSettle!MaintainPartitions)
    /\ \A c \in {"c1", "c2"} : WF_runsVars(scene = "runs_settle" /\ \E o \in {"success", "failure"} : RunsSettle!Exit(c, o))
    /\ \A c \in {"c1", "c2"} : WF_runsVars(scene = "runs_settle" /\ RunsSettle!RecordTerminal(c))

\* Coroutines go on, sockets are noticed to be dead, the two loops keep running and
\* time passes; nobody has to watch, leave, drop or redial.
SubsRepairFairness ==
    /\ \A c \in {"c1"} :
         /\ WF_subsVars(scene = "subs_repair" /\ SubsRepair!StreamSteps(c))
         /\ WF_subsVars(scene = "subs_repair" /\ SubsRepair!Heartbeat(c))
    /\ \A s \in {"s1", "s2"} :
         /\ WF_subsVars(scene = "subs_repair" /\ SubsRepair!SocketSteps(s))
         /\ WF_subsVars(scene = "subs_repair" /\ SubsRepair!Consume(s))
    /\ WF_subsVars(scene = "subs_repair" /\ SubsRepair!ReconcileRead)
    /\ WF_subsVars(scene = "subs_repair" /\ SubsRepair!ReconcilePublish)
    /\ WF_subsVars(scene = "subs_repair" /\ SubsRepair!SweeperSteps)
    /\ WF_subsVars(scene = "subs_repair" /\ SubsRepair!Tick)

\* Coroutines go on, sockets are noticed to be dead, the two loops keep running and
\* time passes; nobody has to watch, leave, drop or redial.
SubsCalmFairness ==
    /\ \A c \in {"c1"} :
         /\ WF_subsVars(scene = "subs_calm" /\ SubsCalm!StreamSteps(c))
         /\ WF_subsVars(scene = "subs_calm" /\ SubsCalm!Heartbeat(c))
    /\ \A s \in {"s1"} :
         /\ WF_subsVars(scene = "subs_calm" /\ SubsCalm!SocketSteps(s))
         /\ WF_subsVars(scene = "subs_calm" /\ SubsCalm!Consume(s))
    /\ WF_subsVars(scene = "subs_calm" /\ SubsCalm!ReconcileRead)
    /\ WF_subsVars(scene = "subs_calm" /\ SubsCalm!ReconcilePublish)
    /\ WF_subsVars(scene = "subs_calm" /\ SubsCalm!SweeperSteps)
    /\ WF_subsVars(scene = "subs_calm" /\ SubsCalm!Tick)

Fairness ==
    /\ FleetAdminFairness /\ FleetConfiguredFairness /\ QueueReapersFairness /\ QueueLossFairness
    /\ QueueCapFairness /\ QueueCalmFairness /\ KeysLiveFairness /\ TimersLiveFairness /\ RunsSettleFairness
    /\ SubsRepairFairness /\ SubsCalmFairness

FairSpec == Spec /\ Fairness

\* The constants of every scene are ones its module allows.
ASSUME ScenesAssumption ==
    /\ FleetFaults!FleetAssumption /\ FleetAdmin!FleetAssumption
    /\ FleetConfigured!FleetAssumption /\ QueueLost!QueueAssumption /\ QueueFaults!QueueAssumption
    /\ QueueReapers!QueueAssumption /\ QueueLoss!QueueAssumption /\ QueueCap!QueueAssumption
    /\ QueueCalm!QueueAssumption
    /\ TimersReaper!TimersAssumption /\ TimersReports!TimersAssumption
    /\ TimersLive!TimersAssumption /\ KeysRotation!KeysAssumption /\ KeysFaults!KeysAssumption
    /\ KeysLive!KeysAssumption /\ Exchange!IdentityAssumption /\ Rate!IdentityAssumption /\ Patch!IdentityAssumption
    /\ RunsActivity!RunsAssumption /\ RunsCalendar!RunsAssumption /\ RunsSettle!RunsAssumption
    /\ InstallsTwo!InstallsAssumption /\ InstallsAlone!InstallsAssumption
    /\ SubsStorm!ActivityAssumption /\ SubsTwo!ActivityAssumption /\ SubsRepair!ActivityAssumption
    /\ SubsCalm!ActivityAssumption

--------------------------------------------------------------------------------
\* Safety.

\* Every variable of the component that moves has the values its module gives it.
TypeOK ==
    /\ scene = "fleet_faults" => FleetFaults!TypeOK
    /\ scene = "queue_safety" => QueueLost!TypeOK
    /\ scene = "timers_reaper" => TimersReaper!TypeOK
    /\ scene = "keys_rotation" => KeysRotation!TypeOK
    /\ scene = "identity_exchange" => Exchange!TypeOK
    /\ scene = "runs_activity" => RunsActivity!TypeOK
    /\ scene = "installs_trail" => InstallsTwo!TypeOK
    /\ scene = "subs_storm" => SubsStorm!TypeOK

\* A row that completed its shutdown has no bearer left: whatever exchange, sweep or
\* DELETE raced, a pod of that row has to exchange its identity again, and that
\* exchange makes it `unconfigured` (mark_agent_shutdown_complete).
ShutdownMeansNoBearer == scene = "fleet_faults" => FleetFaults!ShutdownMeansNoBearer

\* A pod that the sweep or a DELETE declared lost cannot go on using the bearer it had:
\* it re-exchanges when it returns (failsafe_agent_loss).
LostPodIsLockedOut == scene = "fleet_faults" => FleetFaults!LostPodIsLockedOut

\* A workspace claim is held by a command still in the queue, or by one that
\* failsafe_agent_loss spoke for: no terminal event leaves the claim behind.
ClaimHolderOutstanding == scene = "queue_safety" => QueueLost!ClaimHolderOutstanding

\* The run that waits for a command hears in the same transaction that it is done,
\* whoever claimed it how often: only the sweep that gives a command up at MAX_ATTEMPT
\* leaves it untold, and only after that many claims (requeue_stale_claimed).
DoneMeansTold == scene = "queue_safety" => QueueLost!DoneMeansTold

\* The pod that owns an active workspace has its directory, until a cleanup was sent,
\* even when the provision was delivered to two pods.
OwnerHoldsWorkspace == scene = "queue_safety" => QueueLost!OwnerHoldsWorkspace

\* An invoke is only ever running on a workspace that its command claimed.
RunsUnderItsClaim == scene = "queue_faults" => QueueFaults!RunsUnderItsClaim

\* The audit rows tell one story: each starts where the one before ended, and the last
\* says what the row is (_audit_transition, failsafe 7).
AuditChains == scene = "timers_reaper" => TimersReaper!AuditChains

\* What an agent reports about a workspace changes its row only when that agent owns
\* it, also when two pods were given the same provision command.
OwnerReports == scene = "timers_reports" => TimersReports!OwnerReports

\* Once an agent has nothing left to claim and nothing in hand it holds exactly the
\* keys that are stored: no set or clear, however they are interleaved with claims,
\* leaves it with an older key.
KeysArrive == scene = "keys_rotation" => KeysRotation!KeysArrive

\* A workspace that is claimed after a key change was committed is started with it:
\* ConfigUpdates come before any other command.
WorkGetsTheNewKey == scene = "keys_rotation" => KeysRotation!WorkGetsTheNewKey

\* With lost claims too: an agent whose newest ConfigUpdate was not taken from it by
\* the lease ends with the stored keys, whatever became of the ones before.
LaterUpdateRepairs == scene = "keys_faults" => KeysFaults!LaterUpdateRepairs

\* A captured envelope is good for one bearer: the nonce outlives the signature, for a
\* signature dated ahead of the clock too (_NONCE_TTL_SECONDS).
EnvelopeOnce == scene = "identity_exchange" => Exchange!EnvelopeOnce

\* An exchange that was refused for its region is on the org's record, and one that got
\* a bearer came from the org's role in the org's region, as registered when it was
\* looked up; so without a PATCH every bearer names its org's role and region.
BearerMatchesOrg == scene = "identity_exchange" => Exchange!BearerMatchesOrg

\* Exchanges that count before they add race past the limit by one each, and by no more
\* (sliding_window_hit).
RateBound == scene = "identity_rate" => Rate!RateBound

\* When no PATCH and no exchange is under way, the last ConfigUpdate of every agent
\* carries the org's cap (workspace_max_changed, fan-out).
CapReachesAgents == scene = "identity_patch" => Patch!CapReachesAgents

\* What a watcher saw live is what the log says at that place: the frame of stdout line
\* i is the log's entry whose seq is the number of rendered lines before i
\* (parse_activity_line, _render_activity_log).
LiveIsPersisted == scene = "runs_activity" => RunsActivity!LiveIsPersisted

\* Neither a live frame nor a persisted one carries a field that holds source
\* (_safe_tool_input, _safe_codex_tool_input).
SourceStaysInside == scene = "runs_activity" => RunsActivity!SourceStaysInside

\* There is a partition for the activity of a run that ends now, as long as the daily
\* task was not missed for more than MaxMissed weeks.
PartitionReady == scene = "runs_calendar" => RunsCalendar!PartitionReady

\* The audit rows of a plugin are the truth about its install, with any number of
\* admins: nothing is changed or removed that was not installed, nothing installed
\* twice, and the row holds the settings of the last audit row.
TrailIsTruth == scene = "installs_trail" => InstallsTwo!TrailIsTruth

\* Whoever installs what is already installed hears 409, never a server error
\* (CodingAgentAlreadyInstalledError).
DuplicateIs409 == scene = "installs_alone" => InstallsAlone!DuplicateIs409

\* The pod's belief is the truth whenever its consumer has nothing left to deliver: the
\* reconciler acts on this belief alone.
BeliefIsTrue == scene = "subs_storm" => SubsStorm!BeliefIsTrue

\* The sweeper reaps only members whose stream died without untracking: a stream that
\* still serves its browser keeps its place in run_subscribers.
MemberWhileWatching == scene = "subs_two" => SubsTwo!MemberWhileWatching

\* A destroyed workspace is never taken up again: not by a replayed report of its
\* provisioning, not by a sweep (which would destroy it once more).
DestroyedIsFinal ==
    [][scene = "timers_reaper" => TimersReaper!DestroyedIsFinal]_vars

\* Whatever the maintenance drops is older than four weeks.
KeptForRetention ==
    [][scene = "runs_calendar" => RunsCalendar!KeptForRetention]_vars

\* A PATCH changes the columns its body names and no other (patch_org_settings).
PatchTouchesOnlyItsKeys ==
    [][scene = "identity_patch" => Patch!PatchTouchesOnlyItsKeys]_vars

--------------------------------------------------------------------------------
\* Liveness, and the safety of the same scenes.

\* With no Shutdown or CancelShutdown left to carry out, pod and row agree on whether
\* the pod is draining, whatever ConfigUpdates are mixed in between.
DrainMirrored == scene = "fleet_admin" => FleetAdmin!DrainMirrored

\* No two reaper tasks destroy one workspace at the same time.
OneDestroyer == scene = "queue_reapers" => QueueReapers!OneDestroyer

\* The drain of a pod not yet given up as offline ends: the pod exits, or goes silent
\* and is swept (the stuck-drain recovery), or the drain is cancelled.
DrainSettles ==
    \A a \in {"p"} : (scene = "fleet_admin" /\ agent[a].life = "draining" /\ agent[a].live # "offline")
                         ~> (scene = "fleet_admin" => agent[a].life # "draining")

\* A pod that stays up is configured in the end, in spite of lost claim answers, lost
\* acknowledgements and unreadable API keys: at the latest the ConfigUpdate of its next
\* bearer renewal gets through.
AgentGetsConfigured ==
    \A a \in {"p"} :
      (scene = "fleet_configured" /\ pod[a].up /\ agent[a].life = "unconfigured")
        ~> (scene = "fleet_configured" => ~pod[a].up \/ pod[a].exiting \/ agent[a].life # "unconfigured")

\* An expired workspace ends destroyed, or destroy_failed after three attempts.
ExpiredIsDestroyed ==
    \A w \in {"w1"} : (scene = "queue_reapers" /\ space[w].status = "expired")
                         ~> (scene = "queue_reapers" => space[w].status \in {"destroyed", "destroy_failed"})

\* A stage that waits for its pod is answered even when the pod is lost: the synthetic
\* failure resumes the run rather than leaving it hanging.
InvokeSettles ==
    \A w \in {"w1"} : (scene = "queue_loss" /\ run[w].phase = "provisioned" /\ run[w].waits # 0) ~> (scene = "queue_loss" => run[w].waits = 0)

\* A run that waits for its workspace to be provisioned hears in the end, however many
\* claims, receipts and answers are lost: by the last pod to try, or by the stall sweep
\* when the attempts are used up (requeue_stale_claimed, _reconcile_lost_resume). Only
\* a pod that answered an earlier delivery with that delivery's token is not heard.
ProvisionSettles ==
    \A w \in {"w1"} : (scene = "queue_cap" /\ run[w].phase = "new" /\ run[w].waits # 0)
                         ~> (scene = "queue_cap" => run[w].waits = 0 \/ QueueCap!AnsweredBefore(w))

\* What a run waits for is answered, as a success or as a failure.
CommandSettles ==
    \A w \in {"w1", "w2"} : (scene = "queue_live" /\ run[w].waits # 0) ~> (scene = "queue_live" => run[w].waits = 0)

\* A ConfigUpdate is claimed by its agent sooner or later, and so is work.
ConfigUpdateEnds ==
    \A a \in {"a1"} : (scene = "keys_live" /\ KeysLive!Pinned(a) # {}) ~> (scene = "keys_live" => KeysLive!Pinned(a) = {})

\* A ConfigUpdate is claimed by its agent sooner or later, and so is work.
WorkIsClaimed == (scene = "keys_live" /\ work > 0) ~> (scene = "keys_live" => work = 0)

\* Every workspace is collected: whatever its run does, its claim or a pause included,
\* its row ends destroyed, or destroy_failed after three attempts.
Collected ==
    (scene = "timers_live" /\ row.status = "active" /\ row.expires < 6) ~>
      (scene = "timers_live" => row.status \in {"destroyed", "destroy_failed"} \/ row.expires >= 6)

\* Every run row leaves `running`.
RunSettles ==
    \A c \in {"c1", "c2"} : (scene = "runs_settle" /\ runs[c] # RunsSettle!NoRow) ~> (scene = "runs_settle" => runs[c] # RunsSettle!NoRow /\ runs[c].status # "running")

\* While somebody keeps watching over a connection that stays up, the agent ends up
\* streaming, lost publishes and reconnects included.
WatchedIsStreamed ==
    \A c \in {"c1"} : (<>[](scene = "subs_repair" /\ conns[c] = "on") /\ <>[](scene = "subs_repair" /\ link # SubsRepair!None)) => <>[](scene = "subs_repair" => streams)

\* Once nobody watches any more, the agent stops streaming.
UnwatchedStops ==
    (<>[](scene = "subs_calm" /\ \A c \in {"c1"} : conns[c] \in {"off", "gone"})) => <>[](scene = "subs_calm" => ~streams)

--------------------------------------------------------------------------------
\* What the runs check: the properties above, one conjunction per idea.

\* Only a pod whose org, role and region were verified by a fresh envelope acts as an
\* agent, and a pod that was shut down or given up has to be verified again.
OnlyTrustedAgents ==
    /\ ShutdownMeansNoBearer /\ LostPodIsLockedOut /\ EnvelopeOnce
    /\ BearerMatchesOrg /\ RateBound

\* Queue, workspace, pod and run tell one story about a command: who holds the claim
\* holds a command the run waits for, on a workspace its pod has and owns.
CommandsAccountedFor ==
    /\ ClaimHolderOutstanding /\ DoneMeansTold /\ OwnerHoldsWorkspace
    /\ RunsUnderItsClaim /\ OwnerReports

\* What an admin sets (keys, caps) is what agents work with once nothing is in
\* flight, however sets, claims and losses are interleaved.
SettingsReachAgents ==
    /\ KeysArrive /\ WorkGetsTheNewKey /\ LaterUpdateRepairs /\ CapReachesAgents

\* What is recorded, streamed and believed about workspaces, installs and runs is what
\* happened to them.
RecordsAreTrue ==
    /\ AuditChains /\ TrailIsTruth /\ DuplicateIs409 /\ LiveIsPersisted
    /\ SourceStaysInside /\ PartitionReady /\ BeliefIsTrue /\ MemberWhileWatching

\* No step takes back what has to stay: a destroyed workspace, activity inside its
\* retention, a setting the request does not name.
WhatIsKeptStays ==
    /\ DestroyedIsFinal /\ KeptForRetention /\ PatchTouchesOnlyItsKeys

\* Drains, configuration, expiry, invokes, commands, key updates, collection, run rows
\* and subscriptions all come to their end.
AgentsSettle ==
    /\ [](DrainMirrored /\ OneDestroyer) /\ DrainSettles /\ AgentGetsConfigured
    /\ ExpiredIsDestroyed /\ InvokeSettles /\ ProvisionSettles /\ CommandSettles /\ ConfigUpdateEnds
    /\ WorkIsClaimed /\ Collected /\ RunSettles /\ WatchedIsStreamed
    /\ UnwatchedStops
================================================================================
