---------------------------- MODULE ActivitySubscribers ----------------------------
(***************************************************************************)
(* Demand-pull activity: an agent streams a run's activity only while some  *)
(* browser watches it. Models core/agent_gateway/subscribers.py (registry,  *)
(* reconciler, sweeper), lifecycle_hooks.py, the activity WebSocket of      *)
(* web.py, and the activity stream of core/sse, over Redis ZSETs, a hash    *)
(* and at-most-once pub/sub (core/redis).                                   *)
(*                                                                          *)
(* One agent and one run: every Redis key carries one of the two. Redis     *)
(* commands are atomic; every await between two of them is a step.          *)
(***************************************************************************)
EXTENDS Naturals, Integers, Sequences, FiniteSets

CONSTANTS
    Conns,    \* browser streams of the run
    Socks,    \* the agent's successive WebSockets, all to one pod
    MaxLoss,  \* pub/sub messages that fail to be published (bound)
    MaxQueue, \* control messages a consumer may have waiting (bound)
    Ops       \* what may happen: see the guards

ActivityAssumption ==
    /\ MaxLoss \in Nat /\ MaxQueue \in Nat \ {0}
    /\ Ops \subseteq {"detach", "tick", "events", "crash", "redial", "overlap", "reconcile", "calm"}

None == "none"
StaleAge == 2     \* _SUBSCRIBER_STALE_THRESHOLD_SECONDS in heartbeat windows
Absent == -1

VARIABLES
    conns,     \* where each stream is in on_attach, its loop, or on_detach
    quiet,     \* the heartbeat wait of the stream has elapsed with no event
    subs,      \* run_subscribers:{run}: each member's age, or Absent
    route,     \* run_route:{run} exists
    aroute,    \* the run's age in agent_routes:{agent}, or Absent
    socks,     \* where each WebSocket handler is
    sender,    \* _senders[agent] and _subscribe_tasks[agent]
    running,   \* the sockets whose control consumer task is running
    queue,     \* each consumer's undelivered control messages
    streaming, \* the pod believes the agent streams the run
    link,      \* the agent's live socket
    streams,   \* the agent does stream the run
    rec,       \* what the reconciler is about to publish
    sweep,     \* the sweeper is between its two key patterns
    losses     \* publishes that failed

redis == <<subs, route, aroute>>
pod == <<socks, sender, running, streaming>>
vars == <<conns, quiet, redis, pod, queue, link, streams, rec, sweep, losses>>

ConnStates == {"off", "t2", "t3", "t4", "on", "u2", "u3", "u4", "u5", "u6", "gone"}
SockStates == {"new", "opening", "replay", "reading", "closed"}

\* Types, and what ties the pod's dictionaries to its tasks.
TypeOK ==
    /\ conns \in [Conns -> ConnStates] /\ quiet \in [Conns -> BOOLEAN]
    /\ subs \in [Conns -> Absent..StaleAge] /\ route \in BOOLEAN /\ aroute \in Absent..StaleAge
    /\ socks \in [Socks -> SockStates] /\ sender \in Socks \cup {None}
    /\ running \subseteq Socks /\ queue \in [Socks -> Seq({"subscribe", "unsubscribe"})]
    /\ streaming \in BOOLEAN /\ streams \in BOOLEAN /\ link \in Socks \cup {None}
    /\ rec \in {"idle", "subscribe", "unsubscribe"} /\ sweep \in BOOLEAN /\ losses \in 0..MaxLoss
    /\ \A s \in Socks : s \notin running => queue[s] = <<>>
    /\ sender # None => sender \in running

Init ==
    /\ conns = [c \in Conns |-> "off"] /\ quiet = [c \in Conns |-> FALSE]
    /\ subs = [c \in Conns |-> Absent] /\ route = FALSE /\ aroute = Absent
    /\ socks = [s \in Socks |-> "new"] /\ sender = None /\ running = {}
    /\ queue = [s \in Socks |-> <<>>] /\ streaming = FALSE
    /\ link = None /\ streams = FALSE /\ rec = "idle" /\ sweep = FALSE /\ losses = 0

ZCard == Cardinality({c \in Conns : subs[c] # Absent})

\* PUBLISH reaches the consumers subscribed now, or raises and is logged.
publish(msg) ==
    \/ /\ \A s \in running : Len(queue[s]) < MaxQueue
       /\ queue' = [s \in Socks |-> IF s \in running THEN Append(queue[s], msg) ELSE queue[s]]
       /\ UNCHANGED losses
    \/ losses < MaxLoss /\ losses' = losses + 1 /\ UNCHANGED queue

--------------------------------------------------------------------------------
\* A browser stream: on_attach -> track, the wait loop, on_detach -> untrack.

At(c, from, to) == conns[c] = from /\ conns' = [conns EXCEPT ![c] = to]
Sockets == <<pod, link, streams, rec, sweep>>

\* _workspace_activity_stream subscribes, then attaches; the run has a route in
\* agent_commands. In the calm runs the agent is connected first.
Attach(c) ==
    /\ "calm" \in Ops => sender # None /\ socks[sender] = "reading" /\ link = sender
    /\ At(c, "off", "t2")
    /\ subs' = [subs EXCEPT ![c] = 0]
    /\ UNCHANGED <<quiet, route, aroute, queue, losses, Sockets>>

TrackRoute(c) ==
    /\ At(c, "t2", "t3") /\ route' = TRUE
    /\ UNCHANGED <<quiet, subs, aroute, queue, losses, Sockets>>

TrackAgent(c) ==
    /\ At(c, "t3", "t4") /\ aroute' = 0
    /\ UNCHANGED <<quiet, subs, route, queue, losses, Sockets>>

TrackPublish(c) ==
    /\ At(c, "t4", "on") /\ publish("subscribe")
    /\ UNCHANGED <<quiet, redis, Sockets>>

\* The wait elapsed with neither an event nor shutdown.
heartbeat(c) ==
    /\ subs' = [subs EXCEPT ![c] = 0]
    /\ aroute' = 0

Heartbeat(c) ==
    /\ conns[c] = "on" /\ quiet[c]
    /\ heartbeat(c)
    /\ quiet' = [quiet EXCEPT ![c] = FALSE]
    /\ UNCHANGED <<conns, route, queue, losses, Sockets>>

\* Activity reaches every watching stream: their waits start again.
Event ==
    /\ "events" \in Ops /\ streams
    /\ \E c \in Conns : conns[c] = "on" /\ quiet[c]
    /\ quiet' = [c \in Conns |-> IF conns[c] = "on" THEN FALSE ELSE quiet[c]]
    /\ UNCHANGED <<conns, redis, queue, losses, Sockets>>

Detach(c) ==
    /\ "detach" \in Ops
    /\ At(c, "on", "u2")
    /\ subs' = [subs EXCEPT ![c] = Absent]
    /\ quiet' = [quiet EXCEPT ![c] = FALSE]
    /\ UNCHANGED <<route, aroute, queue, losses, Sockets>>

UntrackCard(c) ==
    /\ At(c, "u2", IF ZCard = 0 THEN "u3" ELSE "off")
    /\ UNCHANGED <<quiet, redis, queue, losses, Sockets>>

UntrackRoute(c) ==
    /\ At(c, "u3", IF route THEN "u4" ELSE "off")
    /\ UNCHANGED <<quiet, redis, queue, losses, Sockets>>

UntrackPublish(c) ==
    /\ At(c, "u4", "u5") /\ publish("unsubscribe")
    /\ UNCHANGED <<quiet, redis, Sockets>>

UntrackForget(c) ==
    /\ At(c, "u5", "u6") /\ route' = FALSE
    /\ UNCHANGED <<quiet, subs, aroute, queue, losses, Sockets>>

UntrackAgent(c) ==
    /\ At(c, "u6", "off") /\ aroute' = Absent
    /\ UNCHANGED <<quiet, subs, route, queue, losses, Sockets>>

\* The stream's pod dies: nothing of it runs again.
PodDies(c) ==
    /\ "crash" \in Ops
    /\ conns[c] \notin {"off", "gone"}
    /\ conns' = [conns EXCEPT ![c] = "gone"]
    /\ quiet' = [quiet EXCEPT ![c] = FALSE]
    /\ UNCHANGED <<redis, queue, losses, Sockets>>

--------------------------------------------------------------------------------
\* The agent's WebSocket.

Streams == <<conns, quiet, redis, rec, sweep, losses>>

\* The agent dials again with a conductor that knows no subscription.
AgentDials(s) ==
    /\ link = None /\ socks[s] = "new"
    /\ "overlap" \in Ops \/ \A t \in Socks : socks[t] \in {"new", "closed"}
    /\ link' = s /\ streams' = FALSE
    /\ socks' = [socks EXCEPT ![s] = "opening"]
    /\ UNCHANGED <<Streams, sender, running, streaming, queue>>

AgentDrops ==
    /\ "redial" \in Ops /\ link # None
    /\ link' = None /\ streams' = FALSE
    /\ UNCHANGED <<Streams, pod, queue>>

\* register_sender: the sender, then the consumer, which has subscribed to the
\* channel before Redis is read.
RegisterSender(s) ==
    /\ socks[s] = "opening"
    /\ sender' = s /\ running' = running \cup {s}
    /\ socks' = [socks EXCEPT ![s] = "replay"]
    /\ UNCHANGED <<Streams, streaming, link, streams, queue>>

\* What the replay would send: the run, if Redis shows somebody watching it.
Replayed == aroute # Absent /\ ZCard >= 1 /\ route

\* The snapshot's reads and the send; a send on a dead socket is logged.
RegisterReplay(s) ==
    /\ socks[s] = "replay"
    /\ streams' = (streams \/ (Replayed /\ link = s))
    /\ streaming' = (streaming \/ (Replayed /\ link = s))
    /\ socks' = [socks EXCEPT ![s] = "reading"]
    /\ UNCHANGED <<Streams, sender, running, link, queue>>

\* _run_control_subscriber: the belief first, then the send.
Consume(s) ==
    /\ s \in running /\ queue[s] # <<>>
    /\ LET sub == Head(queue[s]) = "subscribe" IN
          /\ streaming' = sub
          /\ streams' = IF link = s THEN sub ELSE streams
    /\ queue' = [queue EXCEPT ![s] = Tail(@)]
    /\ UNCHANGED <<Streams, socks, sender, running, link>>

unregister_sender_keeps_belief(s) ==
    /\ sender' = None /\ UNCHANGED streaming
    /\ running' = running \ {sender}
    /\ queue' = [t \in Socks |-> IF t = sender THEN <<>> ELSE queue[t]]

\* The handler notices that its socket is dead. unregister_sender forgets the
\* agent's sender and cancels the agent's task, whosever they are.
unregister_sender(s) ==
    /\ sender' = None /\ streaming' = FALSE
    /\ running' = running \ {sender}
    /\ queue' = [t \in Socks |-> IF t = sender THEN <<>> ELSE queue[t]]

SocketCloses(s) ==
    /\ socks[s] = "reading" /\ link # s
    /\ unregister_sender(s)
    /\ socks' = [socks EXCEPT ![s] = "closed"]
    /\ UNCHANGED <<Streams, link, streams>>

--------------------------------------------------------------------------------
\* The reconciler of the pod that owns the socket, and the sweeper.

Rest == <<conns, quiet, pod, link, streams>>

reconcile_decision ==
    IF ZCard >= 1 /\ ~streaming THEN "subscribe"
    ELSE IF ZCard = 0 /\ streaming THEN "unsubscribe" ELSE "idle"

\* Only runs in agent_routes are looked at.
ReconcileRead ==
    /\ "reconcile" \in Ops
    /\ rec = "idle" /\ sender # None /\ aroute # Absent
    /\ rec' = reconcile_decision /\ rec' # "idle"
    /\ UNCHANGED <<Rest, redis, queue, sweep, losses>>

ReconcilePublish ==
    /\ rec # "idle"
    /\ IF route THEN publish(rec) ELSE UNCHANGED <<queue, losses>>
    /\ rec' = "idle"
    /\ UNCHANGED <<Rest, redis, sweep>>

\* One heartbeat window (30 s) passes: a stream whose wait has elapsed is not kept
\* waiting, and none is half-way through track's four commands.
Older(age) == IF age = Absent \/ age = StaleAge THEN age ELSE age + 1
Tick ==
    /\ "tick" \in Ops
    /\ \A c \in Conns : ~quiet[c] /\ conns[c] \notin {"t2", "t3", "t4"}
    /\ subs' = [c \in Conns |-> Older(subs[c])]
    /\ aroute' = Older(aroute)
    /\ quiet' = [c \in Conns |-> conns[c] = "on"]
    /\ UNCHANGED <<conns, pod, link, streams, route, queue, rec, sweep, losses>>

Fresh(age) == IF age = StaleAge THEN Absent ELSE age

\* ZREMRANGEBYSCORE on run_subscribers:*, then on agent_routes:*.
SweepSubscribers ==
    /\ ~sweep /\ (aroute = StaleAge \/ \E c \in Conns : subs[c] = StaleAge)
    /\ subs' = [c \in Conns |-> Fresh(subs[c])]
    /\ sweep' = TRUE
    /\ UNCHANGED <<Rest, route, aroute, queue, rec, losses>>

SweepRoutes ==
    /\ sweep /\ sweep' = FALSE
    /\ aroute' = Fresh(aroute)
    /\ UNCHANGED <<Rest, subs, route, queue, rec, losses>>

--------------------------------------------------------------------------------
StreamSteps(c) == TrackRoute(c) \/ TrackAgent(c) \/ TrackPublish(c) \/ UntrackCard(c)
                  \/ UntrackRoute(c) \/ UntrackPublish(c) \/ UntrackForget(c) \/ UntrackAgent(c)
SocketSteps(s) == RegisterSender(s) \/ RegisterReplay(s) \/ SocketCloses(s)
SweeperSteps == SweepSubscribers \/ SweepRoutes

Next ==
    \/ \E c \in Conns : Attach(c) \/ StreamSteps(c) \/ Heartbeat(c) \/ Detach(c) \/ PodDies(c)
    \/ Event \/ AgentDrops
    \/ \E s \in Socks : AgentDials(s) \/ SocketSteps(s) \/ Consume(s)
    \/ ReconcileRead \/ ReconcilePublish \/ Tick \/ SweeperSteps

Spec == Init /\ [][Next]_vars

--------------------------------------------------------------------------------
\* Properties.

\* The sweeper reaps only members whose stream died without untracking: a stream
\* that still serves its browser keeps its place in run_subscribers.
MemberWhileWatching == \A c \in Conns : conns[c] = "on" => subs[c] # Absent

\* The pod's belief is the truth whenever its consumer has nothing left to deliver:
\* the reconciler acts on this belief alone.
BeliefIsTrue ==
    sender # None /\ link = sender /\ socks[sender] = "reading" /\ queue[sender] = <<>>
    => streaming = streams
================================================================================
