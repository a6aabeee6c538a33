------------------------------- MODULE LiveEvents -------------------------------
(***************************************************************************)
(* How a browser learns of a change: an event is stashed on the database    *)
(* session (publish_general_after_commit), flushed by the after_commit      *)
(* listener into fire-and-forget publish tasks (core/sse/service.py), and   *)
(* carried by Redis pub/sub to the streams of core/sse/web.py, whose client *)
(* refetches on every event and on every connect.                           *)
(*                                                                          *)
(* One entity, whose committed version the client is to show.               *)
(***************************************************************************)
EXTENDS Naturals, FiniteSets

CONSTANTS
    Txns,     \* transactions that write the entity, one at a time: the row is locked
    Clients,  \* browsers
    MaxConn,  \* connections a browser makes (bound)
    Ops       \* what may happen: "savepoint", "rollback", "shutdown", "connected"

LiveAssumption == MaxConn \in Nat /\ Ops \subseteq {"savepoint", "rollback", "shutdown", "connected"}

VARIABLES
    db,       \* the committed version
    txns,     \* each transaction: progress, the version it wrote, its stash
    tasks,    \* spawned publish tasks of each transaction's event
    told,     \* how often each transaction's event was published
    streams,  \* each browser's stream: progress, whether Redis has its SUBSCRIBE
    fresh,    \* events that reached the browser and are not yet refetched
    seen,     \* the version each browser shows
    conns     \* connections made

vars == <<db, txns, tasks, told, streams, fresh, seen, conns>>

Versions == 0..Cardinality(Txns)

\* Types.
TypeOK ==
    /\ db \in Versions
    /\ txns \in [Txns -> [pc : {"idle", "open", "committed", "rolledback"}, ver : Versions,
                          stash : {0, 1}]]
    /\ tasks \in [Txns -> Nat] /\ told \in [Txns -> Nat]
    /\ streams \in [Clients -> [pc : {"off", "prelude", "loop"}, open : BOOLEAN]]
    /\ fresh \in [Clients -> BOOLEAN] /\ seen \in [Clients -> Versions]
    /\ conns \in [Clients -> 0..MaxConn]
    /\ \A t \in Txns : txns[t].pc # "open" => txns[t].stash = 0

Init ==
    /\ db = 0 /\ tasks = [t \in Txns |-> 0] /\ told = [t \in Txns |-> 0]
    /\ txns = [t \in Txns |-> [pc |-> "idle", ver |-> 0, stash |-> 0]]
    /\ streams = [c \in Clients |-> [pc |-> "off", open |-> FALSE]]
    /\ fresh = [c \in Clients |-> FALSE] /\ seen = [c \in Clients |-> 0]
    /\ conns = [c \in Clients |-> 0]

Browsers == <<streams, fresh, seen, conns>>

--------------------------------------------------------------------------------
\* The writer's transaction.

Listening(c) == streams[c].pc = "loop"

\* The write and the stash: a status change goes through
\* notify_ticket_status_change, a run's state through _publish_run_state.
Write(t) ==
    /\ txns[t].pc = "idle" /\ \A u \in Txns : txns[u].pc # "open"
    /\ "connected" \in Ops => \A c \in Clients : Listening(c)
    /\ txns' = [txns EXCEPT ![t] = [pc |-> "open", ver |-> db + 1, stash |-> 1]]
    /\ UNCHANGED <<db, tasks, told, Browsers>>

\* _flush_general_pending: take the stash and spawn one publish for each entry.
flush_general_pending(t, pc) ==
    /\ tasks' = [tasks EXCEPT ![t] = @ + txns[t].stash]
    /\ txns' = [txns EXCEPT ![t].stash = 0, ![t].pc = pc]

\* A nested transaction of the engine (attempt_promotion, _run_action_stage) is
\* released. SQLAlchemy dispatches after_commit for a SAVEPOINT too.
SavepointReleased(t) ==
    /\ "savepoint" \in Ops
    /\ txns[t].pc = "open" /\ txns[t].stash = 1
    /\ flush_general_pending(t, "open")
    /\ UNCHANGED <<db, told, Browsers>>

Commit(t) ==
    /\ txns[t].pc = "open"
    /\ db' = txns[t].ver
    /\ flush_general_pending(t, "committed")
    /\ UNCHANGED <<told, Browsers>>

\* The session is closed and its info goes with it.
Rollback(t) ==
    /\ "rollback" \in Ops
    /\ txns[t].pc = "open"
    /\ txns' = [txns EXCEPT ![t].pc = "rolledback", ![t].stash = 0]
    /\ UNCHANGED <<db, tasks, told, Browsers>>

\* A spawned task publishes: Redis hands the event to whoever is subscribed.
PublishGeneral(t) ==
    /\ tasks[t] > 0
    /\ tasks' = [tasks EXCEPT ![t] = @ - 1] /\ told' = [told EXCEPT ![t] = @ + 1]
    /\ fresh' = [c \in Clients |-> fresh[c] \/ Listening(c)]
    /\ UNCHANGED <<db, txns, streams, seen, conns>>

--------------------------------------------------------------------------------
\* A browser and its stream.

\* _general_stream yields the prelude before it subscribes.
Connect(c) ==
    /\ streams[c].pc = "off" /\ conns[c] < MaxConn
    /\ conns' = [conns EXCEPT ![c] = @ + 1]
    /\ streams' = [streams EXCEPT ![c] = [pc |-> "prelude", open |-> FALSE]]
    /\ UNCHANGED <<db, txns, tasks, told, fresh, seen>>

\* The browser gets the prelude: onopen refetches everything.
OnOpen(c) ==
    /\ streams[c].pc # "off" /\ ~streams[c].open
    /\ streams' = [streams EXCEPT ![c].open = TRUE]
    /\ seen' = [seen EXCEPT ![c] = db]
    /\ UNCHANGED <<db, txns, tasks, told, fresh, conns>>

Subscribe(c) ==
    /\ streams[c].pc = "prelude"
    /\ streams' = [streams EXCEPT ![c].pc = "loop"]
    /\ UNCHANGED <<db, txns, tasks, told, fresh, seen, conns>>

\* onmessage refetches what the event names.
OnMessage(c) ==
    /\ fresh[c] /\ streams[c].open
    /\ fresh' = [fresh EXCEPT ![c] = FALSE]
    /\ seen' = [seen EXCEPT ![c] = db]
    /\ UNCHANGED <<db, txns, tasks, told, streams, conns>>

\* A deploy: the stream ends with the retry frame and the browser connects again.
Shutdown(c) ==
    /\ "shutdown" \in Ops
    /\ streams[c].pc = "loop" /\ conns[c] < MaxConn
    /\ streams' = [streams EXCEPT ![c] = [pc |-> "off", open |-> FALSE]]
    /\ UNCHANGED <<db, txns, tasks, told, fresh, seen, conns>>

Stream(c) == Connect(c) \/ OnOpen(c) \/ Subscribe(c) \/ OnMessage(c)

Next ==
    \/ \E t \in Txns : Write(t) \/ SavepointReleased(t) \/ Commit(t) \/ Rollback(t) \/ PublishGeneral(t)
    \/ \E c \in Clients : Stream(c) \/ Shutdown(c)

Spec == Init /\ [][Next]_vars

--------------------------------------------------------------------------------
\* Properties.

\* An event a browser is told of is about something that has been committed: a
\* rolled-back transaction never emits, and a refetch finds what the event promised.
ToldIsCommitted == \A t \in Txns : told[t] > 0 => txns[t].pc = "committed"

\* A stashed event is published at most once, however many commits its session
\* sees: the listener takes the stash with it.
ToldOnce == \A t \in Txns : told[t] <= 1

================================================================================
