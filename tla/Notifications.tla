---------------------------- MODULE Notifications ----------------------------
(***************************************************************************)
(* core/notifications: the inbox rows a ticket's status change fans out to *)
(* the members of its org.  The producer names the recipients in its own   *)
(* transaction and enqueues one task; workers run the task, which writes   *)
(* one row per recipient and commits once; users read their bell.          *)
(***************************************************************************)
EXTENDS Naturals, Sequences, SequencesExt, FiniteSets

CONSTANTS
  Users,       \* people who may be members of the org
  Tickets,     \* tickets of the org
  Workers,     \* worker processes
  Limit,       \* rows the bell shows
  MaxEvents,   \* bound: status changes that notify
  MaxNotes,    \* bound: inbox rows
  MaxRepeat,   \* bound: deliveries the drain repeats after a rollback
  MaxCrash,    \* bound: workers killed in a body
  MaxJoin,     \* bound: members who join or leave
  Ops          \* optional operations: "read", "popover", "reauth"

NotificationsAssumption ==
  /\ IsFiniteSet(Users) /\ IsFiniteSet(Tickets) /\ IsFiniteSet(Workers) /\ Limit \in Nat \ {0}
  /\ MaxEvents \in Nat /\ MaxNotes \in Nat /\ MaxRepeat \in Nat /\ MaxCrash \in Nat /\ MaxJoin \in Nat
  /\ "none" \notin Tickets

VARIABLES
  status,   \* status[t]: tickets.status
  members,  \* the org's active members
  events,   \* the fan-outs enqueued, oldest first: type, ticket, recipients
  queue,    \* the broker's list, as positions in events
  job,      \* job[w]: the body in flight, its open transaction included
  notes,    \* the notifications table, oldest first
  bell,     \* bell[u]: the popover request in progress or answered
  used      \* how much of each environment bound is used up

vars == <<status, members, events, queue, job, notes, bell, used>>

-----------------------------------------------------------------------------
Statuses == {"pending", "running", "hitl", "done", "failed"}
Terminal == {"done", "failed"}
Types    == {"hitl_waiting", "ticket_completed", "ticket_failed", "oauth_connection_needs_reauth"}

Note  == [user : Users, type : Types, subject : Tickets \cup {"none"}, read : BOOLEAN]
Event == [type : Types, subject : Tickets, to : SUBSET Users]
Job   == [event : 0..MaxEvents, todo : SUBSET Users, added : Seq(Note)]
Bell  == [step : {"none", "rows", "sent"}, items : Seq(1..MaxNotes), count : 0..MaxNotes]

NoJob  == [event |-> 0, todo |-> {}, added |-> <<>>]
NoBell == [step |-> "none", items |-> <<>>, count |-> 0]

TypeOK ==
  /\ status \in [Tickets -> Statuses] /\ members \subseteq Users
  /\ events \in Seq(Event) /\ queue \in Seq(1..MaxEvents)
  /\ job \in [Workers -> Job] /\ notes \in Seq(Note) /\ bell \in [Users -> Bell]
  /\ used \in [{"repeat", "crash", "join"} -> Nat]

Init ==
  /\ status = [t \in Tickets |-> "pending"] /\ members \in SUBSET Users /\ Cardinality(members) = 1
  /\ events = <<>> /\ queue = <<>> /\ notes = <<>>
  /\ job = [w \in Workers |-> NoJob] /\ bell = [u \in Users |-> NoBell]
  /\ used = [k \in {"repeat", "crash", "join"} |-> 0]

Use(k, n) == used[k] < n /\ used' = [used EXCEPT ![k] = @ + 1]

-----------------------------------------------------------------------------
(* The producer.                                                            *)

\* _STATUS_TO_NOTIF_TYPE: the statuses that notify.
NotifType == [s \in {"hitl", "done", "failed"} |->
                CASE s = "hitl" -> "hitl_waiting" [] s = "done" -> "ticket_completed" [] OTHER -> "ticket_failed"]

\* build_status_change_specs: one spec for each member of the transaction.
BuildStatusChangeSpecs(t, s) == [type |-> NotifType[s], subject |-> t, to |-> members]

\* The transitions the run engine asks for; a terminal ticket takes none.
MayBecome(from, to) ==
  \/ from = "pending" /\ to = "running"
  \/ from = "hitl" /\ to = "running"
  \/ from \notin Terminal /\ to \in {"hitl"} \cup Terminal

\* notify_ticket_status_change in the transaction of the transition: the task
\* is enqueued unless the status does not notify or there is nobody to tell.
StatusChange(t, s) ==
  /\ MayBecome(status[t], s) /\ Len(events) < MaxEvents
  /\ status' = [status EXCEPT ![t] = s]
  /\ IF s \in DOMAIN NotifType /\ members # {}
     THEN events' = Append(events, BuildStatusChangeSpecs(t, s)) /\ queue' = Append(queue, Len(events) + 1)
     ELSE UNCHANGED <<events, queue>>
  /\ UNCHANGED <<members, job, notes, bell, used>>

\* A member joins or leaves the org.
Membership(u) ==
  /\ Use("join", MaxJoin)
  /\ members' = IF u \in members THEN members \ {u} ELSE members \cup {u}
  /\ UNCHANGED <<status, events, queue, job, notes, bell>>

\* The drain pushed a row and rolled back: it pushes the row again.
DrainRepeats(e) ==
  /\ Use("repeat", MaxRepeat)
  /\ queue' = Append(queue, e)
  /\ UNCHANGED <<status, members, events, job, notes, bell>>

-----------------------------------------------------------------------------
(* The task.                                                                *)

\* A worker pops the oldest delivery and parses its specs.
FanoutBegins(w) ==
  /\ job[w] = NoJob /\ queue # <<>>
  /\ job' = [job EXCEPT ![w] = [event |-> Head(queue), todo |-> events[Head(queue)].to, added |-> <<>>]]
  /\ queue' = Tail(queue)
  /\ UNCHANGED <<status, members, events, notes, bell, used>>

\* The rows a SELECT of the transaction sees with this key: what is committed
\* and what the transaction itself added.
Matching(u, e, added) ==
  LET same(n) == n.user = u /\ n.type = e.type /\ n.subject = e.subject IN
  Len(SelectSeq(notes, same)) + Len(SelectSeq(added, same))

NewNote(u, type, subject) == [user |-> u, type |-> type, subject |-> subject, read |-> FALSE]

Create_StopsAtExisting(w, u) ==
  LET e == events[job[w].event] found == Matching(u, e, job[w].added) IN
  /\ u \in job[w].todo /\ Len(notes) + Len(job[w].added) < MaxNotes
  /\ job' = [job EXCEPT ![w] = IF found # 0 THEN NoJob
                               ELSE [@ EXCEPT !.todo = @ \ {u}, !.added = Append(@, NewNote(u, e.type, e.subject))]]
  /\ UNCHANGED <<status, members, events, queue, notes, bell, used>>

\* create for one spec: nothing when a row with the key exists, else an insert
\* that the transaction keeps to itself.  scalar_one_or_none raises when two
\* rows match: the body ends, its transaction is rolled back, and nobody runs
\* the delivery again.
Create(w, u) ==
  LET e == events[job[w].event] found == Matching(u, e, job[w].added) IN
  /\ u \in job[w].todo /\ Len(notes) + Len(job[w].added) < MaxNotes
  /\ job' = [job EXCEPT ![w] =
       CASE found = 0 -> [@ EXCEPT !.todo = @ \ {u}, !.added = Append(@, NewNote(u, e.type, e.subject))]
         [] found = 1 -> [@ EXCEPT !.todo = @ \ {u}]
         [] OTHER     -> NoJob]
  /\ UNCHANGED <<status, members, events, queue, notes, bell, used>>

\* All specs are done: one commit.
FanoutCommits(w) ==
  /\ job[w].event # 0 /\ job[w].todo = {}
  /\ notes' = notes \o job[w].added
  /\ job' = [job EXCEPT ![w] = NoJob]
  /\ UNCHANGED <<status, members, events, queue, bell, used>>

\* The worker is killed: the open transaction and the delivery are gone.
WorkerCrashes(w) ==
  /\ job[w] # NoJob /\ Use("crash", MaxCrash)
  /\ job' = [job EXCEPT ![w] = NoJob]
  /\ UNCHANGED <<status, members, events, queue, notes, bell>>

\* A notification without a subject (an OAuth connection that needs a new
\* authorisation) is always written, in the caller's transaction.
CreateSubjectless(u) ==
  /\ "reauth" \in Ops /\ Len(notes) < MaxNotes
  /\ notes' = Append(notes, NewNote(u, "oauth_connection_needs_reauth", "none"))
  /\ UNCHANGED <<status, members, events, queue, job, bell, used>>

-----------------------------------------------------------------------------
(* The reader.                                                              *)

Unread(u) == {i \in DOMAIN notes : notes[i].user = u /\ ~notes[i].read}

Newest(S) == LET s == SetToSortSeq(S, >) IN SubSeq(s, 1, IF Len(s) < Limit THEN Len(s) ELSE Limit)

\* mark_read: a row of another user is not found, a read row stays as it is.
MarkRead(u, i) ==
  /\ "read" \in Ops /\ i \in Unread(u)
  /\ notes' = [notes EXCEPT ![i].read = TRUE]
  /\ UNCHANGED <<status, members, events, queue, job, bell, used>>

\* mark_all_read: one UPDATE over the user's unread rows, of one type or all.
MarkAllRead(u, types) ==
  /\ "read" \in Ops /\ Unread(u) # {}
  /\ notes' = [i \in DOMAIN notes |-> IF i \in Unread(u) /\ notes[i].type \in types
                                     THEN [notes[i] EXCEPT !.read = TRUE] ELSE notes[i]]
  /\ UNCHANGED <<status, members, events, queue, job, bell, used>>

\* popover_for_user, first statement: the newest unread rows.
PopoverRows(u) ==
  /\ "popover" \in Ops /\ bell[u].step # "rows"
  /\ bell' = [bell EXCEPT ![u] = [step |-> "rows", items |-> Newest(Unread(u)), count |-> 0]]
  /\ UNCHANGED <<status, members, events, queue, job, notes, used>>

\* Second statement: how many rows are unread by now.
PopoverCount(u) ==
  /\ bell[u].step = "rows"
  /\ bell' = [bell EXCEPT ![u].step = "sent", ![u].count = Cardinality(Unread(u))]
  /\ UNCHANGED <<status, members, events, queue, job, notes, used>>

-----------------------------------------------------------------------------
Next ==
  \/ \E t \in Tickets, s \in Statuses : StatusChange(t, s)
  \/ \E u \in Users : Membership(u) \/ CreateSubjectless(u) \/ PopoverRows(u) \/ PopoverCount(u)
  \/ \E e \in DOMAIN events : DrainRepeats(e)
  \/ \E w \in Workers : FanoutBegins(w) \/ FanoutCommits(w) \/ WorkerCrashes(w) \/ \E u \in Users : Create(w, u)
  \/ \E u \in Users, i \in DOMAIN notes : MarkRead(u, i)
  \/ \E u \in Users : MarkAllRead(u, Types) \/ MarkAllRead(u, {"hitl_waiting"})

Spec == Init /\ [][Next]_vars

-----------------------------------------------------------------------------
HasRow(u, e) == \E i \in DOMAIN notes : notes[i].user = u /\ notes[i].type = e.type /\ notes[i].subject = e.subject

\* Writes are idempotent on (user, type, subject): whatever is delivered twice,
\* or happens twice to one ticket, leaves one row (create's dedup check).
OneRowPerSubject ==
  \A i, j \in DOMAIN notes :
    i # j /\ notes[i].subject # "none" =>
      ~(notes[i].user = notes[j].user /\ notes[i].type = notes[j].type /\ notes[i].subject = notes[j].subject)

\* A row with a subject belongs to a fan-out that reached all the people who
\* were members when the status changed, and only them: a worker killed in the
\* middle leaves nobody half told (_fanout's single commit, and recipients
\* computed by the producer although members come and go).
WholeFanout ==
  \A i \in DOMAIN notes : notes[i].subject # "none" =>
    \E k \in DOMAIN events :
      /\ events[k].type = notes[i].type /\ events[k].subject = notes[i].subject
      /\ notes[i].user \in events[k].to
      /\ \A u \in events[k].to : HasRow(u, events[k])

\* The bell never shows more rows than it counts (popover_for_user).
BellAgrees == \A u \in Users : bell[u].step = "sent" => Len(bell[u].items) <= bell[u].count

=============================================================================
