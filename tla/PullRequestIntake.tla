-------------------------- MODULE PullRequestIntake -------------------------
(***************************************************************************)
(* The GitHub webhook intake for one pull request: POST /api/intake/github *)
(* (core/intake), GithubIntakeType (plugins/github/intake_type.py), the    *)
(* delivery ledger github_webhook_events, the pull request row and the     *)
(* ticket (domain/tickets) and the runs start_run puts on the ticket.      *)
(*                                                                         *)
(* A delivery is handled in several transactions: the ledger row commits   *)
(* first, on its own; opened-style events and pushes then commit once;     *)
(* a close commits the PR state, the ticket and the cancellation apart.    *)
(* The run engine is reduced to what the intake sees: queued, running,     *)
(* paused or over, one run in flight per ticket.  The pull request is      *)
(* neither a fork's nor a bot's, and its repository binds one pipeline to  *)
(* github:pr_opened and to github:pr_commits.                              *)
(***************************************************************************)
EXTENDS Integers, Sequences, FiniteSets

CONSTANTS Handlers,      \* webserver requests in progress at the same time
          MaxEvents,     \* events GitHub emits for the pull request
          MaxDeliveries, \* deliveries of one event
          MaxFailures,   \* requests that fail in the middle
          MaxPauses,
          InOrder,       \* events are delivered one after the other
          Reopens        \* the author may reopen the pull request

IntakeAssumption ==
    /\ MaxEvents \in Nat /\ MaxDeliveries \in Nat /\ MaxFailures \in Nat /\ MaxPauses \in Nat
    /\ InOrder \in BOOLEAN /\ Reopens \in BOOLEAN

VARIABLES gh,        \* the pull request on GitHub
          events,    \* the events GitHub has emitted, oldest first
          sent,      \* how often each was delivered
          answer,    \* the answers GitHub got for each
          ledger,    \* github_webhook_events: the deliveries recorded
          handler,   \* the requests
          pr,        \* pull_requests
          ticket,    \* tickets
          runs,      \* pipeline_runs of the ticket, oldest first
          used

vars == <<gh, events, sent, answer, ledger, handler, pr, ticket, runs, used>>

Kinds   == {"opened", "ready_for_review", "reopened", "synchronize", "closed"}
PrState == {"open", "closed", "merged"}
Heads   == 1 .. MaxEvents
Ids     == 1 .. MaxEvents
NoRow   == [absent |-> TRUE]
NoRun   == 0
Final   == {"done", "cancelled", "failed"}

EventType   == [kind : Kinds, head : Heads, draft : BOOLEAN, state : PrState]
PullRequest == [state : PrState, head : Heads]
Ticket      == [status : {"pending", "running", "hitl"} \cup Final, run : 0 .. MaxEvents]
RunRow      == [state : {"queued", "running", "paused", "over"}, head : Heads,
                cancel : BOOLEAN, event : Ids]
HandlerType == [pc : {"idle", "reading", "inserting", "dispatch", "closing", "completing", "cancelling"},
                event : 0 .. MaxEvents, run : 0 .. MaxEvents]
Idle == [pc |-> "idle", event |-> 0, run |-> NoRun]

Init ==
    /\ gh = [state |-> "none", head |-> 0, draft |-> FALSE]
    /\ events = <<>>
    /\ sent = [e \in Ids |-> 0]
    /\ answer = [e \in Ids |-> {}]
    /\ ledger = {}
    /\ handler = [h \in Handlers |-> Idle]
    /\ pr = NoRow
    /\ ticket = NoRow
    /\ runs = <<>>
    /\ used = [fail |-> 0, pause |-> 0]

-----------------------------------------------------------------------------
(* What happens on GitHub, and the event it emits.                         *)

Emit(kind, g) ==
    /\ Len(events) < MaxEvents
    /\ gh' = g
    /\ events' = Append(events, [kind |-> kind, head |-> g.head, draft |-> g.draft, state |-> g.state])
    /\ UNCHANGED <<sent, answer, ledger, handler, pr, ticket, runs, used>>

AuthorActs ==
    \/ gh.state = "none" /\ \E d \in BOOLEAN : Emit("opened", [state |-> "open", head |-> 1, draft |-> d])
    \/ gh.state = "open" /\ gh.draft /\ Emit("ready_for_review", [gh EXCEPT !.draft = FALSE])
    \/ gh.state = "open" /\ Emit("synchronize", [gh EXCEPT !.head = @ + 1])
    \/ gh.state = "open" /\ \E s \in {"closed", "merged"} : Emit("closed", [gh EXCEPT !.state = s])
    \/ Reopens /\ gh.state = "closed" /\ Emit("reopened", [gh EXCEPT !.state = "open"])

(* post_intake gets a delivery with a good signature of an installed app. *)
Deliver(h, e) ==
    /\ handler[h].pc = "idle"
    /\ e <= Len(events)
    /\ sent[e] < MaxDeliveries
    /\ InOrder => \A d \in 1 .. e - 1 : answer[d] # {}
    /\ sent' = [sent EXCEPT ![e] = @ + 1]
    /\ handler' = [handler EXCEPT ![h] = [Idle EXCEPT !.pc = "reading", !.event = e]]
    /\ UNCHANGED <<gh, events, answer, ledger, pr, ticket, runs, used>>

-----------------------------------------------------------------------------
(* record_webhook_event: a read, then the insert.  The flush of the insert *)
(* is what meets the unique constraint, and nothing catches it there.      *)

Finish(h, code) ==
    /\ handler' = [handler EXCEPT ![h] = Idle]
    /\ answer' = [answer EXCEPT ![handler[h].event] = @ \cup {code}]
Goto(h, pc) == handler' = [handler EXCEPT ![h].pc = pc] /\ UNCHANGED answer

LedgerRead(h) ==
    /\ handler[h].pc = "reading"
    /\ IF handler[h].event \in ledger THEN Finish(h, "duplicate") ELSE Goto(h, "inserting")
    /\ UNCHANGED <<gh, events, sent, ledger, pr, ticket, runs, used>>

LedgerInsert(h) ==
    /\ handler[h].pc = "inserting"
    /\ IF handler[h].event \in ledger
       THEN Finish(h, "500") /\ UNCHANGED ledger
       ELSE Goto(h, "dispatch") /\ ledger' = ledger \cup {handler[h].event}
    /\ UNCHANGED <<gh, events, sent, pr, ticket, runs, used>>

-----------------------------------------------------------------------------
(* start_run and the engine, as far as the ticket sees them.               *)

InFlight(rs) == {i \in 1 .. Len(rs) : rs[i].state \in {"running", "paused"}}
Queued(rs)   == {i \in 1 .. Len(rs) : rs[i].state = "queued"}
Oldest(S)    == CHOOSE i \in S : \A j \in S : i <= j

OnRunStart(t, i) ==
    [t EXCEPT !.run = i, !.status = IF @ = "pending" THEN "running" ELSE @]
OnRunTerminal(t, i, status) ==
    IF t.run = i /\ t.status \notin Final THEN [t EXCEPT !.status = status] ELSE t

StartRun_NoSlotCheck(rs, t, head, e) ==
    [runs |-> Append(rs, [state |-> "running", head |-> head, cancel |-> FALSE, event |-> e]),
     ticket |-> OnRunStart(t, Len(rs) + 1)]
StartRun(rs, t, head, e) ==
    LET new == [state |-> "queued", head |-> head, cancel |-> FALSE, event |-> e]
        i   == Len(rs) + 1
    IN IF InFlight(rs) = {}
       THEN [runs |-> Append(rs, [new EXCEPT !.state = "running"]), ticket |-> OnRunStart(t, i)]
       ELSE [runs |-> Append(rs, new), ticket |-> t]

(* _enter_terminal of run i: the ticket, then the oldest queued sibling.   *)
EnterTerminal(rs, t, i, status) ==
    LET over == [rs EXCEPT ![i].state = "over"]
        left == OnRunTerminal(t, i, status)
        next == Oldest(Queued(over))
    IN IF Queued(over) = {} \/ InFlight(over) # {}
       THEN [runs |-> over, ticket |-> left]
       ELSE [runs |-> [over EXCEPT ![next].state = "running"], ticket |-> OnRunStart(left, next)]

RequestCancel(rs, t, i) ==
    IF rs[i].state = "running" THEN [runs |-> [rs EXCEPT ![i].cancel = TRUE], ticket |-> t]
    ELSE IF rs[i].state = "over" THEN [runs |-> rs, ticket |-> t]
    ELSE EnterTerminal(rs, t, i, "cancelled")

RunEnds(i) ==
    /\ runs[i].state = "running"
    /\ LET s == EnterTerminal(runs, ticket, i, IF runs[i].cancel THEN "cancelled" ELSE "done")
       IN runs' = s.runs /\ ticket' = s.ticket
    /\ UNCHANGED <<gh, events, sent, answer, ledger, handler, pr, used>>

RunPauses(i) ==
    /\ runs[i].state = "running"
    /\ used.pause < MaxPauses
    /\ used' = [used EXCEPT !.pause = @ + 1]
    /\ runs' = [runs EXCEPT ![i].state = "paused"]
    /\ ticket' = OnRunTerminal(ticket, i, "hitl")
    /\ UNCHANGED <<gh, events, sent, answer, ledger, handler, pr>>

RunResumes(i) ==
    /\ runs[i].state = "paused"
    /\ runs' = [runs EXCEPT ![i].state = "running"]
    /\ ticket' = IF ticket.run = i /\ ticket.status = "hitl" THEN [ticket EXCEPT !.status = "running"] ELSE ticket
    /\ UNCHANGED <<gh, events, sent, answer, ledger, handler, pr, used>>

-----------------------------------------------------------------------------
(* _dispatch.  opened, reopened and ready_for_review share one branch: the *)
(* ticket is inserted with ON CONFLICT DO NOTHING, and whoever finds it    *)
(* there returns.                                                          *)

Ev(h) == events[handler[h].event]

Filtered(h)  == Ev(h).kind = "opened" /\ Ev(h).draft
TicketKeyFree == ticket = NoRow
NewTicket(h) == [status |-> "pending", run |-> NoRun]
NewPr(h)     == [state |-> Ev(h).state, head |-> Ev(h).head]

PreparePipelineRuns(h) ==
    /\ handler[h].pc = "dispatch"
    /\ Ev(h).kind \in {"opened", "ready_for_review", "reopened"}
    /\ IF Filtered(h) \/ ~TicketKeyFree
       THEN UNCHANGED <<pr, ticket, runs>>
       ELSE LET s == StartRun(runs, NewTicket(h), Ev(h).head, handler[h].event)
            IN /\ pr' = NewPr(h)
               /\ ticket' = s.ticket
               /\ runs' = s.runs
    /\ Finish(h, "ok")
    /\ UNCHANGED <<gh, events, sent, ledger, used>>

UpsertPr(h) == [pr EXCEPT !.state = Ev(h).state, !.head = Ev(h).head]

HandleSynchronize(h) ==
    /\ handler[h].pc = "dispatch"
    /\ Ev(h).kind = "synchronize"
    /\ IF pr = NoRow
       THEN UNCHANGED <<pr, ticket, runs>>
       ELSE LET s == StartRun(runs, ticket, Ev(h).head, handler[h].event)
            IN pr' = UpsertPr(h) /\ ticket' = s.ticket /\ runs' = s.runs
    /\ Finish(h, "ok")
    /\ UNCHANGED <<gh, events, sent, ledger, used>>

(* _handle_closed: update_state, then the ticket is read; only a running   *)
(* ticket is completed, and only then its current run is cancelled.        *)
CloseState(h) == [pr EXCEPT !.state = Ev(h).state]

HandleClosed(h) ==
    /\ handler[h].pc = "dispatch"
    /\ Ev(h).kind = "closed"
    /\ IF pr = NoRow
       THEN Finish(h, "ok") /\ UNCHANGED pr
       ELSE Goto(h, "closing") /\ pr' = CloseState(h)
    /\ UNCHANGED <<gh, events, sent, ledger, ticket, runs, used>>

ClosedReadsTicket(h) ==
    /\ handler[h].pc = "closing"
    /\ IF ticket.status = "running"
       THEN /\ handler' = [handler EXCEPT ![h].pc = "completing", ![h].run = ticket.run]
            /\ UNCHANGED answer
       ELSE Finish(h, "ok")
    /\ UNCHANGED <<gh, events, sent, ledger, pr, ticket, runs, used>>

(* complete() raises InvalidTicketTransition when the run ended meanwhile. *)
ClosedCompletesTicket(h) ==
    /\ handler[h].pc = "completing"
    /\ IF ticket.status \in Final
       THEN Finish(h, "500") /\ UNCHANGED ticket
       ELSE Goto(h, "cancelling") /\ ticket' = [ticket EXCEPT !.status = "done"]
    /\ UNCHANGED <<gh, events, sent, ledger, pr, runs, used>>

ClosedCancelsRun(h) ==
    /\ handler[h].pc = "cancelling"
    /\ LET s == RequestCancel(runs, ticket, handler[h].run)
       IN runs' = s.runs /\ ticket' = s.ticket
    /\ Finish(h, "ok")
    /\ UNCHANGED <<gh, events, sent, ledger, pr, used>>

(* The request fails (a lost connection, a restart): what its open         *)
(* transaction wrote is gone, what it committed stays.                     *)
RequestFails(h) ==
    /\ handler[h].pc \notin {"idle", "reading"}
    /\ used.fail < MaxFailures
    /\ used' = [used EXCEPT !.fail = @ + 1]
    /\ Finish(h, "500")
    /\ UNCHANGED <<gh, events, sent, ledger, pr, ticket, runs>>

-----------------------------------------------------------------------------
HandlerStep(h) ==
    \/ LedgerRead(h) \/ LedgerInsert(h)
    \/ PreparePipelineRuns(h) \/ HandleSynchronize(h)
    \/ HandleClosed(h) \/ ClosedReadsTicket(h) \/ ClosedCompletesTicket(h) \/ ClosedCancelsRun(h)
EngineStep == \E i \in 1 .. Len(runs) : RunEnds(i) \/ RunPauses(i) \/ RunResumes(i)

Next ==
    \/ AuthorActs
    \/ \E h \in Handlers : (\E e \in Ids : Deliver(h, e)) \/ HandlerStep(h) \/ RequestFails(h)
    \/ EngineStep

Spec == Init /\ [][Next]_vars

-----------------------------------------------------------------------------
TypeOK ==
    /\ events \in Seq(EventType) /\ Len(events) <= MaxEvents
    /\ sent \in [Ids -> 0 .. MaxDeliveries]
    /\ answer \in [Ids -> SUBSET {"ok", "duplicate", "500"}]
    /\ ledger \subseteq Ids
    /\ handler \in [Handlers -> HandlerType]
    /\ pr = NoRow \/ pr \in PullRequest
    /\ ticket = NoRow \/ ticket \in Ticket
    /\ runs \in Seq(RunRow)
    /\ Cardinality(InFlight(runs)) <= 1
    /\ (pr = NoRow) = (ticket = NoRow)

(* However often and however concurrently GitHub delivers an event, it     *)
(* starts one run at most (the ledger's unique key, the ticket's).         *)
DeliveryAppliedOnce ==
    \A e \in Ids : Cardinality({i \in 1 .. Len(runs) : runs[i].event = e}) <= 1

AllAnswered == (\A h \in Handlers : handler[h].pc = "idle") /\ \A e \in 1 .. Len(events) : answer[e] # {}

(* Once every event was answered the row says what GitHub says: the state  *)
(* and the newest head (events in order, none failed, no reopening).       *)
RowFollowsGitHub ==
    (AllAnswered /\ pr # NoRow) => pr.state = gh.state /\ pr.head = gh.head

-----------------------------------------------------------------------------
(* What documentation says, and the code does not do.                      *)

(* "closed: PR state -> merged/closed, ticket completed, any in-flight     *)
(* pipeline run cancelled".                                                *)
ClosedStopsRuns ==
    (AllAnswered /\ gh.state \in {"closed", "merged"} /\ pr # NoRow)
        => /\ ticket.status \in Final
           /\ \A i \in InFlight(runs) : runs[i].cancel

(* "reopened: PR state -> open". *)
ReopenedIsOpen == (AllAnswered /\ pr # NoRow /\ gh.state = "open") => pr.state = "open"

(* "Idempotency on X-GitHub-Delivery: duplicate -> 200 no-op". *)
DuplicateIsAcknowledged == \A e \in Ids : "500" \notin answer[e]

(* "Missed events recover via the plugin's catch-up poller". *)
MissedEventsRecover == (gh.state = "merged" /\ pr # NoRow) ~> (pr # NoRow /\ pr.state = "merged")
=============================================================================
