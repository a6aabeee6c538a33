------------------------------- MODULE Outbox -------------------------------
(***************************************************************************)
(* core/tasks: the outbox table, the drain that pumps it into a Redis      *)
(* list, the scheduler that claims cron slots, the receivers that pop and  *)
(* run bodies, and the shutdown sequence of a worker process.  Every       *)
(* worker runs all of them at once.                                        *)
(***************************************************************************)
EXTENDS Naturals, Sequences, Functions, FiniteSets

CONSTANTS
  Workers,      \* worker processes
  Schedules,    \* registered schedules, in registration order
  Due(_, _),    \* CronExpr.matches(schedule, minute)
  Orgs,         \* organisations requests come from
  Batch,        \* batch_size of a drain
  Retention,    \* minutes a slot is kept before the prune deletes it
  MaxRows,      \* bound: outbox rows
  MaxRequests,  \* bound: tasks enqueued by requests
  MaxTime,      \* bound: minutes
  MaxCrash,     \* bound: worker processes killed
  MaxStop,      \* bound: SIGTERMs
  MaxAbandon,   \* bound: bodies that outlive the grace window
  MaxRollback,  \* bound: drain or tick transactions that fail
  MaxPushFail,  \* bound: pushes that Redis refuses
  MaxPoison     \* bound: rows whose task no worker has registered

ASSUME OutboxAssumption ==
  /\ IsFiniteSet(Workers) /\ Batch \in Nat \ {0} /\ Retention \in Nat \ {0}
  /\ MaxRows \in Nat /\ MaxRequests \in Nat /\ MaxTime \in Nat \ {0} /\ MaxCrash \in Nat /\ MaxStop \in Nat
  /\ MaxAbandon \in Nat /\ MaxRollback \in Nat /\ MaxPushFail \in Nat /\ MaxPoison \in Nat
  /\ "none" \notin Orgs /\ DOMAIN Schedules = 1..Len(Schedules) /\ IsInjective(Schedules)

VARIABLES
  rows,     \* outbox_entries, oldest first
  ledger,   \* scheduled_runs
  clock,    \* the minute, floored
  drain,    \* drain[w]: the open transaction of the drain loop
  tick,     \* tick[w]: the open transaction of the scheduler loop
  redis,    \* the broker's list, as outbox row ids
  body,     \* body[w]: the body in flight and the org context it runs in
  popped,   \* rows some receiver took out of Redis
  ran,      \* rows whose body ran to its end
  phase,    \* phase[w]: where the process is between boot and exit
  used      \* how much of each environment bound is used up

vars == <<rows, ledger, clock, drain, tick, redis, body, popped, ran, phase, used>>

-----------------------------------------------------------------------------
Ids     == 1..MaxRows
Tenants == Orgs \cup {"none"}
NoSlot  == <<>>
Slots   == Range(Schedules) \X (1..MaxTime)

\* root: the org of the request at the start of the chain (not a column).
RowType   == [org : Tenants, root : Tenants, good : BOOLEAN, dispatched : BOOLEAN, slot : Slots \cup {NoSlot}]
DrainType == [todo : SUBSET Ids, locked : SUBSET Ids, stamped : SUBSET Ids]
TickType  == [slot : 0..MaxTime, todo : SUBSET DOMAIN Schedules, won : Seq(Range(Schedules))]
BodyType  == [row : 0..MaxRows, org : Tenants]
Phases    == {"up", "draining", "consuming", "down"}
Faults    == {"crash", "stop", "abandon", "rollback", "pushfail", "poison", "request"}

NoDrain == [todo |-> {}, locked |-> {}, stamped |-> {}]
NoTick  == [slot |-> 0, todo |-> {}, won |-> <<>>]
NoBody  == [row |-> 0, org |-> "none"]

TypeOK ==
  /\ rows \in Seq(RowType) /\ Len(rows) <= MaxRows
  /\ ledger \subseteq Slots /\ clock \in 1..MaxTime
  /\ drain \in [Workers -> DrainType] /\ tick \in [Workers -> TickType]
  /\ redis \in Seq(Ids) /\ body \in [Workers -> BodyType] /\ popped \subseteq Ids /\ ran \subseteq popped
  /\ phase \in [Workers -> Phases] /\ used \in [Faults -> Nat]

Init ==
  /\ rows = <<>> /\ ledger = {} /\ clock = 1 /\ redis = <<>> /\ popped = {} /\ ran = {}
  /\ drain = [w \in Workers |-> NoDrain] /\ tick = [w \in Workers |-> NoTick]
  /\ body = [w \in Workers |-> NoBody] /\ phase = [w \in Workers |-> "up"]
  /\ used = [k \in Faults |-> 0]

Use(k, n) == used[k] < n /\ used' = [used EXCEPT ![k] = @ + 1]

-----------------------------------------------------------------------------
(* Enqueue: a row in the caller's transaction.                              *)

NewRow_DropsOrg(org, root, good, slot) ==
  [org |-> "none", root |-> root, good |-> good, dispatched |-> FALSE, slot |-> slot]

\* enqueue: the metadata's org is the caller's org context.
NewRow(org, root, good, slot) ==
  [org |-> org, root |-> root, good |-> good, dispatched |-> FALSE, slot |-> slot]

\* A request, or a boot path outside any org, commits with one task.
Enqueue(o, good) ==
  /\ Len(rows) < MaxRows
  /\ rows' = Append(rows, NewRow(o, o, good, NoSlot))
  /\ IF good THEN Use("request", MaxRequests) ELSE Use("poison", MaxPoison)
  /\ UNCHANGED <<ledger, clock, drain, tick, redis, body, popped, ran, phase>>

-----------------------------------------------------------------------------
(* The drain.                                                               *)

Undispatched == {r \in DOMAIN rows : ~rows[r].dispatched}
Locked       == UNION {drain[w].locked : w \in Workers}

\* ORDER BY created_at LIMIT n: the ids with fewer than n others before them.
Oldest(S, n) == {r \in S : Cardinality({q \in S : q < r}) < n}

SelectBatch_LimitOffByOne == Oldest(Undispatched \ Locked, Batch - 1)

\* The oldest undispatched rows that no other drain has locked.
SelectBatch == Oldest(Undispatched \ Locked, Batch)

DrainBegins(w) ==
  /\ phase[w] = "up" /\ drain[w] = NoDrain /\ SelectBatch # {}
  /\ drain' = [drain EXCEPT ![w] = [todo |-> SelectBatch, locked |-> SelectBatch, stamped |-> {}]]
  /\ UNCHANGED <<rows, ledger, clock, tick, redis, body, popped, ran, phase, used>>

DrainDispatch_StampsAnyway(w, accepted) ==
  /\ \E r \in Oldest(drain[w].todo, 1) :
       /\ IF rows[r].good /\ accepted
          THEN redis' = Append(redis, r) /\ used' = used
          ELSE redis' = redis /\ IF accepted THEN used' = used ELSE Use("pushfail", MaxPushFail)
       /\ drain' = [drain EXCEPT ![w].todo = @ \ {r}, ![w].stamped = @ \cup {r}]
  /\ UNCHANGED <<rows, ledger, clock, tick, body, popped, ran, phase>>

\* The next row of the batch: pushed and stamped, or left pending when its task is
\* not registered or Redis refuses it.  The stamp is part of the transaction.
DrainDispatch(w, accepted) ==
  /\ \E r \in Oldest(drain[w].todo, 1) :
       IF rows[r].good /\ accepted
       THEN /\ redis' = Append(redis, r) /\ used' = used
            /\ drain' = [drain EXCEPT ![w].todo = @ \ {r}, ![w].stamped = @ \cup {r}]
       ELSE /\ redis' = redis /\ drain' = [drain EXCEPT ![w].todo = @ \ {r}]
            /\ IF accepted THEN used' = used ELSE Use("pushfail", MaxPushFail)
  /\ UNCHANGED <<rows, ledger, clock, tick, body, popped, ran, phase>>

DrainCommits(w) ==
  /\ drain[w] # NoDrain /\ drain[w].todo = {}
  /\ rows' = [r \in DOMAIN rows |-> IF r \in drain[w].stamped THEN [rows[r] EXCEPT !.dispatched = TRUE] ELSE rows[r]]
  /\ drain' = [drain EXCEPT ![w] = NoDrain]
  /\ UNCHANGED <<ledger, clock, tick, redis, body, popped, ran, phase, used>>

\* loop_crashed: the stamps are rolled back, the pushes are not.
DrainFails(w) ==
  /\ drain[w] # NoDrain /\ Use("rollback", MaxRollback)
  /\ drain' = [drain EXCEPT ![w] = NoDrain]
  /\ UNCHANGED <<rows, ledger, clock, tick, redis, body, popped, ran, phase>>

-----------------------------------------------------------------------------
(* The scheduler.                                                           *)

DueNow == {i \in DOMAIN Schedules : Due(Schedules[i], clock)}

\* Ticks that find every slot of this minute claimed are left out.
TickBegins(w) ==
  /\ phase[w] \in {"up", "draining"} /\ tick[w] = NoTick
  /\ \E i \in DueNow : <<Schedules[i], clock>> \notin ledger
  /\ tick' = [tick EXCEPT ![w] = [slot |-> clock, todo |-> DueNow, won |-> <<>>]]
  /\ UNCHANGED <<rows, ledger, clock, drain, redis, body, popped, ran, phase, used>>

\* INSERT ... ON CONFLICT DO NOTHING waits for another transaction's insert of
\* the same key, and inserts only if that one rolled back.
TryClaim(w, s) == <<s, tick[w].slot>> \notin ledger

Contended_Never(w, s) == FALSE

Contended(w, s) == \E v \in Workers \ {w} : tick[v].slot = tick[w].slot /\ s \in Range(tick[v].won)

\* The next due schedule, in registration order.
TickClaims(w) ==
  /\ \E i \in Oldest(tick[w].todo, 1) :
       /\ ~Contended(w, Schedules[i])
       /\ tick' = [tick EXCEPT ![w].todo = @ \ {i},
                               ![w].won = IF TryClaim(w, Schedules[i]) THEN Append(@, Schedules[i]) ELSE @]
  /\ UNCHANGED <<rows, ledger, clock, drain, redis, body, popped, ran, phase, used>>

SlotRows(w) == [i \in DOMAIN tick[w].won |-> NewRow("none", "none", TRUE, <<tick[w].won[i], tick[w].slot>>)]

\* Claims and outbox rows commit together.
TickCommits(w) ==
  /\ tick[w].slot # 0 /\ tick[w].todo = {} /\ Len(rows) + Len(tick[w].won) <= MaxRows
  /\ ledger' = ledger \cup {<<s, tick[w].slot>> : s \in Range(tick[w].won)}
  /\ rows' = rows \o SlotRows(w)
  /\ tick' = [tick EXCEPT ![w] = NoTick]
  /\ UNCHANGED <<clock, drain, redis, body, popped, ran, phase, used>>

\* tick_failed: an enqueue or the commit raised; the next tick is later.
TickFails(w) ==
  /\ tick[w].slot # 0 /\ Use("rollback", MaxRollback)
  /\ tick' = [tick EXCEPT ![w] = NoTick]
  /\ UNCHANGED <<rows, ledger, clock, drain, redis, body, popped, ran, phase>>

\* A tick is over long before its slot is pruned.
ClockTicks ==
  /\ clock < MaxTime
  /\ \A w \in Workers : tick[w].slot # 0 => clock < tick[w].slot + Retention
  /\ clock' = clock + 1
  /\ UNCHANGED <<rows, ledger, drain, tick, redis, body, popped, ran, phase, used>>

PruneScheduledRuns ==
  /\ \E k \in ledger : k[2] + Retention < clock
  /\ ledger' = {k \in ledger : k[2] + Retention >= clock}
  /\ UNCHANGED <<rows, clock, drain, tick, redis, body, popped, ran, phase, used>>

-----------------------------------------------------------------------------
(* Receivers.  BRPOP takes the message out of Redis for good.               *)

Receive(w) ==
  /\ phase[w] \in {"up", "draining"} /\ body[w].row = 0 /\ redis # <<>>
  /\ LET r == Head(redis) IN
       /\ body' = [body EXCEPT ![w] = [row |-> r, org |-> rows[r].org]]
       /\ popped' = popped \cup {r}
  /\ redis' = Tail(redis)
  /\ UNCHANGED <<rows, ledger, clock, drain, tick, ran, phase, used>>

BodyEnds_NoGuard(w) ==
  /\ ran' = ran \cup {body[w].row}
  /\ body' = [body EXCEPT ![w] = NoBody]
  /\ UNCHANGED <<rows, ledger, clock, drain, tick, redis, popped, phase, used>>

\* The body returns or raises; the middleware leaves the org context.
BodyEnds(w) ==
  /\ body[w].row # 0
  /\ ran' = ran \cup {body[w].row}
  /\ body' = [body EXCEPT ![w] = NoBody]
  /\ UNCHANGED <<rows, ledger, clock, drain, tick, redis, popped, phase, used>>

\* ... after committing a follow-up task in its own org context.
BodyEnqueues(w) ==
  /\ body[w].row # 0 /\ Len(rows) < MaxRows
  /\ rows' = Append(rows, NewRow(body[w].org, rows[body[w].row].root, TRUE, NoSlot))
  /\ ran' = ran \cup {body[w].row}
  /\ body' = [body EXCEPT ![w] = NoBody]
  /\ UNCHANGED <<ledger, clock, drain, tick, redis, popped, phase, used>>

-----------------------------------------------------------------------------
(* The process.                                                             *)

Sigterm(w) ==
  /\ phase[w] = "up" /\ Use("stop", MaxStop)
  /\ phase' = [phase EXCEPT ![w] = "draining"]
  /\ UNCHANGED <<rows, ledger, clock, drain, tick, redis, body, popped, ran>>

\* The drain has finished its batch; the tick is cancelled and rolled back; the
\* receiver stops popping.
ConsumeStops(w) ==
  /\ phase[w] = "draining" /\ drain[w] = NoDrain
  /\ tick' = [tick EXCEPT ![w] = NoTick]
  /\ phase' = [phase EXCEPT ![w] = "consuming"]
  /\ UNCHANGED <<rows, ledger, clock, drain, redis, body, popped, ran, used>>

\* In-flight bodies have the grace window to finish; after it they are abandoned.
Exit(w, abandons) ==
  /\ phase[w] = "consuming"
  /\ IF abandons THEN body[w].row # 0 /\ Use("abandon", MaxAbandon) ELSE body[w].row = 0 /\ used' = used
  /\ body' = [body EXCEPT ![w] = NoBody]
  /\ phase' = [phase EXCEPT ![w] = "down"]
  /\ UNCHANGED <<rows, ledger, clock, drain, tick, redis, popped, ran>>

Crash(w) ==
  /\ phase[w] # "down" /\ Use("crash", MaxCrash)
  /\ phase' = [phase EXCEPT ![w] = "down"]
  /\ drain' = [drain EXCEPT ![w] = NoDrain] /\ tick' = [tick EXCEPT ![w] = NoTick]
  /\ body' = [body EXCEPT ![w] = NoBody]
  /\ UNCHANGED <<rows, ledger, clock, redis, popped, ran>>

Boot(w) ==
  /\ phase[w] = "down"
  /\ phase' = [phase EXCEPT ![w] = "up"]
  /\ UNCHANGED <<rows, ledger, clock, drain, tick, redis, body, popped, ran, used>>

-----------------------------------------------------------------------------
DrainStep(w)   == DrainBegins(w) \/ DrainDispatch(w, TRUE) \/ DrainCommits(w)
TickStep(w)    == TickBegins(w) \/ TickClaims(w) \/ TickCommits(w)
ReceiveStep(w) == Receive(w) \/ BodyEnds(w)
ProcessStep(w) == ConsumeStops(w) \/ Exit(w, FALSE) \/ Boot(w)
FaultStep(w)   == \/ DrainDispatch(w, FALSE) \/ DrainFails(w) \/ TickFails(w)
                  \/ Sigterm(w) \/ Exit(w, TRUE)

\* What happens inside a minute, as long as no worker is killed.
MinuteNext ==
  \/ \E o \in Tenants, good \in BOOLEAN : Enqueue(o, good)
  \/ \E w \in Workers : \/ DrainStep(w) \/ TickStep(w) \/ ReceiveStep(w) \/ BodyEnqueues(w)
                        \/ ProcessStep(w) \/ FaultStep(w)

Next ==
  \/ MinuteNext
  \/ \E w \in Workers : Crash(w)
  \/ ClockTicks \/ PruneScheduledRuns

Spec == Init /\ [][Next]_vars

\* The loops of a running process keep polling; a process that is down is restarted.
Fairness == \A w \in Workers : /\ WF_vars(DrainStep(w)) /\ WF_vars(TickStep(w))
                               /\ WF_vars(ReceiveStep(w)) /\ WF_vars(ProcessStep(w))

\* A worker that is killed takes the task it popped with it, so that liveness is
\* promised while none is; a minute that ends only adds rows.
FairSpec == Init /\ [][MinuteNext]_vars /\ Fairness

-----------------------------------------------------------------------------
(* Properties.                                                              *)

\* What the callers of enqueue see: rows of registered tasks, and bodies run.
Committed == {r \in DOMAIN rows : rows[r].good}
Promise == INSTANCE TaskQueue WITH jobs <- Committed, ran <- ran

\* No body runs for a row nobody committed, and no committed row is forgotten: every
\* step is one of the abstract queue's or leaves it alone, whatever crashes or rolls
\* back (drain_once, the receiver).
QueueStep == Promise!QNext \/ (Committed' = Committed /\ ran' = ran)
OnlyCommittedRuns == Promise!QSafety

\* Every committed task runs in the end, through rollbacks, refused pushes,
\* rows no worker can dispatch and workers that are told to stop.
EveryTaskRuns == Promise!QSpec

\* One slot of one schedule is enqueued at most once, and a claimed slot is
\* enqueued: however many workers tick, fail, are cancelled or prune.
SlotEnqueuedOnce ==
  /\ \A i, j \in DOMAIN rows : rows[i].slot # NoSlot /\ rows[i].slot = rows[j].slot => i = j
  /\ \A k \in ledger : \E i \in DOMAIN rows : rows[i].slot = k

\* A task runs in the org of the request that started its chain.
ChainKeepsOrg ==
  \A w \in Workers : body[w].row # 0 => body[w].org = rows[body[w].row].root

\* Without crashes and rollbacks no row is pushed twice, though every worker drains.
PushedOnce ==
  /\ \A i, j \in DOMAIN redis : redis[i] = redis[j] => i = j
  /\ \A i \in DOMAIN redis : redis[i] \notin popped

\* A stamped row was pushed: it is in Redis, popped, or was lost after being popped.
StampedWasPushed == \A r \in DOMAIN rows : rows[r].dispatched => r \in Range(redis) \/ r \in popped

\* "the claim row stays so a retry on the same slot does NOT re-enqueue": a slot
\* whose enqueue failed after the claim was won is not enqueued by a later tick.
FailedClaimStays ==
  [][\A w \in Workers : tick[w].slot # 0 /\ tick'[w] = NoTick
       => \A s \in Range(tick[w].won) : <<s, tick[w].slot>> \in ledger']_vars
=============================================================================
