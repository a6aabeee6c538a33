---------------------------- MODULE OutboxProof ----------------------------
(***************************************************************************)
(* Safety of the outbox for any number of workers, schedules, rows and     *)
(* faults, and the refinement of the abstract queue TaskQueue.             *)
(*                                                                         *)
(* The drain and the scheduler meet only in the rows, so the invariant has *)
(* two halves: where a pushed row is (DrainInv), and why a slot has one    *)
(* row (TickInv).                                                          *)
(***************************************************************************)
EXTENDS Outbox, TLAPS

Pushed == Range(redis) \cup popped

\* Only committed rows of registered tasks are pushed, a stamp of an open drain
\* is that of a pushed row, and a body runs a popped row in the org of the row.
DrainInv ==
  /\ Pushed \subseteq Committed
  /\ \A w \in Workers : /\ drain[w].locked \subseteq DOMAIN rows
                        /\ drain[w].todo \subseteq drain[w].locked
                        /\ drain[w].stamped \subseteq Pushed
  /\ \A w \in Workers : body[w].row # 0 =>
       body[w].row \in popped /\ body[w].org = rows[body[w].row].org
  /\ \A r \in DOMAIN rows : rows[r].org = rows[r].root

\* An open tick is not older than the retention, has won what nobody has
\* claimed, and a slot that has a row is claimed or too old for any tick.
TickInv ==
  /\ \A w \in Workers :
       /\ tick[w].slot = 0 => tick[w] = NoTick
       /\ tick[w].slot # 0 => tick[w].slot <= clock /\ clock <= tick[w].slot + Retention
       /\ \A i \in tick[w].todo : Schedules[i] \notin Range(tick[w].won)
       /\ IsInjective(tick[w].won)
       /\ \A s \in Range(tick[w].won) : <<s, tick[w].slot>> \notin ledger
  /\ \A v, w \in Workers : v # w /\ tick[v].slot = tick[w].slot
       => Range(tick[v].won) \cap Range(tick[w].won) = {}
  /\ \A r \in DOMAIN rows : rows[r].slot # NoSlot
       => rows[r].slot \in ledger \/ rows[r].slot[2] + Retention < clock

IInv == TypeOK /\ StampedWasPushed /\ DrainInv /\ SlotEnqueuedOnce /\ TickInv

-----------------------------------------------------------------------------
(* Sequences and the batches taken from them.                               *)

\* Append adds one element to what a sequence holds (a push, a claim won).
LEMMA RangeAppend ==
  ASSUME NEW S, NEW s \in Seq(S), NEW e \in S
  PROVE  /\ Append(s, e) \in Seq(S)
         /\ Range(Append(s, e)) = Range(s) \cup {e}
<1>1. /\ Append(s, e) \in Seq(S) /\ DOMAIN Append(s, e) = 1..(Len(s) + 1)
      /\ \A i \in 1..Len(s) : Append(s, e)[i] = s[i]
      /\ Append(s, e)[Len(s) + 1] = e
      /\ DOMAIN s = 1..Len(s) /\ Len(s) \in Nat
  OBVIOUS
<1>2. ASSUME NEW x \in Range(Append(s, e)) PROVE x \in Range(s) \cup {e}
  BY <1>1 DEF Range
<1>3. ASSUME NEW x \in Range(s) \cup {e} PROVE x \in Range(Append(s, e))
  <2>1. 1..Len(s) \subseteq 1..(Len(s) + 1) /\ Len(s) + 1 \in 1..(Len(s) + 1)
    BY <1>1
  <2>2. QED
    BY <1>1, <2>1 DEF Range
<1>4. QED
  BY <1>1, <1>2, <1>3

\* BRPOP takes one element, and leaves the others (Receive).
LEMMA RangeTail ==
  ASSUME NEW S, NEW s \in Seq(S), s # <<>>
  PROVE  /\ Head(s) \in S /\ Tail(s) \in Seq(S)
         /\ Range(s) = {Head(s)} \cup Range(Tail(s))
<1>1. /\ Head(s) \in S /\ Tail(s) \in Seq(S) /\ Head(s) = s[1]
      /\ Len(s) \in Nat \ {0} /\ DOMAIN s = 1..Len(s)
      /\ DOMAIN Tail(s) = 1..(Len(s) - 1)
      /\ \A i \in 1..(Len(s) - 1) : Tail(s)[i] = s[i + 1]
  OBVIOUS
<1>2. ASSUME NEW x \in Range(s) PROVE x \in {Head(s)} \cup Range(Tail(s))
  <2>1. PICK i \in 1..Len(s) : x = s[i]
    BY <1>1 DEF Range
  <2>2. CASE i = 1
    BY <1>1, <2>1, <2>2
  <2>3. CASE i # 1
    <3>1. i - 1 \in 1..(Len(s) - 1) /\ Tail(s)[i - 1] = s[i]
      BY <1>1, <2>3
    <3>2. QED
      BY <1>1, <2>1, <3>1 DEF Range
  <2>4. QED
    BY <2>2, <2>3
<1>3. ASSUME NEW x \in {Head(s)} \cup Range(Tail(s)) PROVE x \in Range(s)
  <2>1. 1 \in 1..Len(s) /\ \A i \in 1..(Len(s) - 1) : i + 1 \in 1..Len(s)
    BY <1>1
  <2>2. QED
    BY <1>1, <2>1 DEF Range
<1>4. QED
  BY <1>1, <1>2, <1>3

\* A batch is taken from the set it is selected from.
LEMMA OldestWithin ==
  ASSUME NEW S, NEW n
  PROVE  Oldest(S, n) \subseteq S
BY DEF Oldest

\* No schedule's slot is the absence of a slot.
LEMMA SlotIsPair ==
  ASSUME NEW k \in Slots
  PROVE  /\ k # NoSlot /\ k = <<k[1], k[2]>>
         /\ k[1] \in Range(Schedules) /\ k[2] \in 1..MaxTime
<1>1. k = <<k[1], k[2]>> /\ k[1] \in Range(Schedules) /\ k[2] \in 1..MaxTime
  BY DEF Slots
<1>2. <<k[1], k[2]>> # <<>>
  OBVIOUS
<1>3. QED
  BY <1>1, <1>2 DEF NoSlot

-----------------------------------------------------------------------------
(* The drain's half: where a pushed row is.                                 *)

\* Rows are only added, each with the org of its chain and not yet dispatched.
RowsGrow ==
  /\ rows' \in Seq(RowType) /\ Len(rows') <= MaxRows
  /\ DOMAIN rows \subseteq DOMAIN rows'
  /\ \A r \in DOMAIN rows : rows'[r] = rows[r]
  /\ \A r \in DOMAIN rows' \ DOMAIN rows : rows'[r].org = rows'[r].root /\ ~rows'[r].dispatched

\* A transaction that adds rows, or ends a drain or a body, moves no message
\* (enqueue, tick_once, loop_crashed, the end of a body or of a process).
LEMMA DrainFrame ==
  ASSUME TypeOK, StampedWasPushed, DrainInv, RowsGrow,
         redis' = redis, popped' = popped,
         \A w \in Workers : drain'[w] = drain[w] \/ drain'[w] = NoDrain,
         \A w \in Workers : body'[w] = body[w] \/ body'[w] = NoBody
  PROVE  DrainInv' /\ StampedWasPushed'
<1> USE DEF RowsGrow
<1>1. Pushed' = Pushed /\ Committed \subseteq Committed'
  BY DEF Pushed, Committed
<1>2. \A w \in Workers : /\ drain'[w].locked \subseteq DOMAIN rows'
                         /\ drain'[w].todo \subseteq drain'[w].locked
                         /\ drain'[w].stamped \subseteq Pushed'
  BY <1>1 DEF DrainInv, NoDrain
<1>3. \A w \in Workers : body'[w].row # 0 =>
        body'[w].row \in popped' /\ body'[w].org = rows'[body'[w].row].org
  <2> SUFFICES ASSUME NEW w \in Workers, body'[w].row # 0
               PROVE  body'[w].row \in popped' /\ body'[w].org = rows'[body'[w].row].org
    OBVIOUS
  <2>1. body'[w] = body[w]
    BY DEF NoBody
  <2>2. body[w].row \in DOMAIN rows
    BY <2>1 DEF DrainInv, Pushed, Committed
  <2>3. QED
    BY <2>1, <2>2 DEF DrainInv
<1>4. \A r \in DOMAIN rows' : rows'[r].org = rows'[r].root
  BY DEF DrainInv
<1>5. StampedWasPushed'
  BY DEF StampedWasPushed
<1>6. QED
  BY <1>1, <1>2, <1>3, <1>4, <1>5 DEF DrainInv

\* A drain starts with rows nobody has locked.
LEMMA DrainBeginsKeeps ==
  ASSUME TypeOK, StampedWasPushed, DrainInv, NEW w \in Workers, DrainBegins(w)
  PROVE  DrainInv' /\ StampedWasPushed'
<1>1. SelectBatch \subseteq DOMAIN rows
  BY OldestWithin DEF SelectBatch, Undispatched
<1>2. /\ drain'[w] = [todo |-> SelectBatch, locked |-> SelectBatch, stamped |-> {}]
      /\ \A v \in Workers \ {w} : drain'[v] = drain[v]
  BY DEF DrainBegins, TypeOK
<1>3. Pushed' = Pushed /\ Committed' = Committed
  BY DEF DrainBegins, Pushed, Committed
<1>4. \A v \in Workers : /\ drain'[v].locked \subseteq DOMAIN rows'
                         /\ drain'[v].todo \subseteq drain'[v].locked
                         /\ drain'[v].stamped \subseteq Pushed'
  BY <1>1, <1>2, <1>3 DEF DrainInv, DrainBegins
<1>5. QED
  BY <1>3, <1>4 DEF DrainBegins, DrainInv, StampedWasPushed

\* A row is stamped in the step that pushes it (drain_once).
LEMMA DrainDispatchKeeps ==
  ASSUME TypeOK, StampedWasPushed, DrainInv, NEW w \in Workers, NEW accepted, DrainDispatch(w, accepted)
  PROVE  DrainInv' /\ StampedWasPushed' /\ redis' \in Seq(Ids)
<1> USE DEF DrainDispatch
<1>1. PICK r \in Oldest(drain[w].todo, 1) :
        IF rows[r].good /\ accepted
        THEN /\ redis' = Append(redis, r) /\ used' = used
             /\ drain' = [drain EXCEPT ![w].todo = @ \ {r}, ![w].stamped = @ \cup {r}]
        ELSE /\ redis' = redis /\ drain' = [drain EXCEPT ![w].todo = @ \ {r}]
             /\ IF accepted THEN used' = used ELSE Use("pushfail", MaxPushFail)
  OBVIOUS
<1>2. r \in drain[w].todo /\ r \in DOMAIN rows /\ r \in Ids
  BY OldestWithin DEF DrainInv, TypeOK, DrainType
<1>3. rows' = rows /\ popped' = popped /\ body' = body
  OBVIOUS
<1>4. CASE rows[r].good /\ accepted
  <2>1. redis' \in Seq(Ids) /\ Range(redis') = Range(redis) \cup {r}
    <3>1. redis' = Append(redis, r) /\ redis \in Seq(Ids)
      BY <1>1, <1>4 DEF TypeOK
    <3>2. QED
      BY <1>2, <3>1, RangeAppend
  <2>2. Pushed' = Pushed \cup {r} /\ Committed' = Committed /\ r \in Committed
    BY <1>2, <1>3, <1>4, <2>1 DEF Pushed, Committed
  <2>3. /\ drain'[w].todo = drain[w].todo \ {r} /\ drain'[w].stamped = drain[w].stamped \cup {r}
        /\ drain'[w].locked = drain[w].locked
        /\ \A v \in Workers \ {w} : drain'[v] = drain[v]
    BY <1>1, <1>4 DEF TypeOK, DrainType
  <2>4. \A v \in Workers : /\ drain'[v].locked \subseteq DOMAIN rows'
                           /\ drain'[v].todo \subseteq drain'[v].locked
                           /\ drain'[v].stamped \subseteq Pushed'
    BY <1>3, <2>2, <2>3 DEF DrainInv
  <2>5. StampedWasPushed'
    BY <1>3, <2>1 DEF StampedWasPushed
  <2>6. QED
    BY <1>3, <2>1, <2>2, <2>4, <2>5 DEF DrainInv
<1>5. CASE ~(rows[r].good /\ accepted)
  <2>1. /\ redis' = redis /\ drain'[w].todo = drain[w].todo \ {r}
        /\ drain'[w].locked = drain[w].locked /\ drain'[w].stamped = drain[w].stamped
        /\ \A v \in Workers \ {w} : drain'[v] = drain[v]
    BY <1>1, <1>5 DEF TypeOK, DrainType
  <2>2. Pushed' = Pushed /\ Committed' = Committed
    BY <1>3, <2>1 DEF Pushed, Committed
  <2>3. \A v \in Workers : /\ drain'[v].locked \subseteq DOMAIN rows'
                           /\ drain'[v].todo \subseteq drain'[v].locked
                           /\ drain'[v].stamped \subseteq Pushed'
    BY <1>3, <2>1, <2>2 DEF DrainInv
  <2>4. QED
    BY <1>3, <2>1, <2>2, <2>3 DEF DrainInv, StampedWasPushed, TypeOK
<1>6. QED
  BY <1>4, <1>5

\* The commit stamps what this drain has pushed.
LEMMA DrainCommitsKeeps ==
  ASSUME TypeOK, StampedWasPushed, DrainInv, NEW w \in Workers, DrainCommits(w)
  PROVE  /\ rows' \in Seq(RowType) /\ Len(rows') = Len(rows)
         /\ DrainInv' /\ StampedWasPushed'
<1> DEFINE Stamp(r) == IF r \in drain[w].stamped THEN [rows[r] EXCEPT !.dispatched = TRUE] ELSE rows[r]
<1>1. rows' = [r \in 1..Len(rows) |-> Stamp(r)] /\ DOMAIN rows = 1..Len(rows) /\ Len(rows) \in Nat
  BY DEF DrainCommits, TypeOK
<1>2. \A r \in DOMAIN rows : rows[r] \in RowType
  BY DEF TypeOK
<1>3. \A r \in 1..Len(rows) : Stamp(r) \in RowType
  BY <1>1, <1>2 DEF RowType
<1>4. rows' \in Seq(RowType) /\ Len(rows') = Len(rows) /\ DOMAIN rows' = DOMAIN rows
  BY <1>1, <1>3
<1>5. \A r \in DOMAIN rows : /\ rows'[r].org = rows[r].org /\ rows'[r].root = rows[r].root
                             /\ rows'[r].good = rows[r].good
                             /\ rows'[r].dispatched => rows[r].dispatched \/ r \in drain[w].stamped
  BY <1>1, <1>2 DEF RowType
<1>6. Pushed' = Pushed /\ Committed' = Committed
  BY <1>4, <1>5 DEF DrainCommits, Pushed, Committed
<1>7. drain'[w] = NoDrain /\ \A v \in Workers \ {w} : drain'[v] = drain[v]
  BY DEF DrainCommits, TypeOK
<1>8. \A v \in Workers : /\ drain'[v].locked \subseteq DOMAIN rows'
                         /\ drain'[v].todo \subseteq drain'[v].locked
                         /\ drain'[v].stamped \subseteq Pushed'
  BY <1>4, <1>6, <1>7 DEF DrainInv, NoDrain
<1>9. \A v \in Workers : body'[v].row # 0 =>
        body'[v].row \in popped' /\ body'[v].org = rows'[body'[v].row].org
  <2>1. \A v \in Workers : body[v].row # 0 => body[v].row \in DOMAIN rows
    BY DEF DrainInv, Pushed, Committed
  <2>2. QED
    BY <1>5, <2>1 DEF DrainInv, DrainCommits
<1>10. StampedWasPushed'
  BY <1>4, <1>5 DEF StampedWasPushed, DrainInv, Pushed, DrainCommits
<1>11. QED
  BY <1>4, <1>5, <1>6, <1>8, <1>9, <1>10 DEF DrainInv

\* A popped message is a pushed one, and its body runs in the org of the row.
LEMMA ReceiveKeeps ==
  ASSUME TypeOK, StampedWasPushed, DrainInv, NEW w \in Workers, Receive(w)
  PROVE  /\ redis' \in Seq(Ids) /\ popped' \subseteq Ids /\ popped \subseteq popped'
         /\ body' \in [Workers -> BodyType]
         /\ DrainInv' /\ StampedWasPushed'
<1> DEFINE r == Head(redis)
<1>1. r \in Ids /\ redis' \in Seq(Ids) /\ Range(redis) = {r} \cup Range(redis')
  BY RangeTail DEF Receive, TypeOK
<1>2. popped' = popped \cup {r} /\ Pushed' = Pushed
  BY <1>1 DEF Receive, Pushed
<1>3. r \in DOMAIN rows /\ rows' = rows /\ Committed' = Committed /\ drain' = drain
  BY <1>1 DEF Receive, Pushed, Committed, DrainInv
<1>4. body'[w] = [row |-> r, org |-> rows[r].org] /\ \A v \in Workers \ {w} : body'[v] = body[v]
  BY DEF Receive, TypeOK
<1>5. rows[r].org \in Tenants /\ r \in 0..MaxRows
  <2>1. rows[r] \in RowType
    BY <1>3 DEF TypeOK
  <2>2. QED
    BY <1>1, <2>1, OutboxAssumption DEF OutboxAssumption, RowType, Ids
<1>6. body' \in [Workers -> BodyType]
  BY <1>4, <1>5 DEF Receive, TypeOK, BodyType
<1>7. \A v \in Workers : body'[v].row # 0 =>
        body'[v].row \in popped' /\ body'[v].org = rows'[body'[v].row].org
  BY <1>2, <1>3, <1>4 DEF DrainInv
<1>8. StampedWasPushed'
  BY <1>1, <1>2, <1>3 DEF StampedWasPushed
<1>9. QED
  BY <1>1, <1>2, <1>3, <1>6, <1>7, <1>8 DEF DrainInv, TypeOK

-----------------------------------------------------------------------------
(* The scheduler's half: why a slot has one row.                            *)

\* Claiming one more schedule keeps what a tick has won free of repetitions.
LEMMA AppendInjective ==
  ASSUME NEW S, NEW s \in Seq(S), NEW e \in S, IsInjective(s), e \notin Range(s)
  PROVE  IsInjective(Append(s, e))
<1>1. /\ DOMAIN Append(s, e) = 1..(Len(s) + 1) /\ Append(s, e)[Len(s) + 1] = e
      /\ \A i \in 1..Len(s) : Append(s, e)[i] = s[i]
      /\ DOMAIN s = 1..Len(s) /\ Len(s) \in Nat
  OBVIOUS
<1>2. \A i \in 1..Len(s) : s[i] # e
  BY <1>1 DEF Range
<1>3. \A i \in 1..(Len(s) + 1) : i = Len(s) + 1 \/ i \in 1..Len(s)
  BY <1>1
<1>4. QED
  BY <1>1, <1>2, <1>3 DEF IsInjective

\* A row added outside a tick has no slot.
SlotsKept ==
  /\ DOMAIN rows \subseteq DOMAIN rows'
  /\ \A r \in DOMAIN rows : rows'[r].slot = rows[r].slot
  /\ \A r \in DOMAIN rows' \ DOMAIN rows : rows'[r].slot = NoSlot

\* A step that adds rows without a slot, or ends ticks without a commit
\* (tick_failed, the cancellation at shutdown, a crash), keeps the slots.
LEMMA TickFrame ==
  ASSUME TypeOK, SlotEnqueuedOnce, TickInv, SlotsKept,
         ledger' = ledger, clock' = clock,
         \A w \in Workers : tick'[w] = tick[w] \/ tick'[w] = NoTick
  PROVE  TickInv' /\ SlotEnqueuedOnce'
<1> USE DEF SlotsKept
<1>1. NoTick.slot = 0 /\ NoTick.todo = {} /\ NoTick.won = <<>> /\ Range(<<>>) = {} /\ IsInjective(<<>>)
  BY DEF NoTick, Range, IsInjective
<1>2. \A w \in Workers :
        /\ tick'[w].slot = 0 => tick'[w] = NoTick
        /\ tick'[w].slot # 0 => tick'[w].slot <= clock' /\ clock' <= tick'[w].slot + Retention
        /\ \A i \in tick'[w].todo : Schedules[i] \notin Range(tick'[w].won)
        /\ IsInjective(tick'[w].won)
        /\ \A s \in Range(tick'[w].won) : <<s, tick'[w].slot>> \notin ledger'
  BY <1>1 DEF TickInv
<1>3. \A v, w \in Workers : v # w /\ tick'[v].slot = tick'[w].slot
        => Range(tick'[v].won) \cap Range(tick'[w].won) = {}
  BY <1>1 DEF TickInv
<1>4. \A r \in DOMAIN rows' : rows'[r].slot # NoSlot
        => rows'[r].slot \in ledger' \/ rows'[r].slot[2] + Retention < clock'
  BY DEF TickInv
<1>5. SlotEnqueuedOnce'
  BY DEF SlotEnqueuedOnce
<1>6. QED
  BY <1>2, <1>3, <1>4, <1>5 DEF TickInv

\* A tick opens on the current minute with nothing won.
LEMMA TickBeginsKeeps ==
  ASSUME TypeOK, SlotEnqueuedOnce, TickInv, NEW w \in Workers, TickBegins(w)
  PROVE  /\ tick' \in [Workers -> TickType]
         /\ TickInv' /\ SlotEnqueuedOnce'
<1>1. /\ tick'[w] = [slot |-> clock, todo |-> DueNow, won |-> <<>>]
      /\ \A v \in Workers \ {w} : tick'[v] = tick[v]
      /\ rows' = rows /\ ledger' = ledger /\ clock' = clock
  BY DEF TickBegins, TypeOK
<1>2. clock \in 1..MaxTime /\ MaxTime \in Nat /\ Retention \in Nat
  BY OutboxAssumption DEF OutboxAssumption, TypeOK
<1>3. tick'[w] \in TickType
  BY <1>1, <1>2 DEF TickType, DueNow
<1>4. tick' \in [Workers -> TickType]
  BY <1>1, <1>3 DEF TickBegins, TypeOK
<1>5. Range(<<>>) = {} /\ IsInjective(<<>>)
  BY DEF Range, IsInjective
<1>6. /\ tick'[w].slot # 0 /\ tick'[w].slot <= clock /\ clock <= tick'[w].slot + Retention
      /\ Range(tick'[w].won) = {} /\ IsInjective(tick'[w].won)
  BY <1>1, <1>2, <1>5
<1>7. \A v \in Workers :
        /\ tick'[v].slot = 0 => tick'[v] = NoTick
        /\ tick'[v].slot # 0 => tick'[v].slot <= clock' /\ clock' <= tick'[v].slot + Retention
        /\ \A i \in tick'[v].todo : Schedules[i] \notin Range(tick'[v].won)
        /\ IsInjective(tick'[v].won)
        /\ \A s \in Range(tick'[v].won) : <<s, tick'[v].slot>> \notin ledger'
  <2> SUFFICES ASSUME NEW v \in Workers
               PROVE  /\ tick'[v].slot = 0 => tick'[v] = NoTick
                      /\ tick'[v].slot # 0 => tick'[v].slot <= clock' /\ clock' <= tick'[v].slot + Retention
                      /\ \A i \in tick'[v].todo : Schedules[i] \notin Range(tick'[v].won)
                      /\ IsInjective(tick'[v].won)
                      /\ \A s \in Range(tick'[v].won) : <<s, tick'[v].slot>> \notin ledger'
    OBVIOUS
  <2>1. CASE v = w
    BY <1>1, <1>6, <2>1
  <2>2. CASE v # w
    BY <1>1, <2>2 DEF TickInv
  <2>3. QED
    BY <2>1, <2>2
<1>8. \A u, v \in Workers : u # v /\ tick'[u].slot = tick'[v].slot
        => Range(tick'[u].won) \cap Range(tick'[v].won) = {}
  BY <1>1, <1>6 DEF TickInv
<1>9. QED
  BY <1>1, <1>4, <1>7, <1>8 DEF TickInv, SlotEnqueuedOnce

\* What is claimed was claimed by nobody: not in the table, and not by another
\* open transaction (INSERT ... ON CONFLICT DO NOTHING).
LEMMA TickClaimsKeeps ==
  ASSUME TypeOK, SlotEnqueuedOnce, TickInv, NEW w \in Workers, TickClaims(w)
  PROVE  /\ tick' \in [Workers -> TickType]
         /\ TickInv' /\ SlotEnqueuedOnce'
<1>1. PICK i \in Oldest(tick[w].todo, 1) :
        /\ ~Contended(w, Schedules[i])
        /\ tick' = [tick EXCEPT ![w].todo = @ \ {i},
                                ![w].won = IF TryClaim(w, Schedules[i]) THEN Append(@, Schedules[i]) ELSE @]
  BY DEF TickClaims
<1> DEFINE s == Schedules[i]
           won == IF TryClaim(w, s) THEN Append(tick[w].won, s) ELSE tick[w].won
<1>2. /\ tick[w] \in TickType /\ i \in tick[w].todo /\ i \in DOMAIN Schedules /\ s \in Range(Schedules)
      /\ tick[w].won \in Seq(Range(Schedules)) /\ s \notin Range(tick[w].won)
  BY OldestWithin DEF TypeOK, TickType, TickInv, Range
<1>3. /\ tick'[w] = [slot |-> tick[w].slot, todo |-> tick[w].todo \ {i}, won |-> won]
      /\ \A v \in Workers \ {w} : tick'[v] = tick[v]
      /\ rows' = rows /\ ledger' = ledger /\ clock' = clock
  BY <1>1, <1>2 DEF TickClaims, TypeOK, TickType
<1>4. /\ won \in Seq(Range(Schedules)) /\ IsInjective(won)
      /\ Range(won) \subseteq Range(tick[w].won) \cup {s}
      /\ s \in Range(won) => <<s, tick[w].slot>> \notin ledger
  <2>1. CASE TryClaim(w, s)
    <3>1. won = Append(tick[w].won, s) /\ IsInjective(tick[w].won)
      BY <2>1 DEF TickInv
    <3>2. won \in Seq(Range(Schedules)) /\ Range(won) = Range(tick[w].won) \cup {s}
      BY <1>2, <3>1, RangeAppend
    <3>3. IsInjective(won)
      BY <1>2, <3>1, AppendInjective
    <3>4. QED
      BY <2>1, <3>2, <3>3 DEF TryClaim
  <2>2. CASE ~TryClaim(w, s)
    BY <1>2, <2>2 DEF TickInv
  <2>3. QED
    BY <2>1, <2>2
<1>5. tick' \in [Workers -> TickType]
  <2>1. tick'[w] \in TickType
    BY <1>2, <1>3, <1>4 DEF TickType
  <2>2. QED
    BY <1>1, <2>1, <1>3 DEF TypeOK
<1>6. \A j \in tick[w].todo \ {i} : Schedules[j] \notin Range(won)
  <2>1. \A j \in tick[w].todo \ {i} : Schedules[j] # s /\ Schedules[j] \notin Range(tick[w].won)
    BY <1>2, OutboxAssumption DEF OutboxAssumption, IsInjective, TickInv, TickType
  <2>2. QED
    BY <1>4, <2>1
<1>7. tick[w].slot # 0
  BY <1>2 DEF TickInv, NoTick
<1>8. \A v \in Workers \ {w} : tick[v].slot = tick[w].slot => Range(tick[v].won) \cap Range(won) = {}
  <2>1. \A v \in Workers \ {w} : tick[v].slot = tick[w].slot => s \notin Range(tick[v].won)
    BY <1>1 DEF Contended
  <2>2. QED
    BY <1>4, <2>1 DEF TickInv
<1>9. \A q \in Range(won) : <<q, tick[w].slot>> \notin ledger
  BY <1>4 DEF TickInv
<1>10. TickInv'
  <2> HIDE DEF won, s
  <2>0. tick'[w].slot = tick[w].slot /\ tick'[w].todo = tick[w].todo \ {i} /\ tick'[w].won = won
    BY <1>3
  <2>1. \A v \in Workers :
          /\ tick'[v].slot = 0 => tick'[v] = NoTick
          /\ tick'[v].slot # 0 => tick'[v].slot <= clock' /\ clock' <= tick'[v].slot + Retention
          /\ \A j \in tick'[v].todo : Schedules[j] \notin Range(tick'[v].won)
          /\ IsInjective(tick'[v].won)
          /\ \A q \in Range(tick'[v].won) : <<q, tick'[v].slot>> \notin ledger'
    <3> SUFFICES ASSUME NEW v \in Workers
                 PROVE  /\ tick'[v].slot = 0 => tick'[v] = NoTick
                        /\ tick'[v].slot # 0 => tick'[v].slot <= clock' /\ clock' <= tick'[v].slot + Retention
                        /\ \A j \in tick'[v].todo : Schedules[j] \notin Range(tick'[v].won)
                        /\ IsInjective(tick'[v].won)
                        /\ \A q \in Range(tick'[v].won) : <<q, tick'[v].slot>> \notin ledger'
      OBVIOUS
    <3>1. CASE v = w
      BY <1>3, <1>4, <1>6, <1>7, <1>9, <2>0, <3>1 DEF TickInv
    <3>2. CASE v # w
      BY <1>3, <3>2 DEF TickInv
    <3>3. QED
      BY <3>1, <3>2
  <2>2. \A u, v \in Workers : u # v /\ tick'[u].slot = tick'[v].slot
          => Range(tick'[u].won) \cap Range(tick'[v].won) = {}
    BY <1>3, <1>8, <2>0 DEF TickInv
  <2>3. QED
    BY <1>3, <2>1, <2>2 DEF TickInv
<1>11. QED
  BY <1>3, <1>5, <1>10 DEF SlotEnqueuedOnce

\* The claims and the rows of a tick commit together, and none of its slots had
\* a row before (tick_once, scheduler_loop).
LEMMA TickCommitsKeeps ==
  ASSUME TypeOK, SlotEnqueuedOnce, TickInv, NEW w \in Workers, TickCommits(w)
  PROVE  /\ RowsGrow /\ ledger' \subseteq Slots /\ tick' \in [Workers -> TickType]
         /\ TickInv' /\ SlotEnqueuedOnce'
<1> DEFINE won == tick[w].won
           slot == tick[w].slot
           new == {<<s, slot>> : s \in Range(won)}
           n == Len(rows)
<1>1. /\ tick[w] \in TickType /\ won \in Seq(Range(Schedules)) /\ DOMAIN won = 1..Len(won) /\ Len(won) \in Nat
      /\ slot \in 1..MaxTime /\ rows \in Seq(RowType) /\ n \in Nat /\ DOMAIN rows = 1..n
      /\ MaxTime \in Nat /\ Retention \in Nat /\ clock \in Nat
  BY OutboxAssumption DEF OutboxAssumption, TickCommits, TypeOK, TickType
<1>2. /\ ledger' = ledger \cup new /\ clock' = clock
      /\ tick'[w] = NoTick /\ \A v \in Workers \ {w} : tick'[v] = tick[v]
  BY DEF TickCommits, TypeOK
<1>3. new \subseteq Slots
  <2>1. Range(won) \subseteq Range(Schedules)
    BY <1>1 DEF Range
  <2>2. QED
    BY <1>1, <2>1 DEF Slots
<1>4. /\ SlotRows(w) \in Seq(RowType) /\ Len(SlotRows(w)) = Len(won)
      /\ \A i \in 1..Len(won) : /\ SlotRows(w)[i].org = "none" /\ SlotRows(w)[i].root = "none"
                                /\ SlotRows(w)[i].dispatched = FALSE /\ SlotRows(w)[i].good = TRUE
                                /\ SlotRows(w)[i].slot = <<won[i], slot>>
  <2>1. SlotRows(w) = [i \in 1..Len(won) |->
          [org |-> "none", root |-> "none", good |-> TRUE, dispatched |-> FALSE, slot |-> <<won[i], slot>>]]
    BY <1>1 DEF SlotRows, NewRow
  <2>2. \A i \in 1..Len(won) : <<won[i], slot>> \in Slots
    BY <1>1, <1>3 DEF Range
  <2>3. \A i \in 1..Len(won) : SlotRows(w)[i] \in RowType
    BY <2>1, <2>2 DEF RowType, Tenants
  <2>4. DOMAIN SlotRows(w) = 1..Len(won)
    BY <2>1
  <2>5. SlotRows(w) \in Seq(RowType) /\ Len(SlotRows(w)) = Len(won)
    <3>1. SlotRows(w) \in [1..Len(won) -> RowType]
      BY <2>1, <2>3
    <3>2. QED
      BY <1>1, <3>1
  <2>6. QED
    BY <2>1, <2>5
<1>5. /\ rows' \in Seq(RowType) /\ Len(rows') = n + Len(won) /\ DOMAIN rows' = 1..(n + Len(won))
      /\ \A r \in 1..n : rows'[r] = rows[r]
      /\ \A i \in 1..Len(won) : rows'[n + i] = SlotRows(w)[i]
  <2>1. rows' = rows \o SlotRows(w)
    BY DEF TickCommits
  <2>2. QED
    BY <1>1, <1>4, <2>1
<1>6. \A r \in DOMAIN rows' : r \in 1..n \/ (r - n \in 1..Len(won) /\ r = n + (r - n))
  BY <1>1, <1>5
<1>7. \A r \in DOMAIN rows' \ DOMAIN rows :
        /\ r - n \in 1..Len(won) /\ rows'[r] = SlotRows(w)[r - n]
        /\ rows'[r].slot = <<won[r - n], slot>> /\ won[r - n] \in Range(won)
  BY <1>1, <1>4, <1>5, <1>6 DEF Range
<1>8. RowsGrow
  <2>1. Len(rows') <= MaxRows
    BY <1>5 DEF TickCommits
  <2>2. \A r \in DOMAIN rows' \ DOMAIN rows : rows'[r].org = rows'[r].root /\ ~rows'[r].dispatched
    BY <1>4, <1>7
  <2>3. DOMAIN rows \subseteq DOMAIN rows'
    BY <1>1, <1>5
  <2>4. QED
    BY <1>1, <1>5, <2>1, <2>2, <2>3 DEF RowsGrow
<1>9. ledger' \subseteq Slots /\ tick' \in [Workers -> TickType]
  <2>1. NoTick \in TickType
    BY <1>1 DEF NoTick, TickType
  <2>2. QED
    BY <1>2, <1>3, <2>1 DEF TickCommits, TypeOK
<1>10. \A k \in new : \A r \in DOMAIN rows : rows[r].slot # k
  <2> SUFFICES ASSUME NEW s \in Range(won), NEW r \in DOMAIN rows, rows[r].slot = <<s, slot>> PROVE FALSE
    OBVIOUS
  <2>1. rows[r].slot \in Slots /\ rows[r].slot[2] = slot /\ rows[r].slot # NoSlot
    BY <1>3, SlotIsPair
  <2>2. rows[r].slot \notin ledger
    BY DEF TickInv
  <2>3. slot + Retention < clock
    BY <2>1, <2>2 DEF TickInv
  <2>4. clock <= slot + Retention
    BY <1>1 DEF TickInv
  <2>5. QED
    BY <1>1, <2>3, <2>4
<1>11. SlotEnqueuedOnce'
  <2>1. \A i, j \in DOMAIN rows' : rows'[i].slot # NoSlot /\ rows'[i].slot = rows'[j].slot => i = j
    <3> SUFFICES ASSUME NEW i \in DOMAIN rows', NEW j \in DOMAIN rows',
                        rows'[i].slot # NoSlot, rows'[i].slot = rows'[j].slot
                 PROVE  i = j
      OBVIOUS
    <3>1. CASE i \in DOMAIN rows /\ j \in DOMAIN rows
      BY <1>1, <1>5, <3>1 DEF SlotEnqueuedOnce
    <3>2. CASE i \in DOMAIN rows /\ j \notin DOMAIN rows
      BY <1>1, <1>5, <1>7, <1>10, <3>2, ZenonT(60)
    <3>3. CASE i \notin DOMAIN rows /\ j \in DOMAIN rows
      <4>1. rows'[i].slot \in new
        BY <1>7, <3>3
      <4>2. rows'[j].slot = rows[j].slot
        BY <1>1, <1>5, <3>3
      <4>3. QED
        BY <1>10, <3>3, <4>1, <4>2
    <3>4. CASE i \notin DOMAIN rows /\ j \notin DOMAIN rows
      <4>1. won[i - n] = won[j - n] /\ i - n \in DOMAIN won /\ j - n \in DOMAIN won
        BY <1>1, <1>7, <3>4
      <4>2. i - n = j - n
        BY <4>1 DEF TickInv, IsInjective
      <4>3. i \in Nat /\ j \in Nat
        BY <1>1, <1>5
      <4>4. QED
        BY <1>1, <4>2, <4>3
    <3>5. QED
      BY <3>1, <3>2, <3>3, <3>4
  <2>2. \A k \in ledger' : \E i \in DOMAIN rows' : rows'[i].slot = k
    <3> SUFFICES ASSUME NEW k \in ledger' PROVE \E i \in DOMAIN rows' : rows'[i].slot = k
      OBVIOUS
    <3>1. CASE k \in ledger
      BY <1>1, <1>5, <3>1 DEF SlotEnqueuedOnce
    <3>2. CASE k \in new
      <4>1. PICK i \in 1..Len(won) : k = <<won[i], slot>>
        BY <1>1, <3>2 DEF Range
      <4>2. rows'[n + i].slot = k
        BY <1>4, <1>5, <4>1
      <4>3. n + i \in 1..(n + Len(won))
        BY <1>1
      <4>4. QED
        BY <1>5, <4>2, <4>3
    <3>3. QED
      BY <1>2, <3>1, <3>2
  <2>3. QED
    BY <2>1, <2>2 DEF SlotEnqueuedOnce
<1>12. TickInv'
  <2>1. NoTick.slot = 0 /\ NoTick.todo = {} /\ NoTick.won = <<>> /\ Range(<<>>) = {} /\ IsInjective(<<>>)
    BY DEF NoTick, Range, IsInjective
  <2>2. \A v \in Workers \ {w} : \A s \in Range(tick[v].won) : <<s, tick[v].slot>> \notin ledger'
    <3> SUFFICES ASSUME NEW v \in Workers \ {w}, NEW s \in Range(tick[v].won) PROVE <<s, tick[v].slot>> \notin ledger'
      OBVIOUS
    <3>1. <<s, tick[v].slot>> \notin ledger
      BY DEF TickInv
    <3>2. <<s, tick[v].slot>> \notin new
      BY DEF TickInv
    <3>3. QED
      BY <1>2, <3>1, <3>2
  <2>3. \A v \in Workers :
          /\ tick'[v].slot = 0 => tick'[v] = NoTick
          /\ tick'[v].slot # 0 => tick'[v].slot <= clock' /\ clock' <= tick'[v].slot + Retention
          /\ \A i \in tick'[v].todo : Schedules[i] \notin Range(tick'[v].won)
          /\ IsInjective(tick'[v].won)
          /\ \A s \in Range(tick'[v].won) : <<s, tick'[v].slot>> \notin ledger'
    BY <1>2, <2>1, <2>2 DEF TickInv
  <2>4. \A u, v \in Workers : u # v /\ tick'[u].slot = tick'[v].slot
          => Range(tick'[u].won) \cap Range(tick'[v].won) = {}
    BY <1>2, <2>1 DEF TickInv
  <2>5. \A r \in DOMAIN rows' : rows'[r].slot # NoSlot
          => rows'[r].slot \in ledger' \/ rows'[r].slot[2] + Retention < clock'
    <3> SUFFICES ASSUME NEW r \in DOMAIN rows', rows'[r].slot # NoSlot
                 PROVE  rows'[r].slot \in ledger' \/ rows'[r].slot[2] + Retention < clock'
      OBVIOUS
    <3>1. CASE r \in DOMAIN rows
      <4>1. rows'[r] = rows[r]
        BY <1>1, <1>5, <3>1
      <4>2. QED
        BY <1>2, <3>1, <4>1 DEF TickInv
    <3>2. CASE r \notin DOMAIN rows
      BY <1>2, <1>7, <3>2
    <3>3. QED
      BY <3>1, <3>2
  <2>6. QED
    BY <2>3, <2>4, <2>5 DEF TickInv
<1>13. QED
  BY <1>8, <1>9, <1>11, <1>12

\* Time passes only as far as every open tick allows.
LEMMA ClockTicksKeeps ==
  ASSUME TypeOK, SlotEnqueuedOnce, TickInv, ClockTicks
  PROVE  clock' \in 1..MaxTime /\ TickInv' /\ SlotEnqueuedOnce'
<1>1. /\ clock \in 1..MaxTime /\ MaxTime \in Nat /\ Retention \in Nat /\ clock' = clock + 1
      /\ rows' = rows /\ ledger' = ledger /\ tick' = tick
  BY OutboxAssumption DEF OutboxAssumption, ClockTicks, TypeOK
<1>2. \A w \in Workers : tick[w].slot \in Nat
  BY <1>1 DEF TypeOK, TickType
<1>3. clock' \in 1..MaxTime
  BY <1>1 DEF ClockTicks
<1>4. \A w \in Workers : tick[w].slot # 0 => tick[w].slot <= clock' /\ clock' <= tick[w].slot + Retention
  BY <1>1, <1>2 DEF ClockTicks, TickInv
<1>5. \A r \in DOMAIN rows : rows[r].slot # NoSlot
        => rows[r].slot \in ledger' \/ rows[r].slot[2] + Retention < clock'
  <2> SUFFICES ASSUME NEW r \in DOMAIN rows, rows[r].slot # NoSlot, rows[r].slot \notin ledger
               PROVE  rows[r].slot[2] + Retention < clock'
    BY <1>1
  <2>1. rows[r].slot \in Slots
    <3>1. rows[r] \in RowType
      BY DEF TypeOK
    <3>2. QED
      BY <3>1 DEF RowType
  <2>2. rows[r].slot[2] \in Nat
    BY <1>1, <2>1, SlotIsPair
  <2>3. rows[r].slot[2] + Retention < clock
    BY DEF TickInv
  <2>4. QED
    BY <1>1, <2>2, <2>3
<1>6. QED
  BY <1>1, <1>3, <1>4, <1>5 DEF TickInv, SlotEnqueuedOnce

\* The prune takes only slots that are too old for any tick.
LEMMA PruneKeeps ==
  ASSUME TypeOK, SlotEnqueuedOnce, TickInv, PruneScheduledRuns
  PROVE  ledger' \subseteq Slots /\ TickInv' /\ SlotEnqueuedOnce'
<1>1. /\ ledger' = {k \in ledger : k[2] + Retention >= clock}
      /\ rows' = rows /\ clock' = clock /\ tick' = tick
      /\ clock \in Nat /\ Retention \in Nat /\ MaxTime \in Nat /\ ledger \subseteq Slots
  BY OutboxAssumption DEF OutboxAssumption, PruneScheduledRuns, TypeOK
<1>2. \A k \in ledger \ ledger' : k[2] + Retention < clock
  <2> SUFFICES ASSUME NEW k \in ledger, ~(k[2] + Retention >= clock) PROVE k[2] + Retention < clock
    BY <1>1
  <2>1. k[2] \in Nat
    BY <1>1, SlotIsPair
  <2>2. QED
    BY <1>1, <2>1
<1>3. \A r \in DOMAIN rows : rows[r].slot # NoSlot
        => rows[r].slot \in ledger' \/ rows[r].slot[2] + Retention < clock
  BY <1>2 DEF TickInv
<1>4. QED
  BY <1>1, <1>3 DEF TickInv, SlotEnqueuedOnce

-----------------------------------------------------------------------------
(* Every step keeps the invariant.                                          *)

\* Spending one of a bound's faults.
LEMMA UseKeeps ==
  ASSUME TypeOK, NEW k \in Faults, NEW n, Use(k, n)
  PROVE  used' \in [Faults -> Nat]
BY DEF Use, TypeOK

\* A step that leaves the rows alone grows them by none.
LEMMA RowsSame ==
  ASSUME TypeOK, rows' = rows
  PROVE  RowsGrow /\ SlotsKept
BY DEF TypeOK, RowsGrow, SlotsKept

\* enqueue adds one undispatched row, in the org of its caller.
LEMMA RowAdded ==
  ASSUME TypeOK, NEW o \in Tenants, NEW good \in BOOLEAN, Len(rows) < MaxRows,
         rows' = Append(rows, NewRow(o, o, good, NoSlot))
  PROVE  RowsGrow /\ SlotsKept
<1> DEFINE x == NewRow(o, o, good, NoSlot)
<1>1. /\ x \in RowType /\ x.org = x.root /\ ~x.dispatched /\ x.slot = NoSlot
  BY DEF NewRow, RowType
<1> HIDE DEF x
<1>2. /\ rows \in Seq(RowType) /\ DOMAIN rows = 1..Len(rows) /\ Len(rows) \in Nat /\ MaxRows \in Nat
  BY OutboxAssumption DEF OutboxAssumption, TypeOK
<1>3. rows' = Append(rows, x)
  BY DEF x
<1>4. /\ rows' \in Seq(RowType) /\ Len(rows') = Len(rows) + 1 /\ DOMAIN rows' = 1..(Len(rows) + 1)
      /\ \A r \in 1..Len(rows) : rows'[r] = rows[r]
      /\ rows'[Len(rows) + 1] = x
  BY <1>1, <1>2, <1>3
<1>5. DOMAIN rows \subseteq DOMAIN rows' /\ \A r \in DOMAIN rows' \ DOMAIN rows : r = Len(rows) + 1
  BY <1>2, <1>4
<1>6. Len(rows') <= MaxRows
  BY <1>2, <1>4
<1>7. QED
  BY <1>1, <1>2, <1>4, <1>5, <1>6 DEF RowsGrow, SlotsKept

\* The ids of the rows of an outbox that fits its bound.
LEMMA RowIds ==
  ASSUME TypeOK
  PROVE  DOMAIN rows \subseteq Ids
BY OutboxAssumption DEF OutboxAssumption, TypeOK, Ids

\* A task is enqueued (enqueue).
LEMMA EnqueueKeeps ==
  ASSUME IInv, NEW o \in Tenants, NEW good \in BOOLEAN, Enqueue(o, good)
  PROVE  IInv'
<1> USE DEF IInv
<1>1. RowsGrow /\ SlotsKept
  BY RowAdded DEF Enqueue
<1>2. DrainInv' /\ StampedWasPushed'
  BY <1>1, DrainFrame DEF Enqueue
<1>3. TickInv' /\ SlotEnqueuedOnce'
  BY <1>1, TickFrame DEF Enqueue
<1>4. used' \in [Faults -> Nat]
  <2>1. "request" \in Faults /\ "poison" \in Faults
    BY DEF Faults
  <2>2. QED
    BY <2>1, UseKeeps DEF Enqueue
<1>5. TypeOK'
  BY <1>1, <1>4 DEF Enqueue, TypeOK, RowsGrow
<1>6. QED
  BY <1>2, <1>3, <1>5

\* The drain selects, pushes, commits or rolls back (drain_once, drain_loop).
LEMMA DrainKeeps ==
  ASSUME IInv, NEW w \in Workers, NEW accepted \in BOOLEAN,
         DrainBegins(w) \/ DrainDispatch(w, accepted) \/ DrainCommits(w) \/ DrainFails(w)
  PROVE  IInv'
<1> USE DEF IInv
<1>1. CASE DrainBegins(w)
  <2> USE <1>1
  <2>1. DrainInv' /\ StampedWasPushed'
    BY DrainBeginsKeeps
  <2>2. TickInv' /\ SlotEnqueuedOnce'
    BY RowsSame, TickFrame DEF DrainBegins
  <2>3. SelectBatch \subseteq Ids
    BY OldestWithin, RowIds DEF SelectBatch, Undispatched
  <2>4. TypeOK'
    BY <2>3 DEF DrainBegins, TypeOK, DrainType
  <2>5. QED
    BY <2>1, <2>2, <2>4
<1>2. CASE DrainDispatch(w, accepted)
  <2> USE <1>2
  <2>1. DrainInv' /\ StampedWasPushed' /\ redis' \in Seq(Ids)
    BY DrainDispatchKeeps
  <2>2. TickInv' /\ SlotEnqueuedOnce'
    BY RowsSame, TickFrame DEF DrainDispatch
  <2>3. PICK r \in Oldest(drain[w].todo, 1) :
          IF rows[r].good /\ accepted
          THEN /\ used' = used
               /\ drain' = [drain EXCEPT ![w].todo = @ \ {r}, ![w].stamped = @ \cup {r}]
          ELSE /\ drain' = [drain EXCEPT ![w].todo = @ \ {r}]
               /\ IF accepted THEN used' = used ELSE Use("pushfail", MaxPushFail)
    BY DEF DrainDispatch
  <2>4. r \in Ids
    BY OldestWithin DEF TypeOK, DrainType
  <2>5. drain' \in [Workers -> DrainType]
    <3>1. [drain EXCEPT ![w].todo = @ \ {r}] \in [Workers -> DrainType]
      <4>1. [drain[w] EXCEPT !.todo = @ \ {r}] \in DrainType
        BY DEF TypeOK, DrainType
      <4>2. QED
        BY <4>1 DEF TypeOK
    <3>2. [drain EXCEPT ![w].todo = @ \ {r}, ![w].stamped = @ \cup {r}] \in [Workers -> DrainType]
      <4>1. drain[w] \in DrainType
        BY DEF TypeOK
      <4>2. [[drain[w] EXCEPT !.todo = @ \ {r}] EXCEPT !.stamped = @ \cup {r}] \in DrainType
        BY <2>4, <4>1 DEF DrainType
      <4>3. [drain[w] EXCEPT !.todo = @ \ {r}, !.stamped = @ \cup {r}] \in DrainType
        BY <2>4, <4>1 DEF DrainType
      <4>4. QED
        BY <4>1, <4>2, <4>3 DEF TypeOK
    <3>3. QED
      BY <2>3, <3>1, <3>2
  <2>6. used' \in [Faults -> Nat]
    <3>1. "pushfail" \in Faults
      BY DEF Faults
    <3>2. used' = used \/ Use("pushfail", MaxPushFail)
      BY <2>3
    <3>3. QED
      BY <3>1, <3>2, UseKeeps DEF TypeOK
  <2>7. TypeOK'
    BY <2>1, <2>5, <2>6 DEF DrainDispatch, TypeOK
  <2>8. QED
    BY <2>1, <2>2, <2>7
<1>3. CASE DrainCommits(w)
  <2> USE <1>3
  <2>1. /\ rows' \in Seq(RowType) /\ Len(rows') = Len(rows)
        /\ DrainInv' /\ StampedWasPushed'
    BY DrainCommitsKeeps
  <2>2. SlotsKept
    <3>1. DOMAIN rows' = DOMAIN rows
      BY DEF DrainCommits
    <3>2. \A r \in DOMAIN rows : rows'[r].slot = rows[r].slot
      <4>1. \A r \in DOMAIN rows : rows[r] \in RowType
        BY DEF TypeOK
      <4>2. QED
        BY <4>1 DEF DrainCommits, RowType
    <3>3. QED
      BY <3>1, <3>2 DEF SlotsKept
  <2>3. TickInv' /\ SlotEnqueuedOnce'
    BY <2>2, TickFrame DEF DrainCommits
  <2>4. drain' \in [Workers -> DrainType]
    BY DEF DrainCommits, TypeOK, DrainType, NoDrain
  <2>5. TypeOK'
    BY <2>1, <2>4 DEF DrainCommits, TypeOK
  <2>6. QED
    BY <2>1, <2>3, <2>5
<1>4. CASE DrainFails(w)
  <2> USE <1>4
  <2>1. drain'[w] = NoDrain /\ \A v \in Workers \ {w} : drain'[v] = drain[v]
    BY DEF DrainFails, TypeOK
  <2>2. DrainInv' /\ StampedWasPushed'
    BY <2>1, RowsSame, DrainFrame DEF DrainFails
  <2>3. TickInv' /\ SlotEnqueuedOnce'
    BY RowsSame, TickFrame DEF DrainFails
  <2>4. "rollback" \in Faults
    BY DEF Faults
  <2>5. used' \in [Faults -> Nat]
    BY <2>4, UseKeeps DEF DrainFails
  <2>6. drain' \in [Workers -> DrainType]
    BY DEF DrainFails, TypeOK, DrainType, NoDrain
  <2>7. TypeOK'
    BY <2>5, <2>6 DEF DrainFails, TypeOK
  <2>8. QED
    BY <2>2, <2>3, <2>7
<1>5. QED
  BY <1>1, <1>2, <1>3, <1>4

\* The scheduler selects, claims, commits or rolls back (tick_once, scheduler_loop).
LEMMA TickKeeps ==
  ASSUME IInv, NEW w \in Workers,
         TickBegins(w) \/ TickClaims(w) \/ TickCommits(w) \/ TickFails(w)
  PROVE  IInv'
<1> USE DEF IInv
<1>1. CASE TickBegins(w)
  <2> USE <1>1
  <2>1. TickInv' /\ SlotEnqueuedOnce' /\ tick' \in [Workers -> TickType]
    BY TickBeginsKeeps
  <2>2. DrainInv' /\ StampedWasPushed'
    BY RowsSame, DrainFrame DEF TickBegins
  <2>3. TypeOK'
    BY <2>1 DEF TickBegins, TypeOK
  <2>4. QED
    BY <2>1, <2>2, <2>3
<1>2. CASE TickClaims(w)
  <2> USE <1>2
  <2>1. TickInv' /\ SlotEnqueuedOnce' /\ tick' \in [Workers -> TickType]
    BY TickClaimsKeeps
  <2>2. DrainInv' /\ StampedWasPushed'
    BY RowsSame, DrainFrame DEF TickClaims
  <2>3. TypeOK'
    BY <2>1 DEF TickClaims, TypeOK
  <2>4. QED
    BY <2>1, <2>2, <2>3
<1>3. CASE TickCommits(w)
  <2> USE <1>3
  <2>1. /\ RowsGrow /\ ledger' \subseteq Slots /\ tick' \in [Workers -> TickType]
        /\ TickInv' /\ SlotEnqueuedOnce'
    BY TickCommitsKeeps
  <2>2. DrainInv' /\ StampedWasPushed'
    BY <2>1, DrainFrame DEF TickCommits
  <2>3. TypeOK'
    BY <2>1 DEF TickCommits, TypeOK, RowsGrow
  <2>4. QED
    BY <2>1, <2>2, <2>3
<1>4. CASE TickFails(w)
  <2> USE <1>4
  <2>1. tick'[w] = NoTick /\ \A v \in Workers \ {w} : tick'[v] = tick[v]
    BY DEF TickFails, TypeOK
  <2>2. DrainInv' /\ StampedWasPushed'
    BY RowsSame, DrainFrame DEF TickFails
  <2>3. TickInv' /\ SlotEnqueuedOnce'
    BY <2>1, RowsSame, TickFrame DEF TickFails
  <2>4. "rollback" \in Faults
    BY DEF Faults
  <2>5. used' \in [Faults -> Nat]
    BY <2>4, UseKeeps DEF TickFails
  <2>6. tick' \in [Workers -> TickType]
    BY OutboxAssumption DEF OutboxAssumption, TickFails, TypeOK, TickType, NoTick
  <2>7. TypeOK'
    BY <2>5, <2>6 DEF TickFails, TypeOK
  <2>8. QED
    BY <2>2, <2>3, <2>7
<1>5. QED
  BY <1>1, <1>2, <1>3, <1>4

\* A receiver pops a message and its body ends, with or without a follow-up task.
LEMMA ReceiverKeeps ==
  ASSUME IInv, NEW w \in Workers, Receive(w) \/ BodyEnds(w) \/ BodyEnqueues(w)
  PROVE  IInv'
<1> USE DEF IInv
<1>1. CASE Receive(w)
  <2> USE <1>1
  <2>1. /\ redis' \in Seq(Ids) /\ popped' \subseteq Ids /\ popped \subseteq popped'
        /\ body' \in [Workers -> BodyType]
        /\ DrainInv' /\ StampedWasPushed'
    BY ReceiveKeeps
  <2>2. TickInv' /\ SlotEnqueuedOnce'
    BY RowsSame, TickFrame DEF Receive
  <2>3. TypeOK'
    BY <2>1 DEF Receive, TypeOK
  <2>4. QED
    BY <2>1, <2>2, <2>3
<1>2. ASSUME body[w].row # 0
      PROVE  body[w].row \in popped /\ body[w].row \in DOMAIN rows /\ body[w].org \in Tenants
             /\ rows[body[w].row].root = body[w].org
  <2>1. body[w].row \in popped /\ body[w].row \in DOMAIN rows
    BY <1>2 DEF DrainInv, Pushed, Committed
  <2>2. QED
    BY <1>2, <2>1 DEF DrainInv, TypeOK, BodyType
<1>3. NoBody \in BodyType
  BY OutboxAssumption DEF OutboxAssumption, NoBody, BodyType, Tenants
<1>4. CASE BodyEnds(w)
  <2> USE <1>4
  <2>1. body'[w] = NoBody /\ \A v \in Workers \ {w} : body'[v] = body[v]
    BY DEF BodyEnds, TypeOK
  <2>2. DrainInv' /\ StampedWasPushed'
    BY <2>1, RowsSame, DrainFrame DEF BodyEnds
  <2>3. TickInv' /\ SlotEnqueuedOnce'
    BY RowsSame, TickFrame DEF BodyEnds
  <2>4. TypeOK'
    BY <1>2, <1>3 DEF BodyEnds, TypeOK
  <2>5. QED
    BY <2>2, <2>3, <2>4
<1>5. CASE BodyEnqueues(w)
  <2> USE <1>5
  <2>1. body'[w] = NoBody /\ \A v \in Workers \ {w} : body'[v] = body[v]
    BY DEF BodyEnqueues, TypeOK
  <2>2. RowsGrow /\ SlotsKept
    BY <1>2, RowAdded DEF BodyEnqueues
  <2>3. DrainInv' /\ StampedWasPushed'
    BY <2>1, <2>2, DrainFrame DEF BodyEnqueues
  <2>4. TickInv' /\ SlotEnqueuedOnce'
    BY <2>2, TickFrame DEF BodyEnqueues
  <2>5. TypeOK'
    BY <1>2, <1>3, <2>2 DEF BodyEnqueues, TypeOK, RowsGrow
  <2>6. QED
    BY <2>3, <2>4, <2>5
<1>6. QED
  BY <1>1, <1>4, <1>5

\* A process is told to stop, stops, is killed or starts (run).
LEMMA ProcessKeeps ==
  ASSUME IInv, NEW w \in Workers, NEW abandons \in BOOLEAN,
         Sigterm(w) \/ ConsumeStops(w) \/ Exit(w, abandons) \/ Crash(w) \/ Boot(w)
  PROVE  IInv'
<1> USE DEF IInv
<1>1. /\ rows' = rows /\ ledger' = ledger /\ clock' = clock /\ redis' = redis /\ popped' = popped /\ ran' = ran
      /\ \A v \in Workers : drain'[v] = drain[v] \/ drain'[v] = NoDrain
      /\ \A v \in Workers : tick'[v] = tick[v] \/ tick'[v] = NoTick
      /\ \A v \in Workers : body'[v] = body[v] \/ body'[v] = NoBody
      /\ drain' \in [Workers -> DrainType] /\ tick' \in [Workers -> TickType] /\ body' \in [Workers -> BodyType]
  <2>1. NoDrain \in DrainType /\ NoTick \in TickType /\ NoBody \in BodyType
    BY OutboxAssumption DEF OutboxAssumption, NoDrain, DrainType, NoTick, TickType, NoBody, BodyType, Tenants
  <2>2. CASE Sigterm(w) \/ Boot(w)
    BY <2>2 DEF Sigterm, Boot, TypeOK
  <2>3. CASE ConsumeStops(w)
    BY <2>1, <2>3 DEF ConsumeStops, TypeOK
  <2>4. CASE Exit(w, abandons)
    BY <2>1, <2>4 DEF Exit, TypeOK
  <2>5. CASE Crash(w)
    BY <2>1, <2>5 DEF Crash, TypeOK
  <2>6. QED
    BY <2>2, <2>3, <2>4, <2>5
<1>2. used' \in [Faults -> Nat]
  <2>1. "stop" \in Faults /\ "abandon" \in Faults /\ "crash" \in Faults
    BY DEF Faults
  <2>2. used' = used \/ Use("stop", MaxStop) \/ Use("abandon", MaxAbandon) \/ Use("crash", MaxCrash)
    BY DEF Sigterm, ConsumeStops, Exit, Crash, Boot
  <2>3. QED
    BY <2>1, <2>2, UseKeeps DEF TypeOK
<1>3. phase' \in [Workers -> Phases]
  BY DEF Sigterm, ConsumeStops, Exit, Crash, Boot, TypeOK, Phases
<1>4. DrainInv' /\ StampedWasPushed'
  BY <1>1, RowsSame, DrainFrame
<1>5. TickInv' /\ SlotEnqueuedOnce'
  BY <1>1, RowsSame, TickFrame
<1>6. TypeOK'
  BY <1>1, <1>2, <1>3 DEF TypeOK
<1>7. QED
  BY <1>4, <1>5, <1>6

\* The invariant is inductive.
LEMMA NextKeeps ==
  ASSUME IInv, [Next]_vars
  PROVE  IInv'
<1>1. ASSUME NEW o \in Tenants, NEW good \in BOOLEAN, Enqueue(o, good) PROVE IInv'
  BY <1>1, EnqueueKeeps
<1>2. ASSUME NEW w \in Workers,
             \/ DrainStep(w) \/ TickStep(w) \/ ReceiveStep(w) \/ BodyEnqueues(w) \/ ProcessStep(w)
             \/ FaultStep(w) \/ Crash(w)
      PROVE  IInv'
  <2>1. TRUE \in BOOLEAN /\ FALSE \in BOOLEAN
    OBVIOUS
  <2>2. CASE DrainStep(w)
    BY <2>1, <2>2, DrainKeeps DEF DrainStep
  <2>3. CASE TickStep(w)
    BY <2>3, TickKeeps DEF TickStep
  <2>4. CASE ReceiveStep(w) \/ BodyEnqueues(w)
    BY <2>4, ReceiverKeeps DEF ReceiveStep
  <2>5. CASE ProcessStep(w)
    BY <2>1, <2>5, ProcessKeeps DEF ProcessStep
  <2>6. CASE FaultStep(w) \/ Crash(w)
    BY <2>1, <2>6, DrainKeeps, TickKeeps, ProcessKeeps DEF FaultStep
  <2>7. QED
    BY <1>2, <2>2, <2>3, <2>4, <2>5, <2>6
<1>3. CASE ClockTicks
  <2>1. DrainInv' /\ StampedWasPushed'
    BY <1>3, RowsSame, DrainFrame DEF ClockTicks, IInv
  <2>2. clock' \in 1..MaxTime /\ TickInv' /\ SlotEnqueuedOnce'
    BY <1>3, ClockTicksKeeps DEF IInv
  <2>3. TypeOK'
    BY <1>3, <2>2 DEF ClockTicks, TypeOK, IInv
  <2>4. QED
    BY <2>1, <2>2, <2>3 DEF IInv
<1>4. CASE PruneScheduledRuns
  <2>1. DrainInv' /\ StampedWasPushed'
    BY <1>4, RowsSame, DrainFrame DEF PruneScheduledRuns, IInv
  <2>2. ledger' \subseteq Slots /\ TickInv' /\ SlotEnqueuedOnce'
    BY <1>4, PruneKeeps DEF IInv
  <2>3. TypeOK'
    BY <1>4, <2>2 DEF PruneScheduledRuns, TypeOK, IInv
  <2>4. QED
    BY <2>1, <2>2, <2>3 DEF IInv
<1>5. CASE UNCHANGED vars
  BY <1>5 DEF vars, IInv, TypeOK, StampedWasPushed, DrainInv, Pushed, Committed, SlotEnqueuedOnce, TickInv
<1>6. QED
  BY <1>1, <1>2, <1>3, <1>4, <1>5 DEF Next, MinuteNext

LEMMA InitEstablishes == Init => IInv
<1> SUFFICES ASSUME Init PROVE IInv
  OBVIOUS
<1>1. TypeOK
  BY OutboxAssumption DEF OutboxAssumption, Init, TypeOK, DrainType, TickType, BodyType, NoDrain, NoTick, NoBody,
     Tenants, Phases, Faults, Slots, Ids
<1>2. DOMAIN rows = {} /\ Range(redis) = {} /\ Range(<<>>) = {} /\ IsInjective(<<>>)
  BY DEF Init, Range, IsInjective
<1>3. StampedWasPushed /\ SlotEnqueuedOnce
  BY <1>2 DEF Init, StampedWasPushed, SlotEnqueuedOnce
<1>4. DrainInv
  BY <1>2 DEF Init, DrainInv, Pushed, NoDrain, NoBody
<1>5. TickInv
  BY <1>2 DEF Init, TickInv, NoTick
<1>6. QED
  BY <1>1, <1>3, <1>4, <1>5 DEF IInv

THEOREM Invariance == Spec => []IInv
<1>1. IInv /\ [Next]_vars => IInv'
  BY NextKeeps
<1>2. QED
  BY <1>1, InitEstablishes, PTL DEF Spec

-----------------------------------------------------------------------------
(* What the runs check.                                                     *)

\* Rows, ledger, transactions and bodies are well formed, for every bound.
THEOREM TypeCorrect == Spec => []TypeOK
BY Invariance, PTL DEF IInv

\* A stamp is never written for a row that was not handed to Redis, through
\* rolled back batches and killed workers (drain_once).
THEOREM StampedHolds == Spec => []StampedWasPushed
BY Invariance, PTL DEF IInv

\* A slot of a schedule has one row, and a claimed slot has it: however many
\* workers tick, fail, are cancelled or prune (tick_once, _try_claim).
THEOREM SlotHolds == Spec => []SlotEnqueuedOnce
BY Invariance, PTL DEF IInv

\* A body runs in the org of the request at the start of its chain (the org
\* context that enqueue stores and the middleware restores).
THEOREM ChainHolds == Spec => []ChainKeepsOrg
<1>1. IInv => ChainKeepsOrg
  <2> SUFFICES ASSUME IInv, NEW w \in Workers, body[w].row # 0
               PROVE  body[w].org = rows[body[w].row].root
    BY DEF ChainKeepsOrg
  <2>1. body[w].row \in DOMAIN rows
    BY DEF IInv, DrainInv, Pushed, Committed
  <2>2. QED
    BY <2>1 DEF IInv, DrainInv
<1>2. QED
  BY <1>1, Invariance, PTL

-----------------------------------------------------------------------------
(* The outbox implements the queue of TaskQueue.                            *)

\* A step that runs no body and takes back no committed row commits its new rows.
LEMMA CommitsOrStutters ==
  ASSUME TypeOK, TypeOK', ran' = ran, DOMAIN rows \subseteq DOMAIN rows',
         \A r \in DOMAIN rows : rows'[r].good = rows[r].good
  PROVE  QueueStep
<1>1. Committed \subseteq Committed'
  BY DEF Committed
<1>2. Committed' \subseteq Ids
  BY OutboxAssumption DEF OutboxAssumption, TypeOK, Ids, Committed
<1>3. CASE Committed' = Committed
  BY <1>3 DEF QueueStep
<1>4. CASE Committed' # Committed
  <2> DEFINE J == Committed' \ Committed
  <2>1. J \in SUBSET (Ids \ Committed) /\ J # {} /\ Committed' = Committed \cup J
    BY <1>1, <1>2, <1>4
  <2>2. Promise!Commit
    BY <2>1 DEF Promise!Commit
  <2>3. QED
    BY <2>2 DEF QueueStep, Promise!QNext
<1>5. QED
  BY <1>3, <1>4

\* A body that ends ran a committed row (Receive took it from Redis).
LEMMA BodyIsOfCommitted ==
  ASSUME IInv, NEW w \in Workers, body[w].row # 0
  PROVE  body[w].row \in Committed /\ body[w].row \in Ids
<1>1. body[w].row \in Committed
  BY DEF IInv, DrainInv, Pushed
<1>2. Committed \subseteq Ids
  BY RowIds DEF IInv, Committed
<1>3. QED
  BY <1>1, <1>2

\* A body that ends with a follow-up task runs and commits in one step.
LEMMA EndsWithFollowUp ==
  ASSUME IInv, NEW w \in Workers, BodyEnqueues(w)
  PROVE  Promise!RunAndCommit
<1> DEFINE t == body[w].row
           u == Len(rows) + 1
           x == NewRow(body[w].org, rows[t].root, TRUE, NoSlot)
<1>1. t \in Committed /\ t \in Ids /\ ran' = ran \cup {t}
  BY BodyIsOfCommitted DEF BodyEnqueues
<1>2. x \in RowType /\ x.good
  <2>1. body[w].org \in Tenants /\ rows[t] \in RowType
    BY <1>1 DEF IInv, TypeOK, BodyType, Committed
  <2>2. QED
    BY <2>1 DEF NewRow, RowType
<1>3. /\ rows \in Seq(RowType) /\ DOMAIN rows = 1..Len(rows) /\ Len(rows) \in Nat
      /\ Len(rows) < MaxRows /\ MaxRows \in Nat /\ rows' = Append(rows, x)
  BY OutboxAssumption DEF OutboxAssumption, IInv, TypeOK, BodyEnqueues
<1> HIDE DEF x, t
<1>4. /\ DOMAIN rows' = DOMAIN rows \cup {u} /\ u \notin DOMAIN rows
      /\ \A r \in DOMAIN rows : rows'[r] = rows[r]
      /\ rows'[u] = x
  BY <1>2, <1>3
<1>5. u \in Ids \ Committed
  BY <1>3, <1>4 DEF Ids, Committed
<1>6. Committed' = Committed \cup {u}
  BY <1>2, <1>4 DEF Committed
<1>7. QED
  BY <1>1, <1>5, <1>6 DEF Promise!RunAndCommit

\* Every step of the outbox is a step of the abstract queue, or leaves it alone.
LEMMA StepsRefine ==
  ASSUME IInv, [Next]_vars
  PROVE  QueueStep
<1>1. TypeOK /\ TypeOK'
  BY NextKeeps DEF IInv
<1>2. ASSUME rows' = rows, ran' = ran PROVE QueueStep
  BY <1>2 DEF QueueStep, Committed
<1>3. ASSUME RowsGrow, ran' = ran PROVE QueueStep
  <2>1. DOMAIN rows \subseteq DOMAIN rows' /\ \A r \in DOMAIN rows : rows'[r].good = rows[r].good
    BY <1>3 DEF RowsGrow
  <2>2. QED
    BY <1>1, <1>3, <2>1, CommitsOrStutters
<1>4. ASSUME NEW o \in Tenants, NEW good \in BOOLEAN, Enqueue(o, good) PROVE QueueStep
  <2>1. RowsGrow
    BY <1>1, <1>4, RowAdded DEF Enqueue
  <2>2. QED
    BY <1>3, <1>4, <2>1 DEF Enqueue
<1>5. ASSUME NEW w \in Workers, DrainCommits(w) PROVE QueueStep
  <2>1. \A r \in DOMAIN rows : rows[r] \in RowType
    BY <1>1 DEF TypeOK
  <2>2. DOMAIN rows' = DOMAIN rows /\ \A r \in DOMAIN rows : rows'[r].good = rows[r].good
    BY <1>5, <2>1 DEF DrainCommits, RowType
  <2>3. QED
    BY <1>1, <1>5, <2>2, CommitsOrStutters DEF DrainCommits
<1>6. ASSUME NEW w \in Workers, TickCommits(w) PROVE QueueStep
  <2>1. RowsGrow
    BY <1>6, TickCommitsKeeps DEF IInv
  <2>2. QED
    BY <1>3, <1>6, <2>1 DEF TickCommits
<1>7. ASSUME NEW w \in Workers, BodyEnds(w) PROVE QueueStep
  <2>1. /\ body[w].row \in Committed /\ body[w].row \in Ids /\ ran' = ran \cup {body[w].row}
        /\ Committed' = Committed
    BY <1>7, BodyIsOfCommitted DEF BodyEnds, Committed
  <2>2. CASE body[w].row \in ran
    BY <2>1, <2>2 DEF QueueStep
  <2>3. CASE body[w].row \notin ran
    <3>1. Promise!Run(body[w].row)
      BY <2>1, <2>3 DEF Promise!Run
    <3>2. QED
      BY <2>1, <3>1 DEF QueueStep, Promise!QNext
  <2>4. QED
    BY <2>2, <2>3
<1>8. ASSUME NEW w \in Workers, BodyEnqueues(w) PROVE QueueStep
  BY <1>8, EndsWithFollowUp DEF QueueStep, Promise!QNext
<1>9. ASSUME NEW w \in Workers, NEW b \in BOOLEAN,
             \/ DrainBegins(w) \/ DrainDispatch(w, b) \/ DrainFails(w)
             \/ TickBegins(w) \/ TickClaims(w) \/ TickFails(w) \/ Receive(w)
             \/ Sigterm(w) \/ ConsumeStops(w) \/ Exit(w, b) \/ Crash(w) \/ Boot(w)
             \/ ClockTicks \/ PruneScheduledRuns
      PROVE  QueueStep
  <2>1. rows' = rows /\ ran' = ran
    BY <1>9 DEF DrainBegins, DrainDispatch, DrainFails, TickBegins, TickClaims, TickFails, Receive,
       Sigterm, ConsumeStops, Exit, Crash, Boot, ClockTicks, PruneScheduledRuns
  <2>2. QED
    BY <1>2, <2>1
<1>10. CASE UNCHANGED vars
  BY <1>2, <1>10 DEF vars
<1>11. CASE ClockTicks \/ PruneScheduledRuns
  BY <1>2, <1>11 DEF ClockTicks, PruneScheduledRuns
<1>12. TRUE \in BOOLEAN /\ FALSE \in BOOLEAN
  OBVIOUS
<1>13. QED
  BY <1>4, <1>5, <1>6, <1>7, <1>8, <1>9, <1>10, <1>11, <1>12
     DEF Next, MinuteNext, DrainStep, TickStep, ReceiveStep, ProcessStep, FaultStep

\* The step property that the runs check: no body runs for a row nobody
\* committed, and no step forgets a committed row (drain_once, the receiver).
THEOREM QueueStepHolds == Spec => [][QueueStep]_vars
<1>1. IInv /\ [Next]_vars => QueueStep
  BY StepsRefine
<1>2. QED
  BY <1>1, Invariance, PTL DEF Spec

\* The outbox implements the safety of TaskQueue: rows of registered tasks are
\* its jobs, and the bodies that ended are the tasks it ran.
THEOREM Implements == Spec => OnlyCommittedRuns
<1>1. Init => Promise!QInit
  BY DEF Init, Promise!QInit, Committed
<1>2. IInv /\ [Next]_vars => [Promise!QNext]_(Promise!qvars)
  BY StepsRefine DEF QueueStep, Promise!qvars
<1>3. QED
  BY <1>1, <1>2, Invariance, PTL DEF Spec, OnlyCommittedRuns, Promise!QSafety
=============================================================================
