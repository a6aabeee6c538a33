--------------------------- MODULE CommentBatching --------------------------
(***************************************************************************)
(* domain/pr_review for one ticket with a pull request: inbound comments,  *)
(* the classification task, the batches that claim classified comments for *)
(* a run, the hook every finished run enqueues, and auto-approval.         *)
(*                                                                         *)
(* A task body is several transactions and GitHub calls; every one is a    *)
(* step.  Tasks are popped from a Redis list: a body that dies is gone,    *)
(* and the outbox may push a task twice (module Outbox).                   *)
(***************************************************************************)
EXTENDS Naturals, Sequences, FiniteSets

CONSTANTS Comments,      \* comments people write on the pull request
          Workers,       \* task bodies that run at the same time
          MaxRuns,       \* runs on the ticket
          MaxReviews,    \* runs other than batches (pushes, @yaaos re-review)
          MaxCancels,    \* queued runs that are cancelled
          MaxCrashes,    \* bodies that die or are refused by the LLM
          MaxGitHub,     \* GitHub calls that fail
          MaxDuplicates, \* tasks the outbox pushes twice
          AutoApprove    \* settings.auto_approve_enabled, and the conditions pass

BatchingAssumption ==
    /\ MaxRuns \in Nat /\ MaxReviews \in Nat /\ MaxCancels \in Nat /\ MaxCrashes \in Nat
    /\ MaxGitHub \in Nat /\ MaxDuplicates \in Nat /\ AutoApprove \in BOOLEAN
    /\ Comments \cap Workers = {}

VARIABLES comment,  \* pr_comments
          todo,     \* tasks in Redis: how many copies of each
          worker,   \* the bodies
          runs,     \* pipeline_runs of the ticket, oldest first
          replies,  \* canned replies on GitHub
          reviews,  \* approving reviews on GitHub
          cites,    \* history: the runs whose kickoff renders the comment
          used

vars == <<comment, todo, worker, runs, replies, reviews, cites, used>>

RunIds  == 1 .. MaxRuns
NoRun   == 0
NoRow   == [absent |-> TRUE]
Intents == {"question", "dispute"}

PRCommentRow == [anchored : BOOLEAN, class : Intents \cup {"none", "unclear"}, run : 0 .. MaxRuns]
Classify(c)  == [kind |-> "classify", of |-> c]
Hook(i)      == [kind |-> "hook", of |-> i]
Tasks        == {Classify(c) : c \in Comments} \cup {Hook(i) : i \in RunIds}
NoTask       == [kind |-> "none", of |-> NoRun]
BodyType     == [pc : {"idle", "reading", "stamping", "replying", "gate", "select", "start", "asking", "approving", "commit"},
                 task : Tasks \cup {NoTask}, batch : SUBSET Comments]
IdleBody     == [pc |-> "idle", task |-> NoTask, batch |-> {}]
Faults       == {"review", "cancel", "crash", "github", "duplicate"}

Init ==
    /\ comment = [c \in Comments |-> NoRow]
    /\ todo = [t \in Tasks |-> 0]
    /\ worker = [w \in Workers |-> IdleBody]
    /\ runs = <<>>
    /\ replies = [c \in Comments |-> 0]
    /\ reviews = 0
    /\ cites = [c \in Comments |-> {}]
    /\ used = [f \in Faults |-> 0]

Use(f, bound) == used[f] < bound /\ used' = [used EXCEPT ![f] = @ + 1]

-----------------------------------------------------------------------------
(* The runs of the ticket, as start_run and _enter_terminal leave them.    *)

InFlight(rs)     == {i \in 1 .. Len(rs) : rs[i] = "running"}
Waiting(rs)      == {i \in 1 .. Len(rs) : rs[i] = "queued"}
Oldest(S)        == CHOOSE i \in S : \A j \in S : i <= j
HasRunInFlight   == InFlight(runs) \cup Waiting(runs) # {}
StartRun_NoSlotCheck(rs) == Append(rs, "running")
StartRun(rs)     == Append(rs, IF InFlight(rs) = {} THEN "running" ELSE "queued")
Promoted(rs)     ==
    IF Waiting(rs) = {} \/ InFlight(rs) # {} THEN rs ELSE [rs EXCEPT ![Oldest(Waiting(rs))] = "running"]

EnterTerminal(i) ==
    /\ runs' = Promoted([runs EXCEPT ![i] = "over"])
    /\ todo' = [todo EXCEPT ![Hook(i)] = @ + 1]

RunEnds(i) ==
    /\ i \in InFlight(runs)
    /\ EnterTerminal(i)
    /\ UNCHANGED <<comment, worker, replies, reviews, cites, used>>

-----------------------------------------------------------------------------
(* handle_pr_comment.  The webhook ledger lets one delivery through.       *)

Inbound(c) == comment[c] = NoRow

FreeText(c) ==
    /\ Inbound(c)
    /\ \E a \in BOOLEAN :
         comment' = [comment EXCEPT ![c] = [anchored |-> a, class |-> "none", run |-> NoRun]]
    /\ todo' = [todo EXCEPT ![Classify(c)] = @ + 1]
    /\ UNCHANGED <<worker, runs, replies, reviews, cites, used>>

StartReReview ==
    /\ Len(runs) < MaxRuns
    /\ Use("review", MaxReviews)
    /\ runs' = StartRun(runs)
    /\ UNCHANGED <<comment, todo, worker, replies, reviews, cites>>

(* A queued run is cancelled on the spot, without hook (cancel_queued); a  *)
(* cancel of the current run (@yaaos cancel) makes it end: RunEnds.        *)
CancelQueued(i) ==
    /\ i \in Waiting(runs)
    /\ Use("cancel", MaxCancels)
    /\ runs' = [runs EXCEPT ![i] = "over"]
    /\ UNCHANGED <<comment, todo, worker, replies, reviews, cites>>

-----------------------------------------------------------------------------
(* The queue.                                                              *)

Take(w, t) ==
    /\ worker[w].pc = "idle"
    /\ todo[t] > 0
    /\ todo' = [todo EXCEPT ![t] = @ - 1]
    /\ worker' = [worker EXCEPT ![w] = [IdleBody EXCEPT !.task = t,
                                         !.pc = IF t.kind = "classify" THEN "reading" ELSE "gate"]]
    /\ UNCHANGED <<comment, runs, replies, reviews, cites, used>>

PushedTwice(t) ==
    /\ todo[t] > 0
    /\ Use("duplicate", MaxDuplicates)
    /\ todo' = [todo EXCEPT ![t] = @ + 1]
    /\ UNCHANGED <<comment, worker, runs, replies, reviews, cites>>

Goto(w, pc) == worker' = [worker EXCEPT ![w].pc = pc]
Done(w)     == worker' = [worker EXCEPT ![w] = IdleBody]

-----------------------------------------------------------------------------
(* _stamp_classification: the row is read, the LLM is asked, the stamp     *)
(* commits.  The row is not locked while the LLM thinks.                   *)

Subject(w) == worker[w].task.of

ReadsComment(w) ==
    /\ worker[w].pc = "reading"
    /\ IF comment[Subject(w)].class # "none" THEN Done(w) ELSE Goto(w, "stamping")
    /\ UNCHANGED <<comment, todo, runs, replies, reviews, cites, used>>

Intent(c) == IF comment[c].anchored THEN Intents \cup {"unclear"} ELSE {"unclear"}

StampClassification(w) ==
    /\ worker[w].pc = "stamping"
    /\ \E k \in Intent(Subject(w)) :
         /\ comment' = [comment EXCEPT ![Subject(w)].class = k]
         /\ Goto(w, IF k = "unclear" THEN "replying" ELSE "gate")
    /\ UNCHANGED <<todo, runs, replies, reviews, cites, used>>

ReplyUnclear(w) ==
    /\ worker[w].pc = "replying"
    /\ replies' = [replies EXCEPT ![Subject(w)] = @ + 1]
    /\ Done(w)
    /\ UNCHANGED <<comment, todo, runs, reviews, cites, used>>

-----------------------------------------------------------------------------
(* maybe_start_batch_run: the gate, then SELECT ... FOR UPDATE (which      *)
(* waits for a transaction that holds one of the rows and then looks       *)
(* again), then start_run and the claim.  They commit with the body.       *)

IsWaiting(c) == comment[c] # NoRow /\ comment[c].class \in Intents /\ comment[c].run = NoRun
LockedBy(w)  == UNION {worker[v].batch : v \in Workers \ {w}}

AfterBatch(w) == IF worker[w].task.kind = "hook" /\ AutoApprove THEN "asking" ELSE "commit"

Gate(w) ==
    /\ worker[w].pc = "gate"
    /\ Goto(w, IF HasRunInFlight THEN AfterBatch(w) ELSE "select")
    /\ UNCHANGED <<comment, todo, runs, replies, reviews, cites, used>>

SelectForUpdate_NoLock(w) ==
    /\ worker[w].pc = "select"
    /\ worker' = [worker EXCEPT ![w].pc = AfterBatch(w), ![w].batch = {c \in Comments : IsWaiting(c)}]
    /\ UNCHANGED <<comment, todo, runs, replies, reviews, cites, used>>
SelectForUpdate(w) ==
    /\ worker[w].pc = "select"
    /\ LET waiting == {c \in Comments : IsWaiting(c)}
       IN /\ waiting \cap LockedBy(w) = {}
          /\ worker' = [worker EXCEPT ![w].pc = AfterBatch(w), ![w].batch = waiting]
    /\ UNCHANGED <<comment, todo, runs, replies, reviews, cites, used>>

(* evaluate_auto_approval: ask GitHub, approve.                            *)
AskApproval(w) ==
    /\ worker[w].pc = "asking"
    /\ Goto(w, IF reviews > 0 THEN "commit" ELSE "approving")
    /\ UNCHANGED <<comment, todo, runs, replies, reviews, cites, used>>

ApprovePr(w) ==
    /\ worker[w].pc = "approving"
    /\ reviews' = reviews + 1
    /\ Goto(w, "commit")
    /\ UNCHANGED <<comment, todo, runs, replies, cites, used>>

Claim(w) == [c \in Comments |-> IF c \in worker[w].batch THEN [comment[c] EXCEPT !.run = Len(runs) + 1] ELSE comment[c]]

Rendered(w) == [c \in Comments |-> cites[c] \cup (IF c \in worker[w].batch THEN {Len(runs) + 1} ELSE {})]

CommitBody(w) ==
    /\ worker[w].pc = "commit"
    /\ IF worker[w].batch = {}
       THEN UNCHANGED <<comment, runs, cites>>
       ELSE /\ Len(runs) < MaxRuns
            /\ runs' = StartRun(runs)
            /\ comment' = Claim(w)
            /\ cites' = Rendered(w)
    /\ Done(w)
    /\ UNCHANGED <<todo, replies, reviews, used>>

-----------------------------------------------------------------------------
(* The body dies, or the LLM call raises: its transaction is rolled back   *)
(* and the task is gone.                                                   *)
BodyDies(w) ==
    /\ worker[w].pc # "idle"
    /\ Use("crash", MaxCrashes)
    /\ Done(w)
    /\ UNCHANGED <<comment, todo, runs, replies, reviews, cites>>

GitHubFails(w) ==
    /\ worker[w].pc \in {"replying", "asking", "approving"}
    /\ Use("github", MaxGitHub)
    /\ Done(w)
    /\ UNCHANGED <<comment, todo, runs, replies, reviews, cites>>

BodyStep(w) ==
    \/ ReadsComment(w) \/ StampClassification(w) \/ ReplyUnclear(w)
    \/ Gate(w) \/ SelectForUpdate(w) \/ AskApproval(w) \/ ApprovePr(w) \/ CommitBody(w)

Next ==
    \/ \E c \in Comments : FreeText(c)
    \/ StartReReview
    \/ \E i \in RunIds : RunEnds(i) \/ CancelQueued(i)
    \/ \E t \in Tasks : PushedTwice(t)
    \/ \E w \in Workers : (\E t \in Tasks : Take(w, t)) \/ BodyStep(w) \/ BodyDies(w) \/ GitHubFails(w)

Spec == Init /\ [][Next]_vars

-----------------------------------------------------------------------------
TypeOK ==
    /\ \A c \in Comments : comment[c] = NoRow \/ comment[c] \in PRCommentRow
    /\ todo \in [Tasks -> Nat]
    /\ worker \in [Workers -> BodyType]
    /\ runs \in Seq({"queued", "running", "over"})
    /\ Cardinality(InFlight(runs)) <= 1
    /\ replies \in [Comments -> Nat] /\ reviews \in Nat

(* However classification tasks and hooks interleave, one run at most is   *)
(* kicked off with a comment: nobody is answered twice.                    *)
AnsweredByOneRun == \A c \in Comments : Cardinality(cites[c]) <= 1

-----------------------------------------------------------------------------
(* What documentation says, and the code does not do.                      *)

(* "loses one canned reply rather than risking a double reply". *)
NoDoubleReply == \A c \in Comments : replies[c] <= 1

(* "Idempotent by construction: GitHub is the source of truth". *)
ApprovedOnce == reviews <= 1
=============================================================================
