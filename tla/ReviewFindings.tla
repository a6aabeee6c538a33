--------------------------- MODULE ReviewFindings ---------------------------
(***************************************************************************)
(* The findings of one ticket (domain/findings), the verdicts reviews pass *)
(* on them (_record_and_apply_review), and the three GitHub actions that   *)
(* carry them to the pull request (plugins/github/actions.py).             *)
(*                                                                         *)
(* One run at a time, as the engine guarantees: reviews, then an action.   *)
(* An action is one transaction with GitHub calls inside: a call takes     *)
(* effect at once, the writes at the commit; an action that died is        *)
(* executed again from its start (resume_stalled_runs).                    *)
(***************************************************************************)
EXTENDS Naturals, Sequences, FiniteSets

CONSTANTS Findings,     \* display ids, 1 .. n
          MaxRuns,
          MaxPasses,    \* reviews of one stage execution
          MaxDeaths,    \* actions that die and are executed again
          PageSize,     \* comments GitHub lists at once
          TopLevel,     \* findings without a file and line may be reported
          Disputes,     \* runs may answer comments, disputes among them
          Cautious,     \* the skill asserts only what the finding's status admits
          AutoApprove   \* the repository approves when no posted blocker is open

FindingsAssumption ==
    /\ Findings \subseteq Nat \ {0} /\ MaxRuns \in Nat /\ MaxPasses \in Nat /\ MaxDeaths \in Nat /\ PageSize \in Nat
    /\ {TopLevel, Disputes, Cautious, AutoApprove} \subseteq BOOLEAN

VARIABLES finding,  \* findings
          bound,    \* tickets.pr_id is set
          github,   \* the pull request: open?, comments oldest first, resolved threads
          run,      \* the run in flight
          act,      \* the action in progress
          hook,     \* auto-approval after a run: idle, or about to approve
          replied,  \* history: replies GitHub got, by run and finding
          used

vars == <<finding, bound, github, run, act, hook, replied, used>>

Severity  == {"blocker", "nit"}
Status    == {"open", "resolved", "dismissed"}
NoRow     == [absent |-> TRUE]
NoComment == 0

FindingRow == [severity : Severity, status : Status, exec : 1 .. MaxRuns, inline : BOOLEAN,
               defended : BOOLEAN, anchor : Nat, disputes : Nat]
Verdict    == [status : {"none", "fixed", "still_present", "user_overrode"}, reply : BOOLEAN]
Comment    == [of : Findings, inline : BOOLEAN]
RunType    == [n : 0 .. MaxRuns, phase : {"idle", "review", "action", "raised"}, passes : 0 .. MaxPasses,
               disputed : SUBSET Findings, comments : BOOLEAN]
Idle       == [n |-> 0, phase |-> "idle", passes |-> 0, disputed |-> {}, comments |-> FALSE]
NoVerdict  == [status |-> "silent", reply |-> FALSE]
NoAct      == [pc |-> "idle", seen |-> <<>>, anchor |-> [f \in Findings |-> NoComment], todo |-> {},
               defended |-> {}, dismissed |-> {}]

Init ==
    /\ finding = [f \in Findings |-> NoRow]
    /\ bound \in BOOLEAN
    /\ github = [open |-> bound, comments |-> <<>>, resolved |-> {}, over |-> {}]
    /\ hook = "idle"
    /\ run = [row |-> Idle, verdict |-> [f \in Findings |-> NoVerdict]]
    /\ act = NoAct
    /\ replied = [f \in Findings |-> [n \in 1 .. MaxRuns |-> 0]]
    /\ used = 0

Known  == {f \in Findings : finding[f] # NoRow}
Own    == {f \in Known : finding[f].exec = run.row.n}
Open   == {f \in Known : finding[f].status = "open"}
Posted == {f \in Known : finding[f].anchor # NoComment}

-----------------------------------------------------------------------------
(* domain/findings: the transition matrix.  A finding moves to where it is *)
(* without an event; an illegal jump raises.                               *)

Legal == [open |-> {"resolved", "dismissed"}, resolved |-> {"open", "dismissed"}, dismissed |-> {}]

Moves(s, to)   == s = to \/ to \in Legal[s]
Reflags(s)     == s = "open"

(* _apply_verdicts takes the status of this execution's own findings and   *)
(* "open" for any other.                                                   *)
OwnStatusById(f) == IF f \in Own THEN finding[f].status ELSE "open"

Target(f, v) ==
    LET s == finding[f].status
    IN CASE v = "fixed"         -> IF Moves(s, "resolved") THEN "resolved" ELSE "raise"
         [] v = "user_overrode" -> "dismissed"
         [] v = "still_present" -> IF OwnStatusById(f) = "resolved"
                                   THEN IF Moves(s, "open") THEN "open" ELSE "raise"
                                   ELSE IF Reflags(s) THEN "open" ELSE "raise"
         [] OTHER               -> s

-----------------------------------------------------------------------------
(* A run: reviews, or for a batch of comments the answers to them.         *)

StartRun ==
    /\ run.row.phase = "idle"
    /\ run.row.n < MaxRuns
    /\ \E answers \in BOOLEAN, D \in SUBSET Posted :
         /\ answers => Disputes /\ bound
         /\ ~answers => D = {}
         /\ run' = [row |-> [n |-> run.row.n + 1, phase |-> "review", passes |-> 0, disputed |-> D, comments |-> answers],
                    verdict |-> [f \in Findings |-> NoVerdict]]
         /\ finding' = [f \in Findings |-> IF f \in D THEN [finding[f] EXCEPT !.disputes = @ + 1] ELSE finding[f]]
    /\ UNCHANGED <<bound, github, act, hook, replied, used>>

(* merge_prior_findings: the execution's own, the ticket's open ones, the  *)
(* ones the comments are about.                                            *)
Prior == Own \cup Open \cup run.row.disputed

(* What the skill may say of a finding it was shown.                       *)
Verdicts(f) ==
    IF f \notin Prior THEN {NoVerdict}
    ELSE {v \in Verdict \cup {NoVerdict} : (Cautious /\ f \in Prior) =>
                 Target(f, v.status) # "raise" \/ v = NoVerdict}

(* record_findings: display ids grow, so a handle is one finding's.        *)
NewIds(k) == {f \in Findings \ Known : Cardinality({g \in Findings \ Known : g <= f}) <= k}
Reported(f, sev, inline) ==
    [severity |-> sev, status |-> "open", exec |-> run.row.n, inline |-> inline,
     defended |-> FALSE, anchor |-> NoComment, disputes |-> 0]

(* _record_and_apply_review and the boundary after it.  A raise rolls the  *)
(* whole return back and the task body is gone: the run is stuck.          *)
ReviewReturn ==
    /\ run.row.phase = "review"
    /\ run.row.passes < MaxPasses
    /\ \E k \in 0 .. 1, sev \in Severity, inline \in IF TopLevel THEN BOOLEAN ELSE {TRUE},
          v \in [Findings -> Verdict \cup {NoVerdict}],
          again \in BOOLEAN :
         /\ k = 0 => sev = "nit" /\ inline
         /\ \A f \in Findings : v[f] \in Verdicts(f)
         /\ again => run.row.passes + 1 < MaxPasses
         /\ IF \E f \in Prior : Target(f, v[f].status) = "raise"
            THEN /\ run' = [run EXCEPT !.row.phase = "raised"]
                 /\ UNCHANGED finding
            ELSE /\ run' = [row |-> [run.row EXCEPT !.phase = IF again THEN "review" ELSE "action", !.passes = @ + 1],
                            verdict |-> v]
                 /\ finding' = [f \in Findings |->
                      IF f \in NewIds(k)
                      THEN Reported(f, sev, inline)
                      ELSE IF f \in Prior THEN [finding[f] EXCEPT !.status = Target(f, v[f].status)]
                      ELSE finding[f]]
    /\ UNCHANGED <<bound, github, act, hook, replied, used>>

-----------------------------------------------------------------------------
(* The action stage.  The context holds the open findings of the stage     *)
(* before it and that stage's last verdicts.                               *)

Residuals == {f \in Own : finding[f].status = "open"}
Judged    == {f \in Findings : run.verdict[f] # NoVerdict}
First(S)  == CHOOSE f \in S : \A g \in S : f <= g

Execute ==
    /\ run.row.phase = "action"
    /\ act.pc = "idle"
    /\ act' = [NoAct EXCEPT !.pc = IF run.row.comments THEN "verdict" ELSE IF bound THEN "list" ELSE "open",
                            !.todo = IF run.row.comments THEN Judged ELSE {}]
    /\ UNCHANGED <<finding, bound, github, run, hook, replied, used>>

(* create_pr: 422 when the branch has an open pull request, and then the   *)
(* one GitHub has is looked up.                                            *)
CreatePr ==
    /\ act.pc = "open"
    /\ github' = [github EXCEPT !.open = TRUE]
    /\ act' = [act EXCEPT !.pc = "list"]
    /\ UNCHANGED <<finding, bound, run, hook, replied, used>>

ListYaaosComments ==
    /\ act.pc = "list"
    /\ act' = [act EXCEPT !.pc = "post", !.todo = {f \in Residuals : finding[f].anchor = NoComment},
                          !.seen = SubSeq(github.comments, 1, IF Len(github.comments) < PageSize THEN Len(github.comments) ELSE PageSize)]
    /\ UNCHANGED <<finding, bound, github, run, hook, replied, used>>

(* _post_residuals: the first listed comment whose text holds the handle,  *)
(* otherwise a new comment.                                                *)
Match(f) == {i \in 1 .. Len(act.seen) : act.seen[i].of = f}

PostResidual ==
    /\ act.pc = "post"
    /\ act.todo # {}
    /\ LET f == First(act.todo)
       IN IF Match(f) # {}
          THEN /\ act' = [act EXCEPT !.todo = @ \ {f}, !.anchor[f] = First(Match(f))]
               /\ UNCHANGED github
          ELSE /\ github' = [github EXCEPT !.comments = Append(@, [of |-> f, inline |-> finding[f].inline])]
               /\ act' = [act EXCEPT !.todo = @ \ {f}, !.anchor[f] = Len(github.comments) + 1]
    /\ UNCHANGED <<finding, bound, run, hook, replied, used>>

PostingDone ==
    /\ act.pc = "post"
    /\ act.todo = {}
    /\ act' = [act EXCEPT !.pc = "verdict",
                          !.todo = {f \in Judged : run.verdict[f].status \in {"fixed", "still_present"}}]
    /\ UNCHANGED <<finding, bound, github, run, hook, replied, used>>

Reply(f) == replied' = [replied EXCEPT ![f][run.row.n] = @ + 1]

(* GitHubUpdatePRAction: the thread of a fixed finding is resolved; a      *)
(* top-level comment has no thread and resolve_finding_thread raises.      *)
ResolvesThread(i) == github.comments[i].inline

ReflectVerdict ==
    /\ act.pc = "verdict" /\ ~run.row.comments
    /\ act.todo # {}
    /\ LET f     == First(act.todo)
           fixed == run.verdict[f].status = "fixed"
       IN /\ act' = [act EXCEPT !.todo = @ \ {f}]
          /\ IF finding[f].anchor = NoComment
             THEN UNCHANGED <<github, replied>>
             ELSE /\ fixed => ResolvesThread(finding[f].anchor)
                  /\ github' = IF fixed THEN [github EXCEPT !.resolved = @ \cup {finding[f].anchor}] ELSE github
                  /\ IF run.verdict[f].reply THEN Reply(f) ELSE UNCHANGED replied
    /\ UNCHANGED <<finding, bound, run, hook, used>>

(* GitHubReplyToCommentAction: one defense, and the coerced dismissal.     *)
DisputePolicy(f) ==
    IF f \notin run.row.disputed THEN "leave"
    ELSE IF run.verdict[f].status = "none" THEN IF run.verdict[f].reply THEN "defend" ELSE "leave"
    ELSE IF finding[f].defended /\ run.verdict[f].status # "user_overrode" THEN "dismiss"
    ELSE "leave"

ReplyToComment ==
    /\ act.pc = "verdict" /\ run.row.comments
    /\ act.todo # {}
    /\ LET f == First(act.todo)
       IN /\ act' = [act EXCEPT !.todo = @ \ {f},
                                !.defended  = IF DisputePolicy(f) = "defend" THEN @ \cup {f} ELSE @,
                                !.dismissed = IF DisputePolicy(f) = "dismiss" THEN @ \cup {f} ELSE @]
          /\ IF finding[f].anchor # NoComment /\ (run.verdict[f].reply \/ DisputePolicy(f) = "dismiss")
             THEN Reply(f)
             ELSE UNCHANGED replied
    /\ UNCHANGED <<finding, bound, github, run, hook, used>>

(* The stage's transaction commits, the run ends.                          *)
SetExternalAnchor(f) == IF act.anchor[f] # NoComment THEN act.anchor[f] ELSE finding[f].anchor
Committed(f) ==
    [finding[f] EXCEPT !.anchor = SetExternalAnchor(f), !.defended = @ \/ f \in act.defended,
                       !.status = IF f \in act.dismissed THEN "dismissed" ELSE @]

ActionCommits ==
    /\ act.pc = "verdict"
    /\ act.todo = {}
    /\ finding' = [f \in Findings |-> IF f \in Known THEN Committed(f) ELSE NoRow]
    /\ bound' = TRUE
    /\ act' = NoAct
    /\ run' = [run EXCEPT !.row = [Idle EXCEPT !.n = run.row.n]]
    /\ UNCHANGED <<github, hook, replied, used>>

ActionDies ==
    /\ act.pc # "idle"
    /\ used < MaxDeaths
    /\ used' = used + 1
    /\ act' = NoAct
    /\ UNCHANGED <<finding, bound, github, run, hook, replied>>

-----------------------------------------------------------------------------
(* evaluate_auto_approve with no_blocker, in the hook of a finished run:   *)
(* the findings are read, then GitHub is called; the next run may be under *)
(* way.                                                                    *)

OpenBlockers == {f \in Posted : finding[f].status = "open" /\ finding[f].severity = "blocker"}

EvaluateAutoApprove ==
    /\ AutoApprove /\ hook = "idle" /\ bound
    /\ run.row.n > 0 /\ OpenBlockers = {}
    /\ hook' = "passed"
    /\ UNCHANGED <<finding, bound, github, run, act, replied, used>>

ApprovePr ==
    /\ hook = "passed"
    /\ hook' = "idle"
    /\ github' = [github EXCEPT !.over = @ \cup OpenBlockers]
    /\ UNCHANGED <<finding, bound, run, act, replied, used>>

-----------------------------------------------------------------------------
ActionStep ==
    \/ Execute \/ CreatePr \/ ListYaaosComments \/ PostResidual \/ PostingDone
    \/ ReflectVerdict \/ ReplyToComment \/ ActionCommits

Next == StartRun \/ ReviewReturn \/ ActionStep \/ ActionDies \/ EvaluateAutoApprove \/ ApprovePr
Spec == Init /\ [][Next]_vars

(* A stage that was started is executed until it is settled. *)
FairSpec == Spec /\ WF_vars(ActionStep)

-----------------------------------------------------------------------------
TypeOK ==
    /\ \A f \in Known : finding[f] \in FindingRow
    /\ bound \in BOOLEAN
    /\ github.comments \in Seq(Comment) /\ github.resolved \subseteq 1 .. Len(github.comments)
    /\ run.row \in RunType
    /\ act.pc \in {"idle", "open", "list", "post", "verdict", "commit"} /\ act.todo \subseteq Findings
    /\ bound => github.open

Posts(f) == {i \in 1 .. Len(github.comments) : github.comments[i].of = f}

(* However often a posting action dies between a GitHub call and its       *)
(* commit, GitHub holds one comment per finding (the reconciliation of     *)
(* _post_residuals), while its comments fit a page.                        *)
PostedOnce == \A f \in Findings : Cardinality(Posts(f)) <= 1

(* A finding is anchored at the comment that reports it: a reply in the    *)
(* thread finds the finding it is about.                                   *)
AnchoredAtItsComment == \A f \in Posted : finding[f].anchor \in Posts(f)

(* Dismissed is final: no verdict, no dispute, no later run brings a       *)
(* dismissed finding back, and nothing un-defends or un-anchors one.       *)
DismissedStays ==
    \A f \in Known : /\ finding[f].status = "dismissed" => finding'[f].status = "dismissed"
                     /\ finding[f].defended => finding'[f].defended
                     /\ Posts(f) # {} => finding'[f].anchor \in {finding[f].anchor} \cup Posts(f)

(* A review run ends with each of its open findings on the pull request,   *)
(* whatever died on the way: auto-approval looks at posted findings only.  *)
NothingLeftUnposted ==
    (run.row.phase = "action" /\ run'.row.phase = "idle" /\ ~run.row.comments)
        => \A f \in Own : finding[f].status = "open" => finding'[f].anchor # NoComment

-----------------------------------------------------------------------------
(* What documentation says, and the code does not do.                      *)

(* "a second dispute always ends in dismiss regardless of what the skill   *)
(* now asserts".                                                           *)
SecondDisputeDismisses ==
    (run.row.phase = "idle") =>
        \A f \in Known : (finding[f].disputes >= 2 /\ finding[f].defended) => finding[f].status = "dismissed"

(* "still_present -> reflag when the finding is open, reopen when it's     *)
(* resolved".                                                              *)
VerdictsApply == run.row.phase # "raised"

(* "an Action implementation must ... no-op (or reconcile) on already-done *)
(* work".                                                                  *)
RepliedOnce == \A f \in Findings, n \in 1 .. MaxRuns : replied[f][n] <= 1

(* "approves ... once the repo's enabled conditions pass against posted-   *)
(* finding state".                                                         *)
ApprovedWithoutBlocker == github.over = {}

(* "resolves the thread of every fixed finding". *)
ActionSettles == (run.row.phase = "action") ~> (run.row.phase = "idle")
=============================================================================
