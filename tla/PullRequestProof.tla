------------------------ MODULE PullRequestProof ------------------------
(***************************************************************************)
(* Safety of what goes to a pull request and of what comes from it.        *)
(*                                                                         *)
(* To it: findings, verdicts and the GitHub actions that carry them there, *)
(* for any set of findings, any number of runs and every number of deaths  *)
(* between a GitHub call and its commit.  An action writes to GitHub at    *)
(* once and to the database at its commit, so the invariant relates three  *)
(* things: what GitHub shows, what the action has in hand, and the rows as *)
(* they were when it started.                                              *)
(*                                                                         *)
(* From it: the webhooks of PullRequestIntake, for any number of requests  *)
(* at once, deliveries, failures and pauses.  The invariant says which     *)
(* request may still act on an event, and that runs, ticket and pull       *)
(* request are written together.                                           *)
(***************************************************************************)
EXTENDS ReviewFindings, SequenceTheorems, FunctionTheorems, FiniteSetTheorems, WellFoundedInduction, TLAPS

-----------------------------------------------------------------------------
(* The inductive invariant.                                                 *)

Pcs == {"idle", "open", "list", "post", "verdict"}

ActType == [pc : Pcs, seen : Seq(Comment), anchor : [Findings -> Nat], todo : SUBSET Findings,
            defended : SUBSET Findings, dismissed : SUBSET Findings]
GithubType == [open : BOOLEAN, comments : Seq(Comment), resolved : SUBSET Nat, over : SUBSET Findings]
RunRow == [row : RunType, verdict : [Findings -> Verdict \cup {NoVerdict}]]

RowsTyped ==
  /\ finding \in [Findings -> FindingRow \cup {NoRow}]
  /\ bound \in BOOLEAN /\ github \in GithubType /\ run \in RunRow /\ act \in ActType
  /\ hook \in {"idle", "passed"} /\ replied \in [Findings -> [1 .. MaxRuns -> Nat]] /\ used \in Nat

\* A run that has begun has a number, disputes and judges findings that exist, and answers
\* comments on a pull request that the ticket is bound to, which is then open.
RunBegun ==
  /\ run.row.phase # "idle" => run.row.n \in 1 .. MaxRuns
  /\ run.row.disputed \subseteq Known /\ Judged \subseteq Known
  /\ run.row.comments => bound
  /\ bound => github.open
  /\ github.resolved \subseteq 1 .. Len(github.comments)

\* An action in progress is the current run's; what it has in hand is what GitHub
\* shows, and what it listed is still the beginning of it.
ActInHand ==
  /\ act.pc # "idle" => run.row.phase = "action"
  /\ act.pc \in {"open", "list", "post"} => ~run.row.comments
  /\ act.pc \in {"list", "post", "verdict"} /\ ~run.row.comments => github.open
  /\ \A f \in Findings : act.anchor[f] # NoComment => act.anchor[f] \in Posts(f)
  /\ act.pc \in {"post", "verdict"} => act.todo \subseteq Known
  /\ act.pc = "post" =>
       \A i \in 1 .. Len(act.seen) : i \in 1 .. Len(github.comments) /\ act.seen[i] = github.comments[i]

\* Past the listing, an open finding of the run is posted, in hand or still to do.
ResidualsKept ==
  act.pc \in {"post", "verdict"} /\ ~run.row.comments =>
    \A f \in Residuals : \/ finding[f].anchor # NoComment \/ act.anchor[f] # NoComment
                         \/ act.pc = "post" /\ f \in act.todo

FInv == RowsTyped /\ RunBegun /\ ActInHand /\ ResidualsKept /\ AnchoredAtItsComment

\* While the comments fit a page: no finding has two, and one that is still to do has
\* none that was not listed.
PageHolds == IsFiniteSet(Findings) /\ Cardinality(Findings) <= PageSize

OneEach ==
  /\ \A i, j \in 1 .. Len(github.comments) : github.comments[i].of = github.comments[j].of => i = j
  /\ act.pc = "post" => \A f \in act.todo : \A i \in Posts(f) : i <= Len(act.seen)

\* What a step leaves of the invariant, and of the two action properties.
StepHolds == FInv' /\ DismissedStays /\ NothingLeftUnposted


-----------------------------------------------------------------------------
(* Operators and types.                                                     *)

\* A row is not the absence of one.
LEMMA RowIsNoRow ==
  ASSUME NEW r \in FindingRow
  PROVE  r # NoRow
<1>1. DOMAIN r = {"severity", "status", "exec", "inline", "defended", "anchor", "disputes"}
  BY DEF FindingRow
<1>2. DOMAIN NoRow = {"absent"}
  BY DEF NoRow
<1>3. "absent" \notin DOMAIN r
  BY <1>1
<1> QED
  BY <1>2, <1>3

\* The first of some numbers is one of them.
LEMMA FirstIsIn ==
  ASSUME NEW S \in SUBSET Nat, S # {}
  PROVE  First(S) \in S
<1> DEFINE Less == OpToRel(<, Nat)
<1>1. IsWellFoundedOn(Less, Nat)
  BY NatLessThanWellFounded, ZenonT(10)
<1>2. \A x, y \in Nat : <<y, x>> \in Less <=> y < x
  BY DEF OpToRel
<1>3. PICK n \in S : \A m \in S : ~ (<<m, n>> \in Less)
  <2> HIDE DEF Less
  <2> QED
    BY <1>1, WFMin
<1>4. \A m \in S : n <= m
  <2> HIDE DEF Less
  <2> SUFFICES ASSUME NEW m \in S PROVE n <= m
    OBVIOUS
  <2>1. m \in Nat /\ n \in Nat /\ ~ (m < n)
    BY <1>2, <1>3
  <2> QED
    BY <2>1
<1> QED
  BY <1>4 DEF First

\* Where a finding may move to is a status.
LEMMA TargetIsStatus ==
  ASSUME RowsTyped, NEW f \in Known, NEW v, Target(f, v) # "raise"
  PROVE  Target(f, v) \in Status
<1>1. finding[f].status \in Status
  BY DEF RowsTyped, Known, FindingRow
<1> QED
  BY <1>1 DEF Target, Status

\* A dismissed finding is moved by no verdict.
LEMMA TargetOfDismissed ==
  ASSUME RowsTyped, NEW f \in Known, finding[f].status = "dismissed", NEW v, Target(f, v) # "raise"
  PROVE  Target(f, v) = "dismissed"
BY DEF Target, Moves, Reflags, Legal, OwnStatusById, Own

\* What a comment is appended to keeps its place.
LEMMA AppendOf ==
  ASSUME NEW S, NEW s \in Seq(S), NEW x
  PROVE  /\ Len(Append(s, x)) = Len(s) + 1
         /\ \A i \in 1 .. Len(s) : Append(s, x)[i] = s[i]
         /\ Append(s, x)[Len(s) + 1] = x
OBVIOUS

\* An action not in progress has nothing in hand.
LEMMA NoActTyped ==
  /\ NoAct \in ActType
  /\ NoAct.pc = "idle" /\ NoAct.todo = {} /\ NoAct.anchor = [f \in Findings |-> NoComment]
  /\ NoAct.defended = {} /\ NoAct.dismissed = {}
BY EmptySeq DEF NoAct, ActType, Pcs, NoComment

\* A reply is counted for a run that has begun.
LEMMA ReplyTyped ==
  ASSUME FInv, NEW f \in Findings, run.row.phase # "idle", Reply(f)
  PROVE  replied' \in [Findings -> [1 .. MaxRuns -> Nat]]
<1>1. run.row.n \in 1 .. MaxRuns /\ replied \in [Findings -> [1 .. MaxRuns -> Nat]]
  BY DEF FInv, RowsTyped, RunBegun
<1> DEFINE n == run.row.n
<1>2. replied[f] \in [1 .. MaxRuns -> Nat] /\ n \in 1 .. MaxRuns
  BY <1>1
<1>3. replied' = [replied EXCEPT ![f] = [replied[f] EXCEPT ![n] = replied[f][n] + 1]]
  BY DEF Reply
<1> HIDE DEF n
<1>4. replied[f][n] \in Nat
  BY ONLY <1>2
<1>5. [replied[f] EXCEPT ![n] = replied[f][n] + 1] \in [1 .. MaxRuns -> Nat]
  BY ONLY <1>2, <1>4
<1> QED
  BY <1>1, <1>3, <1>5

\* A step that leaves the rows and the run keeps both action properties.
LEMMA QuietStep ==
  ASSUME finding' = finding, run' = run
  PROVE  DismissedStays /\ NothingLeftUnposted
BY DEF DismissedStays, NothingLeftUnposted

-----------------------------------------------------------------------------
(* The steps of a run.                                                      *)

LEMMA Initially ==
  ASSUME FindingsAssumption, Init
  PROVE  FInv /\ OneEach
<1>1. github.comments = <<>> /\ github.comments \in Seq(Comment) /\ Len(github.comments) = 0
  BY EmptySeq DEF Init
<1>2. Idle \in RunType /\ run.verdict = [f \in Findings |-> NoVerdict]
  BY DEF Idle, RunType, FindingsAssumption, Init
<1>3. run \in RunRow /\ run.row = Idle
  BY <1>2 DEF RunRow, Init
<1>4. RowsTyped
  <2>1. github \in GithubType
    BY <1>1 DEF Init, GithubType
  <2>2. replied \in [Findings -> [1 .. MaxRuns -> Nat]] /\ used \in Nat /\ bound \in BOOLEAN
    BY DEF Init
  <2>3. finding \in [Findings -> FindingRow \cup {NoRow}] /\ hook = "idle"
    BY DEF Init
  <2> QED
    BY <1>3, <2>1, <2>2, <2>3, NoActTyped DEF RowsTyped, Init
<1>5. RunBegun
  BY <1>1, <1>2, <1>3 DEF RunBegun, Init, Idle, Judged
<1>6. act.pc = "idle" /\ \A f \in Findings : act.anchor[f] = NoComment
  BY NoActTyped DEF Init
<1>7. ActInHand /\ ResidualsKept
  BY <1>6 DEF ActInHand, ResidualsKept
<1>8. AnchoredAtItsComment
  BY DEF AnchoredAtItsComment, Posted, Known, Init
<1>9. OneEach
  BY <1>1, <1>6 DEF OneEach
<1> QED
  BY <1>4, <1>5, <1>7, <1>8, <1>9 DEF FInv

LEMMA StartRunKeeps ==
  ASSUME FindingsAssumption, FInv, StartRun
  PROVE  StepHolds
<1>1. /\ run.row.phase = "idle" /\ run.row.n \in 0 .. MaxRuns /\ run.row.n < MaxRuns
      /\ finding \in [Findings -> FindingRow \cup {NoRow}] /\ MaxRuns \in Nat
  BY DEF StartRun, FInv, RowsTyped, RunRow, RunType, FindingsAssumption
<1>2. PICK answers \in BOOLEAN, D \in SUBSET Posted :
        /\ answers => Disputes /\ bound
        /\ run' = [row |-> [n |-> run.row.n + 1, phase |-> "review", passes |-> 0, disputed |-> D, comments |-> answers],
                   verdict |-> [f \in Findings |-> NoVerdict]]
        /\ finding' = [f \in Findings |-> IF f \in D THEN [finding[f] EXCEPT !.disputes = @ + 1] ELSE finding[f]]
  BY DEF StartRun
<1>3. UNCHANGED <<bound, github, act, hook, replied, used>>
  BY DEF StartRun
<1>4. D \subseteq Posted /\ D \subseteq Known /\ D \subseteq Findings
  BY DEF Posted, Known
<1>5. /\ run'.row \in RunType /\ run' \in RunRow /\ run'.row.n = run.row.n + 1
      /\ run'.row.phase = "review" /\ run'.row.disputed = D /\ run'.row.comments = answers
  <2>1. run.row.n + 1 \in 0 .. MaxRuns /\ 0 \in 0 .. MaxPasses
    BY <1>1 DEF FindingsAssumption
  <2> QED
    BY <1>2, <1>4, <2>1 DEF RunRow, RunType
<1>6. ASSUME NEW f \in Findings
      PROVE  /\ finding'[f] \in FindingRow \cup {NoRow} /\ (finding'[f] = NoRow <=> finding[f] = NoRow)
             /\ finding[f] # NoRow => /\ finding'[f].status = finding[f].status
                                      /\ finding'[f].defended = finding[f].defended
                                      /\ finding'[f].anchor = finding[f].anchor
  <2>1. CASE f \in D
    <3>1. finding[f] \in FindingRow
      BY <1>1, <1>4, <2>1 DEF Known
    <3>2. finding'[f] = [finding[f] EXCEPT !.disputes = finding[f].disputes + 1]
      BY <1>2, <2>1
    <3>3. /\ finding'[f] \in FindingRow /\ finding'[f].status = finding[f].status
          /\ finding'[f].defended = finding[f].defended /\ finding'[f].anchor = finding[f].anchor
      BY <3>1, <3>2 DEF FindingRow
    <3> QED
      BY <3>1, <3>3, RowIsNoRow
  <2>2. CASE f \notin D
    BY <1>1, <1>2, <2>2
  <2> QED
    BY <2>1, <2>2
<1>7. Known' = Known /\ Posted' = Posted
  BY <1>6 DEF Known, Posted
<1>8. RowsTyped'
  <2>1. finding' \in [Findings -> FindingRow \cup {NoRow}]
    BY <1>2, <1>6
  <2> QED
    BY <1>3, <1>5, <2>1 DEF FInv, RowsTyped
<1>9. RunBegun'
  <2>1. Judged' = {}
    BY <1>2 DEF Judged
  <2> QED
    BY <1>1, <1>2, <1>3, <1>4, <1>5, <1>7, <2>1 DEF FInv, RunBegun
<1>10. act.pc = "idle" /\ act' = act /\ github' = github
  BY <1>1, <1>3 DEF FInv, ActInHand, RowsTyped, ActType, Pcs
<1>11. ActInHand' /\ ResidualsKept'
  BY <1>10 DEF FInv, ActInHand, ResidualsKept, Posts
<1>12. AnchoredAtItsComment'
  BY <1>6, <1>7, <1>10 DEF FInv, AnchoredAtItsComment, Posts, Posted, Known
<1>13. DismissedStays /\ NothingLeftUnposted
  BY <1>1, <1>6 DEF DismissedStays, NothingLeftUnposted, Known
<1> QED
  BY <1>8, <1>9, <1>11, <1>12, <1>13 DEF StepHolds, FInv

\* What a review shows the skill exists, and a new finding does not yet.
LEMMA PriorIsKnown ==
  ASSUME FInv
  PROVE  Prior \subseteq Known /\ \A k \in 0 .. 1 : NewIds(k) \subseteq Findings \ Known
<1>1. run.row.disputed \subseteq Known
  BY DEF FInv, RunBegun
<1> QED
  BY <1>1 DEF Prior, Own, Open, NewIds

LEMMA ReviewReturnKeeps ==
  ASSUME FindingsAssumption, FInv, ReviewReturn
  PROVE  StepHolds
<1>1. /\ run.row.phase = "review" /\ run.row.n \in 1 .. MaxRuns /\ run.row \in RunType /\ run \in RunRow
      /\ run.row.passes \in 0 .. MaxPasses /\ run.row.passes < MaxPasses /\ MaxPasses \in Nat
      /\ finding \in [Findings -> FindingRow \cup {NoRow}]
  BY DEF ReviewReturn, FInv, RowsTyped, RunBegun, RunRow, RunType, FindingsAssumption
<1>2. act.pc = "idle" /\ UNCHANGED <<bound, github, act, hook, replied, used>>
  BY <1>1 DEF ReviewReturn, FInv, ActInHand
<1>3. PICK k \in 0 .. 1, sev \in Severity, inline \in IF TopLevel THEN BOOLEAN ELSE {TRUE},
           v \in [Findings -> Verdict \cup {NoVerdict}], again \in BOOLEAN :
        /\ k = 0 => sev = "nit" /\ inline
        /\ \A f \in Findings : v[f] \in Verdicts(f)
        /\ again => run.row.passes + 1 < MaxPasses
        /\ IF \E f \in Prior : Target(f, v[f].status) = "raise"
           THEN /\ run' = [run EXCEPT !.row.phase = "raised"]
                /\ UNCHANGED finding
           ELSE /\ run' = [row |-> [run.row EXCEPT !.phase = IF again THEN "review" ELSE "action", !.passes = @ + 1],
                           verdict |-> v]
                /\ finding' = [f \in Findings |->
                     IF f \in NewIds(k)
                     THEN Reported(f, sev, inline)
                     ELSE IF f \in Prior THEN [finding[f] EXCEPT !.status = Target(f, v[f].status)]
                     ELSE finding[f]]
  BY Zenon DEF ReviewReturn
<1>4. inline \in BOOLEAN
  BY <1>3 DEF FindingsAssumption
<1>5. /\ run' \in RunRow /\ run'.row.n = run.row.n /\ run'.row.phase \in {"review", "action", "raised"}
      /\ run'.row.disputed = run.row.disputed /\ run'.row.comments = run.row.comments
  <2>1. CASE run' = [run EXCEPT !.row.phase = "raised"]
    <3> DEFINE row == [run.row EXCEPT !.phase = "raised"]
    <3>1. row \in RunType /\ row.n = run.row.n /\ row.phase = "raised"
          /\ row.disputed = run.row.disputed /\ row.comments = run.row.comments
      BY <1>1 DEF RunType
    <3>2. run' = [run EXCEPT !.row = row]
      BY <2>1
    <3> HIDE DEF row
    <3> QED
      BY <1>1, <3>1, <3>2 DEF RunRow
  <2>2. CASE run' = [row |-> [run.row EXCEPT !.phase = IF again THEN "review" ELSE "action", !.passes = @ + 1],
                     verdict |-> v]
    <3>1. run.row.passes + 1 \in 0 .. MaxPasses
      BY <1>1
    <3> DEFINE row == [run.row EXCEPT !.phase = IF again THEN "review" ELSE "action", !.passes = run.row.passes + 1]
    <3>2. row \in RunType /\ row.n = run.row.n /\ row.phase \in {"review", "action"}
          /\ row.disputed = run.row.disputed /\ row.comments = run.row.comments
      BY <1>1, <3>1 DEF RunType
    <3>3. run' = [row |-> row, verdict |-> v]
      BY <2>2
    <3> HIDE DEF row
    <3> QED
      BY <3>2, <3>3 DEF RunRow
  <2> QED
    BY <1>3, <2>1, <2>2
<1>6. ASSUME NEW f \in Findings
      PROVE  \/ finding'[f] = finding[f]
             \/ /\ finding[f] = NoRow /\ finding'[f] \in FindingRow /\ finding'[f].anchor = NoComment
             \/ /\ f \in Known /\ finding'[f] \in FindingRow
                /\ finding'[f].anchor = finding[f].anchor /\ finding'[f].defended = finding[f].defended
                /\ finding[f].status = "dismissed" => finding'[f].status = "dismissed"
  <2>1. CASE \E g \in Prior : Target(g, v[g].status) = "raise"
    BY <1>3, <2>1
  <2>2. CASE ~ \E g \in Prior : Target(g, v[g].status) = "raise"
    <3>1. CASE f \in NewIds(k)
      <4>1. finding[f] = NoRow
        BY <3>1, PriorIsKnown DEF Known
      <4>2. finding'[f] = Reported(f, sev, inline)
        BY <1>3, <2>2, <3>1
      <4>3. Reported(f, sev, inline) \in FindingRow /\ Reported(f, sev, inline).anchor = NoComment
        BY <1>1, <1>4 DEF Reported, FindingRow, Status, NoComment
      <4> QED
        BY <4>1, <4>2, <4>3
    <3>2. CASE f \notin NewIds(k) /\ f \in Prior
      <4>1. f \in Known /\ finding[f] \in FindingRow /\ Target(f, v[f].status) # "raise"
        BY <1>1, <2>2, <3>2, PriorIsKnown DEF Known
      <4>2. Target(f, v[f].status) \in Status
        BY <4>1, TargetIsStatus DEF FInv
      <4>3. finding[f].status = "dismissed" => Target(f, v[f].status) = "dismissed"
        BY <4>1, TargetOfDismissed DEF FInv
      <4>4. finding'[f] = [finding[f] EXCEPT !.status = Target(f, v[f].status)]
        BY <1>3, <2>2, <3>2
      <4> QED
        BY <4>1, <4>2, <4>3, <4>4 DEF FindingRow
    <3>3. CASE f \notin NewIds(k) /\ f \notin Prior
      BY <1>3, <2>2, <3>3
    <3> QED
      BY <3>1, <3>2, <3>3
  <2> QED
    BY <2>1, <2>2
<1>7. finding' \in [Findings -> FindingRow \cup {NoRow}]
  <2>1. \A f \in Findings : finding'[f] \in FindingRow \cup {NoRow}
    BY <1>1, <1>6
  <2>2. finding' = [f \in Findings |-> finding'[f]]
    BY <1>1, <1>3
  <2> QED
    BY <2>1, <2>2
<1>8. Known \subseteq Known'
  BY <1>6, RowIsNoRow DEF Known
<1>9. \A f \in Posted' : f \in Posted /\ finding'[f].anchor = finding[f].anchor
  BY <1>6 DEF Known, Posted
<1>10. RowsTyped'
  BY <1>2, <1>5, <1>7 DEF FInv, RowsTyped
<1>11. RunBegun'
  <2>1. CASE run'.verdict = run.verdict
    <3>1. Judged' = Judged
      BY <2>1 DEF Judged
    <3> QED
      BY <1>1, <1>2, <1>5, <1>8, <3>1 DEF FInv, RunBegun
  <2>2. CASE run'.verdict = v
    <3>1. \A f \in Findings : f \notin Prior => v[f] = NoVerdict
      BY <1>3 DEF Verdicts
    <3>2. Judged' \subseteq Known
      BY <2>2, <3>1, PriorIsKnown DEF Judged
    <3> QED
      BY <1>1, <1>2, <1>5, <1>8, <3>2 DEF FInv, RunBegun
  <2>3. run'.verdict = run.verdict \/ run'.verdict = v
    BY <1>1, <1>3 DEF RunRow
  <2> QED
    BY <2>1, <2>2, <2>3
<1>12. ActInHand' /\ ResidualsKept'
  BY <1>2 DEF FInv, ActInHand, ResidualsKept, Posts
<1>13. AnchoredAtItsComment'
  BY <1>2, <1>9 DEF FInv, AnchoredAtItsComment, Posts
<1>14. DismissedStays
  BY <1>6 DEF DismissedStays, Known
<1>15. NothingLeftUnposted
  BY <1>1 DEF NothingLeftUnposted
<1> QED
  BY <1>10, <1>11, <1>12, <1>13, <1>14, <1>15 DEF StepHolds, FInv

-----------------------------------------------------------------------------
(* The steps of an action.                                                  *)

\* A step that leaves the rows, the run and the pull request keeps what they are about.
LEMMA RowsKept ==
  ASSUME FInv, finding' = finding, run' = run, bound' = bound, github' = github
  PROVE  RunBegun' /\ AnchoredAtItsComment' /\ \A f \in Findings : Posts(f)' = Posts(f)
BY DEF FInv, RunBegun, AnchoredAtItsComment, Posts, Posted, Known, Judged

LEMMA ExecuteKeeps ==
  ASSUME FindingsAssumption, FInv, Execute
  PROVE  StepHolds
<1>1. /\ run.row.phase = "action" /\ act.pc = "idle"
      /\ UNCHANGED <<finding, bound, github, run, hook, replied, used>>
  BY DEF Execute
<1>2. act' = [NoAct EXCEPT !.pc = IF run.row.comments THEN "verdict" ELSE IF bound THEN "list" ELSE "open",
                           !.todo = IF run.row.comments THEN Judged ELSE {}]
  BY DEF Execute
<1>3. /\ act' \in ActType /\ act'.anchor = NoAct.anchor
      /\ act'.pc = IF run.row.comments THEN "verdict" ELSE IF bound THEN "list" ELSE "open"
  <2>1. Judged \subseteq Findings
    BY DEF Judged
  <2> QED
    BY <1>2, <2>1, NoActTyped DEF ActType, Pcs
<1>4. RowsTyped'
  BY <1>1, <1>3 DEF FInv, RowsTyped
<1>5. ActInHand'
  <2>1. \A f \in Findings : act'.anchor[f] = NoComment
    BY <1>3, NoActTyped
  <2>2. bound => github.open
    BY DEF FInv, RunBegun
  <2>3. run.row.comments => act'.todo \subseteq Known'
    BY <1>1, <1>2, RowsKept, NoActTyped DEF FInv, RunBegun, ActType, Judged, Known
  <2>4. run.row.comments \in BOOLEAN
    BY DEF FInv, RowsTyped, RunRow, RunType
  <2> QED
    BY <1>1, <1>3, <2>1, <2>2, <2>3, <2>4 DEF ActInHand
<1>6. ResidualsKept'
  BY <1>1, <1>3 DEF ResidualsKept
<1> QED
  BY <1>1, <1>4, <1>5, <1>6, RowsKept, QuietStep DEF StepHolds, FInv

LEMMA CreatePrKeeps ==
  ASSUME FindingsAssumption, FInv, CreatePr
  PROVE  StepHolds
<1>1. /\ act.pc = "open" /\ github' = [github EXCEPT !.open = TRUE] /\ act' = [act EXCEPT !.pc = "list"]
      /\ UNCHANGED <<finding, bound, run, hook, replied, used>>
  BY DEF CreatePr
<1>2. act \in ActType /\ github \in GithubType
  BY DEF FInv, RowsTyped
<1>3. act' \in ActType /\ act'.pc = "list" /\ act'.anchor = act.anchor
  BY <1>1, <1>2 DEF ActType, Pcs
<1>4. /\ github' \in GithubType /\ github'.open /\ github'.comments = github.comments
      /\ github'.resolved = github.resolved
  BY <1>1, <1>2 DEF GithubType
<1>5. RowsTyped'
  BY <1>1, <1>3, <1>4 DEF FInv, RowsTyped
<1>6. RunBegun'
  BY <1>1, <1>4 DEF FInv, RunBegun, Known, Judged
<1>7. ActInHand'
  BY <1>1, <1>3, <1>4 DEF FInv, ActInHand, Posts
<1>8. ResidualsKept'
  BY <1>3 DEF ResidualsKept
<1>9. AnchoredAtItsComment'
  BY <1>1, <1>4 DEF FInv, AnchoredAtItsComment, Posted, Known, Posts
<1> QED
  BY <1>1, <1>5, <1>6, <1>7, <1>8, <1>9, QuietStep DEF StepHolds, FInv

\* What is listed is the beginning of what GitHub holds.
LEMMA Listed ==
  ASSUME FindingsAssumption, FInv, ListYaaosComments
  PROVE  /\ act'.seen \in Seq(Comment)
         /\ Len(act'.seen) = IF Len(github.comments) < PageSize THEN Len(github.comments) ELSE PageSize
         /\ \A i \in 1 .. Len(act'.seen) : i \in 1 .. Len(github.comments) /\ act'.seen[i] = github.comments[i]
<1> DEFINE n == IF Len(github.comments) < PageSize THEN Len(github.comments) ELSE PageSize
           c == github.comments
<1>1. c \in Seq(Comment) /\ PageSize \in Nat
  BY DEF FInv, RowsTyped, GithubType, FindingsAssumption
<1>2. Len(c) \in Nat /\ \A i \in 1 .. Len(c) : c[i] \in Comment
  BY <1>1, LenProperties, ElementOfSeq
<1>3. n \in Nat /\ n <= Len(c)
  BY <1>1, <1>2
<1>4. act'.seen = SubSeq(c, 1, n)
  BY DEF ListYaaosComments, FInv, RowsTyped, ActType
<1> HIDE DEF n, c
<1>5. \A i \in 1 .. n : c[i] \in Comment
  BY <1>2, <1>3
<1>6. /\ SubSeq(c, 1, n) \in Seq(Comment) /\ Len(SubSeq(c, 1, n)) = IF 1 <= n THEN n - 1 + 1 ELSE 0
      /\ \A i \in 1 .. n - 1 + 1 : SubSeq(c, 1, n)[i] = c[1 + i - 1]
  <2>1. 1 \in Int /\ n \in Int
    BY <1>3
  <2> QED
    BY <1>5, <2>1, SubSeqProperties
<1>7. Len(act'.seen) = n /\ \A i \in 1 .. n : act'.seen[i] = c[i]
  BY <1>3, <1>4, <1>6
<1>8. \A i \in 1 .. Len(act'.seen) : i \in 1 .. Len(c) /\ act'.seen[i] = c[i]
  BY <1>2, <1>3, <1>7
<1> QED
  BY <1>4, <1>6, <1>7, <1>8 DEF n, c

LEMMA ListYaaosCommentsKeeps ==
  ASSUME FindingsAssumption, FInv, ListYaaosComments
  PROVE  StepHolds
<1>1. /\ act.pc = "list" /\ UNCHANGED <<finding, bound, github, run, hook, replied, used>>
      /\ act \in ActType
  BY DEF ListYaaosComments, FInv, RowsTyped
<1> DEFINE todo == {f \in Residuals : finding[f].anchor = NoComment}
           a1 == [act EXCEPT !.pc = "post"]
           a2 == [a1 EXCEPT !.todo = todo]
<1>2. todo \subseteq Findings
  BY DEF Residuals, Own, Known
<1>3. a1 \in ActType /\ a1.pc = "post" /\ a1.anchor = act.anchor
  BY ONLY <1>1 DEF ActType, Pcs
<1>4. a2 \in ActType /\ a2.pc = "post" /\ a2.anchor = act.anchor /\ a2.todo = todo
  <2> HIDE DEF todo, a1
  <2> QED
    BY ONLY <1>2, <1>3 DEF ActType
<1>5. \E s : act' = [a2 EXCEPT !.seen = s]
  BY <1>1 DEF ListYaaosComments, ActType
<1>6. act' \in ActType /\ act'.pc = "post" /\ act'.anchor = act.anchor /\ act'.todo = todo
  <2>1. PICK s : act' = [a2 EXCEPT !.seen = s]
    BY <1>5
  <2>2. act'.seen = s
    BY <1>4, <2>1 DEF ActType
  <2>3. s \in Seq(Comment)
    BY <2>2, Listed
  <2> HIDE DEF a2, todo
  <2> QED
    BY ONLY <1>4, <2>1, <2>3 DEF ActType
<1>7. RowsTyped'
  BY <1>1, <1>6 DEF FInv, RowsTyped
<1>8. ActInHand'
  BY <1>1, <1>6, Listed, RowsKept DEF FInv, ActInHand, Residuals, Own, Known
<1>9. ResidualsKept'
  <2>1. Residuals' = Residuals
    BY <1>1 DEF Residuals, Own, Known
  <2> QED
    BY <1>1, <1>6, <2>1 DEF ResidualsKept
<1> QED
  BY <1>1, <1>7, <1>8, <1>9, RowsKept, QuietStep DEF StepHolds, FInv

\* The comment that matches is one of the listed ones, and GitHub's.
LEMMA MatchIsPosted ==
  ASSUME FindingsAssumption, FInv, act.pc = "post", NEW f \in Findings, Match(f) # {}
  PROVE  First(Match(f)) \in Match(f) /\ First(Match(f)) \in Posts(f) /\ First(Match(f)) \in Nat
<1>1. Len(act.seen) \in Nat /\ Len(github.comments) \in Nat
  BY LenProperties DEF FInv, RowsTyped, ActType, GithubType
<1>2. Match(f) \subseteq Nat
  BY <1>1 DEF Match
<1>3. First(Match(f)) \in Match(f)
  BY <1>2, FirstIsIn
<1>4. \A i \in 1 .. Len(act.seen) : i \in 1 .. Len(github.comments) /\ act.seen[i] = github.comments[i]
  BY DEF FInv, ActInHand
<1> QED
  BY <1>2, <1>3, <1>4 DEF Match, Posts

\* The finding whose turn it is.
LEMMA TurnOf ==
  ASSUME FindingsAssumption, FInv, act.todo # {}
  PROVE  First(act.todo) \in act.todo /\ First(act.todo) \in Findings
<1>1. act.todo \in SUBSET Findings /\ Findings \subseteq Nat
  BY DEF FInv, RowsTyped, ActType, FindingsAssumption
<1> QED
  BY <1>1, FirstIsIn

\* Posting has the finding in hand: its comment was listed, or is now the last one.
PostMoves(f) ==
  /\ f \in act.todo /\ f \in Findings
  /\ act'.pc = "post" /\ act'.seen = act.seen /\ act'.todo = act.todo \ {f}
  /\ act'.anchor = [act.anchor EXCEPT ![f] = act'.anchor[f]]
  /\ \/ /\ Match(f) # {} /\ github' = github /\ act'.anchor[f] \in Posts(f)
     \/ /\ Match(f) = {} /\ act'.anchor[f] = Len(github.comments) + 1
        /\ github'.comments = Append(github.comments, [of |-> f, inline |-> finding[f].inline])
        /\ github'.open = github.open /\ github'.resolved = github.resolved

LEMMA PostResidualMoves ==
  ASSUME FindingsAssumption, FInv, PostResidual
  PROVE  act' \in ActType /\ github' \in GithubType /\ \E f \in Findings : PostMoves(f)
<1> DEFINE f == First(act.todo)
           listed == Match(f) # {}
           c == [of |-> f, inline |-> finding[f].inline]
<1>1. /\ act.pc = "post" /\ f \in act.todo /\ f \in Findings
      /\ act \in ActType /\ github \in GithubType
  BY TurnOf DEF PostResidual, FInv, RowsTyped
<1> DEFINE n == IF listed THEN First(Match(f)) ELSE Len(github.comments) + 1
<1>2. act' = [act EXCEPT !.todo = @ \ {f}, !.anchor[f] = n]
  <2>1. CASE listed
    BY <2>1 DEF PostResidual
  <2>2. CASE ~listed
    BY <2>2 DEF PostResidual
  <2> QED
    BY <2>1, <2>2
<1>3. Len(github.comments) \in Nat /\ (listed => n \in Posts(f)) /\ n \in Nat
  <2>1. Len(github.comments) \in Nat
    BY <1>1, LenProperties DEF GithubType
  <2> QED
    BY <1>1, <2>1, MatchIsPosted
<1> DEFINE anchor == [act.anchor EXCEPT ![f] = n]
           a1 == [act EXCEPT !.todo = act.todo \ {f}]
<1>4. anchor \in [Findings -> Nat] /\ anchor[f] = n
  <2>1. act.anchor \in [Findings -> Nat]
    BY <1>1 DEF ActType
  <2> HIDE DEF n, f
  <2> QED
    BY <1>1, <1>3, <2>1
<1>5. a1 \in ActType /\ a1.pc = act.pc /\ a1.seen = act.seen /\ a1.todo = act.todo \ {f} /\ a1.anchor = act.anchor
  <2> HIDE DEF f
  <2> QED
    BY ONLY <1>1 DEF ActType
<1>6. act' = [a1 EXCEPT !.anchor = anchor]
  <2> HIDE DEF n, f
  <2> QED
    BY ONLY <1>1, <1>2 DEF ActType
<1>7. /\ act' \in ActType /\ act'.pc = "post" /\ act'.seen = act.seen /\ act'.todo = act.todo \ {f}
      /\ act'.anchor = anchor
  <2> HIDE DEF a1, anchor, f
  <2> QED
    BY ONLY <1>1, <1>4, <1>5, <1>6 DEF ActType
<1>8. CASE listed
  <2>1. github' = github
    BY <1>8 DEF PostResidual
  <2>2. PostMoves(f)
    BY <1>1, <1>3, <1>4, <1>7, <1>8, <2>1 DEF PostMoves
  <2> QED
    BY <1>1, <1>7, <2>1, <2>2
<1>9. CASE ~listed
  <2>1. github' = [github EXCEPT !.comments = Append(@, c)]
    BY <1>9 DEF PostResidual
  <2>2. c \in Comment
    <3>1. f \in Known
      BY <1>1 DEF FInv, ActInHand
    <3>2. finding[f] \in FindingRow
      BY <1>1, <3>1 DEF Known, FInv, RowsTyped
    <3> QED
      BY <1>1, <3>2 DEF Comment, FindingRow
  <2>3. Append(github.comments, c) \in Seq(Comment)
    BY <1>1, <2>2, AppendProperties DEF GithubType
  <2>4. /\ github' \in GithubType /\ github'.comments = Append(github.comments, c)
        /\ github'.open = github.open /\ github'.resolved = github.resolved
    <3> HIDE DEF c
    <3> QED
      BY ONLY <1>1, <2>1, <2>3 DEF GithubType
  <2>5. PostMoves(f)
    BY <1>1, <1>4, <1>7, <1>9, <2>4 DEF PostMoves
  <2> QED
    BY <1>1, <1>7, <2>4, <2>5
<1> QED
  BY <1>8, <1>9

\* Comments are added at the end, one at a time.
LEMMA CommentsGrow ==
  ASSUME FInv, NEW f \in Findings, PostMoves(f)
  PROVE  /\ Len(github.comments) \in Nat /\ Len(github'.comments) \in Nat
         /\ Len(github.comments) <= Len(github'.comments)
         /\ \A i \in 1 .. Len(github.comments) : github'.comments[i] = github.comments[i]
         /\ \A g \in Findings : Posts(g) \subseteq Posts(g)'
         /\ act'.anchor[f] \in Posts(f)' /\ act'.anchor[f] # NoComment
         /\ github'.open = github.open /\ github'.resolved = github.resolved
<1> DEFINE c == [of |-> f, inline |-> finding[f].inline]
<1>1. github.comments \in Seq(Comment) /\ Len(github.comments) \in Nat
  BY LenProperties DEF FInv, RowsTyped, GithubType
<1>2. CASE github' = github
  <2>1. act'.anchor[f] \in Posts(f)
    <3>1. Len(github.comments) # Len(github.comments) + 1
      BY <1>1
    <3>2. Match(f) # {} => act'.anchor[f] \in Posts(f)
      BY DEF PostMoves
    <3>3. Match(f) = {} => Len(github'.comments) = Len(github.comments) + 1
      <4> SUFFICES ASSUME Match(f) = {} PROVE Len(github'.comments) = Len(github.comments) + 1
        OBVIOUS
      <4>1. github'.comments = Append(github.comments, c)
        BY DEF PostMoves
      <4> QED
        BY <1>1, <4>1 DEF PostMoves
    <3> QED
      BY <1>2, <3>1, <3>2, <3>3
  <2> QED
    BY <1>1, <1>2, <2>1 DEF Posts, NoComment
<1>3. CASE /\ act'.anchor[f] = Len(github.comments) + 1
           /\ github'.comments = Append(github.comments, c)
           /\ github'.open = github.open /\ github'.resolved = github.resolved
  <2>1. /\ Len(github'.comments) = Len(github.comments) + 1
        /\ \A i \in 1 .. Len(github.comments) : github'.comments[i] = github.comments[i]
        /\ github'.comments[Len(github.comments) + 1] = c
    BY <1>1, <1>3, AppendOf
  <2>2. \A g \in Findings : Posts(g) \subseteq Posts(g)'
    BY <1>1, <2>1 DEF Posts
  <2>3. act'.anchor[f] \in Posts(f)' /\ act'.anchor[f] # NoComment
    BY <1>1, <1>3, <2>1 DEF Posts, NoComment
  <2> QED
    BY <1>1, <1>3, <2>1, <2>2, <2>3
<1> QED
  BY <1>2, <1>3 DEF PostMoves

LEMMA PostResidualKeeps ==
  ASSUME FindingsAssumption, FInv, PostResidual
  PROVE  StepHolds
<1>1. act' \in ActType /\ github' \in GithubType /\ act.pc = "post" /\ act \in ActType
      /\ UNCHANGED <<finding, bound, run, hook, replied, used>>
  BY PostResidualMoves DEF PostResidual, FInv, RowsTyped
<1>2. PICK f \in Findings : PostMoves(f)
  BY PostResidualMoves
<1>3. /\ f \in act.todo /\ act'.pc = "post" /\ act'.seen = act.seen /\ act'.todo = act.todo \ {f}
      /\ act'.anchor = [act.anchor EXCEPT ![f] = act'.anchor[f]]
  BY <1>2 DEF PostMoves
<1>4. /\ Len(github.comments) \in Nat /\ Len(github'.comments) \in Nat
      /\ Len(github.comments) <= Len(github'.comments)
      /\ \A i \in 1 .. Len(github.comments) : github'.comments[i] = github.comments[i]
      /\ \A g \in Findings : Posts(g) \subseteq Posts(g)'
      /\ act'.anchor[f] \in Posts(f)' /\ act'.anchor[f] # NoComment
      /\ github'.open = github.open /\ github'.resolved = github.resolved
  BY <1>2, CommentsGrow
<1>5. \A g \in Findings : g # f => act'.anchor[g] = act.anchor[g]
  BY <1>1, <1>3 DEF ActType
<1>6. RowsTyped'
  BY <1>1 DEF FInv, RowsTyped
<1>7. RunBegun'
  BY <1>1, <1>4 DEF FInv, RunBegun, Known, Judged
<1>8. ActInHand'
  <2>1. /\ run.row.phase = "action" /\ ~run.row.comments /\ github.open /\ act.todo \subseteq Known
        /\ \A g \in Findings : act.anchor[g] # NoComment => act.anchor[g] \in Posts(g)
    BY <1>1 DEF FInv, ActInHand
  <2>2. \A i \in 1 .. Len(act.seen) : i \in 1 .. Len(github.comments) /\ act.seen[i] = github.comments[i]
    BY <1>1 DEF FInv, ActInHand
  <2>3. \A i \in 1 .. Len(act'.seen) : i \in 1 .. Len(github'.comments) /\ act'.seen[i] = github'.comments[i]
    BY <1>3, <1>4, <2>2
  <2>4. \A g \in Findings : act'.anchor[g] # NoComment => act'.anchor[g] \in Posts(g)'
    BY <1>4, <1>5, <2>1
  <2>5. act'.todo \subseteq Known'
    BY <1>1, <1>3, <2>1 DEF Known
  <2> QED
    BY <1>1, <1>3, <1>4, <2>1, <2>3, <2>4, <2>5 DEF ActInHand
<1>9. ResidualsKept'
  <2>1. Residuals' = Residuals /\ ~run.row.comments
    BY <1>1 DEF Residuals, Own, Known, FInv, ActInHand
  <2>2. \A g \in Residuals : finding[g].anchor # NoComment \/ act.anchor[g] # NoComment \/ g \in act.todo
    BY <1>1, <2>1 DEF FInv, ResidualsKept
  <2>3. \A g \in Residuals : g \in Findings
    BY DEF Residuals, Own, Known
  <2> QED
    BY <1>1, <1>3, <1>4, <1>5, <2>1, <2>2, <2>3 DEF ResidualsKept
<1>10. AnchoredAtItsComment'
  <2>1. Posted' = Posted /\ \A g \in Posted : g \in Findings
    BY <1>1 DEF Posted, Known
  <2> QED
    BY <1>1, <1>4, <2>1 DEF FInv, AnchoredAtItsComment
<1> QED
  BY <1>1, <1>6, <1>7, <1>8, <1>9, <1>10, QuietStep DEF StepHolds, FInv

LEMMA PostingDoneKeeps ==
  ASSUME FindingsAssumption, FInv, PostingDone
  PROVE  StepHolds
<1>1. /\ act.pc = "post" /\ act.todo = {} /\ act \in ActType
      /\ UNCHANGED <<finding, bound, github, run, hook, replied, used>>
  BY DEF PostingDone, FInv, RowsTyped
<1> DEFINE todo == {f \in Judged : run.verdict[f].status \in {"fixed", "still_present"}}
           a1 == [act EXCEPT !.pc = "verdict"]
<1>2. todo \subseteq Findings
  BY DEF Judged
<1>3. a1 \in ActType /\ a1.pc = "verdict" /\ a1.anchor = act.anchor
  BY ONLY <1>1 DEF ActType, Pcs
<1>4. act' = [a1 EXCEPT !.todo = todo]
  BY <1>1 DEF PostingDone, ActType
<1>5. act' \in ActType /\ act'.pc = "verdict" /\ act'.anchor = act.anchor /\ act'.todo = todo
  <2> HIDE DEF todo, a1
  <2> QED
    BY ONLY <1>2, <1>3, <1>4 DEF ActType
<1>6. RowsTyped'
  BY <1>1, <1>5 DEF FInv, RowsTyped
<1>7. ActInHand'
  <2>1. todo \subseteq Known'
    BY <1>1 DEF FInv, RunBegun, Known
  <2> QED
    BY <1>1, <1>5, <2>1, RowsKept DEF FInv, ActInHand
<1>8. ResidualsKept'
  <2>1. Residuals' = Residuals
    BY <1>1 DEF Residuals, Own, Known
  <2> QED
    BY <1>1, <1>5, <2>1 DEF FInv, ResidualsKept
<1> QED
  BY <1>1, <1>6, <1>7, <1>8, RowsKept, QuietStep DEF StepHolds, FInv

\* A turn of the verdict half leaves what is posted and what is in hand.
LEMMA VerdictTurn ==
  ASSUME FindingsAssumption, FInv, act.pc = "verdict", act' \in ActType, act'.pc = "verdict",
         act'.anchor = act.anchor, act'.todo \subseteq act.todo, github' \in GithubType,
         github'.comments = github.comments, github'.open = github.open,
         github'.resolved \subseteq 1 .. Len(github.comments),
         replied' \in [Findings -> [1 .. MaxRuns -> Nat]],
         UNCHANGED <<finding, bound, run, hook, used>>
  PROVE  StepHolds
<1>1. Known' = Known /\ Residuals' = Residuals /\ Posted' = Posted /\ Judged' = Judged
      /\ \A f \in Findings : Posts(f)' = Posts(f)
  BY DEF Known, Residuals, Own, Posted, Judged, Posts
<1>2. RowsTyped'
  BY DEF FInv, RowsTyped
<1>3. RunBegun'
  BY <1>1 DEF FInv, RunBegun
<1>4. ActInHand'
  BY <1>1 DEF FInv, ActInHand
<1>5. ResidualsKept'
  BY <1>1 DEF FInv, ResidualsKept
<1>6. AnchoredAtItsComment'
  BY <1>1 DEF FInv, AnchoredAtItsComment, Posted, Known
<1> QED
  BY <1>2, <1>3, <1>4, <1>5, <1>6, QuietStep DEF StepHolds, FInv

LEMMA ReflectVerdictKeeps ==
  ASSUME FindingsAssumption, FInv, ReflectVerdict
  PROVE  StepHolds
<1> DEFINE f == First(act.todo)
           fixed == run.verdict[f].status = "fixed"
<1>1. /\ act.pc = "verdict" /\ act' = [act EXCEPT !.todo = @ \ {f}]
      /\ UNCHANGED <<finding, bound, run, hook, used>> /\ f \in act.todo /\ f \in Findings
      /\ act \in ActType /\ github \in GithubType
      /\ github.resolved \subseteq 1 .. Len(github.comments)
      /\ replied \in [Findings -> [1 .. MaxRuns -> Nat]]
  BY TurnOf DEF ReflectVerdict, FInv, RowsTyped, RunBegun
<1>2. /\ act' \in ActType /\ act'.pc = "verdict" /\ act'.anchor = act.anchor
      /\ act'.todo = act.todo \ {f}
  <2> HIDE DEF f
  <2> QED
    BY ONLY <1>1 DEF ActType
<1>3. CASE finding[f].anchor = NoComment
  <2>1. github' = github /\ replied' = replied
    BY <1>3 DEF ReflectVerdict
  <2> QED
    BY <1>1, <1>2, <2>1, VerdictTurn
<1>4. CASE finding[f].anchor # NoComment
  <2>1. /\ github' = IF fixed THEN [github EXCEPT !.resolved = @ \cup {finding[f].anchor}] ELSE github
        /\ IF run.verdict[f].reply THEN Reply(f) ELSE UNCHANGED replied
    BY <1>4 DEF ReflectVerdict
  <2>2. f \in Known
    BY <1>1 DEF FInv, ActInHand
  <2>3. finding[f].anchor \in Posts(f)
    BY <1>4, <2>2 DEF FInv, AnchoredAtItsComment, Posted
  <2>4. finding[f].anchor \in Nat /\ finding[f].anchor \in 1 .. Len(github.comments)
    <3>1. Len(github.comments) \in Nat
      BY <1>1, LenProperties DEF GithubType
    <3> QED
      BY <2>3, <3>1 DEF Posts
  <2>5. /\ github' \in GithubType /\ github'.comments = github.comments /\ github'.open = github.open
        /\ github'.resolved \subseteq 1 .. Len(github.comments)
    <3> HIDE DEF fixed, f
    <3> QED
      BY ONLY <1>1, <2>1, <2>4 DEF GithubType
  <2>6. replied' \in [Findings -> [1 .. MaxRuns -> Nat]]
    <3>1. run.row.phase # "idle"
      BY <1>1 DEF FInv, ActInHand
    <3> QED
      BY <1>1, <2>1, <3>1, ReplyTyped
  <2> QED
    BY <1>1, <1>2, <2>5, <2>6, VerdictTurn
<1> QED
  BY <1>3, <1>4

LEMMA ReplyToCommentKeeps ==
  ASSUME FindingsAssumption, FInv, ReplyToComment
  PROVE  StepHolds
<1> DEFINE f == First(act.todo)
           defended == IF DisputePolicy(f) = "defend" THEN act.defended \cup {f} ELSE act.defended
           dismissed == IF DisputePolicy(f) = "dismiss" THEN act.dismissed \cup {f} ELSE act.dismissed
           a1 == [act EXCEPT !.todo = act.todo \ {f}]
           a2 == [a1 EXCEPT !.defended = defended]
<1>1. /\ act.pc = "verdict" /\ UNCHANGED <<finding, bound, github, run, hook, used>>
      /\ f \in act.todo /\ f \in Findings /\ act \in ActType /\ github \in GithubType
      /\ github.resolved \subseteq 1 .. Len(github.comments)
      /\ replied \in [Findings -> [1 .. MaxRuns -> Nat]]
  BY TurnOf DEF ReplyToComment, FInv, RowsTyped, RunBegun
<1>2. act' = [act EXCEPT !.todo = @ \ {f},
                         !.defended  = IF DisputePolicy(f) = "defend" THEN @ \cup {f} ELSE @,
                         !.dismissed = IF DisputePolicy(f) = "dismiss" THEN @ \cup {f} ELSE @]
  BY DEF ReplyToComment
<1>3. defended \subseteq Findings /\ dismissed \subseteq Findings
  BY <1>1 DEF ActType
<1>4. a1 \in ActType /\ a1.pc = "verdict" /\ a1.anchor = act.anchor /\ a1.todo = act.todo \ {f}
  <2> HIDE DEF f
  <2> QED
    BY ONLY <1>1 DEF ActType
<1>5. a2 \in ActType /\ a2.pc = "verdict" /\ a2.anchor = act.anchor /\ a2.todo = act.todo \ {f}
  <2> HIDE DEF a1, defended, f
  <2> QED
    BY ONLY <1>3, <1>4 DEF ActType
<1>6. act' = [a2 EXCEPT !.dismissed = dismissed]
  <2>1. act' = [act EXCEPT !.todo = act.todo \ {f}, !.defended = defended, !.dismissed = dismissed]
    BY <1>1, <1>2 DEF ActType
  <2> HIDE DEF f, defended, dismissed
  <2> QED
    BY ONLY <1>1, <2>1 DEF ActType
<1>7. act' \in ActType /\ act'.pc = "verdict" /\ act'.anchor = act.anchor /\ act'.todo \subseteq act.todo
  <2> HIDE DEF a2, dismissed, f
  <2> QED
    BY ONLY <1>3, <1>5, <1>6 DEF ActType
<1>8. replied' \in [Findings -> [1 .. MaxRuns -> Nat]]
  <2>1. replied' = replied \/ Reply(f)
    BY DEF ReplyToComment
  <2>2. run.row.phase # "idle"
    BY <1>1 DEF FInv, ActInHand
  <2> QED
    BY <1>1, <2>1, <2>2, ReplyTyped
<1> QED
  BY <1>1, <1>7, <1>8, VerdictTurn

\* A commit writes what is in hand, to the rows there are.
LEMMA CommittedRow ==
  ASSUME FInv, NEW f \in Known
  PROVE  /\ Committed(f) \in FindingRow
         /\ Committed(f).anchor = SetExternalAnchor(f)
         /\ finding[f].status = "dismissed" => Committed(f).status = "dismissed"
         /\ finding[f].defended => Committed(f).defended
<1>1. f \in Findings /\ finding[f] \in FindingRow /\ act.anchor[f] \in Nat
  BY DEF FInv, RowsTyped, Known, ActType
<1> DEFINE anchor == SetExternalAnchor(f)
           defended == finding[f].defended \/ f \in act.defended
           status == IF f \in act.dismissed THEN "dismissed" ELSE finding[f].status
           r1 == [finding[f] EXCEPT !.anchor = anchor]
           r2 == [r1 EXCEPT !.defended = defended]
<1>2. anchor \in Nat /\ status \in Status
  BY <1>1 DEF SetExternalAnchor, FindingRow, Status
<1>3. defended \in BOOLEAN /\ (finding[f].defended => defended)
  OBVIOUS
<1>4. r1 \in FindingRow /\ r1.anchor = anchor /\ r1.status = finding[f].status
  <2> HIDE DEF anchor
  <2> QED
    BY ONLY <1>1, <1>2 DEF FindingRow
<1>5. r2 \in FindingRow /\ r2.anchor = anchor /\ r2.defended = defended
  <2> HIDE DEF anchor, defended, r1
  <2> QED
    BY ONLY <1>3, <1>4 DEF FindingRow
<1>6. Committed(f) = [r2 EXCEPT !.status = status]
  <2>1. Committed(f) = [finding[f] EXCEPT !.anchor = anchor, !.defended = defended, !.status = status]
    BY <1>1 DEF Committed, FindingRow
  <2> HIDE DEF anchor, defended, status
  <2> QED
    BY ONLY <1>1, <2>1 DEF FindingRow
<1>7. /\ Committed(f) \in FindingRow /\ Committed(f).anchor = anchor
      /\ Committed(f).defended = defended /\ Committed(f).status = status
  <2> HIDE DEF anchor, defended, status, r2
  <2> QED
    BY ONLY <1>2, <1>5, <1>6 DEF FindingRow
<1> QED
  BY <1>3, <1>7

LEMMA ActionCommitsKeeps ==
  ASSUME FindingsAssumption, FInv, ActionCommits
  PROVE  StepHolds
<1>1. /\ act.pc = "verdict" /\ finding' = [f \in Findings |-> IF f \in Known THEN Committed(f) ELSE NoRow]
      /\ bound' = TRUE /\ act' = NoAct /\ run' = [run EXCEPT !.row = [Idle EXCEPT !.n = run.row.n]]
      /\ UNCHANGED <<github, hook, replied, used>>
  BY DEF ActionCommits
<1>2. run.row.phase = "action" /\ run \in RunRow /\ run.row \in RunType /\ run.row.n \in 0 .. MaxRuns
  BY <1>1 DEF FInv, RowsTyped, RunRow, RunType, ActInHand
<1>3. /\ run' \in RunRow /\ run'.row.phase = "idle" /\ run'.row.disputed = {}
      /\ run'.row.comments = FALSE /\ run'.verdict = run.verdict
  <2> DEFINE n   == run.row.n
             row == [Idle EXCEPT !.n = n]
  <2>1. /\ Idle \in RunType /\ Idle.phase = "idle" /\ Idle.disputed = {} /\ Idle.comments = FALSE
        /\ n \in 0 .. MaxRuns
    BY <1>2 DEF Idle, RunType, FindingsAssumption
  <2>2. row \in RunType /\ row.phase = "idle" /\ row.disputed = {} /\ row.comments = FALSE
    <3> HIDE DEF n
    <3> QED
      BY ONLY <2>1 DEF RunType
  <2>3. run' = [run EXCEPT !.row = row]
    BY <1>1
  <2> HIDE DEF row
  <2> QED
    BY ONLY <1>2, <2>2, <2>3 DEF RunRow
<1>4. ASSUME NEW f \in Known
      PROVE  f \in Findings /\ finding'[f] = Committed(f) /\ finding'[f] # NoRow
  <2>1. f \in Findings /\ finding'[f] = Committed(f)
    BY <1>1 DEF Known
  <2> QED
    BY <2>1, CommittedRow, RowIsNoRow
<1>5. Known' = Known
  BY <1>1, <1>4 DEF Known
<1>6. finding' \in [Findings -> FindingRow \cup {NoRow}]
  <2>1. \A f \in Known : Committed(f) \in FindingRow
    BY CommittedRow
  <2> QED
    BY <1>1, <2>1
<1>7. \A f \in Findings : Posts(f)' = Posts(f)
  BY <1>1 DEF Posts
<1>8. \A f \in Known : /\ finding'[f].anchor = SetExternalAnchor(f)
                       /\ SetExternalAnchor(f) \in {finding[f].anchor} \cup Posts(f)
                       /\ SetExternalAnchor(f) # NoComment => SetExternalAnchor(f) \in Posts(f)
  <2> SUFFICES ASSUME NEW f \in Known
               PROVE  /\ finding'[f].anchor = SetExternalAnchor(f)
                      /\ SetExternalAnchor(f) \in {finding[f].anchor} \cup Posts(f)
                      /\ SetExternalAnchor(f) # NoComment => SetExternalAnchor(f) \in Posts(f)
    OBVIOUS
  <2>1. finding'[f].anchor = SetExternalAnchor(f)
    BY <1>4, CommittedRow
  <2>2. act.anchor[f] # NoComment => act.anchor[f] \in Posts(f)
    BY <1>4 DEF FInv, ActInHand
  <2>3. finding[f].anchor # NoComment => finding[f].anchor \in Posts(f)
    BY DEF FInv, AnchoredAtItsComment, Posted
  <2> QED
    BY <2>1, <2>2, <2>3 DEF SetExternalAnchor
<1>9. RowsTyped'
  BY <1>1, <1>3, <1>6, NoActTyped DEF FInv, RowsTyped
<1>10. RunBegun'
  <2>1. github.open
    BY <1>1, <1>2 DEF FInv, RunBegun, ActInHand, RunType
  <2>2. Judged' = Judged
    BY <1>3 DEF Judged
  <2> QED
    BY <1>1, <1>3, <1>5, <2>1, <2>2 DEF FInv, RunBegun
<1>11. ActInHand' /\ ResidualsKept'
  BY <1>1, NoActTyped DEF ActInHand, ResidualsKept
<1>12. AnchoredAtItsComment'
  BY <1>4, <1>5, <1>7, <1>8 DEF AnchoredAtItsComment, Posted
<1>13. DismissedStays
  <2> SUFFICES ASSUME NEW f \in Known
               PROVE  /\ finding[f].status = "dismissed" => finding'[f].status = "dismissed"
                      /\ finding[f].defended => finding'[f].defended
                      /\ finding'[f].anchor \in {finding[f].anchor} \cup Posts(f)
    BY DEF DismissedStays
  <2> QED
    BY <1>4, <1>8, CommittedRow
<1>14. NothingLeftUnposted
  <2> SUFFICES ASSUME ~run.row.comments, NEW f \in Own, finding[f].status = "open"
               PROVE  finding'[f].anchor # NoComment
    BY DEF NothingLeftUnposted
  <2>1. f \in Residuals /\ f \in Known
    BY DEF Residuals, Own
  <2>2. finding[f].anchor # NoComment \/ act.anchor[f] # NoComment
    BY <1>1, <2>1 DEF FInv, ResidualsKept
  <2> QED
    BY <1>8, <2>1, <2>2 DEF SetExternalAnchor
<1> QED
  BY <1>9, <1>10, <1>11, <1>12, <1>13, <1>14 DEF StepHolds, FInv

LEMMA ActionDiesKeeps ==
  ASSUME FindingsAssumption, FInv, ActionDies
  PROVE  StepHolds
<1>1. act' = NoAct /\ used' = used + 1 /\ UNCHANGED <<finding, bound, github, run, hook, replied>>
  BY DEF ActionDies
<1>2. RowsTyped'
  BY <1>1, NoActTyped DEF FInv, RowsTyped
<1>3. ActInHand' /\ ResidualsKept'
  BY <1>1, NoActTyped DEF ActInHand, ResidualsKept
<1> QED
  BY <1>1, <1>2, <1>3, RowsKept, QuietStep DEF StepHolds, FInv

-----------------------------------------------------------------------------
(* Auto-approval.                                                           *)

\* Approving touches nothing that the invariant is about.
LEMMA ApprovalKeeps ==
  ASSUME FInv, UNCHANGED <<finding, bound, run, act, replied, used>>, github' \in GithubType,
         github'.comments = github.comments, github'.open = github.open,
         github'.resolved = github.resolved, hook' \in {"idle", "passed"}
  PROVE  StepHolds
<1>1. Known' = Known /\ Residuals' = Residuals /\ Posted' = Posted /\ Judged' = Judged
      /\ \A f \in Findings : Posts(f)' = Posts(f)
  BY DEF Known, Residuals, Own, Posted, Judged, Posts
<1>2. RowsTyped'
  BY DEF FInv, RowsTyped
<1>3. RunBegun'
  BY <1>1 DEF FInv, RunBegun
<1>4. ActInHand'
  BY <1>1 DEF FInv, ActInHand
<1>5. ResidualsKept'
  BY <1>1 DEF FInv, ResidualsKept
<1>6. AnchoredAtItsComment'
  BY <1>1 DEF FInv, AnchoredAtItsComment, Posted, Known
<1> QED
  BY <1>2, <1>3, <1>4, <1>5, <1>6, QuietStep DEF StepHolds, FInv

LEMMA AutoApproveKeeps ==
  ASSUME FInv, EvaluateAutoApprove \/ ApprovePr
  PROVE  StepHolds
<1>1. github \in GithubType
  BY DEF FInv, RowsTyped
<1>2. CASE EvaluateAutoApprove
  BY <1>1, <1>2, ApprovalKeeps DEF EvaluateAutoApprove
<1>3. CASE ApprovePr
  <2>1. github' = [github EXCEPT !.over = github.over \cup OpenBlockers] /\ hook' = "idle"
        /\ UNCHANGED <<finding, bound, run, act, replied, used>>
    BY <1>1, <1>3 DEF ApprovePr, GithubType
  <2>2. OpenBlockers \subseteq Findings
    BY DEF OpenBlockers, Posted, Known
  <2>3. /\ github' \in GithubType /\ github'.comments = github.comments /\ github'.open = github.open
        /\ github'.resolved = github.resolved
    <3> HIDE DEF OpenBlockers
    <3> QED
      BY ONLY <1>1, <2>1, <2>2 DEF GithubType
  <2> QED
    BY <2>1, <2>3, ApprovalKeeps
<1> QED
  BY <1>2, <1>3

-----------------------------------------------------------------------------
(* Every step keeps the invariant.                                          *)

LEMMA NextKeeps ==
  ASSUME FindingsAssumption, FInv, [Next]_vars
  PROVE  FInv' /\ [DismissedStays]_vars /\ [NothingLeftUnposted]_vars
<1>1. CASE UNCHANGED vars
  BY <1>1 DEF vars, FInv, RowsTyped, RunBegun, ActInHand, ResidualsKept, AnchoredAtItsComment,
              Known, Own, Residuals, Posted, Posts, Judged
<1>2. CASE StartRun
  BY <1>2, StartRunKeeps DEF StepHolds
<1>3. CASE ReviewReturn
  BY <1>3, ReviewReturnKeeps DEF StepHolds
<1>4. CASE Execute
  BY <1>4, ExecuteKeeps DEF StepHolds
<1>5. CASE CreatePr
  BY <1>5, CreatePrKeeps DEF StepHolds
<1>6. CASE ListYaaosComments
  BY <1>6, ListYaaosCommentsKeeps DEF StepHolds
<1>7. CASE PostResidual
  BY <1>7, PostResidualKeeps DEF StepHolds
<1>8. CASE PostingDone
  BY <1>8, PostingDoneKeeps DEF StepHolds
<1>9. CASE ReflectVerdict
  BY <1>9, ReflectVerdictKeeps DEF StepHolds
<1>10. CASE ReplyToComment
  BY <1>10, ReplyToCommentKeeps DEF StepHolds
<1>11. CASE ActionCommits
  BY <1>11, ActionCommitsKeeps DEF StepHolds
<1>12. CASE ActionDies
  BY <1>12, ActionDiesKeeps DEF StepHolds
<1>13. CASE EvaluateAutoApprove \/ ApprovePr
  BY <1>13, AutoApproveKeeps DEF StepHolds
<1> QED
  BY <1>1, <1>2, <1>3, <1>4, <1>5, <1>6, <1>7, <1>8, <1>9, <1>10, <1>11, <1>12, <1>13 DEF Next, ActionStep

\* The invariant holds in every state: what GitHub shows, what an action has in hand
\* and what the rows say agree, across any number of deaths between a call and its
\* commit (_post_residuals, the commit of run_stage, resume_stalled_runs).
THEOREM Invariant ==
  ASSUME FindingsAssumption
  PROVE  Spec => []FInv
<1>1. Init => FInv
  BY Initially
<1>2. FInv /\ [Next]_vars => FInv'
  BY NextKeeps
<1> QED
  BY <1>1, <1>2, PTL DEF Spec

\* Every row, run, action and comment keeps its type (the columns of the findings table
\* and the runs', the stage context of an action).
THEOREM TypeCorrect ==
  ASSUME FindingsAssumption
  PROVE  Spec => []TypeOK
<1>1. FInv => TypeOK
  BY DEF FInv, RowsTyped, RunBegun, TypeOK, Known, GithubType, RunRow, ActType, Pcs
<1> QED
  BY <1>1, Invariant, PTL

\* A finding that is anchored is anchored at a comment that reports it, however often
\* the action that posted it died, so that a reply in the thread finds the finding it
\* is about (set_external_anchor, find_by_external_comment).
THEOREM AnchoredAtItsCommentHolds ==
  ASSUME FindingsAssumption
  PROVE  Spec => []AnchoredAtItsComment
<1>1. FInv => AnchoredAtItsComment
  BY DEF FInv
<1> QED
  BY <1>1, Invariant, PTL

\* Dismissed is final, a defense is not forgotten and an anchor moves only to a comment
\* of its own finding, whatever verdicts and disputes follow (mark_defended and dismiss of
\* domain/findings, the dispute policy of GitHubReplyToCommentAction).
THEOREM DismissedStaysHolds ==
  ASSUME FindingsAssumption
  PROVE  Spec => [][DismissedStays]_vars
<1>1. FInv /\ [Next]_vars => [DismissedStays]_vars
  BY NextKeeps
<1> QED
  BY <1>1, Invariant, PTL DEF Spec

\* An action that commits leaves no open finding of its run without a comment: those
\* that auto-approval would otherwise not see (_post_residuals).
THEOREM NothingLeftUnpostedHolds ==
  ASSUME FindingsAssumption
  PROVE  Spec => [][NothingLeftUnposted]_vars
<1>1. FInv /\ [Next]_vars => [NothingLeftUnposted]_vars
  BY NextKeeps
<1> QED
  BY <1>1, Invariant, PTL DEF Spec

-----------------------------------------------------------------------------
(* One comment per finding.                                                 *)

\* When no finding has two comments, there are no more of them than findings.
LEMMA CommentsFit ==
  ASSUME FInv, OneEach, PageHolds
  PROVE  Len(github.comments) \in Nat /\ Len(github.comments) <= Cardinality(Findings)
<1> DEFINE c == github.comments
           n == Len(c)
           about == [i \in 1 .. n |-> c[i].of]
<1>1. c \in Seq(Comment) /\ n \in Nat /\ \A i \in 1 .. n : c[i] \in Comment
  BY LenProperties, ElementOfSeq DEF FInv, RowsTyped, GithubType
<1>2. about \in [1 .. n -> Findings]
  BY <1>1 DEF Comment
<1>3. \A i, j \in 1 .. n : about[i] = about[j] => i = j
  BY DEF OneEach
<1>4. about \in Injection(1 .. n, Findings)
  <2> HIDE DEF about, n
  <2> QED
    BY <1>2, <1>3 DEF Injection, IsInjective
<1>5. Cardinality(1 .. n) <= Cardinality(Findings)
  <2> HIDE DEF about, n
  <2> QED
    BY <1>4, FS_Injection DEF PageHolds
<1>6. Cardinality(1 .. n) = n
  <2> HIDE DEF n
  <2>1. 1 \in Int /\ n \in Int
    BY <1>1
  <2>2. Cardinality(1 .. n) = IF 1 > n THEN 0 ELSE n - 1 + 1
    BY <2>1, FS_Interval
  <2> QED
    BY <1>1, <2>2
<1> QED
  BY <1>1, <1>5, <1>6

\* Comments that stay, and a posting that does not begin, keep what is listed.
LEMMA SameComments ==
  ASSUME OneEach, github'.comments = github.comments, act'.pc = "post" => act' = act
  PROVE  OneEach'
<1>1. \A f : Posts(f)' = Posts(f)
  BY DEF Posts
<1> QED
  BY <1>1 DEF OneEach

\* All comments fit the page, so an action sees each of them.
LEMMA ListingSeesAll ==
  ASSUME FindingsAssumption, PageHolds, FInv, OneEach, ListYaaosComments
  PROVE  OneEach'
<1>1. Len(github.comments) \in Nat /\ Len(github.comments) <= Cardinality(Findings)
  BY CommentsFit
<1>2. Cardinality(Findings) \in Nat /\ PageSize \in Nat /\ Cardinality(Findings) <= PageSize
  BY FS_CardinalityType DEF PageHolds, FindingsAssumption
<1>3. github' = github /\ Len(act'.seen) = Len(github.comments)
  <2>1. Len(act'.seen) = IF Len(github.comments) < PageSize THEN Len(github.comments) ELSE PageSize
    BY Listed
  <2>2. github' = github
    BY DEF ListYaaosComments
  <2> QED
    BY <1>1, <1>2, <2>1, <2>2
<1>4. \A f : \A i \in Posts(f)' : i <= Len(act'.seen)
  BY <1>1, <1>3 DEF Posts
<1>5. \A i, j \in 1 .. Len(github'.comments) : github'.comments[i].of = github'.comments[j].of => i = j
  BY <1>3 DEF OneEach
<1> QED
  BY <1>4, <1>5 DEF OneEach

\* A finding that no listed comment reports has none: its first is posted.
LEMMA PostingStaysOnce ==
  ASSUME FindingsAssumption, FInv, OneEach, PostResidual
  PROVE  OneEach'
<1>1. PICK f \in Findings : PostMoves(f)
  BY PostResidualMoves
<1>2. act.pc = "post" /\ github.comments \in Seq(Comment) /\ Len(github.comments) \in Nat
      /\ Len(act.seen) \in Nat
  BY LenProperties DEF PostResidual, FInv, RowsTyped, GithubType, ActType
<1>3. /\ f \in act.todo /\ act'.pc = "post" /\ act'.seen = act.seen /\ act'.todo = act.todo \ {f}
  BY <1>1 DEF PostMoves
<1>4. CASE github' = github
  <2>1. \A g : Posts(g)' = Posts(g)
    BY <1>4 DEF Posts
  <2> QED
    BY <1>2, <1>3, <1>4, <2>1 DEF OneEach
<1>5. CASE Match(f) = {} /\ github'.comments = Append(github.comments, [of |-> f, inline |-> finding[f].inline])
  <2> DEFINE c == [of |-> f, inline |-> finding[f].inline]
             n == Len(github.comments)
  <2>1. /\ Len(github'.comments) = n + 1 /\ github'.comments[n + 1] = c
        /\ \A i \in 1 .. n : github'.comments[i] = github.comments[i]
    BY <1>2, <1>5, AppendOf
  <2>2. \A i \in 1 .. n : github.comments[i].of # f
    <3> SUFFICES ASSUME NEW i \in 1 .. n, github.comments[i].of = f PROVE FALSE
      OBVIOUS
    <3>1. i \in Posts(f)
      BY DEF Posts
    <3>2. i \in 1 .. Len(act.seen)
      <4>1. i <= Len(act.seen)
        BY <1>2, <1>3, <3>1 DEF OneEach
      <4> QED
        BY <1>2, <4>1
    <3>3. act.seen[i] = github.comments[i]
      BY <1>2, <3>2 DEF FInv, ActInHand
    <3>4. i \in Match(f)
      BY <3>2, <3>3 DEF Match
    <3> QED
      BY <1>5, <3>4
  <2>3. c.of = f /\ n \in Nat
    BY <1>2
  <2>4. \A i, j \in 1 .. n : github.comments[i].of = github.comments[j].of => i = j
    BY DEF OneEach
  <2> DEFINE d == github'.comments
  <2>5. \A i \in 1 .. n + 1 : i \in 1 .. n \/ i = n + 1
    BY <2>3
  <2>6. \A i, j \in 1 .. n + 1 : d[i].of = d[j].of => i = j
    <3>1. \A i \in 1 .. n : d[i].of = github.comments[i].of /\ d[i].of # f
      BY <2>1, <2>2
    <3>2. d[n + 1].of = f
      BY <2>1, <2>3
    <3> HIDE DEF n, d
    <3> QED
      BY <2>4, <2>5, <3>1, <3>2
  <2>7. \A g : g # f => Posts(g)' \subseteq Posts(g)
    <3> SUFFICES ASSUME NEW g, g # f, NEW i \in Posts(g)' PROVE i \in Posts(g)
      OBVIOUS
    <3>1. i \in 1 .. n + 1 /\ github'.comments[i].of = g
      BY <2>1 DEF Posts
    <3>2. i \in 1 .. n
      BY <2>1, <2>3, <2>5, <3>1
    <3> QED
      BY <2>1, <3>1, <3>2 DEF Posts
  <2>8. \A g \in act'.todo : \A i \in Posts(g)' : i <= Len(act'.seen)
    BY <1>2, <1>3, <2>7 DEF OneEach
  <2> QED
    BY <2>1, <2>6, <2>8 DEF OneEach
<1> QED
  BY <1>1, <1>4, <1>5 DEF PostMoves

LEMMA OneEachKept ==
  ASSUME FindingsAssumption, PageHolds, FInv, OneEach, [Next]_vars
  PROVE  OneEach'
<1>1. act \in ActType /\ github \in GithubType
  BY DEF FInv, RowsTyped
<1>2. CASE UNCHANGED vars
  BY <1>2, SameComments DEF vars
<1>3. CASE StartRun
  BY <1>3, SameComments DEF StartRun
<1>4. CASE ReviewReturn
  <2>1. UNCHANGED <<github, act>>
    BY <1>4 DEF ReviewReturn
  <2> QED
    BY <2>1, SameComments
<1>5. CASE Execute
  BY <1>1, <1>5, NoActTyped, SameComments DEF Execute, ActType
<1>6. CASE CreatePr
  BY <1>1, <1>6, SameComments DEF CreatePr, ActType, GithubType
<1>7. CASE ListYaaosComments
  BY <1>7, ListingSeesAll
<1>8. CASE PostResidual
  BY <1>8, PostingStaysOnce
<1>9. CASE PostingDone
  BY <1>1, <1>9, SameComments DEF PostingDone, ActType
<1>10. CASE ReflectVerdict
  <2>1. act'.pc = "verdict"
    BY <1>1, <1>10 DEF ReflectVerdict, ActType
  <2>2. github'.comments = github.comments
    <3>1. github' = github \/ \E i : github' = [github EXCEPT !.resolved = @ \cup {i}]
      BY <1>10 DEF ReflectVerdict
    <3> QED
      BY <1>1, <3>1 DEF GithubType
  <2> QED
    BY <2>1, <2>2, SameComments
<1>11. CASE ReplyToComment
  BY <1>1, <1>11, SameComments DEF ReplyToComment, ActType
<1>12. CASE ActionCommits
  BY <1>12, NoActTyped, SameComments DEF ActionCommits
<1>13. CASE ActionDies
  BY <1>13, NoActTyped, SameComments DEF ActionDies
<1>14. CASE EvaluateAutoApprove
  BY <1>14, SameComments DEF EvaluateAutoApprove
<1>15. CASE ApprovePr
  BY <1>1, <1>15, SameComments DEF ApprovePr, GithubType
<1> QED
  BY <1>2, <1>3, <1>4, <1>5, <1>6, <1>7, <1>8, <1>9, <1>10, <1>11, <1>12, <1>13, <1>14, <1>15 DEF Next, ActionStep

\* However often an action dies between posting a comment and committing its anchor,
\* GitHub holds one comment for each finding, as long as GitHub lists a comment for every
\* finding on one page (the reconciliation of _post_residuals; beyond the page, one may
\* be posted twice).
THEOREM PostedOnceHolds ==
  ASSUME FindingsAssumption, PageHolds
  PROVE  Spec => []PostedOnce
<1>1. Init => FInv /\ OneEach
  BY Initially
<1>2. FInv /\ OneEach /\ [Next]_vars => FInv' /\ OneEach'
  BY NextKeeps, OneEachKept
<1>3. OneEach => PostedOnce
  <2> SUFFICES ASSUME OneEach, NEW f \in Findings PROVE Cardinality(Posts(f)) <= 1
    BY DEF PostedOnce
  <2>1. \A i, j \in Posts(f) : i = j
    BY DEF OneEach, Posts
  <2>2. CASE Posts(f) = {}
    BY <2>2, FS_EmptySet
  <2>3. CASE Posts(f) # {}
    <3>1. PICK i : Posts(f) = {i}
      BY <2>1, <2>3
    <3>2. Cardinality({i}) = 1
      BY FS_Singleton
    <3>3. Cardinality(Posts(f)) = 1
      BY <3>1, <3>2
    <3> QED
      BY <3>3
  <2> QED
    BY <2>2, <2>3
<1> QED
  BY <1>1, <1>2, <1>3, PTL DEF Spec

-----------------------------------------------------------------------------
(* What comes from the pull request: the intake of GitHub's webhooks.       *)

CONSTANTS Handlers, MaxEvents, MaxDeliveries, MaxFailures, MaxPauses, InOrder, Reopens

VARIABLES gh, events, sent, answer, ledger, handler, pr, ticket, runs, intakeUsed

Intake == INSTANCE PullRequestIntake WITH used <- intakeUsed

IntakeTyped ==
  /\ gh \in [state : {"none"} \cup Intake!PrState, head : 0 .. MaxEvents, draft : BOOLEAN]
  /\ events \in Seq(Intake!EventType) /\ Len(events) <= MaxEvents
  /\ sent \in [Intake!Ids -> 0 .. MaxDeliveries]
  /\ answer \in [Intake!Ids -> SUBSET {"ok", "duplicate", "500"}]
  /\ ledger \in SUBSET Intake!Ids
  /\ handler \in [Handlers -> Intake!HandlerType]
  /\ pr \in Intake!PullRequest \cup {Intake!NoRow}
  /\ ticket \in Intake!Ticket \cup {Intake!NoRow}
  /\ runs \in Seq(Intake!RunRow)
  /\ intakeUsed \in [fail : Nat, pause : Nat]

\* GitHub numbers the heads as it emits events.
HeadsNumbered ==
  /\ gh.state = "none" <=> Len(events) = 0
  /\ gh.state # "none" => gh.head \in 1 .. Len(events)

\* An event is recorded before it is acted on, and one request at most acts on it.
Acting(h) == handler[h].pc \in {"dispatch", "closing", "completing", "cancelling"}

HandlersApart ==
  /\ \A h \in Handlers : handler[h].pc # "idle" => handler[h].event \in 1 .. Len(events)
  /\ \A h \in Handlers : Acting(h) => handler[h].event \in ledger
  /\ \A h, g \in Handlers : Acting(h) /\ Acting(g) /\ handler[h].event = handler[g].event => h = g

\* A run is of a recorded event that no request has still to act on, and of no other's.
RunsApart ==
  /\ \A i \in 1 .. Len(runs) : /\ runs[i].event \in ledger
                               /\ \A h \in Handlers : handler[h].pc = "dispatch" => runs[i].event # handler[h].event
  /\ \A i, j \in 1 .. Len(runs) : runs[i].event = runs[j].event => i = j

\* A ticket's current run is one of its runs, a running ticket has one, and at most one
\* run is in flight.
OneInFlight(rs)     == \A i, j \in Intake!InFlight(rs) : i = j
TicketFollows(t, n) == t.run \in 0 .. n /\ (t.status = "running" => t.run # Intake!NoRun)

RowsTogether ==
  /\ pr = Intake!NoRow <=> ticket = Intake!NoRow
  /\ ticket = Intake!NoRow => Len(runs) = 0
  /\ ticket # Intake!NoRow => TicketFollows(ticket, Len(runs))
  /\ OneInFlight(runs)
  /\ \A h \in Handlers : handler[h].pc \in {"closing", "completing", "cancelling"} => pr # Intake!NoRow
  /\ \A h \in Handlers : handler[h].pc \in {"completing", "cancelling"} => handler[h].run \in 1 .. Len(runs)

IntakeInv == IntakeTyped /\ HeadsNumbered /\ HandlersApart /\ RunsApart /\ RowsTogether

\* One request at a time, deliveries in GitHub's order, none fails, nothing is reopened.
OneByOne == (\A h, g \in Handlers : h = g) /\ InOrder /\ MaxFailures = 0 /\ ~Reopens

\* An event is applied when it is recorded and no request has still to act on it.
Applied == {e \in ledger : \A h \in Handlers : handler[h].pc = "dispatch" => handler[h].event # e}

\* An event tells of the pull request what the one before it told, but for what it is about.
EventsFollow ==
  /\ \A e \in 1 .. Len(events) :
       /\ events[e].kind # "reopened" /\ (events[e].kind = "opened" => e = 1)
       /\ e > 1 /\ events[e].kind \in {"ready_for_review", "closed"} => events[e].head = events[e - 1].head
       /\ e > 1 /\ events[e].kind = "ready_for_review" => events[e].state = events[e - 1].state
  /\ Len(events) > 0 => events[Len(events)].state = gh.state /\ events[Len(events)].head = gh.head
  /\ Len(events) = 0 \/ events[1].kind = "opened"

\* Events are recorded and applied in their order, and each before it is answered.
AppliedInOrder ==
  /\ ledger \subseteq 1 .. Len(events)
  /\ \A e \in ledger : 1 .. e \subseteq ledger
  /\ \A e \in Intake!Ids : answer[e] # {} => e \in Applied
  /\ \A h \in Handlers :
       /\ handler[h].pc # "idle" => \A d \in 1 .. handler[h].event - 1 : d \in Applied
       /\ handler[h].pc = "inserting" => handler[h].event \notin ledger
       /\ handler[h].pc = "dispatch" => \A e \in ledger : e <= handler[h].event

\* The row says what the newest applied event said.
RowOfLastApplied ==
  pr # Intake!NoRow =>
    \E a \in Applied : /\ \A e \in Applied : e <= a
                       /\ pr.state = events[a].state /\ pr.head = events[a].head

OrderInv == EventsFollow /\ AppliedInOrder /\ RowOfLastApplied

-----------------------------------------------------------------------------
(* Rows, runs and the engine as the ticket sees it.                         *)

LEMMA IntakeRows ==
  /\ \A r \in Intake!PullRequest : r # Intake!NoRow
  /\ \A r \in Intake!Ticket : r # Intake!NoRow
<1>1. DOMAIN Intake!NoRow = {"absent"}
  BY DEF Intake!NoRow
<1>2. ASSUME NEW r \in Intake!PullRequest PROVE "absent" \notin DOMAIN r
  BY DEF Intake!PullRequest
<1>3. ASSUME NEW r \in Intake!Ticket PROVE "absent" \notin DOMAIN r
  BY DEF Intake!Ticket
<1> QED
  BY <1>1, <1>2, <1>3

\* What the engine does to the runs of a ticket: each keeps its event and its place.
RunsKept(rs, new) ==
  /\ new \in Seq(Intake!RunRow) /\ Len(new) = Len(rs)
  /\ \A i \in 1 .. Len(rs) : new[i].event = rs[i].event

LEMMA SetStateIs ==
  ASSUME NEW rs \in Seq(Intake!RunRow), NEW k \in 1 .. Len(rs),
         NEW s \in {"queued", "running", "paused", "over"}, NEW new,
         new = [rs EXCEPT ![k].state = s]
  PROVE  /\ RunsKept(rs, new) /\ new[k].state = s
         /\ \A i \in 1 .. Len(rs) : i # k => new[i] = rs[i]
<1> DEFINE row == [rs[k] EXCEPT !.state = s]
<1>1. rs[k] \in Intake!RunRow /\ Len(rs) \in Nat
  BY ElementOfSeq, LenProperties
<1>2. row \in Intake!RunRow /\ row.state = s /\ row.event = rs[k].event
  BY <1>1 DEF Intake!RunRow
<1>3. new = [rs EXCEPT ![k] = row]
  OBVIOUS
<1> HIDE DEF row
<1>4. /\ new \in Seq(Intake!RunRow) /\ Len(new) = Len(rs)
      /\ \A i \in 1 .. Len(rs) : new[i] = IF i = k THEN row ELSE rs[i]
  <2>1. row \in Intake!RunRow
    BY <1>2
  <2> QED
    BY ONLY <1>3, <2>1, ExceptSeq, rs \in Seq(Intake!RunRow), k \in 1 .. Len(rs)
<1> QED
  BY <1>2, <1>4 DEF RunsKept

LEMMA CancelIs ==
  ASSUME NEW rs \in Seq(Intake!RunRow), NEW k \in 1 .. Len(rs), NEW new,
         new = [rs EXCEPT ![k].cancel = TRUE]
  PROVE  RunsKept(rs, new) /\ \A i \in 1 .. Len(rs) : new[i].state = rs[i].state
<1> DEFINE row == [rs[k] EXCEPT !.cancel = TRUE]
<1>1. rs[k] \in Intake!RunRow /\ Len(rs) \in Nat
  BY ElementOfSeq, LenProperties
<1>2. row \in Intake!RunRow /\ row.state = rs[k].state /\ row.event = rs[k].event
  BY <1>1 DEF Intake!RunRow
<1>3. new = [rs EXCEPT ![k] = row]
  OBVIOUS
<1> HIDE DEF row
<1>4. /\ new \in Seq(Intake!RunRow) /\ Len(new) = Len(rs)
      /\ \A i \in 1 .. Len(rs) : new[i] = IF i = k THEN row ELSE rs[i]
  <2>1. row \in Intake!RunRow
    BY <1>2
  <2> QED
    BY ONLY <1>3, <2>1, ExceptSeq, rs \in Seq(Intake!RunRow), k \in 1 .. Len(rs)
<1> QED
  BY <1>2, <1>4 DEF RunsKept

\* A ticket follows the run that started, and is settled by the end of the run it follows.
LEMMA OnRunStartIs ==
  ASSUME NEW t \in Intake!Ticket, NEW n \in Nat, n <= MaxEvents, MaxEvents \in Nat, NEW i \in 1 .. n
  PROVE  Intake!OnRunStart(t, i) \in Intake!Ticket /\ TicketFollows(Intake!OnRunStart(t, i), n)
<1> DEFINE u == [t EXCEPT !.run = i]
           s == IF t.status = "pending" THEN "running" ELSE t.status
<1>1. u \in Intake!Ticket /\ u.run = i /\ i # 0 /\ i \in 0 .. n
  BY DEF Intake!Ticket
<1>2. s \in {"pending", "running", "hitl"} \cup Intake!Final
  BY DEF Intake!Ticket
<1>3. Intake!OnRunStart(t, i) = [u EXCEPT !.status = s]
  BY DEF Intake!OnRunStart, Intake!Ticket
<1> HIDE DEF u, s
<1>4. [u EXCEPT !.status = s] \in Intake!Ticket /\ [u EXCEPT !.status = s].run = i
  BY ONLY <1>1, <1>2 DEF Intake!Ticket
<1> QED
  BY <1>1, <1>3, <1>4 DEF TicketFollows, Intake!NoRun

LEMMA OnRunTerminalIs ==
  ASSUME NEW t \in Intake!Ticket, NEW n \in Nat, TicketFollows(t, n), NEW i,
         NEW status \in {"hitl", "done", "cancelled", "failed"}
  PROVE  /\ Intake!OnRunTerminal(t, i, status) \in Intake!Ticket
         /\ TicketFollows(Intake!OnRunTerminal(t, i, status), n)
<1> DEFINE u == [t EXCEPT !.status = status]
<1>1. u \in Intake!Ticket /\ u.run = t.run /\ u.status = status
  BY DEF Intake!Ticket, Intake!Final
<1>2. TicketFollows(u, n)
  BY <1>1 DEF TicketFollows
<1>3. Intake!OnRunTerminal(t, i, status) \in {t, u}
  BY DEF Intake!OnRunTerminal
<1> QED
  BY <1>1, <1>2, <1>3

\* The end of a run frees the slot for the oldest queued run, and for it alone.
LEMMA EnterTerminalIs ==
  ASSUME NEW rs \in Seq(Intake!RunRow), OneInFlight(rs), NEW k \in 1 .. Len(rs),
         NEW t \in Intake!Ticket, TicketFollows(t, Len(rs)), Len(rs) <= MaxEvents, MaxEvents \in Nat,
         NEW status \in {"done", "cancelled"}
  PROVE  LET s == Intake!EnterTerminal(rs, t, k, status)
         IN /\ RunsKept(rs, s.runs) /\ OneInFlight(s.runs)
            /\ s.ticket \in Intake!Ticket /\ TicketFollows(s.ticket, Len(rs))
<1> DEFINE over == [rs EXCEPT ![k].state = "over"]
           left == Intake!OnRunTerminal(t, k, status)
           next == Intake!Oldest(Intake!Queued(over))
           s    == Intake!EnterTerminal(rs, t, k, status)
<1>1. Len(rs) \in Nat
  BY LenProperties
<1>2. /\ RunsKept(rs, over) /\ over[k].state = "over"
      /\ \A i \in 1 .. Len(rs) : i # k => over[i] = rs[i]
  BY SetStateIs
<1>3. left \in Intake!Ticket /\ TicketFollows(left, Len(rs))
  BY <1>1, OnRunTerminalIs
<1> HIDE DEF over, left
<1>4. Intake!InFlight(over) \subseteq Intake!InFlight(rs)
  BY <1>2 DEF Intake!InFlight, RunsKept
<1>5. CASE Intake!Queued(over) = {} \/ Intake!InFlight(over) # {}
  <2>1. s.runs = over /\ s.ticket = left
    BY <1>5 DEF Intake!EnterTerminal, over, left
  <2>2. OneInFlight(over)
    BY <1>4 DEF OneInFlight
  <2> QED
    BY <1>2, <1>3, <2>1, <2>2
<1>6. CASE Intake!Queued(over) # {} /\ Intake!InFlight(over) = {}
  <2> DEFINE new == [over EXCEPT ![next].state = "running"]
  <2>1. s.runs = new /\ s.ticket = Intake!OnRunStart(left, next)
    BY <1>6 DEF Intake!EnterTerminal, over, left
  <2>2. next \in 1 .. Len(rs)
    <3>1. Intake!Queued(over) \subseteq 1 .. Len(rs) /\ Intake!Queued(over) \in SUBSET Nat
      BY <1>1, <1>2 DEF Intake!Queued, RunsKept
    <3>2. next = First(Intake!Queued(over))
      BY DEF Intake!Oldest, First
    <3> QED
      BY <1>6, <3>1, <3>2, FirstIsIn
  <2>3. /\ RunsKept(over, new) /\ \A i \in 1 .. Len(over) : i # next => new[i] = over[i]
    <3>1. over \in Seq(Intake!RunRow) /\ next \in 1 .. Len(over)
      BY <1>2, <2>2 DEF RunsKept
    <3> HIDE DEF next
    <3> QED
      BY <3>1, SetStateIs
  <2>4. RunsKept(rs, new)
    BY <1>2, <2>3 DEF RunsKept
  <2>5. \A i \in Intake!InFlight(new) : i = next
    BY <1>2, <1>6, <2>3 DEF Intake!InFlight, RunsKept
  <2>6. s.ticket \in Intake!Ticket /\ TicketFollows(s.ticket, Len(rs))
    BY <1>1, <1>3, <2>1, <2>2, OnRunStartIs
  <2> QED
    BY <2>1, <2>4, <2>5, <2>6 DEF OneInFlight
<1> QED
  BY <1>5, <1>6

\* A new run is the last, and takes the slot if it is free.
RunsAdded(rs, new, e) ==
  /\ new \in Seq(Intake!RunRow) /\ Len(new) = Len(rs) + 1 /\ new[Len(rs) + 1].event = e
  /\ \A i \in 1 .. Len(rs) : new[i].event = rs[i].event

LEMMA StartRunIs ==
  ASSUME NEW rs \in Seq(Intake!RunRow), OneInFlight(rs), NEW t \in Intake!Ticket, TicketFollows(t, Len(rs)),
         Len(rs) + 1 <= MaxEvents, MaxEvents \in Nat, NEW head \in Intake!Heads, NEW e \in Intake!Ids
  PROVE  LET s == Intake!StartRun(rs, t, head, e)
         IN /\ RunsAdded(rs, s.runs, e) /\ OneInFlight(s.runs)
            /\ s.ticket \in Intake!Ticket /\ TicketFollows(s.ticket, Len(rs) + 1)
<1> DEFINE new == [state |-> "queued", head |-> head, cancel |-> FALSE, event |-> e]
           now == [new EXCEPT !.state = "running"]
           s   == Intake!StartRun(rs, t, head, e)
<1>1. Len(rs) \in Nat
  BY LenProperties
<1>2. new \in Intake!RunRow /\ new.event = e /\ new.state = "queued"
  BY DEF Intake!RunRow
<1>3. now \in Intake!RunRow /\ now.event = e
  <2> HIDE DEF new
  <2> QED
    BY ONLY <1>2 DEF Intake!RunRow
<1>4. CASE Intake!InFlight(rs) = {}
  <2>1. s.runs = Append(rs, now) /\ s.ticket = Intake!OnRunStart(t, Len(rs) + 1)
    BY <1>4 DEF Intake!StartRun
  <2> HIDE DEF new, now, s
  <2>2. /\ Append(rs, now) \in Seq(Intake!RunRow) /\ Len(Append(rs, now)) = Len(rs) + 1
        /\ \A i \in 1 .. Len(rs) : Append(rs, now)[i] = rs[i]
        /\ Append(rs, now)[Len(rs) + 1] = now
    BY <1>3, AppendProperties
  <2>3. RunsAdded(rs, s.runs, e)
    BY <1>3, <2>1, <2>2 DEF RunsAdded
  <2>4. \A i \in Intake!InFlight(s.runs) : i = Len(rs) + 1
    BY <1>1, <1>4, <2>1, <2>2 DEF Intake!InFlight
  <2>5. s.ticket \in Intake!Ticket /\ TicketFollows(s.ticket, Len(rs) + 1)
    <3>1. Len(rs) + 1 \in Nat /\ Len(rs) + 1 \in 1 .. Len(rs) + 1
      BY <1>1
    <3> QED
      BY <2>1, <3>1, OnRunStartIs
  <2> QED
    BY <2>3, <2>4, <2>5 DEF OneInFlight, s
<1>5. CASE Intake!InFlight(rs) # {}
  <2>1. s.runs = Append(rs, new) /\ s.ticket = t
    BY <1>5 DEF Intake!StartRun
  <2> HIDE DEF new, now, s
  <2>2. /\ Append(rs, new) \in Seq(Intake!RunRow) /\ Len(Append(rs, new)) = Len(rs) + 1
        /\ \A i \in 1 .. Len(rs) : Append(rs, new)[i] = rs[i]
        /\ Append(rs, new)[Len(rs) + 1] = new
    BY <1>2, AppendProperties
  <2>3. RunsAdded(rs, s.runs, e)
    BY <1>2, <2>1, <2>2 DEF RunsAdded
  <2>4. Intake!InFlight(s.runs) \subseteq Intake!InFlight(rs)
    BY <1>1, <1>2, <2>1, <2>2 DEF Intake!InFlight
  <2>5. TicketFollows(t, Len(rs) + 1)
    BY <1>1 DEF TicketFollows
  <2> QED
    BY <2>1, <2>3, <2>4, <2>5 DEF OneInFlight, s
<1> QED
  BY <1>4, <1>5

LEMMA RequestCancelIs ==
  ASSUME NEW rs \in Seq(Intake!RunRow), OneInFlight(rs), NEW k \in 1 .. Len(rs),
         NEW t \in Intake!Ticket, TicketFollows(t, Len(rs)), Len(rs) <= MaxEvents, MaxEvents \in Nat
  PROVE  LET s == Intake!RequestCancel(rs, t, k)
         IN /\ RunsKept(rs, s.runs) /\ OneInFlight(s.runs)
            /\ s.ticket \in Intake!Ticket /\ TicketFollows(s.ticket, Len(rs))
<1> DEFINE s == Intake!RequestCancel(rs, t, k)
           marked == [rs EXCEPT ![k].cancel = TRUE]
<1>1. CASE rs[k].state = "running"
  <2>1. s.runs = marked /\ s.ticket = t
    BY <1>1 DEF Intake!RequestCancel
  <2>2. RunsKept(rs, marked) /\ \A i \in 1 .. Len(rs) : marked[i].state = rs[i].state
    BY CancelIs
  <2> HIDE DEF marked
  <2>3. Intake!InFlight(marked) \subseteq Intake!InFlight(rs)
    BY <2>2 DEF Intake!InFlight, RunsKept
  <2> QED
    BY <2>1, <2>2, <2>3 DEF OneInFlight
<1>2. CASE rs[k].state = "over"
  <2>1. s.runs = rs /\ s.ticket = t
    BY <1>2 DEF Intake!RequestCancel
  <2> QED
    BY <2>1 DEF RunsKept
<1>3. CASE rs[k].state # "running" /\ rs[k].state # "over"
  <2>1. s = Intake!EnterTerminal(rs, t, k, "cancelled")
    BY <1>3 DEF Intake!RequestCancel
  <2> QED
    BY <2>1, EnterTerminalIs
<1> QED
  BY <1>1, <1>2, <1>3

\* Runs of different events are no more than the events.
LEMMA RunsFit ==
  ASSUME Intake!IntakeAssumption, NEW rs \in Seq(Intake!RunRow),
         \A i, j \in 1 .. Len(rs) : rs[i].event = rs[j].event => i = j
  PROVE  Len(rs) <= MaxEvents
<1> DEFINE n  == Len(rs)
           of == [i \in 1 .. n |-> rs[i].event]
<1>1. n \in Nat /\ \A i \in 1 .. n : rs[i] \in Intake!RunRow
  BY LenProperties, ElementOfSeq
<1>2. of \in [1 .. n -> 1 .. MaxEvents]
  BY <1>1 DEF Intake!RunRow, Intake!Ids
<1>3. \A i, j \in 1 .. n : of[i] = of[j] => i = j
  OBVIOUS
<1>4. MaxEvents \in Nat
  BY DEF Intake!IntakeAssumption
<1> HIDE DEF n, of
<1>5. of \in Injection(1 .. n, 1 .. MaxEvents)
  BY <1>2, <1>3 DEF Injection, IsInjective
<1>6. /\ IsFiniteSet(1 .. MaxEvents) /\ Cardinality(1 .. MaxEvents) = IF 1 > MaxEvents THEN 0 ELSE MaxEvents - 1 + 1
      /\ Cardinality(1 .. n) = IF 1 > n THEN 0 ELSE n - 1 + 1
  <2>1. 1 \in Int /\ n \in Int /\ MaxEvents \in Int
    BY <1>1, <1>4
  <2> QED
    BY <2>1, FS_Interval
<1>7. Cardinality(1 .. n) <= Cardinality(1 .. MaxEvents)
  BY <1>5, <1>6, FS_Injection
<1> QED
  BY <1>1, <1>4, <1>6, <1>7 DEF n

\* There is room for the run of an event that has none.
LEMMA RoomForRun ==
  ASSUME Intake!IntakeAssumption, NEW rs \in Seq(Intake!RunRow), NEW e \in Intake!Ids,
         \A i, j \in 1 .. Len(rs) : rs[i].event = rs[j].event => i = j,
         \A i \in 1 .. Len(rs) : rs[i].event # e, NEW head \in Intake!Heads
  PROVE  Len(rs) + 1 <= MaxEvents
<1> DEFINE row == [state |-> "queued", head |-> head, cancel |-> FALSE, event |-> e]
           new == Append(rs, row)
<1>1. row \in Intake!RunRow /\ row.event = e
  BY DEF Intake!RunRow
<1> HIDE DEF row
<1>2. /\ new \in Seq(Intake!RunRow) /\ Len(new) = Len(rs) + 1 /\ new[Len(rs) + 1] = row
      /\ \A i \in 1 .. Len(rs) : new[i] = rs[i]
  BY <1>1, AppendProperties
<1>3. Len(rs) \in Nat
  BY LenProperties
<1> HIDE DEF new
<1>4. \A i \in 1 .. Len(new) : i \in 1 .. Len(rs) \/ i = Len(rs) + 1
  BY <1>2, <1>3
<1>5. \A i, j \in 1 .. Len(new) : new[i].event = new[j].event => i = j
  BY <1>1, <1>2, <1>4
<1> QED
  BY <1>2, <1>5, RunsFit

-----------------------------------------------------------------------------
(* The steps of GitHub and of the requests.                                 *)

\* A request that ends answers its event; one that goes on stays with it.
LEMMA FinishIs ==
  ASSUME Intake!IntakeAssumption, IntakeTyped, NEW h \in Handlers, NEW code \in {"ok", "duplicate", "500"}, Intake!Finish(h, code)
  PROVE  /\ handler' \in [Handlers -> Intake!HandlerType] /\ handler'[h].pc = "idle"
         /\ \A g \in Handlers : g # h => handler'[g] = handler[g]
         /\ answer' \in [Intake!Ids -> SUBSET {"ok", "duplicate", "500"}]
         /\ \A e \in Intake!Ids : e # handler[h].event => answer'[e] = answer[e]
<1>1. handler' = [handler EXCEPT ![h] = Intake!Idle] /\ Intake!Idle \in Intake!HandlerType
      /\ Intake!Idle.pc = "idle" /\ handler \in [Handlers -> Intake!HandlerType]
  BY DEF Intake!Finish, Intake!Idle, Intake!HandlerType, Intake!NoRun, IntakeTyped, Intake!IntakeAssumption
<1> DEFINE e == handler[h].event
           S == {"ok", "duplicate", "500"}
<1>2. answer' = [answer EXCEPT ![e] = answer[e] \cup {code}] /\ answer \in [Intake!Ids -> SUBSET S]
  BY DEF Intake!Finish, IntakeTyped
<1> HIDE DEF e, S
<1>3. answer' \in [Intake!Ids -> SUBSET S] /\ \A d \in Intake!Ids : d # e => answer'[d] = answer[d]
  <2>1. code \in S
    BY DEF S
  <2> QED
    BY <1>2, <2>1
<1> QED
  BY <1>1, <1>3 DEF e, S

LEMMA GotoIs ==
  ASSUME IntakeTyped, NEW h \in Handlers, NEW pc, Intake!Goto(h, pc),
         pc \in {"inserting", "dispatch", "closing", "cancelling"}
  PROVE  /\ handler' \in [Handlers -> Intake!HandlerType] /\ handler'[h].pc = pc
         /\ handler'[h].event = handler[h].event /\ handler'[h].run = handler[h].run
         /\ \A g \in Handlers : g # h => handler'[g] = handler[g]
         /\ answer' = answer
<1> DEFINE row == [handler[h] EXCEPT !.pc = pc]
<1>1. handler[h] \in Intake!HandlerType /\ handler \in [Handlers -> Intake!HandlerType]
  BY DEF IntakeTyped
<1>2. /\ row \in Intake!HandlerType /\ row.pc = pc /\ row.event = handler[h].event
      /\ row.run = handler[h].run
  BY <1>1 DEF Intake!HandlerType
<1>3. handler' = [handler EXCEPT ![h] = row] /\ answer' = answer
  BY DEF Intake!Goto
<1> HIDE DEF row
<1> QED
  BY <1>1, <1>2, <1>3

LEMMA IntakeInitially ==
  ASSUME Intake!IntakeAssumption, Intake!Init
  PROVE  IntakeInv
<1>1. /\ events = <<>> /\ runs = <<>> /\ Len(events) = 0 /\ Len(runs) = 0
      /\ <<>> \in Seq(Intake!EventType) /\ <<>> \in Seq(Intake!RunRow)
      /\ MaxEvents \in Nat /\ MaxDeliveries \in Nat
  BY EmptySeq DEF Intake!Init, Intake!IntakeAssumption
<1>2. Intake!Idle \in Intake!HandlerType /\ Intake!Idle.pc = "idle"
  BY <1>1 DEF Intake!Idle, Intake!HandlerType, Intake!NoRun
<1>3. handler \in [Handlers -> Intake!HandlerType] /\ \A h \in Handlers : handler[h].pc = "idle"
  BY <1>2 DEF Intake!Init
<1>4. IntakeTyped
  <2>1. gh \in [state : {"none"} \cup Intake!PrState, head : 0 .. MaxEvents, draft : BOOLEAN]
    BY <1>1 DEF Intake!Init
  <2>2. sent \in [Intake!Ids -> 0 .. MaxDeliveries]
    BY <1>1 DEF Intake!Init
  <2>3. answer \in [Intake!Ids -> SUBSET {"ok", "duplicate", "500"}] /\ ledger \in SUBSET Intake!Ids
    BY DEF Intake!Init
  <2>4. pr = Intake!NoRow /\ ticket = Intake!NoRow /\ intakeUsed \in [fail : Nat, pause : Nat]
    BY DEF Intake!Init
  <2> QED
    BY <1>1, <1>3, <2>1, <2>2, <2>3, <2>4 DEF IntakeTyped
<1>5. HeadsNumbered
  BY <1>1 DEF HeadsNumbered, Intake!Init
<1>6. HandlersApart
  BY <1>3 DEF HandlersApart, Acting
<1>7. RunsApart
  BY <1>1 DEF RunsApart
<1>8. RowsTogether
  BY <1>1, <1>3 DEF RowsTogether, Intake!Init, OneInFlight, Intake!InFlight
<1> QED
  BY <1>4, <1>5, <1>6, <1>7, <1>8 DEF IntakeInv

\* What GitHub emits is a new last event.
LEMMA EmitKeeps ==
  ASSUME Intake!IntakeAssumption, IntakeInv, NEW kind \in Intake!Kinds,
         NEW g \in [state : Intake!PrState, head : 1 .. Len(events) + 1, draft : BOOLEAN],
         Intake!Emit(kind, g)
  PROVE  IntakeInv'
<1> DEFINE ev == [kind |-> kind, head |-> g.head, draft |-> g.draft, state |-> g.state]
<1>1. /\ Len(events) < MaxEvents /\ gh' = g /\ events' = Append(events, ev)
      /\ UNCHANGED <<sent, answer, ledger, handler, pr, ticket, runs, intakeUsed>>
  BY DEF Intake!Emit
<1>2. events \in Seq(Intake!EventType) /\ Len(events) \in Nat /\ MaxEvents \in Nat
  BY LenProperties DEF IntakeInv, IntakeTyped, Intake!IntakeAssumption
<1>3. ev \in Intake!EventType
  BY <1>1, <1>2 DEF Intake!EventType, Intake!Heads
<1> HIDE DEF ev
<1>4. events' \in Seq(Intake!EventType) /\ Len(events') = Len(events) + 1
  BY <1>1, <1>2, <1>3, AppendProperties
<1>5. IntakeTyped'
  <2>1. gh' \in [state : {"none"} \cup Intake!PrState, head : 0 .. MaxEvents, draft : BOOLEAN]
    BY <1>1, <1>2
  <2>2. Len(events') <= MaxEvents
    BY <1>1, <1>2, <1>4
  <2> QED
    BY <1>1, <1>4, <2>1, <2>2 DEF IntakeInv, IntakeTyped
<1>6. HeadsNumbered'
  <2>1. gh'.state # "none"
    BY <1>1 DEF Intake!PrState
  <2> QED
    BY <1>1, <1>2, <1>4, <2>1 DEF HeadsNumbered
<1>7. HandlersApart'
  BY <1>1, <1>2, <1>4 DEF IntakeInv, HandlersApart, Acting
<1>8. RunsApart' /\ RowsTogether'
  BY <1>1 DEF IntakeInv, RunsApart, RowsTogether, OneInFlight, Intake!InFlight
<1> QED
  BY <1>5, <1>6, <1>7, <1>8 DEF IntakeInv

LEMMA AuthorKeeps ==
  ASSUME Intake!IntakeAssumption, IntakeInv, Intake!AuthorActs
  PROVE  IntakeInv'
<1>1. /\ gh \in [state : {"none"} \cup Intake!PrState, head : 0 .. MaxEvents, draft : BOOLEAN]
      /\ gh.state # "none" => gh.head \in 1 .. Len(events)
      /\ Len(events) \in Nat
  BY LenProperties DEF IntakeInv, IntakeTyped, HeadsNumbered
<1> DEFINE G == [state : Intake!PrState, head : 1 .. Len(events) + 1, draft : BOOLEAN]
<1>2. CASE gh.state = "none" /\ \E d \in BOOLEAN : Intake!Emit("opened", [state |-> "open", head |-> 1, draft |-> d])
  <2>1. PICK d \in BOOLEAN : Intake!Emit("opened", [state |-> "open", head |-> 1, draft |-> d])
    BY <1>2
  <2>2. [state |-> "open", head |-> 1, draft |-> d] \in G /\ "opened" \in Intake!Kinds
    BY <1>1 DEF Intake!PrState, Intake!Kinds
  <2> QED
    BY <2>1, <2>2, EmitKeeps
<1>3. CASE gh.state = "open" /\ gh.draft /\ Intake!Emit("ready_for_review", [gh EXCEPT !.draft = FALSE])
  <2>1. gh \in G
    BY <1>1, <1>3 DEF Intake!PrState
  <2>2. [gh EXCEPT !.draft = FALSE] \in G
    <3> HIDE DEF G
    <3>1. [gh EXCEPT !.draft = FALSE] \in [state : Intake!PrState, head : 1 .. Len(events) + 1, draft : BOOLEAN]
      BY ONLY <2>1 DEF G
    <3> QED
      BY <3>1 DEF G
  <2>3. "ready_for_review" \in Intake!Kinds
    BY DEF Intake!Kinds
  <2> QED
    BY <1>3, <2>2, <2>3, EmitKeeps
<1>4. CASE gh.state = "open" /\ Intake!Emit("synchronize", [gh EXCEPT !.head = @ + 1])
  <2>1. [gh EXCEPT !.head = @ + 1] \in G /\ "synchronize" \in Intake!Kinds
    BY <1>1, <1>4 DEF Intake!PrState, Intake!Kinds
  <2> QED
    BY <1>4, <2>1, EmitKeeps
<1>5. CASE gh.state = "open" /\ \E s \in {"closed", "merged"} : Intake!Emit("closed", [gh EXCEPT !.state = s])
  <2>1. PICK s \in {"closed", "merged"} : Intake!Emit("closed", [gh EXCEPT !.state = s])
    BY <1>5
  <2>2. [gh EXCEPT !.state = s] \in G /\ "closed" \in Intake!Kinds
    BY <1>1, <1>5 DEF Intake!PrState, Intake!Kinds
  <2> QED
    BY <2>1, <2>2, EmitKeeps
<1>6. CASE Reopens /\ gh.state = "closed" /\ Intake!Emit("reopened", [gh EXCEPT !.state = "open"])
  <2>1. [gh EXCEPT !.state = "open"] \in G /\ "reopened" \in Intake!Kinds
    BY <1>1, <1>6 DEF Intake!PrState, Intake!Kinds
  <2> QED
    BY <1>6, <2>1, EmitKeeps
<1> QED
  BY <1>2, <1>3, <1>4, <1>5, <1>6 DEF Intake!AuthorActs

\* A request that ends, or goes on with the event that it acts on, leaves the others be.
Continues(h) ==
  /\ \A g \in Handlers : g # h => handler'[g] = handler[g]
  /\ \/ handler'[h].pc = "idle"
     \/ /\ Acting(h) /\ handler'[h].pc \in {"closing", "completing", "cancelling"}
        /\ handler'[h].event = handler[h].event

LEMMA ContinuesKeeps ==
  ASSUME IntakeInv, NEW h \in Handlers, Continues(h), events' = events, ledger' = ledger
  PROVE  /\ HandlersApart'
         /\ \A g \in Handlers : handler'[g].pc = "dispatch" => handler[g].pc = "dispatch" /\ handler'[g].event = handler[g].event
<1>1. \A g \in Handlers : \/ handler'[g] = handler[g]
                          \/ handler'[g].pc = "idle"
                          \/ /\ Acting(g) /\ handler'[g].pc \in {"closing", "completing", "cancelling"}
                             /\ handler'[g].event = handler[g].event
  BY DEF Continues
<1>2. \A g \in Handlers : handler'[g].pc # "idle" => handler[g].pc # "idle" /\ handler'[g].event = handler[g].event
  BY <1>1 DEF Acting
<1>3. \A g \in Handlers : Acting(g)' => Acting(g) /\ handler'[g].event = handler[g].event
  BY <1>1 DEF Acting
<1>4. HandlersApart'
  BY <1>2, <1>3 DEF IntakeInv, HandlersApart
<1> QED
  BY <1>1, <1>4

\* A step in which no run gets another event, and no request begins to act.
LEMMA RunsApartKept ==
  ASSUME IntakeInv, RunsKept(runs, runs'), ledger' = ledger,
         \A g \in Handlers : handler'[g].pc = "dispatch" => handler[g].pc = "dispatch" /\ handler'[g].event = handler[g].event
  PROVE  RunsApart'
<1>1. \A i \in 1 .. Len(runs') : i \in 1 .. Len(runs) /\ runs'[i].event = runs[i].event
  BY DEF RunsKept
<1> QED
  BY <1>1 DEF IntakeInv, RunsApart

\* A step of a request that leaves the rows: it ends, or it was not acting.
LEMMA RowsStay ==
  ASSUME IntakeInv, NEW h \in Handlers, UNCHANGED <<pr, ticket, runs>>,
         \A g \in Handlers : g # h => handler'[g] = handler[g],
         handler'[h].pc \in {"idle", "reading", "inserting", "dispatch"}
  PROVE  RowsTogether'
<1>1. \A g \in Handlers : handler'[g] = handler[g] \/ handler'[g].pc \in {"idle", "reading", "inserting", "dispatch"}
  OBVIOUS
<1> QED
  BY <1>1 DEF IntakeInv, RowsTogether, OneInFlight, Intake!InFlight

LEMMA DeliverKeeps ==
  ASSUME Intake!IntakeAssumption, IntakeInv, NEW h \in Handlers, NEW e \in Intake!Ids, Intake!Deliver(h, e)
  PROVE  IntakeInv'
<1>1. /\ handler[h].pc = "idle" /\ e <= Len(events) /\ sent[e] < MaxDeliveries
      /\ sent' = [sent EXCEPT ![e] = sent[e] + 1]
      /\ handler' = [handler EXCEPT ![h] = [Intake!Idle EXCEPT !.pc = "reading", !.event = e]]
      /\ UNCHANGED <<gh, events, answer, ledger, pr, ticket, runs, intakeUsed>>
  BY DEF Intake!Deliver, IntakeInv, IntakeTyped
<1>2. MaxEvents \in Nat /\ MaxDeliveries \in Nat
  BY DEF Intake!IntakeAssumption
<1> DEFINE row == [Intake!Idle EXCEPT !.pc = "reading", !.event = e]
<1>3. row \in Intake!HandlerType /\ row.pc = "reading" /\ row.event = e
  <2> DEFINE idle == Intake!Idle
             read == [idle EXCEPT !.pc = "reading"]
  <2>1. idle \in Intake!HandlerType
    BY <1>2 DEF Intake!Idle, Intake!HandlerType, Intake!NoRun
  <2>2. e \in 0 .. MaxEvents
    BY <1>2 DEF Intake!Ids
  <2>3. read \in Intake!HandlerType /\ read.pc = "reading"
    <3> HIDE DEF idle
    <3> QED
      BY ONLY <2>1 DEF Intake!HandlerType
  <2>4. row = [read EXCEPT !.event = e]
    <3>1. row = [idle EXCEPT !.pc = "reading", !.event = e]
      OBVIOUS
    <3> HIDE DEF idle
    <3> QED
      BY ONLY <2>1, <3>1 DEF Intake!HandlerType
  <2> HIDE DEF read
  <2> QED
    BY ONLY <2>2, <2>3, <2>4 DEF Intake!HandlerType
<1>4. handler \in [Handlers -> Intake!HandlerType] /\ sent \in [Intake!Ids -> 0 .. MaxDeliveries]
  BY DEF IntakeInv, IntakeTyped
<1>5. /\ handler' \in [Handlers -> Intake!HandlerType] /\ handler'[h] = row
      /\ \A g \in Handlers : g # h => handler'[g] = handler[g]
  <2> HIDE DEF row
  <2> QED
    BY <1>1, <1>3, <1>4 DEF row
<1>6. sent' \in [Intake!Ids -> 0 .. MaxDeliveries]
  <2>1. sent[e] + 1 \in 0 .. MaxDeliveries
    BY <1>1, <1>2, <1>4
  <2> QED
    BY <1>1, <1>4, <2>1
<1> HIDE DEF row
<1>7. IntakeTyped' /\ HeadsNumbered'
  BY <1>1, <1>5, <1>6 DEF IntakeInv, IntakeTyped, HeadsNumbered
<1>8. HandlersApart'
  <2>1. e \in 1 .. Len(events)
    <3>1. Len(events) \in Nat
      BY LenProperties DEF IntakeInv, IntakeTyped
    <3> QED
      BY <1>1, <1>2, <3>1 DEF Intake!Ids
  <2>2. \A g \in Handlers : Acting(g)' => g # h /\ Acting(g) /\ handler'[g] = handler[g]
    BY <1>3, <1>5 DEF Acting
  <2>3. \A g \in Handlers : handler'[g].pc # "idle" => handler'[g].event \in 1 .. Len(events')
    BY <1>1, <1>3, <1>5, <2>1 DEF IntakeInv, HandlersApart
  <2> QED
    BY <1>1, <2>2, <2>3 DEF IntakeInv, HandlersApart
<1>9. RunsApart'
  BY <1>1, <1>3, <1>5 DEF IntakeInv, RunsApart
<1>10. RowsTogether'
  BY <1>1, <1>3, <1>5, RowsStay
<1> QED
  BY <1>7, <1>8, <1>9, <1>10 DEF IntakeInv

\* A request that ends without having written.
LEMMA FinishKeeps ==
  ASSUME Intake!IntakeAssumption, IntakeInv, NEW h \in Handlers, NEW code \in {"ok", "duplicate", "500"},
         Intake!Finish(h, code), UNCHANGED <<gh, events, sent, ledger, pr, ticket, runs>>,
         intakeUsed' \in [fail : Nat, pause : Nat]
  PROVE  IntakeInv'
<1>1. /\ handler' \in [Handlers -> Intake!HandlerType] /\ handler'[h].pc = "idle"
      /\ \A g \in Handlers : g # h => handler'[g] = handler[g]
      /\ answer' \in [Intake!Ids -> SUBSET {"ok", "duplicate", "500"}]
  BY FinishIs DEF IntakeInv
<1>2. Continues(h)
  BY <1>1 DEF Continues
<1>3. IntakeTyped' /\ HeadsNumbered'
  BY <1>1 DEF IntakeInv, IntakeTyped, HeadsNumbered
<1>4. HandlersApart' /\ RunsApart'
  BY <1>2, ContinuesKeeps, RunsApartKept DEF RunsKept, IntakeInv, IntakeTyped
<1>5. RowsTogether'
  BY <1>1, RowsStay
<1> QED
  BY <1>3, <1>4, <1>5 DEF IntakeInv

LEMMA LedgerKeeps ==
  ASSUME Intake!IntakeAssumption, IntakeInv, NEW h \in Handlers, Intake!LedgerRead(h) \/ Intake!LedgerInsert(h)
  PROVE  IntakeInv'
<1>1. UNCHANGED <<gh, events, sent, pr, ticket, runs, intakeUsed>> /\ intakeUsed \in [fail : Nat, pause : Nat]
      /\ handler[h].pc \in {"reading", "inserting"}
  BY DEF Intake!LedgerRead, Intake!LedgerInsert, IntakeInv, IntakeTyped
<1>2. CASE \E code \in {"duplicate", "500"} : Intake!Finish(h, code) /\ UNCHANGED ledger
  BY <1>1, <1>2, FinishKeeps
<1>3. CASE Intake!Goto(h, "inserting") /\ UNCHANGED ledger
  <2>1. /\ handler' \in [Handlers -> Intake!HandlerType] /\ handler'[h].pc = "inserting"
        /\ handler'[h].event = handler[h].event
        /\ \A g \in Handlers : g # h => handler'[g] = handler[g]
        /\ answer' = answer
    BY <1>3, GotoIs DEF IntakeInv
  <2>2. IntakeTyped' /\ HeadsNumbered'
    BY <1>1, <1>3, <2>1 DEF IntakeInv, IntakeTyped, HeadsNumbered
  <2>3. \A g \in Handlers : Acting(g)' => Acting(g) /\ handler'[g] = handler[g]
    BY <2>1 DEF Acting
  <2>4. HandlersApart' /\ RunsApart'
    BY <1>1, <1>3, <2>1, <2>3 DEF IntakeInv, HandlersApart, RunsApart
  <2>5. RowsTogether'
    BY <1>1, <2>1, RowsStay
  <2> QED
    BY <2>2, <2>4, <2>5 DEF IntakeInv
<1>4. CASE /\ Intake!Goto(h, "dispatch") /\ handler[h].event \notin ledger
           /\ ledger' = ledger \cup {handler[h].event}
  <2>1. /\ handler' \in [Handlers -> Intake!HandlerType] /\ handler'[h].pc = "dispatch"
        /\ handler'[h].event = handler[h].event
        /\ \A g \in Handlers : g # h => handler'[g] = handler[g]
        /\ answer' = answer
    BY <1>4, GotoIs DEF IntakeInv
  <2>2. handler[h].event \in 1 .. Len(events) /\ handler[h].event \in Intake!Ids
    <3>1. Len(events) \in Nat /\ Len(events) <= MaxEvents /\ MaxEvents \in Nat
      BY LenProperties DEF IntakeInv, IntakeTyped, Intake!IntakeAssumption
    <3>2. handler[h].event \in 1 .. Len(events)
      BY <1>1 DEF IntakeInv, HandlersApart
    <3> QED
      BY <3>1, <3>2 DEF Intake!Ids
  <2>3. IntakeTyped' /\ HeadsNumbered'
    BY <1>1, <1>4, <2>1, <2>2 DEF IntakeInv, IntakeTyped, HeadsNumbered
  <2>4. \A g \in Handlers : g # h => (Acting(g)' = Acting(g)) /\ handler'[g] = handler[g]
    BY <2>1 DEF Acting
  <2>5. \A g \in Handlers : g # h /\ Acting(g)' => handler'[g].event \in ledger
    BY <2>4 DEF IntakeInv, HandlersApart
  <2>6. HandlersApart'
    BY <1>1, <1>4, <2>1, <2>2, <2>4, <2>5 DEF IntakeInv, HandlersApart
  <2>7. RunsApart'
    BY <1>1, <1>4, <2>1 DEF IntakeInv, RunsApart
  <2>8. RowsTogether'
    BY <1>1, <2>1, RowsStay
  <2> QED
    BY <2>3, <2>6, <2>7, <2>8 DEF IntakeInv
<1> QED
  BY <1>2, <1>3, <1>4 DEF Intake!LedgerRead, Intake!LedgerInsert

LEMMA RequestFailsKeeps ==
  ASSUME Intake!IntakeAssumption, IntakeInv, NEW h \in Handlers, Intake!RequestFails(h)
  PROVE  IntakeInv'
<1>1. intakeUsed' \in [fail : Nat, pause : Nat]
  BY DEF Intake!RequestFails, IntakeInv, IntakeTyped
<1> QED
  BY <1>1, FinishKeeps DEF Intake!RequestFails

-----------------------------------------------------------------------------
(* What a request does to the pull request's row, the ticket and the runs.  *)

\* The event in hand is one that GitHub emitted.
LEMMA EvIs ==
  ASSUME IntakeInv, NEW h \in Handlers, handler[h].pc # "idle"
  PROVE  /\ handler[h].event \in 1 .. Len(events) /\ handler[h].event \in Intake!Ids
         /\ Intake!Ev(h) \in Intake!EventType
<1>1. events \in Seq(Intake!EventType) /\ handler[h].event \in 1 .. Len(events)
      /\ handler[h] \in Intake!HandlerType /\ Len(events) \in Nat
  BY LenProperties DEF IntakeInv, IntakeTyped, HandlersApart
<1>2. handler[h].event \in 0 .. MaxEvents
  BY <1>1 DEF Intake!HandlerType
<1>3. handler[h].event \in Intake!Ids
  BY <1>1, <1>2 DEF Intake!Ids
<1> QED
  BY <1>1, <1>3, ElementOfSeq DEF Intake!Ev

\* A request that acts on an event, and ends with its run added.
LEMMA AddsRunKeeps ==
  ASSUME Intake!IntakeAssumption, IntakeInv, NEW h \in Handlers, handler[h].pc = "dispatch",
         NEW t \in Intake!Ticket, TicketFollows(t, Len(runs)), NEW head \in Intake!Heads,
         LET s == Intake!StartRun(runs, t, head, handler[h].event)
         IN ticket' = s.ticket /\ runs' = s.runs,
         pr' \in Intake!PullRequest, Intake!Finish(h, "ok"),
         UNCHANGED <<gh, events, sent, ledger, intakeUsed>>
  PROVE  IntakeInv'
<1> DEFINE e == handler[h].event
<1>1. /\ handler' \in [Handlers -> Intake!HandlerType] /\ handler'[h].pc = "idle"
      /\ \A g \in Handlers : g # h => handler'[g] = handler[g]
      /\ answer' \in [Intake!Ids -> SUBSET {"ok", "duplicate", "500"}]
  BY FinishIs DEF IntakeInv
<1>2. e \in Intake!Ids /\ e \in ledger /\ runs \in Seq(Intake!RunRow) /\ MaxEvents \in Nat /\ Len(runs) \in Nat
  BY EvIs, LenProperties DEF IntakeInv, HandlersApart, Acting, IntakeTyped, Intake!IntakeAssumption
<1>3. /\ \A i, j \in 1 .. Len(runs) : runs[i].event = runs[j].event => i = j
      /\ \A i \in 1 .. Len(runs) : runs[i].event # e
  BY DEF IntakeInv, RunsApart
<1>4. Len(runs) + 1 <= MaxEvents
  BY <1>2, <1>3, RoomForRun
<1>5. /\ RunsAdded(runs, runs', e) /\ OneInFlight(runs')
      /\ ticket' \in Intake!Ticket /\ TicketFollows(ticket', Len(runs) + 1)
  <2>1. OneInFlight(runs)
    BY DEF IntakeInv, RowsTogether
  <2> QED
    BY <1>2, <1>4, <2>1, StartRunIs
<1>6. pr' # Intake!NoRow /\ ticket' # Intake!NoRow
  BY <1>5, IntakeRows
<1>7. IntakeTyped' /\ HeadsNumbered'
  BY <1>1, <1>5 DEF IntakeInv, IntakeTyped, HeadsNumbered, RunsAdded
<1>8. HandlersApart' /\ \A g \in Handlers : handler'[g].pc = "dispatch" => g # h /\ handler[g].pc = "dispatch" /\ handler'[g].event = handler[g].event
  <2>1. Continues(h)
    BY <1>1 DEF Continues
  <2> QED
    BY <1>1, <2>1, ContinuesKeeps
<1>9. RunsApart'
  <2>1. \A i \in 1 .. Len(runs') : (i \in 1 .. Len(runs) /\ runs'[i].event = runs[i].event) \/ (i = Len(runs) + 1 /\ runs'[i].event = e)
    BY <1>2, <1>5 DEF RunsAdded
  <2>2. \A i \in 1 .. Len(runs') : runs'[i].event \in ledger'
    BY <1>2, <2>1 DEF IntakeInv, RunsApart
  <2>3. \A g \in Handlers : handler'[g].pc = "dispatch" => handler'[g].event # e
    BY <1>8 DEF IntakeInv, HandlersApart, Acting
  <2>4. \A i \in 1 .. Len(runs') : \A g \in Handlers : handler'[g].pc = "dispatch" => runs'[i].event # handler'[g].event
    BY <1>8, <2>1, <2>3 DEF IntakeInv, RunsApart
  <2>5. \A i, j \in 1 .. Len(runs') : runs'[i].event = runs'[j].event => i = j
    <3> HIDE DEF e
    <3> QED
      BY <1>3, <2>1
  <2> QED
    BY <2>2, <2>4, <2>5 DEF RunsApart
<1>10. RowsTogether'
  <2>1. Len(runs') = Len(runs) + 1 /\ \A i \in 1 .. Len(runs) : i \in 1 .. Len(runs')
    BY <1>2, <1>5 DEF RunsAdded
  <2>2. \A g \in Handlers : handler'[g].pc \in {"completing", "cancelling"} => handler'[g].run \in 1 .. Len(runs')
    BY <1>1, <2>1 DEF IntakeInv, RowsTogether
  <2> QED
    BY <1>5, <1>6, <2>1, <2>2 DEF RowsTogether
<1> QED
  BY <1>7, <1>8, <1>9, <1>10 DEF IntakeInv

LEMMA PrepareKeeps ==
  ASSUME Intake!IntakeAssumption, IntakeInv, NEW h \in Handlers, Intake!PreparePipelineRuns(h)
  PROVE  IntakeInv'
<1>1. /\ handler[h].pc = "dispatch" /\ Intake!Finish(h, "ok")
      /\ UNCHANGED <<gh, events, sent, ledger, intakeUsed>> /\ intakeUsed \in [fail : Nat, pause : Nat]
      /\ Intake!Ev(h) \in Intake!EventType
  <2>1. handler[h].pc = "dispatch" /\ Intake!Finish(h, "ok") /\ UNCHANGED <<gh, events, sent, ledger, intakeUsed>>
    BY DEF Intake!PreparePipelineRuns
  <2> QED
    BY <2>1, EvIs DEF IntakeInv, IntakeTyped
<1>2. CASE Intake!Filtered(h) \/ ~Intake!TicketKeyFree
  <2>1. UNCHANGED <<pr, ticket, runs>>
    BY <1>2 DEF Intake!PreparePipelineRuns
  <2> QED
    BY <1>1, <2>1, FinishKeeps
<1>3. CASE ~(Intake!Filtered(h) \/ ~Intake!TicketKeyFree)
  <2> DEFINE t == Intake!NewTicket(h)
  <2>1. /\ ticket = Intake!NoRow /\ pr' = Intake!NewPr(h)
        /\ LET s == Intake!StartRun(runs, t, Intake!Ev(h).head, handler[h].event)
           IN ticket' = s.ticket /\ runs' = s.runs
    BY <1>3 DEF Intake!PreparePipelineRuns, Intake!TicketKeyFree
  <2>2. t \in Intake!Ticket /\ TicketFollows(t, Len(runs))
    <3>1. Len(runs) = 0 /\ MaxEvents \in Nat
      BY <2>1 DEF IntakeInv, RowsTogether, Intake!IntakeAssumption
    <3>2. t = [status |-> "pending", run |-> 0]
      BY DEF Intake!NewTicket, Intake!NoRun
    <3> QED
      BY <3>1, <3>2 DEF Intake!Ticket, TicketFollows
  <2>3. pr' \in Intake!PullRequest /\ Intake!Ev(h).head \in Intake!Heads
    BY <1>1, <2>1 DEF Intake!NewPr, Intake!EventType, Intake!PullRequest
  <2> QED
    BY <1>1, <2>1, <2>2, <2>3, AddsRunKeeps
<1> QED
  BY <1>2, <1>3

LEMMA SynchronizeKeeps ==
  ASSUME Intake!IntakeAssumption, IntakeInv, NEW h \in Handlers, Intake!HandleSynchronize(h)
  PROVE  IntakeInv'
<1>1. /\ handler[h].pc = "dispatch" /\ Intake!Finish(h, "ok")
      /\ UNCHANGED <<gh, events, sent, ledger, intakeUsed>> /\ intakeUsed \in [fail : Nat, pause : Nat]
      /\ Intake!Ev(h) \in Intake!EventType
  <2>1. handler[h].pc = "dispatch" /\ Intake!Finish(h, "ok") /\ UNCHANGED <<gh, events, sent, ledger, intakeUsed>>
    BY DEF Intake!HandleSynchronize
  <2> QED
    BY <2>1, EvIs DEF IntakeInv, IntakeTyped
<1>2. CASE pr = Intake!NoRow
  <2>1. UNCHANGED <<pr, ticket, runs>>
    BY <1>2 DEF Intake!HandleSynchronize
  <2> QED
    BY <1>1, <2>1, FinishKeeps
<1>3. CASE pr # Intake!NoRow
  <2>1. /\ pr' = Intake!UpsertPr(h)
        /\ LET s == Intake!StartRun(runs, ticket, Intake!Ev(h).head, handler[h].event)
           IN ticket' = s.ticket /\ runs' = s.runs
    BY <1>3 DEF Intake!HandleSynchronize
  <2>2. ticket \in Intake!Ticket /\ TicketFollows(ticket, Len(runs)) /\ pr \in Intake!PullRequest
    BY <1>3 DEF IntakeInv, IntakeTyped, RowsTogether
  <2>3. pr' \in Intake!PullRequest /\ Intake!Ev(h).head \in Intake!Heads
    BY <1>1, <2>1, <2>2 DEF Intake!UpsertPr, Intake!EventType, Intake!PullRequest
  <2> QED
    BY <1>1, <2>1, <2>2, <2>3, AddsRunKeeps
<1> QED
  BY <1>2, <1>3

LEMMA ClosedKeeps ==
  ASSUME Intake!IntakeAssumption, IntakeInv, NEW h \in Handlers, Intake!HandleClosed(h)
  PROVE  IntakeInv'
<1>1. /\ handler[h].pc = "dispatch" /\ intakeUsed \in [fail : Nat, pause : Nat]
      /\ UNCHANGED <<gh, events, sent, ledger, ticket, runs, intakeUsed>>
      /\ Intake!Ev(h) \in Intake!EventType
  <2>1. handler[h].pc = "dispatch" /\ UNCHANGED <<gh, events, sent, ledger, ticket, runs, intakeUsed>>
    BY DEF Intake!HandleClosed
  <2> QED
    BY <2>1, EvIs DEF IntakeInv, IntakeTyped
<1>2. CASE pr = Intake!NoRow
  BY <1>1, <1>2, FinishKeeps DEF Intake!HandleClosed
<1>3. CASE pr # Intake!NoRow
  <2>1. Intake!Goto(h, "closing") /\ pr' = Intake!CloseState(h)
    BY <1>3 DEF Intake!HandleClosed
  <2>2. /\ handler' \in [Handlers -> Intake!HandlerType] /\ handler'[h].pc = "closing"
        /\ handler'[h].event = handler[h].event
        /\ \A g \in Handlers : g # h => handler'[g] = handler[g]
        /\ answer' = answer
    BY <2>1, GotoIs DEF IntakeInv
  <2>3. pr' \in Intake!PullRequest /\ pr' # Intake!NoRow
    <3>1. pr \in Intake!PullRequest
      BY <1>3 DEF IntakeInv, IntakeTyped
    <3>2. pr' \in Intake!PullRequest
      BY <1>1, <2>1, <3>1 DEF Intake!CloseState, Intake!EventType, Intake!PullRequest
    <3> QED
      BY <3>2, IntakeRows
  <2>4. IntakeTyped' /\ HeadsNumbered'
    BY <1>1, <2>2, <2>3 DEF IntakeInv, IntakeTyped, HeadsNumbered
  <2>5. HandlersApart' /\ RunsApart'
    <3>1. Continues(h)
      BY <1>1, <2>2 DEF Continues, Acting
    <3> QED
      BY <1>1, <3>1, ContinuesKeeps, RunsApartKept DEF RunsKept, IntakeInv, IntakeTyped
  <2>6. RowsTogether'
    BY <1>1, <1>3, <2>2, <2>3 DEF IntakeInv, RowsTogether, OneInFlight, Intake!InFlight
  <2> QED
    BY <2>4, <2>5, <2>6 DEF IntakeInv
<1> QED
  BY <1>2, <1>3

LEMMA ClosedReadsKeeps ==
  ASSUME Intake!IntakeAssumption, IntakeInv, NEW h \in Handlers, Intake!ClosedReadsTicket(h)
  PROVE  IntakeInv'
<1>1. /\ handler[h].pc = "closing" /\ intakeUsed \in [fail : Nat, pause : Nat]
      /\ UNCHANGED <<gh, events, sent, ledger, pr, ticket, runs, intakeUsed>>
  BY DEF Intake!ClosedReadsTicket, IntakeInv, IntakeTyped
<1>2. CASE Intake!Finish(h, "ok")
  BY <1>1, <1>2, FinishKeeps
<1>3. CASE /\ ticket.status = "running"
           /\ handler' = [handler EXCEPT ![h].pc = "completing", ![h].run = ticket.run]
           /\ UNCHANGED answer
  <2>1. ticket \in Intake!Ticket /\ TicketFollows(ticket, Len(runs)) /\ pr # Intake!NoRow
    BY <1>1 DEF IntakeInv, IntakeTyped, RowsTogether
  <2>2. ticket.run \in 1 .. Len(runs) /\ ticket.run \in 0 .. MaxEvents
    <3>1. ticket.run # 0 /\ ticket.run \in 0 .. Len(runs)
      BY <1>3, <2>1 DEF TicketFollows, Intake!NoRun
    <3>2. Len(runs) \in Nat
      BY LenProperties DEF IntakeInv, IntakeTyped
    <3> QED
      BY <2>1, <3>1, <3>2 DEF Intake!Ticket
  <2> DEFINE i   == ticket.run
             r1  == [handler[h] EXCEPT !.pc = "completing"]
             row == [r1 EXCEPT !.run = i]
  <2>3. handler[h] \in Intake!HandlerType /\ handler \in [Handlers -> Intake!HandlerType]
    BY DEF IntakeInv, IntakeTyped
  <2>4. r1 \in Intake!HandlerType /\ r1.pc = "completing" /\ r1.event = handler[h].event
    BY ONLY <2>3 DEF Intake!HandlerType
  <2>5. row \in Intake!HandlerType /\ row.pc = "completing" /\ row.event = handler[h].event /\ row.run = i
    <3> HIDE DEF r1, i
    <3>1. i \in 0 .. MaxEvents
      BY <2>2 DEF i
    <3> QED
      BY ONLY <2>4, <3>1 DEF Intake!HandlerType
  <2>6. handler' = [handler EXCEPT ![h] = row]
    <3> HIDE DEF i
    <3>1. handler' = [handler EXCEPT ![h].pc = "completing", ![h].run = i]
      BY <1>3 DEF i
    <3> QED
      BY <2>3, <3>1
  <2> HIDE DEF row
  <2>7. /\ handler' \in [Handlers -> Intake!HandlerType] /\ handler'[h] = row
        /\ \A g \in Handlers : g # h => handler'[g] = handler[g]
    BY <2>3, <2>5, <2>6
  <2>8. IntakeTyped' /\ HeadsNumbered'
    BY <1>1, <1>3, <2>7 DEF IntakeInv, IntakeTyped, HeadsNumbered
  <2>9. HandlersApart' /\ RunsApart'
    <3>1. Continues(h)
      BY <1>1, <2>5, <2>7 DEF Continues, Acting
    <3> QED
      BY <1>1, <3>1, ContinuesKeeps, RunsApartKept DEF RunsKept, IntakeInv, IntakeTyped
  <2>10. RowsTogether'
    BY <1>1, <2>1, <2>2, <2>5, <2>7 DEF IntakeInv, RowsTogether, OneInFlight, Intake!InFlight
  <2> QED
    BY <2>8, <2>9, <2>10 DEF IntakeInv
<1> QED
  BY <1>1, <1>2, <1>3 DEF Intake!ClosedReadsTicket

LEMMA ClosedCompletesKeeps ==
  ASSUME Intake!IntakeAssumption, IntakeInv, NEW h \in Handlers, Intake!ClosedCompletesTicket(h)
  PROVE  IntakeInv'
<1>1. /\ handler[h].pc = "completing" /\ intakeUsed \in [fail : Nat, pause : Nat]
      /\ UNCHANGED <<gh, events, sent, ledger, pr, runs, intakeUsed>>
  BY DEF Intake!ClosedCompletesTicket, IntakeInv, IntakeTyped
<1>2. CASE Intake!Finish(h, "500") /\ UNCHANGED ticket
  BY <1>1, <1>2, FinishKeeps
<1>3. CASE Intake!Goto(h, "cancelling") /\ ticket' = [ticket EXCEPT !.status = "done"]
  <2>1. /\ handler' \in [Handlers -> Intake!HandlerType] /\ handler'[h].pc = "cancelling"
        /\ handler'[h].event = handler[h].event /\ handler'[h].run = handler[h].run
        /\ \A g \in Handlers : g # h => handler'[g] = handler[g]
        /\ answer' = answer
    BY <1>3, GotoIs DEF IntakeInv
  <2>2. ticket \in Intake!Ticket /\ TicketFollows(ticket, Len(runs)) /\ pr # Intake!NoRow
    BY <1>1 DEF IntakeInv, IntakeTyped, RowsTogether
  <2>3. ticket' \in Intake!Ticket /\ TicketFollows(ticket', Len(runs)) /\ ticket' # Intake!NoRow
    <3>1. ticket' \in Intake!Ticket /\ ticket'.run = ticket.run /\ ticket'.status = "done"
      BY <1>3, <2>2 DEF Intake!Ticket, Intake!Final
    <3> QED
      BY <2>2, <3>1, IntakeRows DEF TicketFollows
  <2>4. IntakeTyped' /\ HeadsNumbered'
    BY <1>1, <2>1, <2>3 DEF IntakeInv, IntakeTyped, HeadsNumbered
  <2>5. HandlersApart' /\ RunsApart'
    <3>1. Continues(h)
      BY <1>1, <2>1 DEF Continues, Acting
    <3> QED
      BY <1>1, <3>1, ContinuesKeeps, RunsApartKept DEF RunsKept, IntakeInv, IntakeTyped
  <2>6. RowsTogether'
    BY <1>1, <2>1, <2>2, <2>3 DEF IntakeInv, RowsTogether, OneInFlight, Intake!InFlight
  <2> QED
    BY <2>4, <2>5, <2>6 DEF IntakeInv
<1> QED
  BY <1>2, <1>3 DEF Intake!ClosedCompletesTicket

\* The engine's steps, and the cancellation: the runs and the ticket change, and a
\* request may end.
LEMMA EngineKeeps ==
  ASSUME IntakeInv, RunsKept(runs, runs'), OneInFlight(runs'), ticket # Intake!NoRow,
         ticket' \in Intake!Ticket, TicketFollows(ticket', Len(runs)),
         handler' \in [Handlers -> Intake!HandlerType],
         \A g \in Handlers : handler'[g] = handler[g] \/ handler'[g].pc = "idle",
         answer' \in [Intake!Ids -> SUBSET {"ok", "duplicate", "500"}],
         intakeUsed' \in [fail : Nat, pause : Nat], UNCHANGED <<gh, events, sent, ledger, pr>>
  PROVE  IntakeInv'
<1>1. IntakeTyped' /\ HeadsNumbered'
  BY DEF IntakeInv, IntakeTyped, HeadsNumbered, RunsKept
<1>2. HandlersApart'
  BY DEF IntakeInv, HandlersApart, Acting
<1>3. RunsApart'
  BY RunsApartKept
<1>4. RowsTogether'
  <2>1. ticket' # Intake!NoRow /\ Len(runs') = Len(runs)
    BY IntakeRows DEF RunsKept
  <2> QED
    BY <2>1 DEF IntakeInv, RowsTogether
<1> QED
  BY <1>1, <1>2, <1>3, <1>4 DEF IntakeInv

LEMMA ClosedCancelsKeeps ==
  ASSUME Intake!IntakeAssumption, IntakeInv, NEW h \in Handlers, Intake!ClosedCancelsRun(h)
  PROVE  IntakeInv'
<1> DEFINE k == handler[h].run
<1>1. /\ handler[h].pc = "cancelling" /\ Intake!Finish(h, "ok")
      /\ LET s == Intake!RequestCancel(runs, ticket, k) IN runs' = s.runs /\ ticket' = s.ticket
      /\ UNCHANGED <<gh, events, sent, ledger, pr, intakeUsed>> /\ intakeUsed \in [fail : Nat, pause : Nat]
  BY DEF Intake!ClosedCancelsRun, IntakeInv, IntakeTyped
<1>2. /\ handler' \in [Handlers -> Intake!HandlerType] /\ handler'[h].pc = "idle"
      /\ \A g \in Handlers : g # h => handler'[g] = handler[g]
      /\ answer' \in [Intake!Ids -> SUBSET {"ok", "duplicate", "500"}]
  BY <1>1, FinishIs DEF IntakeInv
<1>3. /\ k \in 1 .. Len(runs) /\ ticket # Intake!NoRow /\ ticket \in Intake!Ticket /\ runs \in Seq(Intake!RunRow)
      /\ TicketFollows(ticket, Len(runs)) /\ OneInFlight(runs) /\ MaxEvents \in Nat
  BY <1>1 DEF IntakeInv, IntakeTyped, RowsTogether, Intake!IntakeAssumption
<1>4. Len(runs) <= MaxEvents
  BY <1>3, RunsFit DEF IntakeInv, RunsApart
<1> HIDE DEF k
<1>5. /\ RunsKept(runs, runs') /\ OneInFlight(runs') /\ ticket' \in Intake!Ticket /\ TicketFollows(ticket', Len(runs))
  BY <1>1, <1>3, <1>4, RequestCancelIs
<1>6. \A g \in Handlers : handler'[g] = handler[g] \/ handler'[g].pc = "idle"
  BY <1>2
<1> QED
  BY <1>1, <1>2, <1>3, <1>5, <1>6, EngineKeeps

LEMMA EngineStepKeeps ==
  ASSUME Intake!IntakeAssumption, IntakeInv, Intake!EngineStep
  PROVE  IntakeInv'
<1>1. PICK k \in 1 .. Len(runs) : Intake!RunEnds(k) \/ Intake!RunPauses(k) \/ Intake!RunResumes(k)
  BY DEF Intake!EngineStep
<1>2. UNCHANGED <<gh, events, sent, answer, ledger, handler, pr>>
  BY <1>1 DEF Intake!RunEnds, Intake!RunPauses, Intake!RunResumes
<1>3. /\ handler' \in [Handlers -> Intake!HandlerType] /\ runs \in Seq(Intake!RunRow) /\ Len(runs) \in Nat
      /\ answer' \in [Intake!Ids -> SUBSET {"ok", "duplicate", "500"}] /\ MaxEvents \in Nat
      /\ intakeUsed \in [fail : Nat, pause : Nat]
  BY <1>2, LenProperties DEF IntakeInv, IntakeTyped, Intake!IntakeAssumption
<1>4. ticket # Intake!NoRow /\ ticket \in Intake!Ticket /\ TicketFollows(ticket, Len(runs)) /\ OneInFlight(runs)
  BY <1>1, <1>3 DEF IntakeInv, IntakeTyped, RowsTogether
<1>5. Len(runs) <= MaxEvents
  BY <1>3, RunsFit DEF IntakeInv, RunsApart
<1>6. intakeUsed' \in [fail : Nat, pause : Nat]
  <2>1. intakeUsed' = intakeUsed \/ intakeUsed' = [intakeUsed EXCEPT !.pause = @ + 1]
    BY <1>1 DEF Intake!RunEnds, Intake!RunPauses, Intake!RunResumes
  <2> QED
    BY <1>3, <2>1
<1>7. RunsKept(runs, runs') /\ OneInFlight(runs') /\ ticket' \in Intake!Ticket /\ TicketFollows(ticket', Len(runs))
  <2>1. CASE Intake!RunEnds(k)
    <3> DEFINE status == IF runs[k].cancel THEN "cancelled" ELSE "done"
    <3>1. LET s == Intake!EnterTerminal(runs, ticket, k, status) IN runs' = s.runs /\ ticket' = s.ticket
      BY <2>1 DEF Intake!RunEnds
    <3>2. status \in {"done", "cancelled"}
      OBVIOUS
    <3> HIDE DEF status
    <3> QED
      BY <1>3, <1>4, <1>5, <3>1, <3>2, EnterTerminalIs
  <2>2. CASE Intake!RunPauses(k)
    <3>1. /\ runs[k].state = "running" /\ runs' = [runs EXCEPT ![k].state = "paused"]
          /\ ticket' = Intake!OnRunTerminal(ticket, k, "hitl")
      BY <2>2 DEF Intake!RunPauses
    <3>2. /\ RunsKept(runs, runs') /\ \A i \in 1 .. Len(runs) : i # k => runs'[i] = runs[i]
      <4> DEFINE new == [runs EXCEPT ![k].state = "paused"]
      <4>1. runs' = new
        BY <3>1
      <4>2. runs \in Seq(Intake!RunRow)
        BY <1>3
      <4>3. /\ RunsKept(runs, new) /\ new[k].state = "paused"
            /\ \A i \in 1 .. Len(runs) : i # k => new[i] = runs[i]
        BY ONLY <4>2, SetStateIs, k \in 1 .. Len(runs)
      <4> HIDE DEF new
      <4> QED
        BY <4>1, <4>3
    <3>3. Intake!InFlight(runs') \subseteq Intake!InFlight(runs)
      BY <3>1, <3>2 DEF Intake!InFlight, RunsKept
    <3>4. ticket' \in Intake!Ticket /\ TicketFollows(ticket', Len(runs))
      BY <1>3, <1>4, <3>1, OnRunTerminalIs
    <3> QED
      BY <1>4, <3>2, <3>3, <3>4 DEF OneInFlight
  <2>3. CASE Intake!RunResumes(k)
    <3>1. /\ runs[k].state = "paused" /\ runs' = [runs EXCEPT ![k].state = "running"]
          /\ ticket' = IF ticket.run = k /\ ticket.status = "hitl" THEN [ticket EXCEPT !.status = "running"] ELSE ticket
      BY <2>3 DEF Intake!RunResumes
    <3>2. /\ RunsKept(runs, runs') /\ \A i \in 1 .. Len(runs) : i # k => runs'[i] = runs[i]
      <4> DEFINE new == [runs EXCEPT ![k].state = "running"]
      <4>1. runs' = new
        BY <3>1
      <4>2. runs \in Seq(Intake!RunRow)
        BY <1>3
      <4>3. /\ RunsKept(runs, new) /\ new[k].state = "running"
            /\ \A i \in 1 .. Len(runs) : i # k => new[i] = runs[i]
        BY ONLY <4>2, SetStateIs, k \in 1 .. Len(runs)
      <4> HIDE DEF new
      <4> QED
        BY <4>1, <4>3
    <3>3. Intake!InFlight(runs') \subseteq Intake!InFlight(runs)
      BY <3>1, <3>2 DEF Intake!InFlight, RunsKept
    <3>4. ticket' \in Intake!Ticket /\ TicketFollows(ticket', Len(runs))
      <4>1. CASE ticket.run = k /\ ticket.status = "hitl"
        <5>1. ticket' \in Intake!Ticket /\ ticket'.run = k
          BY <1>4, <3>1, <4>1 DEF Intake!Ticket
        <5> QED
          BY <1>3, <5>1 DEF TicketFollows, Intake!NoRun
      <4>2. CASE ~(ticket.run = k /\ ticket.status = "hitl")
        BY <1>4, <3>1, <4>2
      <4> QED
        BY <4>1, <4>2
    <3> QED
      BY <1>4, <3>2, <3>3, <3>4 DEF OneInFlight
  <2> QED
    BY <1>1, <2>1, <2>2, <2>3
<1> QED
  BY <1>2, <1>3, <1>4, <1>6, <1>7, EngineKeeps

-----------------------------------------------------------------------------
(* Every step of the intake keeps its invariant.                            *)

LEMMA IntakeNextKeeps ==
  ASSUME Intake!IntakeAssumption, IntakeInv, [Intake!Next]_(Intake!vars)
  PROVE  IntakeInv'
<1>1. CASE UNCHANGED Intake!vars
  BY <1>1 DEF Intake!vars, IntakeInv, IntakeTyped, HeadsNumbered, HandlersApart, Acting, RunsApart, RowsTogether,
              OneInFlight, Intake!InFlight
<1>2. CASE Intake!AuthorActs
  BY <1>2, AuthorKeeps
<1>3. ASSUME NEW h \in Handlers, (\E e \in Intake!Ids : Intake!Deliver(h, e)) \/ Intake!HandlerStep(h) \/ Intake!RequestFails(h)
      PROVE  IntakeInv'
  <2>1. CASE \E e \in Intake!Ids : Intake!Deliver(h, e)
    BY <2>1, DeliverKeeps
  <2>2. CASE Intake!RequestFails(h)
    BY <2>2, RequestFailsKeeps
  <2>3. CASE Intake!LedgerRead(h) \/ Intake!LedgerInsert(h)
    BY <2>3, LedgerKeeps
  <2>4. CASE Intake!PreparePipelineRuns(h)
    BY <2>4, PrepareKeeps
  <2>5. CASE Intake!HandleSynchronize(h)
    BY <2>5, SynchronizeKeeps
  <2>6. CASE Intake!HandleClosed(h)
    BY <2>6, ClosedKeeps
  <2>7. CASE Intake!ClosedReadsTicket(h)
    BY <2>7, ClosedReadsKeeps
  <2>8. CASE Intake!ClosedCompletesTicket(h)
    BY <2>8, ClosedCompletesKeeps
  <2>9. CASE Intake!ClosedCancelsRun(h)
    BY <2>9, ClosedCancelsKeeps
  <2> QED
    BY <1>3, <2>1, <2>2, <2>3, <2>4, <2>5, <2>6, <2>7, <2>8, <2>9 DEF Intake!HandlerStep
<1>4. CASE Intake!EngineStep
  BY <1>4, EngineStepKeeps
<1> QED
  BY <1>1, <1>2, <1>3, <1>4 DEF Intake!Next

\* The intake counts as this module does.
LEMMA SameCardinality ==
  ASSUME NEW S
  PROVE  Intake!Cardinality(S) = Cardinality(S)
BY Zenon DEF Intake!Cardinality, Cardinality

\* A set without two elements counts one at most.
LEMMA AtMostOne ==
  ASSUME NEW S, \A i, j \in S : i = j
  PROVE  Cardinality(S) <= 1
<1>1. CASE S = {}
  BY <1>1, FS_EmptySet
<1>2. CASE S # {}
  <2>1. PICK i : S = {i}
    BY <1>2
  <2>2. Cardinality({i}) = 1
    BY FS_Singleton
  <2>3. Cardinality(S) = 1
    BY <2>1, <2>2
  <2> QED
    BY <2>3
<1> QED
  BY <1>1, <1>2

\* The intake's invariant holds in every state, for any number of requests at once,
\* deliveries, failures and pauses (github_webhook_events, the ticket's unique key).
THEOREM IntakeInvariant ==
  ASSUME Intake!IntakeAssumption
  PROVE  Intake!Spec => []IntakeInv
<1>1. Intake!Init => IntakeInv
  BY IntakeInitially
<1>2. IntakeInv /\ [Intake!Next]_(Intake!vars) => IntakeInv'
  BY IntakeNextKeeps
<1> QED
  BY <1>1, <1>2, PTL DEF Intake!Spec

\* Rows, events and requests keep their types; a pull request's row and its ticket exist
\* together, and a ticket has one run in flight at most, whoever starts, cancels, ends or
\* resumes one (start_run, _enter_terminal, request_cancel).
THEOREM IntakeTypeCorrect ==
  ASSUME Intake!IntakeAssumption
  PROVE  Intake!Spec => []Intake!TypeOK
<1>1. ASSUME IntakeInv PROVE Intake!TypeOK
  <2>1. Cardinality(Intake!InFlight(runs)) <= 1
    <3>1. \A i, j \in Intake!InFlight(runs) : i = j
      BY <1>1 DEF IntakeInv, RowsTogether, OneInFlight
    <3> QED
      BY <3>1, AtMostOne
  <2>2. Intake!Cardinality(Intake!InFlight(runs)) <= 1
    BY <2>1, SameCardinality
  <2> QED
    BY <1>1, <2>2 DEF IntakeInv, IntakeTyped, RowsTogether, Intake!TypeOK
<1>2. IntakeInv => Intake!TypeOK
  BY <1>1
<1> QED
  BY <1>2, IntakeInvariant, PTL

\* An event starts one run at most, however often and however concurrently GitHub
\* delivers it and wherever a request fails (record_webhook_event, start_run).
THEOREM DeliveryAppliedOnceHolds ==
  ASSUME Intake!IntakeAssumption
  PROVE  Intake!Spec => []Intake!DeliveryAppliedOnce
<1>1. ASSUME IntakeInv, NEW e \in Intake!Ids
      PROVE  Intake!Cardinality({i \in 1 .. Len(runs) : runs[i].event = e}) <= 1
  <2> DEFINE R == {i \in 1 .. Len(runs) : runs[i].event = e}
  <2>1. \A i, j \in R : i = j
    BY <1>1 DEF IntakeInv, RunsApart
  <2> HIDE DEF R
  <2>2. Cardinality(R) <= 1
    BY <2>1, AtMostOne
  <2>3. Intake!Cardinality(R) <= 1
    BY <2>2, SameCardinality
  <2> QED
    BY <2>3 DEF R
<1>2. IntakeInv => Intake!DeliveryAppliedOnce
  BY <1>1 DEF Intake!DeliveryAppliedOnce
<1> QED
  BY <1>2, IntakeInvariant, PTL

-----------------------------------------------------------------------------
(* Events that are handled one by one, in their order.                      *)

\* What GitHub emits follows from what it emitted before.
LEMMA EmitOrders ==
  ASSUME Intake!IntakeAssumption, IntakeInv, OrderInv, NEW kind \in Intake!Kinds \ {"reopened"},
         NEW g \in [state : Intake!PrState, head : 1 .. Len(events) + 1, draft : BOOLEAN],
         Intake!Emit(kind, g),
         kind = "opened" <=> Len(events) = 0,
         kind \in {"ready_for_review", "closed"} => g.head = gh.head,
         kind = "ready_for_review" => g.state = gh.state
  PROVE  OrderInv'
<1> DEFINE ev == [kind |-> kind, head |-> g.head, draft |-> g.draft, state |-> g.state]
           n  == Len(events)
<1>1. /\ n < MaxEvents /\ gh' = g /\ events' = Append(events, ev)
      /\ UNCHANGED <<sent, answer, ledger, handler, pr, ticket, runs, intakeUsed>>
  BY DEF Intake!Emit
<1>2. events \in Seq(Intake!EventType) /\ n \in Nat /\ MaxEvents \in Nat
  BY LenProperties DEF IntakeInv, IntakeTyped, Intake!IntakeAssumption
<1>3. ev \in Intake!EventType
  BY <1>1, <1>2 DEF Intake!EventType, Intake!Heads
<1>4. ev.kind = kind /\ ev.head = gh'.head /\ ev.state = gh'.state /\ gh' = g
  BY <1>1
<1> HIDE DEF ev
<1>5. /\ events' \in Seq(Intake!EventType) /\ Len(events') = n + 1
      /\ events'[n + 1] = ev /\ \A e \in 1 .. n : events'[e] = events[e]
  BY <1>1, <1>2, <1>3, AppendProperties
<1>6. EventsFollow'
  <2>1. ASSUME NEW e \in 1 .. n + 1
        PROVE  /\ events'[e].kind # "reopened" /\ (events'[e].kind = "opened" => e = 1)
               /\ e > 1 /\ events'[e].kind \in {"ready_for_review", "closed"} => events'[e].head = events'[e - 1].head
               /\ e > 1 /\ events'[e].kind = "ready_for_review" => events'[e].state = events'[e - 1].state
    <3>1. CASE e \in 1 .. n
      <4>1. events'[e] = events[e] /\ (e > 1 => events'[e - 1] = events[e - 1])
        BY <1>2, <1>5, <3>1
      <4>2. EventsFollow
        BY DEF OrderInv
      <4> QED
        BY <3>1, <4>1, <4>2 DEF EventsFollow
    <3>2. CASE e = n + 1
      <4>1. events'[e] = ev /\ (e > 1 => n > 0 /\ e - 1 = n /\ events'[e - 1] = events[n])
        BY <1>2, <1>5, <3>2
      <4>2. n > 0 => events[n].state = gh.state /\ events[n].head = gh.head
        BY DEF OrderInv, EventsFollow
      <4> QED
        BY <1>2, <1>4, <3>2, <4>1, <4>2
    <3> QED
      BY <1>2, <3>1, <3>2
  <2>2. events'[1].kind = "opened"
    <3>1. CASE n = 0
      BY <1>4, <1>5, <3>1
    <3>2. CASE n > 0
      BY <1>2, <1>5, <3>2 DEF OrderInv, EventsFollow
    <3> QED
      BY <1>2, <3>1, <3>2
  <2> HIDE DEF n
  <2>3. events'[Len(events')].state = gh'.state /\ events'[Len(events')].head = gh'.head
    BY <1>4, <1>5
  <2> QED
    BY <1>5, <2>1, <2>2, <2>3 DEF EventsFollow
<1>7. AppliedInOrder'
  <2>1. Applied' = Applied
    BY <1>1 DEF Applied
  <2>2. \A e \in 1 .. n : e \in 1 .. Len(events')
    BY <1>2, <1>5
  <2>3. ledger' \subseteq 1 .. Len(events')
    BY <1>1, <2>2 DEF OrderInv, AppliedInOrder
  <2> QED
    BY <1>1, <2>1, <2>3 DEF OrderInv, AppliedInOrder
<1>8. RowOfLastApplied'
  <2>1. Applied' = Applied /\ pr' = pr
    BY <1>1 DEF Applied
  <2>2. \A e \in Applied : events'[e] = events[e]
    BY <1>5 DEF OrderInv, AppliedInOrder, Applied
  <2> QED
    BY <2>1, <2>2 DEF OrderInv, RowOfLastApplied
<1> QED
  BY <1>6, <1>7, <1>8 DEF OrderInv

LEMMA AuthorOrders ==
  ASSUME Intake!IntakeAssumption, OneByOne, IntakeInv, OrderInv, Intake!AuthorActs
  PROVE  OrderInv'
<1>1. /\ gh \in [state : {"none"} \cup Intake!PrState, head : 0 .. MaxEvents, draft : BOOLEAN]
      /\ gh.state = "none" <=> Len(events) = 0
      /\ gh.state # "none" => gh.head \in 1 .. Len(events)
      /\ Len(events) \in Nat
  BY LenProperties DEF IntakeInv, IntakeTyped, HeadsNumbered
<1> DEFINE G == [state : Intake!PrState, head : 1 .. Len(events) + 1, draft : BOOLEAN]
           K == Intake!Kinds \ {"reopened"}
<1>2. CASE gh.state = "none" /\ \E d \in BOOLEAN : Intake!Emit("opened", [state |-> "open", head |-> 1, draft |-> d])
  <2>1. PICK d \in BOOLEAN : Intake!Emit("opened", [state |-> "open", head |-> 1, draft |-> d])
    BY <1>2
  <2>2. [state |-> "open", head |-> 1, draft |-> d] \in G /\ "opened" \in K /\ Len(events) = 0
    BY <1>1, <1>2 DEF Intake!PrState, Intake!Kinds
  <2> QED
    BY <2>1, <2>2, EmitOrders
<1>3. CASE gh.state = "open" /\ gh.draft /\ Intake!Emit("ready_for_review", [gh EXCEPT !.draft = FALSE])
  <2>1. gh \in G
    BY <1>1, <1>3 DEF Intake!PrState
  <2> DEFINE g == [gh EXCEPT !.draft = FALSE]
  <2>2. g \in G /\ g.head = gh.head /\ g.state = gh.state
    <3>1. /\ [gh EXCEPT !.draft = FALSE] \in [state : Intake!PrState, head : 1 .. Len(events) + 1, draft : BOOLEAN]
          /\ [gh EXCEPT !.draft = FALSE].head = gh.head /\ [gh EXCEPT !.draft = FALSE].state = gh.state
      BY ONLY <2>1
    <3> QED
      BY <3>1
  <2>3. "ready_for_review" \in K /\ Len(events) # 0 /\ Intake!Emit("ready_for_review", g)
    BY <1>1, <1>3 DEF Intake!Kinds
  <2> HIDE DEF g
  <2> QED
    BY <2>2, <2>3, EmitOrders
<1>4. CASE gh.state = "open" /\ Intake!Emit("synchronize", [gh EXCEPT !.head = @ + 1])
  <2>1. [gh EXCEPT !.head = @ + 1] \in G /\ "synchronize" \in K /\ Len(events) # 0
    BY <1>1, <1>4 DEF Intake!PrState, Intake!Kinds
  <2> QED
    BY <1>4, <2>1, EmitOrders
<1>5. CASE gh.state = "open" /\ \E s \in {"closed", "merged"} : Intake!Emit("closed", [gh EXCEPT !.state = s])
  <2>1. PICK s \in {"closed", "merged"} : Intake!Emit("closed", [gh EXCEPT !.state = s])
    BY <1>5
  <2> DEFINE g == [gh EXCEPT !.state = s]
  <2>2. g \in G /\ "closed" \in K /\ g.head = gh.head /\ Len(events) # 0
    BY <1>1, <1>5 DEF Intake!PrState, Intake!Kinds
  <2>3. Intake!Emit("closed", g)
    BY <2>1
  <2> HIDE DEF g
  <2> QED
    BY <2>2, <2>3, EmitOrders
<1> QED
  BY <1>2, <1>3, <1>4, <1>5 DEF Intake!AuthorActs, OneByOne

\* The request that acts on an event has all the earlier ones behind it.
LEMMA NextToApply ==
  ASSUME IntakeInv, OrderInv, OneByOne, NEW h \in Handlers, handler[h].pc = "dispatch",
         NEW n, n = handler[h].event
  PROVE  /\ n \in 1 .. Len(events) /\ ledger = 1 .. n /\ Applied = 1 .. n - 1
         /\ pr # Intake!NoRow => /\ n > 1 /\ pr.state = events[n - 1].state
                                 /\ pr.head = events[n - 1].head
<1>1. n \in 1 .. Len(events) /\ n \in ledger /\ Len(events) \in Nat
  BY LenProperties DEF IntakeInv, IntakeTyped, HandlersApart, Acting
<1>2. ledger = 1 .. n
  <2>1. /\ ledger \subseteq 1 .. Len(events) /\ 1 .. n \subseteq ledger
        /\ \A e \in ledger : e <= n
    BY <1>1 DEF OrderInv, AppliedInOrder
  <2>2. \A e \in ledger : e \in 1 .. n
    BY <1>1, <2>1
  <2> QED
    BY <2>1, <2>2
<1>3. Applied = 1 .. n - 1
  <2>1. Applied = {e \in ledger : n # e}
    BY DEF Applied, OneByOne
  <2> QED
    BY <1>1, <1>2, <2>1
<1>4. ASSUME pr # Intake!NoRow
      PROVE  n > 1 /\ pr.state = events[n - 1].state /\ pr.head = events[n - 1].head
  <2>1. PICK a \in Applied : /\ \A e \in Applied : e <= a
                             /\ pr.state = events[a].state /\ pr.head = events[a].head
    BY <1>4 DEF OrderInv, RowOfLastApplied
  <2>2. a = n - 1 /\ n > 1
    BY <1>1, <1>3, <2>1
  <2> QED
    BY <2>1, <2>2
<1> QED
  BY <1>1, <1>2, <1>3, <1>4

\* The row after the request has acted on its event.
LEMMA AppliesOrders ==
  ASSUME Intake!IntakeAssumption, OneByOne, IntakeInv, OrderInv, NEW h \in Handlers, handler[h].pc = "dispatch",
         UNCHANGED <<gh, events, ledger>>,
         pr' # Intake!NoRow => /\ pr'.state = events[handler[h].event].state
                               /\ pr'.head = events[handler[h].event].head,
         \/ handler'[h].pc = "idle"
         \/ handler'[h].pc = "closing" /\ handler'[h].event = handler[h].event,
         \A e \in Intake!Ids : e # handler[h].event => answer'[e] = answer[e]
  PROVE  OrderInv'
<1> DEFINE n == handler[h].event
<1>1. n \in 1 .. Len(events) /\ ledger = 1 .. n /\ Applied = 1 .. n - 1 /\ Len(events) \in Nat
  BY NextToApply, LenProperties DEF IntakeInv, IntakeTyped
<1>2. \A g \in Handlers : g = h
  BY DEF OneByOne
<1>3. Applied' = 1 .. n
  BY <1>1, <1>2 DEF Applied
<1> HIDE DEF n
<1>4. EventsFollow'
  BY DEF OrderInv, EventsFollow
<1>5. AppliedInOrder'
  <2>1. \A e \in Intake!Ids : answer'[e] # {} => e \in Applied'
    <3>1. ASSUME NEW e \in Intake!Ids, answer'[e] # {}, e # n PROVE e \in Applied
      BY <3>1 DEF n, OrderInv, AppliedInOrder
    <3> QED
      BY <1>1, <1>3, <3>1
  <2>2. \A g \in Handlers : handler'[g].pc \notin {"inserting", "dispatch"}
                            /\ (handler'[g].pc # "idle" => handler'[g].event = n)
    BY <1>2 DEF n
  <2>3. \A d \in 1 .. n - 1 : d \in Applied'
    BY <1>1, <1>3
  <2> QED
    BY <1>1, <2>1, <2>2, <2>3 DEF OrderInv, AppliedInOrder
<1>6. RowOfLastApplied'
  <2>1. n \in Applied' /\ \A e \in Applied' : e <= n
    BY <1>1, <1>3
  <2> QED
    BY <2>1 DEF n, RowOfLastApplied
<1> QED
  BY <1>4, <1>5, <1>6 DEF OrderInv

LEMMA PrepareOrders ==
  ASSUME Intake!IntakeAssumption, OneByOne, IntakeInv, OrderInv, NEW h \in Handlers, Intake!PreparePipelineRuns(h)
  PROVE  OrderInv'
<1> DEFINE n == handler[h].event
<1>1. /\ handler[h].pc = "dispatch" /\ Intake!Finish(h, "ok") /\ UNCHANGED <<gh, events, ledger>>
      /\ events[n].kind \in {"opened", "ready_for_review", "reopened"}
  BY DEF Intake!PreparePipelineRuns, Intake!Ev
<1>2. /\ n \in 1 .. Len(events)
      /\ pr # Intake!NoRow => n > 1 /\ pr.state = events[n - 1].state /\ pr.head = events[n - 1].head
  BY <1>1, NextToApply
<1>3. /\ handler'[h].pc = "idle" /\ \A e \in Intake!Ids : e # n => answer'[e] = answer[e]
  BY <1>1, FinishIs DEF IntakeInv
<1>4. pr' # Intake!NoRow => pr'.state = events[n].state /\ pr'.head = events[n].head
  <2>1. CASE Intake!Filtered(h) \/ ~Intake!TicketKeyFree
    <3>1. pr' = pr
      BY <2>1 DEF Intake!PreparePipelineRuns
    <3>2. n > 1 => events[n].kind = "ready_for_review"
      BY <1>1, <1>2 DEF OrderInv, EventsFollow
    <3>3. n > 1 => events[n].head = events[n - 1].head /\ events[n].state = events[n - 1].state
      BY <1>2, <3>2 DEF OrderInv, EventsFollow
    <3> QED
      BY <1>2, <3>1, <3>3
  <2>2. CASE ~(Intake!Filtered(h) \/ ~Intake!TicketKeyFree)
    <3>1. pr' = Intake!NewPr(h)
      BY <2>2 DEF Intake!PreparePipelineRuns
    <3> QED
      BY <3>1 DEF Intake!NewPr, Intake!Ev
  <2> QED
    BY <2>1, <2>2
<1> QED
  BY <1>1, <1>3, <1>4, AppliesOrders

LEMMA SynchronizeOrders ==
  ASSUME Intake!IntakeAssumption, OneByOne, IntakeInv, OrderInv, NEW h \in Handlers, Intake!HandleSynchronize(h)
  PROVE  OrderInv'
<1> DEFINE n == handler[h].event
<1>1. handler[h].pc = "dispatch" /\ Intake!Finish(h, "ok") /\ UNCHANGED <<gh, events, ledger>>
  BY DEF Intake!HandleSynchronize
<1>2. handler'[h].pc = "idle" /\ \A e \in Intake!Ids : e # n => answer'[e] = answer[e]
  BY <1>1, FinishIs DEF IntakeInv
<1>3. pr' # Intake!NoRow => pr'.state = events[n].state /\ pr'.head = events[n].head
  <2>1. CASE pr = Intake!NoRow
    BY <2>1 DEF Intake!HandleSynchronize
  <2>2. CASE pr # Intake!NoRow
    <3>1. pr' = [pr EXCEPT !.state = events[n].state, !.head = events[n].head]
      BY <2>2 DEF Intake!HandleSynchronize, Intake!UpsertPr, Intake!Ev
    <3>2. pr \in Intake!PullRequest
      BY <2>2 DEF IntakeInv, IntakeTyped
    <3> DEFINE st == events[n].state
               hd == events[n].head
    <3> HIDE DEF n
    <3>3. pr' = [pr EXCEPT !.state = st, !.head = hd]
      BY <3>1
    <3> HIDE DEF st, hd
    <3>4. pr'.state = st /\ pr'.head = hd
      BY ONLY <3>2, <3>3 DEF Intake!PullRequest
    <3> QED
      BY <3>4 DEF st, hd
  <2> QED
    BY <2>1, <2>2
<1> QED
  BY <1>1, <1>2, <1>3, AppliesOrders

LEMMA ClosedOrders ==
  ASSUME Intake!IntakeAssumption, OneByOne, IntakeInv, OrderInv, NEW h \in Handlers, Intake!HandleClosed(h)
  PROVE  OrderInv'
<1> DEFINE n == handler[h].event
<1>1. handler[h].pc = "dispatch" /\ events[n].kind = "closed" /\ UNCHANGED <<gh, events, ledger>>
  BY DEF Intake!HandleClosed, Intake!Ev
<1>2. /\ n \in 1 .. Len(events)
      /\ pr # Intake!NoRow => n > 1 /\ pr.state = events[n - 1].state /\ pr.head = events[n - 1].head
  BY <1>1, NextToApply
<1>3. CASE pr = Intake!NoRow
  <2>1. pr' = Intake!NoRow /\ Intake!Finish(h, "ok")
    BY <1>3 DEF Intake!HandleClosed
  <2>2. handler'[h].pc = "idle" /\ \A e \in Intake!Ids : e # n => answer'[e] = answer[e]
    BY <2>1, FinishIs DEF IntakeInv
  <2> QED
    BY <1>1, <2>1, <2>2, AppliesOrders
<1>4. CASE pr # Intake!NoRow
  <2>1. pr' = [pr EXCEPT !.state = events[n].state] /\ Intake!Goto(h, "closing")
    BY <1>4 DEF Intake!HandleClosed, Intake!CloseState, Intake!Ev
  <2>2. /\ handler'[h].pc = "closing" /\ handler'[h].event = n /\ answer' = answer
    BY <2>1, GotoIs DEF IntakeInv
  <2>3. events[n].head = events[n - 1].head /\ n > 1
    BY <1>1, <1>2, <1>4 DEF OrderInv, EventsFollow
  <2>4. pr'.state = events[n].state /\ pr'.head = pr.head
    <3>1. pr \in Intake!PullRequest
      BY <1>4 DEF IntakeInv, IntakeTyped
    <3> QED
      BY <2>1, <3>1 DEF Intake!PullRequest
  <2> QED
    BY <1>1, <1>2, <1>4, <2>2, <2>3, <2>4, AppliesOrders
<1> QED
  BY <1>3, <1>4

\* A request that has nothing to apply, or has applied it, goes on or ends.
LEMMA GoesOnOrders ==
  ASSUME OneByOne, OrderInv, NEW h \in Handlers, UNCHANGED <<gh, events, ledger, pr>>,
         handler[h].pc # "dispatch", handler'[h].pc # "dispatch",
         handler'[h].pc # "idle" => \A d \in 1 .. handler'[h].event - 1 : d \in Applied,
         handler'[h].pc = "inserting" => handler'[h].event \notin ledger,
         \A e \in Intake!Ids : answer'[e] # {} => e \in Applied
  PROVE  OrderInv'
<1>1. \A g \in Handlers : g = h
  BY DEF OneByOne
<1>2. Applied' = Applied
  BY <1>1 DEF Applied
<1>3. EventsFollow' /\ RowOfLastApplied'
  BY <1>2 DEF OrderInv, EventsFollow, RowOfLastApplied
<1>4. AppliedInOrder'
  <2>1. \A g \in Handlers :
          /\ handler'[g].pc # "idle" => \A d \in 1 .. handler'[g].event - 1 : d \in Applied
          /\ handler'[g].pc = "inserting" => handler'[g].event \notin ledger
          /\ handler'[g].pc # "dispatch"
    BY <1>1
  <2> QED
    BY <1>2, <2>1 DEF OrderInv, AppliedInOrder
<1> QED
  BY <1>3, <1>4 DEF OrderInv

LEMMA DeliverOrders ==
  ASSUME Intake!IntakeAssumption, OneByOne, IntakeInv, OrderInv, NEW h \in Handlers, NEW e \in Intake!Ids,
         Intake!Deliver(h, e)
  PROVE  OrderInv'
<1>1. /\ handler[h].pc = "idle" /\ UNCHANGED <<gh, events, answer, ledger, pr>>
      /\ \A d \in 1 .. e - 1 : answer[d] # {}
      /\ handler' = [handler EXCEPT ![h] = [Intake!Idle EXCEPT !.pc = "reading", !.event = e]]
  BY DEF Intake!Deliver, OneByOne
<1>2. handler'[h].pc = "reading" /\ handler'[h].event = e
  <2>1. handler'[h] = [Intake!Idle EXCEPT !.pc = "reading", !.event = e]
    BY <1>1 DEF IntakeInv, IntakeTyped
  <2> QED
    BY <2>1 DEF Intake!Idle
<1>3. \A d \in 1 .. e - 1 : d \in Applied
  <2>1. \A d \in 1 .. e - 1 : d \in Intake!Ids
    BY DEF Intake!Ids, Intake!IntakeAssumption
  <2> QED
    BY <1>1, <2>1 DEF OrderInv, AppliedInOrder
<1>4. \A d \in Intake!Ids : answer'[d] # {} => d \in Applied
  BY <1>1 DEF OrderInv, AppliedInOrder
<1> QED
  BY <1>1, <1>2, <1>3, <1>4, GoesOnOrders

\* An event that is recorded, and that no request has to act on, may be answered.
LEMMA FinishOrders ==
  ASSUME Intake!IntakeAssumption, OneByOne, IntakeInv, OrderInv, NEW h \in Handlers,
         NEW code \in {"ok", "duplicate", "500"}, Intake!Finish(h, code),
         handler[h].pc # "dispatch", handler[h].event \in ledger, UNCHANGED <<gh, events, ledger, pr>>
  PROVE  OrderInv'
<1>1. handler'[h].pc = "idle" /\ \A e \in Intake!Ids : e # handler[h].event => answer'[e] = answer[e]
  BY FinishIs DEF IntakeInv
<1>2. handler[h].event \in Applied
  BY DEF Applied, OneByOne
<1>3. \A e \in Intake!Ids : answer'[e] # {} => e \in Applied
  BY <1>1, <1>2 DEF OrderInv, AppliedInOrder
<1> QED
  BY <1>1, <1>3, GoesOnOrders

LEMMA LedgerOrders ==
  ASSUME Intake!IntakeAssumption, OneByOne, IntakeInv, OrderInv, NEW h \in Handlers,
         Intake!LedgerRead(h) \/ Intake!LedgerInsert(h)
  PROVE  OrderInv'
<1> DEFINE n == handler[h].event
<1>1. handler[h].pc \in {"reading", "inserting"} /\ UNCHANGED <<gh, events, pr>>
  BY DEF Intake!LedgerRead, Intake!LedgerInsert
<1>2. \A d \in 1 .. n - 1 : d \in Applied
  BY <1>1 DEF OrderInv, AppliedInOrder
<1>3. CASE Intake!LedgerRead(h) /\ n \in ledger
  BY <1>1, <1>3, FinishOrders DEF Intake!LedgerRead
<1>4. CASE Intake!LedgerRead(h) /\ n \notin ledger
  <2>1. Intake!Goto(h, "inserting") /\ UNCHANGED ledger
    BY <1>4 DEF Intake!LedgerRead
  <2>2. handler'[h].pc = "inserting" /\ handler'[h].event = n /\ answer' = answer
    BY <2>1, GotoIs DEF IntakeInv
  <2>3. \A e \in Intake!Ids : answer'[e] # {} => e \in Applied
    BY <2>2 DEF OrderInv, AppliedInOrder
  <2> QED
    BY <1>1, <1>2, <1>4, <2>1, <2>2, <2>3, GoesOnOrders
<1>5. CASE Intake!LedgerInsert(h)
  <2>1. n \notin ledger
    BY <1>5 DEF Intake!LedgerInsert, OrderInv, AppliedInOrder
  <2>2. Intake!Goto(h, "dispatch") /\ ledger' = ledger \cup {n}
    BY <1>5, <2>1 DEF Intake!LedgerInsert
  <2>3. /\ handler'[h].pc = "dispatch" /\ handler'[h].event = n /\ answer' = answer
        /\ \A g \in Handlers : g = h
    BY <2>2, GotoIs DEF IntakeInv, OneByOne
  <2>4. n \in 1 .. Len(events) /\ Len(events) \in Nat /\ handler[h].pc = "inserting"
    BY <1>5, LenProperties DEF IntakeInv, IntakeTyped, HandlersApart, Intake!LedgerInsert
  <2>5. /\ ledger \subseteq 1 .. Len(events) /\ Applied = ledger
        /\ \A e \in ledger : 1 .. e \subseteq ledger
    BY <2>3, <2>4 DEF OrderInv, AppliedInOrder, Applied
  <2> HIDE DEF n
  <2>6. \A e \in ledger : e <= n
    <3>1. ASSUME NEW e \in ledger, ~(e <= n) PROVE FALSE
      <4>1. n \in 1 .. e
        BY <2>4, <2>5, <3>1
      <4> QED
        BY <2>1, <2>5, <4>1
    <3> QED
      BY <3>1
  <2>7. Applied' = ledger
    BY <2>1, <2>2, <2>3 DEF Applied
  <2>8. EventsFollow' /\ RowOfLastApplied'
    BY <1>1, <2>5, <2>7 DEF OrderInv, EventsFollow, RowOfLastApplied
  <2>9. AppliedInOrder'
    <3>1. ledger' \subseteq 1 .. Len(events') /\ \A e \in ledger' : 1 .. e \subseteq ledger'
      <4>1. \A d \in 1 .. n : d \in ledger'
        <5>1. \A d \in 1 .. n : d \in 1 .. n - 1 \/ d = n
          BY <2>4
        <5> QED
          BY <1>2, <2>2, <2>5, <5>1 DEF n
      <4> QED
        BY <1>1, <2>2, <2>4, <2>5, <4>1
    <3>2. \A e \in Intake!Ids : answer'[e] # {} => e \in Applied'
      BY <2>3, <2>5, <2>7 DEF OrderInv, AppliedInOrder
    <3>3. \A g \in Handlers :
            /\ handler'[g].event = n /\ handler'[g].pc = "dispatch"
            /\ \A d \in 1 .. n - 1 : d \in Applied'
            /\ \A e \in ledger' : e <= n
      BY <1>2, <2>2, <2>3, <2>4, <2>5, <2>6, <2>7 DEF n
    <3> QED
      BY <3>1, <3>2, <3>3 DEF AppliedInOrder
  <2> QED
    BY <2>8, <2>9 DEF OrderInv
<1> QED
  BY <1>3, <1>4, <1>5

\* The rest of a close: it has applied its event.
LEMMA ClosingOrders ==
  ASSUME Intake!IntakeAssumption, OneByOne, IntakeInv, OrderInv, NEW h \in Handlers,
         Intake!ClosedReadsTicket(h) \/ Intake!ClosedCompletesTicket(h) \/ Intake!ClosedCancelsRun(h)
  PROVE  OrderInv'
<1> DEFINE n == handler[h].event
<1>1. /\ handler[h].pc \in {"closing", "completing", "cancelling"} /\ UNCHANGED <<gh, events, ledger, pr>>
  BY DEF Intake!ClosedReadsTicket, Intake!ClosedCompletesTicket, Intake!ClosedCancelsRun
<1>2. n \in ledger /\ \A d \in 1 .. n - 1 : d \in Applied
  BY <1>1 DEF IntakeInv, HandlersApart, Acting, OrderInv, AppliedInOrder
<1>3. \A e \in Intake!Ids : answer[e] # {} => e \in Applied
  BY DEF OrderInv, AppliedInOrder
<1>4. CASE \E code \in {"ok", "500"} : Intake!Finish(h, code)
  BY <1>1, <1>2, <1>4, FinishOrders
<1>5. CASE Intake!Goto(h, "cancelling")
  <2>1. handler'[h].pc = "cancelling" /\ handler'[h].event = n /\ answer' = answer
    BY <1>5, GotoIs DEF IntakeInv
  <2> QED
    BY <1>1, <1>2, <1>3, <2>1, GoesOnOrders
<1>6. CASE handler' = [handler EXCEPT ![h].pc = "completing", ![h].run = ticket.run] /\ UNCHANGED answer
  <2> DEFINE row == [handler[h] EXCEPT !.pc = "completing", !.run = ticket.run]
  <2>1. handler[h] \in Intake!HandlerType /\ handler \in [Handlers -> Intake!HandlerType]
    BY DEF IntakeInv, IntakeTyped
  <2>2. row.pc = "completing" /\ row.event = n
    BY <2>1 DEF Intake!HandlerType
  <2>3. handler'[h] = row
    BY <1>6, <2>1
  <2> HIDE DEF row
  <2>4. handler'[h].pc = "completing" /\ handler'[h].event = n /\ answer' = answer
    BY <1>6, <2>2, <2>3
  <2> QED
    BY <1>1, <1>2, <1>3, <2>4, GoesOnOrders
<1> QED
  BY <1>4, <1>5, <1>6 DEF Intake!ClosedReadsTicket, Intake!ClosedCompletesTicket, Intake!ClosedCancelsRun

LEMMA OrderNextKeeps ==
  ASSUME Intake!IntakeAssumption, OneByOne, IntakeInv, OrderInv, [Intake!Next]_(Intake!vars)
  PROVE  OrderInv'
<1>1. CASE UNCHANGED <<gh, events, answer, ledger, handler, pr>>
  BY <1>1 DEF OrderInv, EventsFollow, AppliedInOrder, RowOfLastApplied, Applied
<1>2. CASE Intake!AuthorActs
  BY <1>2, AuthorOrders
<1>3. ASSUME NEW h \in Handlers, (\E e \in Intake!Ids : Intake!Deliver(h, e)) \/ Intake!HandlerStep(h) \/ Intake!RequestFails(h)
      PROVE  OrderInv'
  <2>1. CASE \E e \in Intake!Ids : Intake!Deliver(h, e)
    BY <2>1, DeliverOrders
  <2>2. CASE Intake!RequestFails(h)
    <3>1. intakeUsed.fail \in Nat /\ intakeUsed.fail < MaxFailures /\ MaxFailures = 0
      BY <2>2 DEF Intake!RequestFails, OneByOne, IntakeInv, IntakeTyped
    <3> QED
      BY <3>1
  <2>3. CASE Intake!LedgerRead(h) \/ Intake!LedgerInsert(h)
    BY <2>3, LedgerOrders
  <2>4. CASE Intake!PreparePipelineRuns(h)
    BY <2>4, PrepareOrders
  <2>5. CASE Intake!HandleSynchronize(h)
    BY <2>5, SynchronizeOrders
  <2>6. CASE Intake!HandleClosed(h)
    BY <2>6, ClosedOrders
  <2>7. CASE Intake!ClosedReadsTicket(h) \/ Intake!ClosedCompletesTicket(h) \/ Intake!ClosedCancelsRun(h)
    BY <2>7, ClosingOrders
  <2> QED
    BY <1>3, <2>1, <2>2, <2>3, <2>4, <2>5, <2>6, <2>7 DEF Intake!HandlerStep
<1>4. CASE Intake!EngineStep
  BY <1>1, <1>4 DEF Intake!EngineStep, Intake!RunEnds, Intake!RunPauses, Intake!RunResumes
<1> QED
  BY <1>1, <1>2, <1>3, <1>4 DEF Intake!Next, Intake!vars

LEMMA OrderInitially ==
  ASSUME Intake!IntakeAssumption, Intake!Init
  PROVE  OrderInv
<1>1. /\ events = <<>> /\ Len(events) = 0 /\ ledger = {} /\ pr = Intake!NoRow
      /\ \A e \in Intake!Ids : answer[e] = {}
      /\ \A h \in Handlers : handler[h].pc = "idle"
  BY DEF Intake!Init, Intake!Idle
<1> QED
  BY <1>1 DEF OrderInv, EventsFollow, AppliedInOrder, RowOfLastApplied

\* Once every event is answered the row says what GitHub says, in state and in newest head:
\* of deliveries that arrive in their order at one request at a time, none of which
\* fails, of a pull request that is not reopened (_prepare_pipeline_runs, _handle_synchronize,
\* _handle_closed). An event may come several times: the ledger keeps an old one from being
\* applied late.
THEOREM RowFollowsGitHubHolds ==
  ASSUME Intake!IntakeAssumption, OneByOne
  PROVE  Intake!Spec => []Intake!RowFollowsGitHub
<1>1. Intake!Init => IntakeInv /\ OrderInv
  BY IntakeInitially, OrderInitially
<1>2. IntakeInv /\ OrderInv /\ [Intake!Next]_(Intake!vars) => IntakeInv' /\ OrderInv'
  BY IntakeNextKeeps, OrderNextKeeps
<1>3. ASSUME IntakeInv, OrderInv, Intake!AllAnswered, pr # Intake!NoRow
      PROVE  pr.state = gh.state /\ pr.head = gh.head
  <2>1. PICK a \in Applied : /\ \A e \in Applied : e <= a
                             /\ pr.state = events[a].state /\ pr.head = events[a].head
    BY <1>3 DEF OrderInv, RowOfLastApplied
  <2>2. a \in 1 .. Len(events) /\ Len(events) \in Nat /\ Len(events) <= MaxEvents /\ MaxEvents \in Nat
    BY <1>3, LenProperties DEF OrderInv, AppliedInOrder, Applied, IntakeInv, IntakeTyped, Intake!IntakeAssumption
  <2>3. Len(events) \in Applied
    <3>1. Len(events) \in 1 .. Len(events) /\ Len(events) \in Intake!Ids
      BY <2>2 DEF Intake!Ids
    <3> QED
      BY <1>3, <3>1 DEF Intake!AllAnswered, OrderInv, AppliedInOrder
  <2>4. a = Len(events)
    BY <2>1, <2>2, <2>3
  <2> QED
    BY <1>3, <2>1, <2>2, <2>4 DEF OrderInv, EventsFollow
<1>4. IntakeInv /\ OrderInv => Intake!RowFollowsGitHub
  BY <1>3 DEF Intake!RowFollowsGitHub
<1> QED
  BY <1>1, <1>2, <1>4, PTL DEF Intake!Spec
=============================================================================
