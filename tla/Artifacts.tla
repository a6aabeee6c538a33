------------------------------ MODULE Artifacts ------------------------------
(***************************************************************************)
(* domain/artifacts and the way domain/pipelines fills and reads it, on    *)
(* one ticket: every completed pass of a skill stage stores a version and  *)
(* marks it final at once; the next stage, a fix pass, a send-back, an     *)
(* instruction and a rerun each look a version up in their own way.  A     *)
(* handler is one transaction, as in RunEngine, which has the workspace,   *)
(* the queue of runs and the commands that are left out here.              *)
(***************************************************************************)
EXTENDS Naturals, Sequences, SequencesExt, FiniteSets, FiniteSetsExt

CONSTANTS
  NStages,       \* stages of the flattened definition
  ActionAt,      \* indices of its action stages; the others are skill stages
  Reviewed,      \* indices of the skill stages with a review loop
  MaxIterations, \* review.max_iterations
  SelfSendBack,  \* whether a main skill reports the outcome send_back itself
  MaxRuns,       \* bound: runs of the ticket
  MaxDocs        \* bound: versions stored, and stage executions

Indices == 1..NStages
SkillAt == Indices \ ActionAt

ArtifactsAssumption ==
  /\ NStages \in Nat /\ ActionAt \subseteq Indices /\ Reviewed \subseteq SkillAt
  /\ MaxIterations \in Nat /\ MaxRuns \in Nat /\ MaxDocs \in Nat /\ SelfSendBack \in BOOLEAN

VARIABLES
  docs,   \* the artifacts rows, in the order they were committed
  execs,  \* the ticket's stage_executions rows, in order
  run     \* the current run

vars == <<docs, execs, run>>

-----------------------------------------------------------------------------
Refs   == 0..MaxDocs
\* settled: the loop of the execution that produced the version has stopped (not a column).
Doc    == [stage : Indices, version : 1..MaxDocs, final : BOOLEAN, exec : 1..MaxDocs, settled : BOOLEAN]
\* loop: the versions of loop_state's entries, 0 for a review pass; input and
\* fixing: the versions handed to the skill.
Exec   == [stage : Indices, run : 1..MaxRuns, phase : {"main", "review", "fix"}, iteration : Nat, loop : Seq(Refs),
           input : Refs, prior : Refs, fixing : Refs, open : BOOLEAN]
\* at: the stage to start, 0 while one is running; prior: kickoff.revision.
RunRow == [n : 0..MaxRuns, state : {"none", "running", "paused", "ended"}, at : 0..NStages, prior : Refs,
           sent : SUBSET Indices, crashed : BOOLEAN]
NoRun  == [n |-> 0, state |-> "none", at |-> 0, prior |-> 0, sent |-> {}, crashed |-> FALSE]

TypeOK == docs \in Seq(Doc) /\ execs \in Seq(Exec) /\ run \in RunRow

Init == docs = <<>> /\ execs = <<>> /\ run = NoRun

-----------------------------------------------------------------------------
VersionsOf(i) == {d \in DOMAIN docs : docs[d].stage = i}

\* latest_final: the final row with the highest version, 0 when there is none.
LatestFinal(i) ==
  LET finals == {d \in VersionsOf(i) : docs[d].final} IN
  IF finals = {} THEN 0 ELSE CHOOSE d \in finals : \A e \in finals : docs[e].version <= docs[d].version

ResolveStageInput_ThisRun(i) ==
  LET have == {j \in SkillAt : j < i /\ \E d \in VersionsOf(j) : execs[docs[d].exec].run = run.n} IN
  IF have = {} THEN 0 ELSE LatestFinal(Max(have))

\* _resolve_stage_input: the nearest stage upstream with a final version.
ResolveStageInput(i) ==
  LET have == {j \in SkillAt : j < i /\ LatestFinal(j) # 0} IN
  IF have = {} THEN 0 ELSE LatestFinal(Max(have))

\* _last_artifact_id: 0 where the code raises.
LastArtifact(x) == LET kept == SelectSeq(execs[x].loop, LAMBDA d : d # 0) IN IF kept = <<>> THEN 0 ELSE Last(kept)

\* max(version) + 1 of the (ticket, stage) group.
NextVersion(i) == Max({docs[d].version : d \in VersionsOf(i)} \cup {0}) + 1

-----------------------------------------------------------------------------
Begin(n, at, prior) == run' = [NoRun EXCEPT !.n = n, !.state = "running", !.at = at, !.prior = prior]

StartRun ==
  /\ run.state \in {"none", "ended"} /\ run.n < MaxRuns
  /\ Begin(run.n + 1, 1, 0) /\ UNCHANGED <<docs, execs>>

\* start_rerun_from_stage: refused when no upstream stage has a final version.
StartRerunFromStage(i) ==
  /\ run.state = "ended" /\ run.n < MaxRuns /\ i \in SkillAt
  /\ (\E j \in SkillAt : j < i) => ResolveStageInput(i) # 0
  /\ Begin(run.n + 1, i, LatestFinal(i)) /\ UNCHANGED <<docs, execs>>

NewExec(i, prior) ==
  [stage |-> i, run |-> run.n, phase |-> "main", iteration |-> 0, loop |-> <<>>, input |-> ResolveStageInput(i),
   prior |-> prior, fixing |-> 0, open |-> TRUE]

StartSkillStage ==
  /\ run.state = "running" /\ run.at \in SkillAt /\ Len(execs) < MaxDocs
  /\ execs' = Append(execs, NewExec(run.at, run.prior))
  /\ run' = [run EXCEPT !.at = 0, !.prior = 0]
  /\ UNCHANGED docs

\* The run's latest execution at a stage, 0 when there is none.
LatestExec(i) == Max({x \in DOMAIN execs : execs[x].stage = i /\ execs[x].run = run.n} \cup {0})

\* Where the run goes when stage i has settled with success.
Routed(i) == IF i = NStages THEN [run EXCEPT !.state = "ended", !.at = 0] ELSE [run EXCEPT !.state = "running", !.at = i + 1]

\* _run_action_stage: the context needs the preceding skill stage's artifact;
\* without one the task raises, is rolled back, and is raised again by every sweep.
StartActionStage ==
  LET i == run.at
      preceding == IF i > 1 THEN LatestExec(i - 1) ELSE 0 IN
  /\ run.state = "running" /\ i \in ActionAt
  /\ IF preceding # 0 /\ LastArtifact(preceding) = 0
     THEN run' = [run EXCEPT !.crashed = TRUE]
     ELSE \/ run' = Routed(i)
          \/ run' = [run EXCEPT !.state = "ended", !.at = 0]
  /\ UNCHANGED <<docs, execs>>

-----------------------------------------------------------------------------
Running(x) == x \in DOMAIN execs /\ run.state = "running" /\ run.at = 0 /\ x = Len(execs) /\ execs[x].open

\* Every way an execution ends without a document: an agent failure, a schema
\* violation, cannot_complete, a missing artifact.
FailStage(x) ==
  /\ Running(x)
  /\ execs' = [execs EXCEPT ![x].open = FALSE] /\ run' = [run EXCEPT !.state = "ended"]
  /\ UNCHANGED docs

\* _send_back_to_stage: once per target; the second time it pauses.
SendBack(j) ==
  IF j \in run.sent THEN run' = [run EXCEPT !.state = "paused", !.at = 0]
  ELSE run' = [run EXCEPT !.state = "running", !.at = j, !.prior = LatestFinal(j), !.sent = @ \cup {j}]

MainSendsBack(x, j) ==
  /\ SelfSendBack /\ Running(x) /\ execs[x].phase # "review" /\ j \in SkillAt /\ j < execs[x].stage
  /\ SendBack(j) /\ execs' = [execs EXCEPT ![x].open = FALSE]
  /\ UNCHANGED docs

\* What a stored pass does to the execution: a review pass next, or the boundary.
AfterStore(x, d) == [execs EXCEPT ![x].loop = Append(@, d), ![x].phase = IF execs[x].stage \in Reviewed THEN "review" ELSE @]

\* _settle_stage_boundary: a residual's send-back first, then proceed or pause.
Settle(x) ==
  \/ \E j \in SkillAt : j < execs[x].stage /\ SendBack(j)
  \/ run' = Routed(execs[x].stage)
  \/ run' = [run EXCEPT !.state = "paused"]

\* _validate_skill_return_and_artifact, _handle_main_return, _handle_fix_return
\* with the outcome completed: store, mark_final, review or boundary.
StoreArtifact(x) ==
  LET i == execs[x].stage IN
  /\ Running(x) /\ execs[x].phase # "review" /\ Len(docs) < MaxDocs
  /\ docs' = Append(docs, [stage |-> i, version |-> NextVersion(i), final |-> TRUE, exec |-> x, settled |-> i \notin Reviewed])
  /\ execs' = [AfterStore(x, Len(docs) + 1) EXCEPT ![x].open = i \in Reviewed]
  /\ IF i \in Reviewed THEN UNCHANGED run ELSE Settle(x)

\* _handle_review_return: another fix pass, or the loop stops.
ReviewLoops(x, residuals) ==
  /\ Running(x) /\ execs[x].phase = "review"
  /\ IF residuals /\ execs[x].iteration < MaxIterations
     THEN /\ execs' = [execs EXCEPT ![x].loop = Append(@, 0), ![x].phase = "fix", ![x].iteration = @ + 1,
                                    ![x].fixing = LastArtifact(x)]
          /\ UNCHANGED <<docs, run>>
     ELSE /\ execs' = [execs EXCEPT ![x].loop = Append(@, 0), ![x].open = FALSE]
          /\ docs' = [d \in DOMAIN docs |-> IF docs[d].exec = x THEN [docs[d] EXCEPT !.settled = TRUE] ELSE docs[d]]
          /\ Settle(x)

-----------------------------------------------------------------------------
Paused == run.state = "paused"
PausedExec == Len(execs)

Approve  == Paused /\ run' = Routed(execs[PausedExec].stage) /\ UNCHANGED <<docs, execs>>
Instruct ==
  LET i == execs[PausedExec].stage IN
  /\ Paused /\ run' = [run EXCEPT !.state = "running", !.at = i, !.prior = LatestFinal(i)]
  /\ UNCHANGED <<docs, execs>>
ResumeWithSendBack(j) ==
  /\ Paused /\ j \in SkillAt /\ j < execs[PausedExec].stage /\ SendBack(j)
  /\ UNCHANGED <<docs, execs>>

\* kill, or a cancel: at a pause, or between two stages.
EndRun ==
  /\ Paused \/ (run.state = "running" /\ run.at # 0)
  /\ run' = [run EXCEPT !.state = "ended", !.at = 0] /\ UNCHANGED <<docs, execs>>

Next ==
  \/ StartRun \/ StartSkillStage \/ StartActionStage
  \/ \E i \in Indices : StartRerunFromStage(i) \/ ResumeWithSendBack(i)
  \/ \E x \in DOMAIN execs :
       \/ FailStage(x)
       \/ \E j \in Indices : MainSendsBack(x, j)
       \/ StoreArtifact(x)
       \/ \E residuals \in BOOLEAN : ReviewLoops(x, residuals)
  \/ Approve \/ Instruct \/ EndRun

Spec == Init /\ [][Next]_vars

-----------------------------------------------------------------------------
\* Nothing downstream is fed a document whose review loop had not stopped.
InputSettled == \A x \in DOMAIN execs : execs[x].input # 0 => docs[execs[x].input].settled

\* Whatever revises works on the stage's newest version: a fix pass, which
\* looks in its own loop_state, and a re-entry, which carries the version
\* from the decision to the dispatch (_last_artifact_id, latest_final).
RevisesNewest ==
  \A x \in {Len(execs)} \cap DOMAIN execs : execs[x].open =>
    /\ execs[x].phase = "fix" => execs[x].fixing = LatestFinal(execs[x].stage)
    /\ execs[x].phase = "main" /\ execs[x].prior # 0 => execs[x].prior = LatestFinal(execs[x].stage)

\* A stage that runs again never gets an older input than it had, in the same
\* run or in a later one.
InputsMoveOn ==
  \A x, y \in DOMAIN execs : (x < y /\ execs[x].stage = execs[y].stage) => execs[x].input <= execs[y].input

\* The context of an action can always be built: the skill stage before it
\* has a recorded artifact (_last_artifact_id's assertion).
ContextBuilt == ~run.crashed
=============================================================================
