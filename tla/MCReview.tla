------------------------------- MODULE MCReview -------------------------------
(***************************************************************************)
(* From a pull request to what is said about it: the intake of webhooks,   *)
(* the batching of review comments, the findings a run posts, the          *)
(* documents its stages hand on, the requests people make of a run, the    *)
(* pipelines runs are made from, the lessons people write, and the events  *)
(* and notifications people see. A behaviour of this module is a behaviour *)
(* of one of these components, under the constants of its scene.           *)
(***************************************************************************)
EXTENDS Naturals, Sequences

CONSTANT Scenes  \* the scenes this run follows

VARIABLES
    scene,  \* which component a behaviour follows, under which constants
    \* PullRequestIntake
    gh, events, sent, answer, ledger, handler, pr, ticket, runs, used,
    \* CommentBatching
    comment, todo, worker, batchRuns, replies, reviews, cites, batchUsed,
    \* ReviewFindings
    finding, bound, github, run, act, hook, replied, findingsUsed,
    \* Artifacts
    docs, execs, docsRun,
    \* RunRequests
    reqsRuns, current, pauses, members, req, effects,
    \* PipelineDefinitions
    pipelines, bindings, defsReq, slot, tick, tickets, defsRuns, finals,
    \* Lessons
    lesson, lessonReq, history, asked,
    \* LiveEvents
    db, txns, tasks, told, streams, fresh, seen, conns,
    \* Notifications
    status, notesMembers, notesEvents, queue, job, notes, bell, notesUsed

Unused == "unused"  \* the value of a variable that its scene leaves alone

--------------------------------------------------------------------------------
\* PullRequestIntake.

\* Deliveries are repeated, reordered and handled by two requests at once.
IntakeTwice == INSTANCE PullRequestIntake WITH
    Handlers <- {"h1", "h2"}, MaxEvents <- 3, MaxDeliveries <- 2, MaxFailures <- 0,
    MaxPauses <- 0, InOrder <- FALSE, Reopens <- TRUE

\* As before, and a handler fails.
IntakeFailures == INSTANCE PullRequestIntake WITH
    Handlers <- {"h1", "h2"}, MaxEvents <- 2, MaxDeliveries <- 2, MaxFailures <- 1,
    MaxPauses <- 1, InOrder <- FALSE, Reopens <- TRUE

\* One handler takes the deliveries in the order GitHub made them.
IntakeOrder == INSTANCE PullRequestIntake WITH
    Handlers <- {"h1"}, MaxEvents <- 4, MaxDeliveries <- 2, MaxFailures <- 0, MaxPauses <- 1,
    InOrder <- TRUE, Reopens <- FALSE

intakeVars ==
    <<gh, events, sent, answer, ledger, handler, pr, ticket, runs, used>>

NoIntake ==
    /\ gh = Unused /\ events = Unused /\ sent = Unused /\ answer = Unused /\ ledger = Unused
    /\ handler = Unused /\ pr = Unused /\ ticket = Unused /\ runs = Unused /\ used = Unused

--------------------------------------------------------------------------------
\* CommentBatching.

\* Two comments and a review run in between.
BatchClaims == INSTANCE CommentBatching WITH
    Comments <- {"c1", "c2"}, Workers <- {"w1", "w2"}, MaxRuns <- 2, MaxReviews <- 1,
    MaxCancels <- 0, MaxCrashes <- 0, MaxGitHub <- 0, MaxDuplicates <- 0, AutoApprove <- FALSE,
    runs <- batchRuns, used <- batchUsed

\* One comment, delivered twice; a worker dies, GitHub fails.
BatchCrash == INSTANCE CommentBatching WITH
    Comments <- {"c1"}, Workers <- {"w1", "w2"}, MaxRuns <- 2, MaxReviews <- 1, MaxCancels <- 1,
    MaxCrashes <- 1, MaxGitHub <- 1, MaxDuplicates <- 1, AutoApprove <- TRUE, runs <- batchRuns,
    used <- batchUsed

\* Two comments and nothing fails.
BatchLive == INSTANCE CommentBatching WITH
    Comments <- {"c1", "c2"}, Workers <- {"w1"}, MaxRuns <- 3, MaxReviews <- 1, MaxCancels <- 0,
    MaxCrashes <- 0, MaxGitHub <- 0, MaxDuplicates <- 0, AutoApprove <- FALSE, runs <- batchRuns,
    used <- batchUsed

batchVars ==
    <<comment, todo, worker, batchRuns, replies, reviews, cites, batchUsed>>

NoBatch ==
    /\ comment = Unused /\ todo = Unused /\ worker = Unused /\ batchRuns = Unused
    /\ replies = Unused /\ reviews = Unused /\ cites = Unused /\ batchUsed = Unused

--------------------------------------------------------------------------------
\* ReviewFindings.

\* A run that posts is killed and retried.
Posting == INSTANCE ReviewFindings WITH
    Findings <- {1, 2}, MaxRuns <- 2, MaxPasses <- 1, MaxDeaths <- 2, PageSize <- 9,
    TopLevel <- TRUE, Disputes <- FALSE, Cautious <- TRUE, AutoApprove <- FALSE,
    used <- findingsUsed

\* People dispute and dismiss between runs.
Disputes == INSTANCE ReviewFindings WITH
    Findings <- {1, 2}, MaxRuns <- 2, MaxPasses <- 1, MaxDeaths <- 1, PageSize <- 9,
    TopLevel <- FALSE, Disputes <- TRUE, Cautious <- TRUE, AutoApprove <- TRUE,
    used <- findingsUsed

findingsVars ==
    <<finding, bound, github, run, act, hook, replied, findingsUsed>>

NoFindings ==
    /\ finding = Unused /\ bound = Unused /\ github = Unused /\ run = Unused /\ act = Unused
    /\ hook = Unused /\ replied = Unused /\ findingsUsed = Unused

--------------------------------------------------------------------------------
\* Artifacts.

\* A second run on what the first one wrote.
DocsReruns == INSTANCE Artifacts WITH
    NStages <- 3, ActionAt <- {}, Reviewed <- {2}, MaxIterations <- 2, SelfSendBack <- TRUE,
    MaxRuns <- 2, MaxDocs <- 5, run <- docsRun

\* Reviewed stages before an action.
DocsOneRun == INSTANCE Artifacts WITH
    NStages <- 3, ActionAt <- {3}, Reviewed <- {1, 2}, MaxIterations <- 1, SelfSendBack <- FALSE,
    MaxRuns <- 1, MaxDocs <- 7, run <- docsRun

docsVars ==
    <<docs, execs, docsRun>>

NoDocs ==
    /\ docs = Unused /\ execs = Unused /\ docsRun = Unused

--------------------------------------------------------------------------------
\* RunRequests.

\* People act on the runs of a ticket, one request at a time.
ReqsSerial == INSTANCE RunRequests WITH
    Users <- {"ann", "bob"}, Owner <- "ann", Kickoffs <- {"github"}, MaxRuns <- 2, MaxPauses <- 2,
    Reqs <- {"q1"}, Ops <- {"intake", "rerun", "respond", "cancel", "leave"}, runs <- reqsRuns

\* Two requests at a time about two runs of one ticket: each may commit after the run has moved on.
ReqsLate == INSTANCE RunRequests WITH
    Users <- {"ann"}, Owner <- "ann", Kickoffs <- {"user"}, MaxRuns <- 2, MaxPauses <- 2,
    Reqs <- {"q1", "q2"}, Ops <- {"intake", "respond", "cancel"}, runs <- reqsRuns

\* A queue of runs behind each other.
ReqsQueue == INSTANCE RunRequests WITH
    Users <- {"ann"}, Owner <- "ann", Kickoffs <- {"user"}, MaxRuns <- 3, MaxPauses <- 1,
    Reqs <- {"q1"}, Ops <- {"intake", "respond", "cancel", "cancelQueued"}, runs <- reqsRuns

reqsVars ==
    <<reqsRuns, current, pauses, members, req, effects>>

NoReqs ==
    /\ reqsRuns = Unused /\ current = Unused /\ pauses = Unused /\ members = Unused
    /\ req = Unused /\ effects = Unused

--------------------------------------------------------------------------------
\* PipelineDefinitions.

\* Pipelines that include each other.
DefsNested == INSTANCE PipelineDefinitions WITH
    Ids <- {"p1", "p2", "p3"}, Names <- {"x", "y", "z"}, StageNames <- {"a"}, MaxStages <- 1,
    Templates <- {}, Requests <- {"q1"}, BindingIds <- {}, Repos <- {"r1"}, Periods <- {1},
    Workers <- {}, MaxSlot <- 0, MaxRuns <- 0, Ops <- {"create", "update", "delete", "action"},
    req <- defsReq, runs <- defsRuns

\* The shipped templates, edited.
DefsTemplates == INSTANCE PipelineDefinitions WITH
    Ids <- {"p1", "p2", "p3"}, Names <- {"implementation"}, StageNames <- {"implement", "plan"},
    MaxStages <- 1,
    Templates <- {"dev", "troubleshoot", "implementation", "PR review", "incremental review", "comment response"},
    Requests <- {"q1"}, BindingIds <- {}, Repos <- {"r1"}, Periods <- {1}, Workers <- {},
    MaxSlot <- 0, MaxRuns <- 0, Ops <- {"create", "update", "delete", "action", "review"},
    req <- defsReq, runs <- defsRuns

\* Two admins bind and edit at once.
DefsBindings == INSTANCE PipelineDefinitions WITH
    Ids <- {"p1", "p2"}, Names <- {"x", "y"}, StageNames <- {"a"}, MaxStages <- 1,
    Templates <- {}, Requests <- {"q1", "q2"}, BindingIds <- {"b1", "b2"}, Repos <- {"r1"},
    Periods <- {1}, Workers <- {}, MaxSlot <- 0, MaxRuns <- 0,
    Ops <- {"create", "update", "delete", "bind", "unbind"}, req <- defsReq, runs <- defsRuns

\* A run starts while its pipeline is edited.
DefsRuns == INSTANCE PipelineDefinitions WITH
    Ids <- {"p1", "p2"}, Names <- {"x", "y"}, StageNames <- {"a"}, MaxStages <- 2,
    Templates <- {}, Requests <- {"q1", "q2"}, BindingIds <- {}, Repos <- {"r1"}, Periods <- {1},
    Workers <- {}, MaxSlot <- 0, MaxRuns <- 1, Ops <- {"create", "update", "start"},
    req <- defsReq, runs <- defsRuns

\* A rerun from a stage of an edited pipeline.
DefsReruns == INSTANCE PipelineDefinitions WITH
    Ids <- {"p1"}, Names <- {"x"}, StageNames <- {"a", "b"}, MaxStages <- 2, Templates <- {},
    Requests <- {"q1"}, BindingIds <- {}, Repos <- {"r1"}, Periods <- {1}, Workers <- {},
    MaxSlot <- 0, MaxRuns <- 2, Ops <- {"create", "update", "start", "rerun"}, req <- defsReq,
    runs <- defsRuns

\* Two workers tick, and die.
DefsSchedule == INSTANCE PipelineDefinitions WITH
    Ids <- {"p1"}, Names <- {"x"}, StageNames <- {"a"}, MaxStages <- 1, Templates <- {},
    Requests <- {"q1"}, BindingIds <- {"b1", "b2"}, Repos <- {"r1"}, Periods <- {1, 2},
    Workers <- {"w1", "w2"}, MaxSlot <- 2, MaxRuns <- 6,
    Ops <- {"create", "bind", "tick", "crash"}, req <- defsReq, runs <- defsRuns

\* Bindings and their pipelines go while a tick is under way.
DefsTick == INSTANCE PipelineDefinitions WITH
    Ids <- {"p1"}, Names <- {"x"}, StageNames <- {"a"}, MaxStages <- 1, Templates <- {},
    Requests <- {"q1"}, BindingIds <- {"b1", "b2"}, Repos <- {"r1"}, Periods <- {1},
    Workers <- {"w1"}, MaxSlot <- 1, MaxRuns <- 4,
    Ops <- {"create", "delete", "bind", "unbind", "tick"}, req <- defsReq, runs <- defsRuns

defsVars ==
    <<pipelines, bindings, defsReq, slot, tick, tickets, defsRuns, finals>>

NoDefs ==
    /\ pipelines = Unused /\ bindings = Unused /\ defsReq = Unused /\ slot = Unused
    /\ tick = Unused /\ tickets = Unused /\ defsRuns = Unused /\ finals = Unused

--------------------------------------------------------------------------------
\* Lessons.

\* Two editors of one lesson.
LessonsEdit == INSTANCE Lessons WITH
    Editors <- {"ann", "ben"}, Titles <- {"t1", "t2", "blank"}, Bodies <- {"b1", "b2", "blank"},
    MaxReq <- 4, req <- lessonReq

\* One editor, for longer.
LessonsAlone == INSTANCE Lessons WITH
    Editors <- {"ann"}, Titles <- {"t1", "t2", "blank"}, Bodies <- {"b1", "b2", "blank"},
    MaxReq <- 5, req <- lessonReq

lessonVars ==
    <<lesson, lessonReq, history, asked>>

NoLesson ==
    /\ lesson = Unused /\ lessonReq = Unused /\ history = Unused /\ asked = Unused

--------------------------------------------------------------------------------
\* LiveEvents.

\* Savepoints, rollbacks and a deploy.
LiveDeploy == INSTANCE LiveEvents WITH
    Txns <- {"t1", "t2"}, Clients <- {"b1", "b2"}, MaxConn <- 2,
    Ops <- {"savepoint", "rollback", "shutdown"}

\* Three writers, two browsers that stay connected.
LiveCommit == INSTANCE LiveEvents WITH
    Txns <- {"t1", "t2", "t3"}, Clients <- {"b1", "b2"}, MaxConn <- 1,
    Ops <- {"rollback", "connected"}

liveVars ==
    <<db, txns, tasks, told, streams, fresh, seen, conns>>

NoLive ==
    /\ db = Unused /\ txns = Unused /\ tasks = Unused /\ told = Unused /\ streams = Unused
    /\ fresh = Unused /\ seen = Unused /\ conns = Unused

--------------------------------------------------------------------------------
\* Notifications.

\* A fan-out is delivered twice and its worker dies.
NotesFanout == INSTANCE Notifications WITH
    Users <- {"alice", "bob"}, Tickets <- {"t1"}, Workers <- {"w1"}, Limit <- 2, MaxEvents <- 2,
    MaxNotes <- 4, MaxRepeat <- 1, MaxCrash <- 1, MaxJoin <- 2, Ops <- {"read"},
    members <- notesMembers, events <- notesEvents, used <- notesUsed

\* The bell is read while rows arrive.
NotesBell == INSTANCE Notifications WITH
    Users <- {"alice", "bob"}, Tickets <- {"t1"}, Workers <- {"w1"}, Limit <- 1, MaxEvents <- 2,
    MaxNotes <- 2, MaxRepeat <- 0, MaxCrash <- 0, MaxJoin <- 1, Ops <- {"popover", "reauth"},
    members <- notesMembers, events <- notesEvents, used <- notesUsed

\* Members join, tickets change status.
NotesLive == INSTANCE Notifications WITH
    Users <- {"alice", "bob"}, Tickets <- {"t1"}, Workers <- {"w1"}, Limit <- 2, MaxEvents <- 3,
    MaxNotes <- 6, MaxRepeat <- 1, MaxCrash <- 0, MaxJoin <- 2, Ops <- {},
    members <- notesMembers, events <- notesEvents, used <- notesUsed

notesVars ==
    <<status, notesMembers, notesEvents, queue, job, notes, bell, notesUsed>>

NoNotes ==
    /\ status = Unused /\ notesMembers = Unused /\ notesEvents = Unused /\ queue = Unused
    /\ job = Unused /\ notes = Unused /\ bell = Unused /\ notesUsed = Unused

--------------------------------------------------------------------------------
\* A behaviour starts in one scene and follows its component.

vars == <<scene, intakeVars, batchVars, findingsVars, docsVars, reqsVars, defsVars, lessonVars, liveVars, notesVars>>

Init ==
    /\ scene \in Scenes
    /\ IF scene \notin {"intake_duplicates", "intake_failures", "intake_order"} THEN NoIntake
       ELSE IF scene = "intake_duplicates" THEN IntakeTwice!Init
       ELSE IF scene = "intake_failures" THEN IntakeFailures!Init
       ELSE IntakeOrder!Init
    /\ IF scene \notin {"batch_claims", "batch_crash", "batch_live"} THEN NoBatch
       ELSE IF scene = "batch_claims" THEN BatchClaims!Init
       ELSE IF scene = "batch_crash" THEN BatchCrash!Init
       ELSE BatchLive!Init
    /\ IF scene \notin {"findings_posting", "findings_disputes"} THEN NoFindings
       ELSE IF scene = "findings_posting" THEN Posting!Init
       ELSE Disputes!Init
    /\ IF scene \notin {"docs_reruns", "docs_one_run"} THEN NoDocs
       ELSE IF scene = "docs_reruns" THEN DocsReruns!Init
       ELSE DocsOneRun!Init
    /\ IF scene \notin {"reqs_one_at_a_time", "reqs_late", "reqs_queue"} THEN NoReqs
       ELSE IF scene = "reqs_one_at_a_time" THEN ReqsSerial!Init
       ELSE IF scene = "reqs_late" THEN ReqsLate!Init
       ELSE ReqsQueue!Init
    /\ IF scene \notin {"defs_sequential", "defs_templates", "defs_bindings", "defs_runs", "defs_reruns", "defs_schedule", "defs_tick"} THEN NoDefs
       ELSE IF scene = "defs_sequential" THEN DefsNested!Init
       ELSE IF scene = "defs_templates" THEN DefsTemplates!Init
       ELSE IF scene = "defs_bindings" THEN DefsBindings!Init
       ELSE IF scene = "defs_runs" THEN DefsRuns!Init
       ELSE IF scene = "defs_reruns" THEN DefsReruns!Init
       ELSE IF scene = "defs_schedule" THEN DefsSchedule!Init
       ELSE DefsTick!Init
    /\ IF scene \notin {"lessons_edit", "lessons_alone"} THEN NoLesson
       ELSE IF scene = "lessons_edit" THEN LessonsEdit!Init
       ELSE LessonsAlone!Init
    /\ IF scene \notin {"live_deploy", "live_commit"} THEN NoLive
       ELSE IF scene = "live_deploy" THEN LiveDeploy!Init
       ELSE LiveCommit!Init
    /\ IF scene \notin {"notes_fanout", "notes_bell", "notes_live"} THEN NoNotes
       ELSE IF scene = "notes_fanout" THEN NotesFanout!Init
       ELSE IF scene = "notes_bell" THEN NotesBell!Init
       ELSE NotesLive!Init

IntakeNext ==
    /\ \/ scene = "intake_duplicates" /\ IntakeTwice!Next
       \/ scene = "intake_failures" /\ IntakeFailures!Next
       \/ scene = "intake_order" /\ IntakeOrder!Next
    /\ UNCHANGED <<scene, batchVars, findingsVars, docsVars, reqsVars, defsVars, lessonVars, liveVars, notesVars>>

BatchNext ==
    /\ \/ scene = "batch_claims" /\ BatchClaims!Next
       \/ scene = "batch_crash" /\ BatchCrash!Next
       \/ scene = "batch_live" /\ BatchLive!Next
    /\ UNCHANGED <<scene, intakeVars, findingsVars, docsVars, reqsVars, defsVars, lessonVars, liveVars, notesVars>>

FindingsNext ==
    /\ \/ scene = "findings_posting" /\ Posting!Next
       \/ scene = "findings_disputes" /\ Disputes!Next
    /\ UNCHANGED <<scene, intakeVars, batchVars, docsVars, reqsVars, defsVars, lessonVars, liveVars, notesVars>>

DocsNext ==
    /\ \/ scene = "docs_reruns" /\ DocsReruns!Next
       \/ scene = "docs_one_run" /\ DocsOneRun!Next
    /\ UNCHANGED <<scene, intakeVars, batchVars, findingsVars, reqsVars, defsVars, lessonVars, liveVars, notesVars>>

ReqsNext ==
    /\ \/ scene = "reqs_one_at_a_time" /\ ReqsSerial!Next
       \/ scene = "reqs_late" /\ ReqsLate!Next
       \/ scene = "reqs_queue" /\ ReqsQueue!Next
    /\ UNCHANGED <<scene, intakeVars, batchVars, findingsVars, docsVars, defsVars, lessonVars, liveVars, notesVars>>

DefsNext ==
    /\ \/ scene = "defs_sequential" /\ DefsNested!Next
       \/ scene = "defs_templates" /\ DefsTemplates!Next
       \/ scene = "defs_bindings" /\ DefsBindings!Next
       \/ scene = "defs_runs" /\ DefsRuns!Next
       \/ scene = "defs_reruns" /\ DefsReruns!Next
       \/ scene = "defs_schedule" /\ DefsSchedule!Next
       \/ scene = "defs_tick" /\ DefsTick!Next
    /\ UNCHANGED <<scene, intakeVars, batchVars, findingsVars, docsVars, reqsVars, lessonVars, liveVars, notesVars>>

LessonNext ==
    /\ \/ scene = "lessons_edit" /\ LessonsEdit!Next
       \/ scene = "lessons_alone" /\ LessonsAlone!Next
    /\ UNCHANGED <<scene, intakeVars, batchVars, findingsVars, docsVars, reqsVars, defsVars, liveVars, notesVars>>

LiveNext ==
    /\ \/ scene = "live_deploy" /\ LiveDeploy!Next
       \/ scene = "live_commit" /\ LiveCommit!Next
    /\ UNCHANGED <<scene, intakeVars, batchVars, findingsVars, docsVars, reqsVars, defsVars, lessonVars, notesVars>>

NotesNext ==
    /\ \/ scene = "notes_fanout" /\ NotesFanout!Next
       \/ scene = "notes_bell" /\ NotesBell!Next
       \/ scene = "notes_live" /\ NotesLive!Next
    /\ UNCHANGED <<scene, intakeVars, batchVars, findingsVars, docsVars, reqsVars, defsVars, lessonVars, liveVars>>

Next ==
    \/ IntakeNext
    \/ BatchNext
    \/ FindingsNext
    \/ DocsNext
    \/ ReqsNext
    \/ DefsNext
    \/ LessonNext
    \/ LiveNext
    \/ NotesNext

Spec == Init /\ [][Next]_vars

\* GitHub delivers what it emitted at least once and again as often as it is asked to,
\* requests run to their end, runs finish and pauses are answered.
IntakeOrderFairness ==
    /\ \A h \in {"h1"} : WF_intakeVars(scene = "intake_order" /\ IntakeOrder!HandlerStep(h))
    /\ \A e \in IntakeOrder!Ids : WF_intakeVars(scene = "intake_order" /\ \E h \in {"h1"} : IntakeOrder!Deliver(h, e))
    /\ WF_intakeVars(scene = "intake_order" /\ \E i \in 1 .. Len(runs) : IntakeOrder!RunEnds(i) \/ IntakeOrder!RunResumes(i))

\* Workers take what is queued and bodies run on; runs come to their end.
BatchLiveFairness ==
    /\ \A w \in {"w1"} : WF_batchVars(scene = "batch_live" /\ BatchLive!BodyStep(w))
    /\ \A t \in BatchLive!Tasks : WF_batchVars(scene = "batch_live" /\ \E w \in {"w1"} : BatchLive!Take(w, t))
    /\ WF_batchVars(scene = "batch_live" /\ \E i \in BatchLive!RunIds : BatchLive!RunEnds(i))

\* what the engine has in hand gets done and the sweep runs every minute; people need
\* not act
ReqsQueueFairness ==
    /\ \A r \in 1 .. 3 : WF_reqsVars(scene = "reqs_queue" /\ r \in ReqsQueue!RunIds /\ \E s \in ReqsQueue!Terminal : ReqsQueue!EnterTerminal(r, s))
    /\ WF_reqsVars(scene = "reqs_queue" /\ ReqsQueue!ReconcileOrphanedQueued)
    /\ \A q \in {"q1"} : WF_reqsVars(scene = "reqs_queue" /\ ReqsQueue!RequestEnds(q))

\* a worker that runs the tick goes through its list
DefsTickFairness ==
    \A w \in {"w1"}, b \in {"b1", "b2"} : WF_defsVars(scene = "defs_tick" /\ DefsTick!FireOne(w, b))

\* Spawned tasks run and streams make progress; writers and deploys need not come.
LiveCommitFairness ==
    /\ \A t \in {"t1", "t2", "t3"} : WF_liveVars(scene = "live_commit" /\ LiveCommit!PublishGeneral(t))
    /\ \A c \in {"b1", "b2"} :
         /\ WF_liveVars(scene = "live_commit" /\ LiveCommit!OnOpen(c))
         /\ WF_liveVars(scene = "live_commit" /\ LiveCommit!Connect(c))
         /\ WF_liveVars(scene = "live_commit" /\ LiveCommit!Subscribe(c))
         /\ WF_liveVars(scene = "live_commit" /\ LiveCommit!OnMessage(c))

\* A running worker keeps popping and finishes its bodies.
NotesLiveFairness ==
    \A w \in {"w1"} :
       /\ WF_notesVars(scene = "notes_live" /\ NotesLive!FanoutBegins(w))
       /\ WF_notesVars(scene = "notes_live" /\ NotesLive!FanoutCommits(w))
       /\ WF_notesVars(scene = "notes_live" /\ \E u \in {"alice", "bob"} : NotesLive!Create(w, u))

Fairness ==
    /\ IntakeOrderFairness /\ BatchLiveFairness /\ ReqsQueueFairness /\ DefsTickFairness
    /\ LiveCommitFairness /\ NotesLiveFairness

FairSpec == Spec /\ Fairness

\* The constants of every scene are ones its module allows.
ASSUME ScenesAssumption ==
    /\ IntakeTwice!IntakeAssumption /\ IntakeFailures!IntakeAssumption
    /\ IntakeOrder!IntakeAssumption /\ BatchClaims!BatchingAssumption
    /\ BatchCrash!BatchingAssumption /\ Posting!FindingsAssumption /\ Disputes!FindingsAssumption
    /\ DocsReruns!ArtifactsAssumption /\ DocsOneRun!ArtifactsAssumption /\ ReqsSerial!BoundsAreNat
    /\ ReqsLate!BoundsAreNat /\ ReqsQueue!BoundsAreNat /\ DefsNested!BoundsAreNat
    /\ DefsTemplates!BoundsAreNat /\ DefsBindings!BoundsAreNat /\ DefsRuns!BoundsAreNat
    /\ DefsReruns!BoundsAreNat /\ DefsSchedule!BoundsAreNat /\ DefsTick!BoundsAreNat
    /\ LessonsEdit!LessonsAssumption /\ LessonsAlone!LessonsAssumption
    /\ LiveDeploy!LiveAssumption /\ LiveCommit!LiveAssumption
    /\ NotesFanout!NotificationsAssumption /\ NotesBell!NotificationsAssumption
    /\ NotesLive!NotificationsAssumption

--------------------------------------------------------------------------------
\* Safety.

\* Every variable of the component that moves has the values its module gives it.
TypeOK ==
    /\ scene = "intake_duplicates" => IntakeTwice!TypeOK
    /\ scene = "batch_claims" => BatchClaims!TypeOK
    /\ scene = "findings_posting" => Posting!TypeOK
    /\ scene = "docs_reruns" => DocsReruns!TypeOK
    /\ scene = "reqs_one_at_a_time" => ReqsSerial!TypeOK
    /\ scene = "defs_bindings" => DefsBindings!TypeOK
    /\ scene = "lessons_edit" => LessonsEdit!TypeOK
    /\ scene = "live_deploy" => LiveDeploy!TypeOK
    /\ scene = "notes_fanout" => NotesFanout!TypeOK

\* However often and however concurrently GitHub delivers an event, it starts one run
\* at most (the ledger's unique key, the ticket's).
DeliveryAppliedOnce ==
    /\ scene = "intake_duplicates" => IntakeTwice!DeliveryAppliedOnce
    /\ scene = "intake_failures" => IntakeFailures!DeliveryAppliedOnce

\* However classification tasks and hooks interleave, one run at most is kicked off
\* with a comment: nobody is answered twice.
AnsweredByOneRun ==
    /\ scene = "batch_claims" => BatchClaims!AnsweredByOneRun
    /\ scene = "batch_crash" => BatchCrash!AnsweredByOneRun

\* However often a posting action dies between a GitHub call and its commit, GitHub
\* holds one comment per finding (the reconciliation of _post_residuals), while its
\* comments fit a page.
PostedOnce == scene = "findings_posting" => Posting!PostedOnce

\* A finding is anchored at the comment that reports it: a reply in the thread finds
\* the finding it is about.
AnchoredAtItsComment == scene = "findings_posting" => Posting!AnchoredAtItsComment

\* A stage that runs again never gets an older input than it had, in the same run or in
\* a later one.
InputsMoveOn == scene = "docs_reruns" => DocsReruns!InputsMoveOn

\* Whatever revises works on the stage's newest version: a fix pass, which looks in its
\* own loop_state, and a re-entry, which carries the version from the decision to the
\* dispatch (_last_artifact_id, latest_final).
RevisesNewest == scene = "docs_reruns" => DocsReruns!RevisesNewest

\* Nothing downstream is fed a document whose review loop had not stopped.
InputSettled == scene = "docs_one_run" => DocsOneRun!InputSettled

\* The context of an action can always be built: the skill stage before it has a
\* recorded artifact (_last_artifact_id's assertion).
ContextBuilt == scene = "docs_one_run" => DocsOneRun!ContextBuilt

\* A person who opens the ticket finds the pause that waits for an answer: a paused run
\* is the ticket's current run, has exactly one open pause (get_run_overview's
\* scalar_one, request_cancel's assertion), and a member of the org may answer it.
PauseIsFound == scene = "reqs_one_at_a_time" => ReqsSerial!PauseIsFound

\* An open pause belongs to a run that waits for it: nobody is asked about a run that
\* has gone on.
OpenPauseMeansPaused == scene = "reqs_one_at_a_time" => ReqsSerial!OpenPauseMeansPaused

\* What the timeline shows is what happened: a run is continued once for its start and
\* once for every closed pause.
EveryDecisionOnce == scene = "reqs_one_at_a_time" => ReqsSerial!EveryDecisionOnce

\* Whatever is edited in whatever order, every stored definition still flattens:
\* validate_definition on the edited pipeline and its transitive callers is enough to
\* keep all of the org's pipelines startable.
AllFlatten ==
    /\ scene = "defs_sequential" => DefsNested!AllFlatten
    /\ scene = "defs_templates" => DefsTemplates!AllFlatten

\* A trigger binding always has its pipeline, even when the binding and the delete were
\* checked against the same state (repo_trigger_bindings.pipeline_id RESTRICT).
BindingsResolve == scene = "defs_bindings" => DefsBindings!BindingsResolve

\* One repository's webhook point starts one pipeline, even when two requests bind it
\* at once (ux_bindings_point), so that one event is one run.
OneBindingPerPoint == scene = "defs_bindings" => DefsBindings!OneBindingPerPoint

\* Pipeline names stay unique in the org under concurrent creates and renames: a
\* template reuses a callee by its name (_materialize_template's org_by_name).
NamesIdentify == scene = "defs_bindings" => DefsBindings!NamesIdentify

\* What a run has pinned is executable whatever editors race with its start: no call is
\* left in it and a stage name means one stage (start_run flattens again).
SnapshotsExecutable == scene = "defs_runs" => DefsRuns!SnapshotsExecutable

\* A rerun from a stage starts at that stage of the definition as it is now, and finds
\* an artifact to read when a skill stage comes before it, although the pipeline was
\* edited since the run it repeats.
RerunFindsItsInput == scene = "defs_reruns" => DefsReruns!RerunFindsItsInput

\* A schedule fires once for a minute, however many workers run the tick or run it
\* again, and a ticket it leaves behind always has its run (create_from_schedule and
\* start_run in one transaction).
FiresOncePerSlot == scene = "defs_schedule" => DefsSchedule!FiresOncePerSlot

\* Two edits of different fields both stay, however their reads and writes interleave:
\* the row holds, of each field, what the last audit row that names the field wrote.
EditsStay == scene = "lessons_edit" => LessonsEdit!EditsStay

\* A lesson that is there has a title and a body, although an edit of one field is
\* validated with a copy of the other (_validate).
NeverBlank == scene = "lessons_edit" => LessonsEdit!NeverBlank

\* The audit rows are the lesson's history: created first, each later row starts from
\* the body the one before left, deleted once and last, and the row is what the last
\* one says.
HistoryIsAudit == scene = "lessons_alone" => LessonsAlone!HistoryIsAudit

\* A stashed event is published at most once, however many commits its session sees:
\* the listener takes the stash with it.
ToldOnce == scene = "live_deploy" => LiveDeploy!ToldOnce

\* Writes are idempotent on (user, type, subject): whatever is delivered twice, or
\* happens twice to one ticket, leaves one row (create's dedup check).
OneRowPerSubject == scene = "notes_fanout" => NotesFanout!OneRowPerSubject

\* A row with a subject belongs to a fan-out that reached all the people who were
\* members when the status changed, and only them: a worker killed in the middle leaves
\* nobody half told (_fanout's single commit, and recipients computed by the producer
\* although members come and go).
WholeFanout == scene = "notes_fanout" => NotesFanout!WholeFanout

\* The bell never shows more rows than it counts (popover_for_user).
BellAgrees == scene = "notes_bell" => NotesBell!BellAgrees

\* A review run ends with each of its open findings on the pull request, whatever died
\* on the way: auto-approval looks at posted findings only.
NothingLeftUnposted ==
    [][scene = "findings_posting" => Posting!NothingLeftUnposted]_vars

\* Dismissed is final: no verdict, no dispute, no later run brings a dismissed finding
\* back, and nothing un-defends or un-anchors one.
DismissedStays ==
    [][scene = "findings_disputes" => Disputes!DismissedStays]_vars

\* A run that is over, with no open pause and no answer or cancel about it still to be
\* written, stays over and cannot be asked about again: two requests at a time may have
\* read its rows before it ended, and stages or cleanups of it may still arrive.
TerminalStays ==
    [][scene = "reqs_late" => ReqsLate!TerminalStays]_vars

--------------------------------------------------------------------------------
\* Liveness, and the safety of the same scenes.

\* Once every event was answered the row says what GitHub says: the state and the
\* newest head (events in order, none failed, no reopening).
RowFollowsGitHub == scene = "intake_order" => IntakeOrder!RowFollowsGitHub

\* An event a browser is told of is about something that has been committed: a rolled-
\* back transaction never emits, and a refetch finds what the event promised.
ToldIsCommitted == scene = "live_commit" => LiveCommit!ToldIsCommitted

\* A head that arrived on an open, tracked pull request is reviewed: a push that meets
\* a run in flight waits and is not lost.
EveryHeadReviewed ==
    \A e \in IntakeOrder!Ids :
        (scene = "intake_order" /\ e <= Len(events) /\ events[e].kind = "synchronize" /\ pr # IntakeOrder!NoRow /\ e \notin ledger)
            ~> (scene = "intake_order" => \E i \in 1 .. Len(runs) : runs[i].event = e /\ runs[i].state = "over")

\* A comment that was classified and is waiting is claimed by a run, even when it
\* arrived in the middle of another one ("No run in flight AND waiting comments exist
\* -> claim + batch + start_run").
WaitingIsClaimed ==
    \A c \in {"c1", "c2"} : (scene = "batch_live" /\ BatchLive!IsWaiting(c)) ~> (scene = "batch_live" => comment[c] # BatchLive!NoRow /\ comment[c].run # BatchLive!NoRun)

\* A queued run gets its turn, unless a run before it waits for a person (the promotion
\* at every terminal and the sweep).
QueuedGetsItsTurn ==
    \A r \in 1 .. 3 : (scene = "reqs_queue" /\ r \in ReqsQueue!RunIds /\ reqsRuns[r].state = "queued")
        ~> (scene = "reqs_queue" => r \in ReqsQueue!RunIds /\ (reqsRuns[r].state # "queued" \/ \E s \in ReqsQueue!RunIds : reqsRuns[s].state = "paused"))

\* A binding whose pipeline cannot be started does not keep the tick from the other due
\* bindings.
TickFinishes ==
    \A w \in {"w1"} : (scene = "defs_tick" /\ tick[w] # DefsTick!NoRow) ~> (scene = "defs_tick" => tick[w] = DefsTick!NoRow)

\* A browser that stays connected ends up showing the committed version.
ClientsCatchUp ==
    \A c \in {"b1", "b2"} : <>[](scene = "live_commit" /\ streams[c].pc # "off") => <>[](scene = "live_commit" => seen[c] = db)

\* Every member at the time of a status change that notifies ends up with a row, also
\* when the delivery repeats or the ticket comes back to the same status with other
\* members (fanout writes one row per spec).
EveryoneTold ==
    \A k \in 1..3, u \in {"alice", "bob"} :
      (scene = "notes_live" /\ k \in DOMAIN notesEvents /\ u \in notesEvents[k].to) ~> (scene = "notes_live" => k \in DOMAIN notesEvents /\ NotesLive!HasRow(u, notesEvents[k]))

--------------------------------------------------------------------------------
\* What the runs check: the properties above, one conjunction per idea.

\* A delivery is applied once, a comment answered by one run, a finding posted once, a
\* pause decided once, a slot fired once, an event told once and a subject notified once.
OnceOnly ==
    /\ DeliveryAppliedOnce /\ AnsweredByOneRun /\ PostedOnce /\ EveryDecisionOnce
    /\ FiresOncePerSlot /\ ToldOnce /\ OneRowPerSubject /\ OneBindingPerPoint

\* Every pass, fix, rerun and reply works on the document, finding or comment it is
\* meant for.
RightInputs ==
    /\ AnchoredAtItsComment /\ InputsMoveOn /\ RevisesNewest /\ InputSettled
    /\ ContextBuilt /\ RerunFindsItsInput /\ SnapshotsExecutable

\* What one row says of another is so: calls and bindings resolve, names identify, a
\* paused run has its open pause and an open pause its paused run.
ReferencesHold ==
    /\ AllFlatten /\ BindingsResolve /\ NamesIdentify /\ PauseIsFound
    /\ OpenPauseMeansPaused

\* Edits are not lost, histories are the audit rows, a fan-out is written whole, and the
\* bell counts what it shows.
HistoryHolds ==
    /\ EditsStay /\ NeverBlank /\ HistoryIsAudit /\ WholeFanout /\ BellAgrees

\* No step takes back what has to stay: a residual is posted, a dismissal is final, and so
\* is the end of a run about which nothing is left to be decided.
DecisionsStand ==
    /\ NothingLeftUnposted /\ DismissedStays /\ TerminalStays

\* Rows follow GitHub, heads are reviewed, comments claimed, queued runs promoted, ticks
\* finished, and everyone is told what was committed.
ReviewSettles ==
    /\ [](RowFollowsGitHub /\ ToldIsCommitted) /\ EveryHeadReviewed /\ WaitingIsClaimed
    /\ QueuedGetsItsTurn /\ TickFinishes /\ ClientsCatchUp /\ EveryoneTold
================================================================================
