------------------------ MODULE PipelineDefinitions ------------------------
(***************************************************************************)
(* The pipelines an org authors and what points at them: definition CRUD   *)
(* and shipped templates (domain/pipelines), the trigger bindings of its   *)
(* repositories (domain/repos), the schedule tick that fires the bindings  *)
(* with a cron, and the requests that start or restart a run.              *)
(*                                                                         *)
(* The transactions run at READ COMMITTED and the handlers take no lock.   *)
(* A write whose validity depends on rows it only reads is two steps: the  *)
(* reads and checks, which leave the pending write in `req', and the       *)
(* flush with commit, where Postgres checks its constraints.  One request  *)
(* slot makes the edits sequential.                                        *)
(*                                                                         *)
(* The body of a POST may carry the pipeline's id, so an id that was       *)
(* deleted can come back.  A stage is its kind and name, or the pipeline   *)
(* it calls; skills, models, review and boundary settings do not matter    *)
(* here.  Cron expressions are periods.  Running a run is RunEngine's.     *)
(***************************************************************************)
EXTENDS Naturals, SequencesExt

CONSTANTS
    Ids,        \* pipeline ids
    Names,      \* pipeline names of the org
    StageNames, \* stage names an author uses
    MaxStages,  \* bound: stages an author writes into one definition
    Templates,  \* names of the shipped defaults in play
    Requests,   \* requests that may be open at once
    BindingIds, \* rows of repo_trigger_bindings
    Repos,      \* repositories
    Periods,    \* cron expressions, as periods in minutes
    Workers,    \* workers that may run the schedule tick
    MaxSlot,    \* bound: minutes
    MaxRuns,    \* bound: runs ever started
    Ops         \* the operations a run exercises

BoundsAreNat == {MaxStages, MaxSlot, MaxRuns} \subseteq Nat /\ Periods \subseteq Nat \ {0}

VARIABLES
    pipelines,  \* the org's pipelines rows
    bindings,   \* repo_trigger_bindings
    req,        \* request slot -> the write it is about to flush
    slot,       \* the current minute
    tick,       \* worker -> the firings its schedule tick still has to make
    tickets,    \* source_external_ids of the schedule tickets: <<binding, minute>>
    runs,       \* pipeline_runs, in insertion order
    finals      \* stage names with a final artifact on the ticket that is rerun

vars == <<pipelines, bindings, req, slot, tick, tickets, runs, finals>>

-----------------------------------------------------------------------------
(* Definitions *)

NoRow == [absent |-> TRUE]
Skill(n) == [kind |-> "skill", name |-> n, target |-> ""]
Review(n) == [kind |-> "review", name |-> n, target |-> ""]
Action == [kind |-> "action", name |-> "", target |-> ""]
Call(p) == [kind |-> "call", name |-> "", target |-> p]

Authored == {Skill(n) : n \in StageNames} \cup {Call(p) : p \in Ids}
            \cup {Review(n) : n \in IF "review" \in Ops THEN StageNames ELSE {}}
            \cup IF "action" \in Ops THEN {Action} ELSE {}
Bodies == UNION {[1 .. k -> Authored] : k \in 1 .. MaxStages}

\* defaults.ALL_DEFAULTS; a call names the template it calls
Template == [n \in {"dev", "troubleshoot", "implementation", "PR review", "incremental review", "comment response"} |->
    CASE n = "dev" -> <<Skill("requirements"), Skill("architecture"), Skill("plan"), Call("implementation")>>
      [] n = "troubleshoot" -> <<Skill("diagnose"), Skill("fix-plan"), Call("implementation")>>
      [] n = "implementation" -> <<Skill("implement"), Action>>
      [] n = "comment response" -> <<Review("comment-response"), Action>>
      [] OTHER -> <<Review("code-review"), Action>>]

Present(defs) == {p \in Ids : defs[p] # NoRow}
Called(stages) == {stages[i].target : i \in {j \in 1 .. Len(stages) : stages[j].kind = "call"}}
Named(stages) == {i \in 1 .. Len(stages) : stages[i].kind \in {"skill", "review"}}
IndicesOf(stages, n) == {i \in Named(stages) : stages[i].name = n}

Unresolved == [kind |-> "error", name |-> "", target |-> ""]
\* the inner _expand: a call chain longer than the pipelines there are has one of them twice
Expand(defs) ==
    LET ex[n \in 0 .. Cardinality(Ids)] ==
            [p \in Ids |-> IF n = 0 \/ defs[p] = NoRow THEN <<Unresolved>>
                ELSE FoldLeft(LAMBDA acc, s : acc \o IF s.kind = "call" THEN ex[n - 1][s.target] ELSE <<s>>,
                             <<>>, defs[p].stages)]
    IN ex[Cardinality(Ids)]
Flatten(defs, p) == Expand(defs)[p]
Flattens(defs, p) ==
    LET f == Flatten(defs, p)
    IN /\ \A i \in 1 .. Len(f) : f[i] # Unresolved
       /\ \A i, j \in Named(f) : f[i].name = f[j].name => i = j

TransitiveCallers(p, defs) ==
    LET callers[n \in 0 .. Cardinality(Ids)] ==
            IF n = 0 THEN {c \in Present(defs) : p \in Called(defs[c].stages)}
            ELSE LET found == callers[n - 1]
                 IN found \cup {c \in Present(defs) : Called(defs[c].stages) \cap found # {}}
    IN callers[Cardinality(Ids)]
ValidDefinition(p, row, defs) ==
    LET candidates == [defs EXCEPT ![p] = row]
    IN \A q \in {p} \cup TransitiveCallers(p, candidates) : Flattens(candidates, q)

NameAvailable(name, exclude, defs) == \A p \in Present(defs) \ exclude : defs[p].name # name
ReferencedByCall(p, defs) == \E q \in Present(defs) \ {p} : p \in Called(defs[q].stages)
ReferencedByBinding(p) == \E b \in BindingIds : bindings[b] # NoRow /\ bindings[b].pipeline = p

-----------------------------------------------------------------------------
(* Definition CRUD and templates: the reads *)

Idle(q) == req[q] = NoRow
Open(q, r) == /\ req' = [req EXCEPT ![q] = r]
              /\ UNCHANGED <<pipelines, bindings, slot, tick, tickets, runs, finals>>
Row(name, stages) == [name |-> name, stages |-> stages]

CreatePipeline(q, p, name, stages) ==
    /\ "create" \in Ops /\ Idle(q)
    /\ ValidDefinition(p, Row(name, stages), pipelines)
    /\ NameAvailable(name, {}, pipelines)
    /\ Open(q, [op |-> "insert", rows |-> [x \in {p} |-> Row(name, stages)]])

UpdatePipeline(q, p, name, stages) ==
    /\ "update" \in Ops /\ Idle(q)
    /\ p \in Present(pipelines)
    /\ ValidDefinition(p, Row(name, stages), pipelines)
    /\ NameAvailable(name, {p}, pipelines)
    /\ Open(q, [op |-> "update", id |-> p, row |-> Row(name, stages)])

DeletePipeline(q, p) ==
    /\ "delete" \in Ops /\ Idle(q)
    /\ p \in Present(pipelines)
    /\ ~ReferencedByCall(p, pipelines) /\ ~ReferencedByBinding(p)
    /\ Open(q, [op |-> "delete", id |-> p])

\* the templates a deep copy of t has to create: t itself, and the callees the org lacks by name
ToCopy(t) == {t} \cup {c \in Called(Template[t]) : NameAvailable(c, {}, pipelines)}
OrgIdOf(c) == CHOOSE p \in Present(pipelines) : pipelines[p].name = c
MaterializeTemplate(t, at) ==
    [p \in Range(at) |-> LET c == CHOOSE x \in ToCopy(t) : at[x] = p
        IN Row(c, [i \in 1 .. Len(Template[c]) |-> IF Template[c][i].kind # "call" THEN Template[c][i]
                                                   ELSE Call(IF Template[c][i].target \in ToCopy(t)
                                                             THEN at[Template[c][i].target]
                                                             ELSE OrgIdOf(Template[c][i].target))])]
\* each copy goes through create_pipeline, callees first, in one transaction
InstantiateTemplate(q, t, at) ==
    LET rows == MaterializeTemplate(t, at)
        after == [p \in Ids |-> IF p \in DOMAIN rows THEN rows[p] ELSE pipelines[p]]
    IN /\ Idle(q) /\ IsInjective(at)
       /\ NameAvailable(t, {}, pipelines)
       /\ \A p \in DOMAIN rows : Flattens(after, p)
       /\ Open(q, [op |-> "insert", rows |-> rows])

-----------------------------------------------------------------------------
(* Definition CRUD: the flush and commit *)

NoBinding(p) == ~ReferencedByBinding(p)
Commit(q) == /\ req' = [req EXCEPT ![q] = NoRow] /\ UNCHANGED <<slot, tick, tickets, runs, finals>>
UniqueNames(defs) == \A p, r \in Present(defs) : defs[p].name = defs[r].name => p = r

\* an IntegrityError or StaleDataError fails the request and rolls it back
CommitInsert(q) ==
    LET r == req[q]
        after == [p \in Ids |-> IF p \in DOMAIN r.rows THEN r.rows[p] ELSE pipelines[p]]
    IN /\ r # NoRow /\ r.op = "insert"
       /\ pipelines' = IF DOMAIN r.rows \cap Present(pipelines) = {} /\ UniqueNames(after) THEN after ELSE pipelines
       /\ Commit(q) /\ UNCHANGED bindings

CommitUpdate(q) ==
    LET r == req[q]
        after == [pipelines EXCEPT ![r.id] = r.row]
    IN /\ r # NoRow /\ r.op = "update"
       /\ pipelines' = IF r.id \in Present(pipelines) /\ UniqueNames(after) THEN after ELSE pipelines
       /\ Commit(q) /\ UNCHANGED bindings

OnDelete_Cascade(p) == TRUE    \* mutant: the foreign key does not restrict
OnDelete(p) == NoBinding(p)
CommitDelete(q) ==
    LET r == req[q]
    IN /\ r # NoRow /\ r.op = "delete"
       /\ pipelines' = IF OnDelete(r.id) THEN [pipelines EXCEPT ![r.id] = NoRow] ELSE pipelines
       /\ Commit(q) /\ UNCHANGED bindings

-----------------------------------------------------------------------------
(* Trigger bindings *)

Binding(repo, p, period) == [repo |-> repo, pipeline |-> p, period |-> period]
\* period 0: a binding of a webhook intake point, whose schedule is null
SamePoint(b, repo) == bindings[b] # NoRow /\ bindings[b].repo = repo /\ bindings[b].period = 0

AddBinding(q, b, repo, p, period) ==
    /\ "bind" \in Ops /\ Idle(q)
    /\ bindings[b] = NoRow
    /\ p \in Present(pipelines)
    /\ period = 0 => \A c \in BindingIds : ~SamePoint(c, repo)
    /\ Open(q, [op |-> "bind", id |-> b, row |-> Binding(repo, p, period)])

PointIndex(r) == r.row.period = 0 => \A c \in BindingIds : ~SamePoint(c, r.row.repo)
CommitBinding(q) ==
    LET r == req[q]
    IN /\ r # NoRow /\ r.op = "bind"
       /\ bindings' = IF bindings[r.id] = NoRow /\ r.row.pipeline \in Present(pipelines) /\ PointIndex(r)
                      THEN [bindings EXCEPT ![r.id] = r.row] ELSE bindings
       /\ Commit(q) /\ UNCHANGED pipelines

RemoveBinding(b) ==
    /\ "unbind" \in Ops
    /\ bindings[b] # NoRow
    /\ bindings' = [bindings EXCEPT ![b] = NoRow]
    /\ UNCHANGED <<pipelines, req, slot, tick, tickets, runs, finals>>

-----------------------------------------------------------------------------
(* Starting runs *)

Startable(p) == p \in Present(pipelines) /\ Flattens(pipelines, p)
\* `from' is the stage a rerun starts at; `key' the firing that started the run
Run(p, from, key) == [pipeline |-> p, snapshot |-> Flatten(pipelines, p), index |-> from, state |-> "active", key |-> key]
NoKey == <<>>
InsertRun(r) == /\ Len(runs) < MaxRuns /\ runs' = Append(runs, r)
Rest == UNCHANGED <<pipelines, bindings, req, slot, tick, tickets>>
CurrentRun == runs[Len(runs)]     \* the run of the one ticket reruns are asked for on: tickets.current_run_id

StartRun(p) ==
    /\ "start" \in Ops
    /\ Startable(p) /\ runs = <<>> /\ InsertRun(Run(p, 1, NoKey))
    /\ Rest /\ UNCHANGED finals

\* external to this module: the engine stores the final artifacts of the first stages and ends the run
EndRun(upto, state) ==
    /\ "start" \in Ops
    /\ runs # <<>> /\ CurrentRun.state = "active"
    /\ upto \in (CurrentRun.index - 1) .. Len(CurrentRun.snapshot)
    /\ finals' = finals \cup {CurrentRun.snapshot[i].name :
                    i \in {j \in CurrentRun.index .. upto : CurrentRun.snapshot[j].kind = "skill"}}
    /\ runs' = [runs EXCEPT ![Len(runs)].state = state]
    /\ Rest

StartRerun ==
    /\ "rerun" \in Ops
    /\ runs # <<>> /\ CurrentRun.state = "failed"
    /\ Startable(CurrentRun.pipeline) /\ InsertRun(Run(CurrentRun.pipeline, 1, NoKey))
    /\ Rest /\ UNCHANGED finals

UpstreamSkills(stages, i) == {j \in 1 .. i - 1 : stages[j].kind = "skill"}
\* _nearest_upstream_skill_stage_resolvable
InputResolvable(stages, i) ==
    LET up == UpstreamSkills(stages, i) IN up = {} \/ \E j \in up : stages[j].name \in finals
RerunStages(p) == Flatten(pipelines, p)
StartRerunFromStage(name) ==
    /\ "rerun" \in Ops
    /\ runs # <<>> /\ CurrentRun.state # "active"
    /\ Startable(CurrentRun.pipeline)
    /\ \E i \in IndicesOf(RerunStages(CurrentRun.pipeline), name) :
          /\ InputResolvable(RerunStages(CurrentRun.pipeline), i)
          /\ InsertRun(Run(CurrentRun.pipeline, i, <<name>>))
    /\ Rest /\ UNCHANGED finals

\* engine._resolve_stage_input for the stage a run starts at; "" is the kickoff's input text
ResolveStageInput(r) ==
    LET found == {j \in UpstreamSkills(r.snapshot, r.index) : r.snapshot[j].name \in finals}
    IN IF found = {} THEN "" ELSE r.snapshot[CHOOSE j \in found : \A k \in found : k <= j].name

-----------------------------------------------------------------------------
(* The schedule tick *)

Due == {b \in BindingIds : bindings[b] # NoRow /\ bindings[b].period # 0 /\ slot % bindings[b].period = 0}

Minute == /\ "tick" \in Ops /\ slot < MaxSlot /\ slot' = slot + 1
          /\ UNCHANGED <<pipelines, bindings, req, tick, tickets, runs, finals>>

\* list_due_schedule_bindings; a redelivered tick reads again
ScheduleTick(w) ==
    /\ "tick" \in Ops
    /\ tick[w] = NoRow /\ Due # {}
    /\ tick' = [tick EXCEPT ![w] = [slot |-> slot, due |-> [b \in Due |-> bindings[b].pipeline]]]
    /\ UNCHANGED <<pipelines, bindings, req, slot, tickets, runs, finals>>

Drop(w, b) == tick' = [tick EXCEPT ![w] = IF DOMAIN @.due = {b} THEN NoRow ELSE [@ EXCEPT !.due = Restrict(@, DOMAIN @ \ {b})]]

\* _fire_one in its try: the ticket and the run are one transaction, and a firing that raises is skipped
Firing(w, b, key, p) ==
    /\ Drop(w, b)
    /\ IF key \notin tickets /\ Startable(p)
       THEN tickets' = tickets \cup {key} /\ InsertRun(Run(p, 1, key))
       ELSE UNCHANGED <<tickets, runs>>
    /\ UNCHANGED <<pipelines, bindings, req, slot, finals>>
FireOne(w, b) ==
    /\ tick[w] # NoRow /\ b \in DOMAIN tick[w].due
    /\ Firing(w, b, <<b, tick[w].slot>>, tick[w].due[b])

\* the worker dies between two firings
Crash(w) == /\ "crash" \in Ops /\ tick[w] # NoRow /\ tick' = [tick EXCEPT ![w] = NoRow]
            /\ UNCHANGED <<pipelines, bindings, req, slot, tickets, runs, finals>>

-----------------------------------------------------------------------------
Init == /\ pipelines = [p \in Ids |-> NoRow]
        /\ bindings = [b \in BindingIds |-> NoRow]
        /\ req = [q \in Requests |-> NoRow]
        /\ slot = 0
        /\ tick = [w \in Workers |-> NoRow]
        /\ tickets = {} /\ runs = <<>> /\ finals = {}

Next ==
    \/ \E q \in Requests, p \in Ids, n \in Names, s \in Bodies : CreatePipeline(q, p, n, s) \/ UpdatePipeline(q, p, n, s)
    \/ \E q \in Requests, p \in Ids : DeletePipeline(q, p)
    \/ \E q \in Requests, t \in Templates : \E at \in [ToCopy(t) -> Ids \ Present(pipelines)] :
            InstantiateTemplate(q, t, at)
    \/ \E q \in Requests : CommitInsert(q) \/ CommitUpdate(q) \/ CommitDelete(q) \/ CommitBinding(q)
    \/ \E q \in Requests, b \in BindingIds, r \in Repos, p \in Ids, k \in {0} \cup Periods : AddBinding(q, b, r, p, k)
    \/ \E b \in BindingIds : RemoveBinding(b)
    \/ \E p \in Ids : StartRun(p)
    \/ \E u \in 0 .. 2 * MaxStages, s \in {"failed", "completed"} : EndRun(u, s)
    \/ StartRerun
    \/ \E n \in StageNames : StartRerunFromStage(n)
    \/ Minute
    \/ \E w \in Workers : ScheduleTick(w) \/ Crash(w)
    \/ \E w \in Workers, b \in BindingIds : FireOne(w, b)

Spec == Init /\ [][Next]_vars

-----------------------------------------------------------------------------
(* Properties *)

IsRow(r) == r = NoRow \/ (r.name \in Names \cup Templates \cup DOMAIN Template /\ Len(r.stages) > 0)
\* The shape of the state: every pipeline has a stage (min_length=1), every pending write one of four kinds.
TypeOK ==
    /\ \A p \in Ids : IsRow(pipelines[p])
    /\ \A b \in BindingIds : bindings[b] = NoRow \/ bindings[b].period \in {0} \cup Periods
    /\ \A q \in Requests : req[q] = NoRow \/ req[q].op \in {"insert", "update", "delete", "bind"}
    /\ slot \in 0 .. MaxSlot /\ tickets \subseteq BindingIds \X (0 .. MaxSlot)
    /\ Len(runs) <= MaxRuns
    /\ \A i \in 1 .. Len(runs) : runs[i].index \in 1 .. Len(runs[i].snapshot) + 1

\* Whatever is edited in whatever order, every stored definition still flattens: validate_definition on
\* the edited pipeline and its transitive callers is enough to keep all of the org's pipelines startable.
AllFlatten == \A p \in Present(pipelines) : Flattens(pipelines, p)

\* No stored call points at a pipeline that is gone (delete_pipeline's pipeline_referenced_by_call).
NoDanglingCall == \A p \in Present(pipelines) : Called(pipelines[p].stages) \subseteq Present(pipelines)

\* A trigger binding always has its pipeline, even when the binding and the delete were checked against
\* the same state (repo_trigger_bindings.pipeline_id RESTRICT).
BindingsResolve == \A b \in BindingIds : bindings[b] # NoRow => bindings[b].pipeline \in Present(pipelines)

\* One repository's webhook point starts one pipeline, even when two requests bind it at once
\* (ux_bindings_point), so that one event is one run.
OneBindingPerPoint ==
    \A b, c \in BindingIds : SamePoint(b, bindings[b].repo) /\ SamePoint(c, bindings[b].repo) => b = c

\* Pipeline names stay unique in the org under concurrent creates and renames: a template reuses a callee
\* by its name (_materialize_template's org_by_name).
NamesIdentify == \A p, r \in Present(pipelines) : pipelines[p].name = pipelines[r].name => p = r

\* What a run has pinned is executable whatever editors race with its start: no call is left in it and a
\* stage name means one stage (start_run flattens again).
SnapshotsExecutable ==
    \A i \in 1 .. Len(runs) : LET s == runs[i].snapshot
        IN /\ \A j \in 1 .. Len(s) : s[j].kind \in {"skill", "review", "action"}
           /\ \A j, k \in Named(s) : s[j].name = s[k].name => j = k

\* A rerun from a stage starts at that stage of the definition as it is now, and finds an artifact to read
\* when a skill stage comes before it, although the pipeline was edited since the run it repeats.
RerunFindsItsInput ==
    \A i \in 1 .. Len(runs) : LET r == runs[i]
        IN Len(r.key) = 1 =>
              /\ r.index <= Len(r.snapshot) /\ r.snapshot[r.index].name = r.key[1]
              /\ UpstreamSkills(r.snapshot, r.index) # {} => ResolveStageInput(r) # ""

\* A schedule fires once for a minute, however many workers run the tick or run it again, and a ticket it
\* leaves behind always has its run (create_from_schedule and start_run in one transaction).
FiresOncePerSlot ==
    /\ \A i, j \in 1 .. Len(runs) : Len(runs[i].key) = 2 /\ runs[i].key = runs[j].key => i = j
    /\ \A k \in tickets : \E i \in 1 .. Len(runs) : runs[i].key = k

=============================================================================
