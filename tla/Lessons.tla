------------------------------- MODULE Lessons -------------------------------
(***************************************************************************)
(* domain/lessons: a lesson is created, edited in place and deleted by     *)
(* several people at once.  There is no version table: the audit rows are  *)
(* the lesson's history.  An edit reads the row, validates, writes the     *)
(* columns that changed and answers with a second read.                    *)
(***************************************************************************)
EXTENDS Naturals, Sequences, SequencesExt, FiniteSets

CONSTANTS
  Editors,   \* people with LESSONS_WRITE
  Titles,    \* titles they type; "blank" is one that _validate refuses
  Bodies,    \* bodies they type; "blank" as above
  MaxReq     \* bound: requests

LessonsAssumption == IsFiniteSet(Editors) /\ MaxReq \in Nat /\ "same" \notin Titles \cup Bodies

VARIABLES
  lesson,   \* the row: absent, live or deleted
  req,      \* req[e]: the request in progress, with what it read, or its answer
  history,  \* the lesson's audit rows, oldest first, and the values they stand for
  asked     \* requests so far

vars == <<lesson, req, history, asked>>

-----------------------------------------------------------------------------
Row     == [state : {"absent", "live", "deleted"}, title : Titles \cup {"none"}, body : Bodies \cup {"none"}]
Ops     == {"none", "create", "update", "delete"}
Request == [op : Ops, step : {"idle", "found", "read", "written"}, title : Titles \cup {"same"}, body : Bodies \cup {"same"},
            saw : Row, answer : {0, 200, 400, 404, 500}]
\* fields: fields_changed; prior and new: the two body hashes; title: what a title edit wrote.
Entry   == [action : {"created", "updated", "deleted"}, fields : SUBSET {"title", "body"},
            prior : Bodies \cup {"none"}, new : Bodies \cup {"none"}, title : Titles \cup {"none"}]

NoLesson == [state |-> "absent", title |-> "none", body |-> "none"]
NoReq    == [op |-> "none", step |-> "idle", title |-> "same", body |-> "same", saw |-> NoLesson, answer |-> 0]

TypeOK == lesson \in Row /\ req \in [Editors -> Request] /\ history \in Seq(Entry) /\ asked \in 0..MaxReq

Init == lesson = NoLesson /\ req = [e \in Editors |-> NoReq] /\ history = <<>> /\ asked = 0

Begins(e) == req[e].step = "idle" /\ asked < MaxReq /\ asked' = asked + 1

Answer(e, op, code) == req' = [req EXCEPT ![e] = [NoReq EXCEPT !.op = op, !.answer = code]]

\* _validate: both are there and not blank (the length caps are a kind of blank).
Validate(title, body) == title # "blank" /\ body # "blank"

-----------------------------------------------------------------------------
Create(e, title, body) ==
  /\ Begins(e) /\ lesson.state = "absent"
  /\ IF Validate(title, body)
     THEN /\ lesson' = [state |-> "live", title |-> title, body |-> body]
          /\ history' = Append(history, [action |-> "created", fields |-> {}, prior |-> "none", new |-> body, title |-> title])
          /\ req' = [req EXCEPT ![e] = [NoReq EXCEPT !.op = "create", !.step = "written"]]
     ELSE Answer(e, "create", 400) /\ UNCHANGED <<lesson, history>>

Given(new, old) == IF new = "same" THEN old ELSE new

\* update: reads the row, validates what the lesson would become.
UpdateReads(e, title, body) ==
  /\ Begins(e) /\ lesson.state # "absent"
  /\ CASE lesson.state = "deleted" -> Answer(e, "update", 404)
       [] ~Validate(Given(title, lesson.title), Given(body, lesson.body)) -> Answer(e, "update", 400)
       [] OTHER -> req' = [req EXCEPT ![e] = [op |-> "update", step |-> "read", title |-> title, body |-> body,
                                              saw |-> lesson, answer |-> 0]]
  /\ UNCHANGED <<lesson, history>>

\* fields_changed, against the row that was read.
Changed(q) == (IF Given(q.title, q.saw.title) # q.saw.title THEN {"title"} ELSE {})
              \cup (IF Given(q.body, q.saw.body) # q.saw.body THEN {"body"} ELSE {})

UpdateEntry(q) ==
  [action |-> "updated", fields |-> Changed(q), prior |-> q.saw.body, new |-> Given(q.body, q.saw.body),
   title |-> Given(q.title, q.saw.title)]

UpdateWrites_WholeRow(e) ==
  LET q == req[e] IN
  /\ q.op = "update" /\ q.step = "read"
  /\ IF lesson.state = "deleted" THEN Answer(e, "update", 500) /\ UNCHANGED <<lesson, history>>
     ELSE /\ lesson' = [lesson EXCEPT !.title = Given(q.title, q.saw.title), !.body = Given(q.body, q.saw.body)]
          /\ history' = IF Changed(q) = {} THEN history ELSE Append(history, UpdateEntry(q))
          /\ req' = [req EXCEPT ![e].step = "written"]
  /\ UNCHANGED asked

\* The UPDATE sets the columns that changed; it fails when the row is gone.
\* Nothing changed: nothing is written or audited.
UpdateWrites(e) ==
  LET q == req[e] IN
  /\ q.op = "update" /\ q.step = "read"
  /\ IF Changed(q) # {} /\ lesson.state = "deleted"
     THEN Answer(e, "update", 500) /\ UNCHANGED <<lesson, history>>
     ELSE /\ lesson' = [lesson EXCEPT !.title = IF "title" \in Changed(q) THEN q.title ELSE @,
                                      !.body = IF "body" \in Changed(q) THEN q.body ELSE @]
          /\ history' = IF Changed(q) = {} THEN history ELSE Append(history, UpdateEntry(q))
          /\ req' = [req EXCEPT ![e].step = "written"]
  /\ UNCHANGED asked

\* create and update answer with a get of their own; create_lesson does not
\* catch LessonNotFoundError.
Returns(e) ==
  /\ req[e].step = "written"
  /\ Answer(e, req[e].op, CASE lesson.state = "live" -> 200 [] req[e].op = "update" -> 404 [] OTHER -> 500)
  /\ UNCHANGED <<lesson, history, asked>>

\* delete_lesson begins with a get.
DeleteGets(e) ==
  /\ Begins(e) /\ lesson.state # "absent"
  /\ IF lesson.state = "deleted" THEN Answer(e, "delete", 404)
     ELSE req' = [req EXCEPT ![e] = [NoReq EXCEPT !.op = "delete", !.step = "found"]]
  /\ UNCHANGED <<lesson, history>>

\* delete reads the row again: gone meanwhile, it does nothing.
DeleteReads(e) ==
  /\ req[e].step = "found"
  /\ IF lesson.state = "deleted" THEN Answer(e, "delete", 200)
     ELSE req' = [req EXCEPT ![e].step = "read", ![e].saw = lesson]
  /\ UNCHANGED <<lesson, history, asked>>

\* The DELETE and its audit row, whether or not a row was left to delete.
DeleteWrites(e) ==
  /\ req[e].op = "delete" /\ req[e].step = "read"
  /\ lesson' = [lesson EXCEPT !.state = "deleted"]
  /\ history' = Append(history, [action |-> "deleted", fields |-> {}, prior |-> req[e].saw.body, new |-> "none", title |-> "none"])
  /\ Answer(e, "delete", 200)
  /\ UNCHANGED asked

-----------------------------------------------------------------------------
Next == \E e \in Editors :
  \/ \E t \in Titles, b \in Bodies : Create(e, t, b)
  \/ \E t \in Titles \cup {"same"}, b \in Bodies \cup {"same"} : UpdateReads(e, t, b)
  \/ UpdateWrites(e) \/ Returns(e) \/ DeleteGets(e) \/ DeleteReads(e) \/ DeleteWrites(e)

Spec == Init /\ [][Next]_vars

-----------------------------------------------------------------------------
\* The audit rows are the lesson's history: created first, each later row
\* starts from the body the one before left, deleted once and last, and the
\* row is what the last one says.
HistoryIsAudit ==
  /\ \A i \in DOMAIN history : (history[i].action = "created") <=> (i = 1)
  /\ \A i \in 2..Len(history) : history[i].prior = history[i - 1].new
  /\ lesson.state = "live" => history # <<>> /\ lesson.body = Last(history).new
  /\ lesson.state = "deleted" => Last(history).action = "deleted"

\* Two edits of different fields both stay, however their reads and writes
\* interleave: the row holds, of each field, what the last audit row that
\* names the field wrote.
EditsStay ==
  LET wrote(f) == SelectSeq(history, LAMBDA h : h.action = "created" \/ f \in h.fields) IN
  lesson.state = "live" => /\ lesson.title = Last(wrote("title")).title
                           /\ lesson.body = Last(wrote("body")).new

\* A lesson that is there has a title and a body, although an edit of one
\* field is validated with a copy of the other (_validate).
NeverBlank == lesson.state = "live" => lesson.title # "blank" /\ lesson.body # "blank"
=============================================================================
