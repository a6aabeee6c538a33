----------------------------- MODULE TaskQueue -----------------------------
(***************************************************************************)
(* What core/tasks promises its callers: a task exists from the moment the *)
(* transaction that enqueued it commits, its body runs only after that,    *)
(* and it runs to its end at least once.                                   *)
(***************************************************************************)
CONSTANT Ids

VARIABLES jobs,   \* tasks that are durable
          ran     \* tasks whose body ran to its end

qvars == <<jobs, ran>>

QInit == jobs = {} /\ ran = {}

Commit == \E J \in SUBSET (Ids \ jobs) : J # {} /\ jobs' = jobs \cup J /\ ran' = ran

Run(t) == t \in jobs \ ran /\ ran' = ran \cup {t} /\ jobs' = jobs

\* A body commits a follow-up task as it ends.
RunAndCommit == \E t \in Ids, u \in Ids \ jobs :
  t \in jobs /\ ran' = ran \cup {t} /\ jobs' = jobs \cup {u}

QNext == RunAndCommit \/ Commit \/ \E t \in Ids : Run(t)

\* No body runs for a task that nobody committed, and no task is forgotten.
QSafety == QInit /\ [][QNext]_qvars

\* ... and every durable task runs.
QSpec == QSafety /\ \A t \in Ids : WF_qvars(Run(t))
=============================================================================
