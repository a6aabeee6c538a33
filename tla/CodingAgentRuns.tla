---------------------------- MODULE CodingAgentRuns ----------------------------
(***************************************************************************)
(* The bookkeeping of coding-agent executions: a run row per invocation     *)
(* (core/coding_agent/run_service.py), finalized by the run sink on the     *)
(* terminal event that agent_gateway records (run_sink_impl.py), the live   *)
(* frames of progress events, and the weekly partitions that hold the       *)
(* activity logs (core/database/service.py).                                *)
(***************************************************************************)
EXTENDS ActivityRender

CONSTANTS
    Stages,     \* stage executions
    Cmds,       \* agent commands, one per invocation
    Plugins,    \* coding-agent plugins the engine may use: "claude_code", "codex"
    Registered, \* the plugins the web process has registered
    MaxLines,   \* stdout lines per invocation (bound)
    MaxPosts,   \* posts of a terminal event (bound)
    MaxWeek,    \* weeks that pass (bound)
    MaxMissed,  \* weeks in a row the maintenance task may be missed
    YearLen,    \* ISO weeks in a year (small, so that a year ends within MaxWeek)
    Ops         \* "lossy", "loss", "review", "calendar", "keys"

RunsAssumption ==
    /\ Plugins \subseteq {"claude_code", "codex"} /\ Registered \subseteq Plugins
    /\ MaxLines \in Nat /\ MaxPosts \in Nat \ {0} /\ MaxWeek \in Nat
    /\ MaxMissed \in Nat /\ YearLen \in Nat \ {0}
    /\ Ops \subseteq {"lossy", "loss", "review", "calendar", "keys"}

VARIABLES
    cmds,    \* agent commands: stage, plugin, progress, the CLI's stdout so far
    runs,    \* coding_agent_runs: one row per command
    acts,    \* coding_agent_activity rows
    live,    \* frames published on the workspace-activity channel: stdout index, frame
    told,    \* terminal outcomes enqueued for the engine, oldest first
    parts,   \* weeks that have a partition
    week, ran, \* the current week; the last week the maintenance ran
    key,     \* whether the org has an OpenAI key
    reads    \* what the Activity tab of a stage last got

vars == <<cmds, runs, acts, live, told, parts, week, ran, key, reads>>
Calendar == <<parts, week, ran>>

NoRow == [absent |-> TRUE]

\* Types.
TypeOK ==
    /\ \A c \in Cmds :
        /\ cmds[c] # NoRow =>
            /\ cmds[c].stage \in Stages /\ cmds[c].plugin \in Plugins
            /\ cmds[c].status \in {"open", "done"} /\ cmds[c].agent \in {"up", "dead"}
            /\ cmds[c].exit \in {"none", "success", "failure"} /\ cmds[c].posts \in 0..MaxPosts
            /\ \A i \in DOMAIN cmds[c].stdout : cmds[c].stdout[i] \in LinesOf(cmds[c].plugin)
        /\ (runs[c] # NoRow) = (cmds[c] # NoRow)
        /\ runs[c] # NoRow => runs[c].status \in {"running", "success", "failure"}
    /\ \A a \in acts :
        /\ a.cmd \in Cmds /\ a.week \in parts
        /\ \A i \in DOMAIN a.log : a.log[i].seq = i - 1 /\ a.log[i].frame.kind \in Kinds
    /\ parts \subseteq 0..(MaxWeek + 2) /\ week \in 0..MaxWeek /\ ran \in 0..MaxWeek
    /\ key \in BOOLEAN /\ reads \in [Stages -> {"unread", "none", "log", "raised"}]

Init ==
    /\ cmds = [c \in Cmds |-> NoRow] /\ runs = [c \in Cmds |-> NoRow]
    /\ acts = {} /\ live = [c \in Cmds |-> <<>>] /\ told = [c \in Cmds |-> <<>>]
    /\ week = 0 /\ ran = 0 /\ parts = 0..2      \* migrate() runs the maintenance
    /\ key \in BOOLEAN
    /\ reads = [x \in Stages |-> "unread"]

--------------------------------------------------------------------------------
\* Dispatch.

CmdsOf(x) == {c \in Cmds : cmds[c] # NoRow /\ cmds[c].stage = x}

\* create_run, in the transaction of the dispatch.
CreateRun(c, p) == runs' = [runs EXCEPT ![c] = [plugin |-> p, status |-> "running", usage |-> FALSE]]

\* build_command: codex refuses without an org-level OpenAI key.
CredentialAvailable(p) == p = "codex" => key

\* dispatch_invocation; the engine sends a stage's next invocation (a review, a
\* fix) when the one before it has been answered.
DispatchInvocation(x, p, c) ==
    /\ cmds[c] = NoRow /\ CredentialAvailable(p)
    /\ CmdsOf(x) # {} => "review" \in Ops
    /\ \A d \in CmdsOf(x) : told[d] # <<>> /\ told[d][1] = "success"
    /\ cmds' = [cmds EXCEPT ![c] = [stage |-> x, plugin |-> p, status |-> "open", agent |-> "up",
                                    exit |-> "none", posts |-> 0, stdout |-> <<>>]]
    /\ CreateRun(c, p)
    /\ UNCHANGED <<acts, live, told, Calendar, key, reads>>

\* The org's key is added or removed.
ChangeKey ==
    /\ "keys" \in Ops
    /\ key' = ~key /\ UNCHANGED <<cmds, runs, acts, live, told, Calendar, reads>>

--------------------------------------------------------------------------------
\* The agent, and what agent_gateway does with its events.

Working(c) == cmds[c] # NoRow /\ cmds[c].agent = "up" /\ cmds[c].exit = "none"

\* handle_progress_event: the newest line, rendered by the plugin of the run row.
HandleProgressEvent(c, stdout) ==
    LET f == ParseActivityLine(runs[c].plugin, stdout[Len(stdout)])
    IN live' = IF runs[c].plugin \notin Registered \/ f = NoFrame THEN live
               ELSE [live EXCEPT ![c] = Append(@, [at |-> Len(stdout), frame |-> f])]

\* The CLI prints a line; its progress event may be lost.
EmitLine(c, line) ==
    /\ Working(c) /\ Len(cmds[c].stdout) < MaxLines /\ line \in LinesOf(cmds[c].plugin)
    /\ cmds' = [cmds EXCEPT ![c].stdout = Append(@, line)]
    /\ \/ HandleProgressEvent(c, cmds'[c].stdout)
       \/ "lossy" \in Ops /\ live' = live
    /\ UNCHANGED <<runs, acts, told, Calendar, key, reads>>

\* The CLI ends, at the latest at its wallclock limit.
Exit(c, outcome) ==
    /\ Working(c) /\ cmds' = [cmds EXCEPT ![c].exit = outcome]
    /\ UNCHANGED <<runs, acts, live, told, Calendar, key, reads>>

\* finalize_run: the row's terminal fields, and one more activity row.
FinalizeRun(c) ==
    LET r == ParseResult(runs[c].plugin, cmds[c].stdout)
    IN /\ runs' = [runs EXCEPT ![c] = [@ EXCEPT !.status = cmds[c].exit, !.usage = r.usage]]
       /\ acts' = acts \cup {[cmd |-> c, week |-> week, nth |-> cmds[c].posts, log |-> r.activity]}

\* handle_terminal_event: without the plugin the row stays as it is.
HandleTerminalEvent(c) ==
    IF runs[c].plugin \in Registered THEN FinalizeRun(c) ELSE UNCHANGED <<runs, acts>>

\* record_agent_event, the terminal part.  retire_command sets `done` and does
\* not ask what the status was; an insert without a partition for the week
\* fails the transaction, and the agent posts again.
RecordTerminal(c) ==
    /\ cmds[c] # NoRow /\ cmds[c].exit # "none" /\ cmds[c].agent = "up"
    /\ cmds[c].posts < MaxPosts
    /\ runs[c].plugin \in Registered => week \in parts
    /\ cmds' = [cmds EXCEPT ![c].status = "done", ![c].posts = @ + 1]
    /\ HandleTerminalEvent(c)
    /\ told' = [told EXCEPT ![c] = Append(@, cmds[c].exit)]
    /\ UNCHANGED <<live, Calendar, key, reads>>

\* failsafe_agent_loss: a failure is synthesized for the engine; neither the
\* command nor the run row is touched.  The agent may really be gone.
FailsafeAgentLoss(c) ==
    /\ "loss" \in Ops
    /\ cmds[c] # NoRow /\ cmds[c].status = "open" /\ told[c] = <<>>
    /\ told' = [told EXCEPT ![c] = Append(@, "failure")]
    /\ \E a \in {"up", "dead"} : cmds' = [cmds EXCEPT ![c].agent = a]
    /\ UNCHANGED <<runs, acts, live, Calendar, key, reads>>

--------------------------------------------------------------------------------
\* The partitions of coding_agent_activity.

\* The pYYYYWW suffix as a number.
WeekKey(w) == (w \div YearLen) * 100 + (w % YearLen) + 1

\* The key of the week four weeks before (0 when the calendar starts later).
CutoffKey(w) == IF w < 4 THEN 0 ELSE WeekKey(w - 4)

\* The current week and the next two.
Window(w) == w..(w + 2)

\* maintain_coding_agent_activity_partitions.
MaintainPartitions ==
    /\ ran < week
    /\ LET kept == {w \in parts \cup Window(week) : WeekKey(w) >= CutoffKey(week)}
       IN parts' = kept /\ acts' = {a \in acts : a.week \in kept}
    /\ ran' = week
    /\ UNCHANGED <<cmds, runs, live, told, week, key, reads>>

\* A week passes; the daily task was missed for at most MaxMissed weeks in a row.
NextWeek ==
    /\ "calendar" \in Ops /\ week < MaxWeek /\ week - ran <= MaxMissed
    /\ week' = week + 1
    /\ UNCHANGED <<cmds, runs, acts, live, told, parts, ran, key, reads>>

--------------------------------------------------------------------------------
\* The Activity tab.

RunsOf(x) == {c \in Cmds : runs[c] # NoRow /\ cmds[c].stage = x}

\* get_stage_activity: one_or_none() over the stage's run rows, then over the
\* run's activity rows; more than one row raises.
StageActivity(x) ==
    LET rows == {a \in acts : a.cmd \in RunsOf(x)}
    IN CASE RunsOf(x) = {} -> "none"
         [] Cardinality(RunsOf(x)) > 1 -> "raised"
         [] Cardinality(rows) = 0 -> "none"
         [] Cardinality(rows) > 1 -> "raised"
         [] OTHER -> "log"

GetStageActivity(x) ==
    /\ reads[x] # StageActivity(x)
    /\ reads' = [reads EXCEPT ![x] = StageActivity(x)]
    /\ UNCHANGED <<cmds, runs, acts, live, told, Calendar, key>>

--------------------------------------------------------------------------------
Next ==
    \/ \E x \in Stages, p \in Plugins, c \in Cmds : DispatchInvocation(x, p, c)
    \/ ChangeKey
    \/ \E c \in Cmds, l \in ClaudeLines \cup CodexLines : EmitLine(c, l)
    \/ \E c \in Cmds, o \in {"success", "failure"} : Exit(c, o)
    \/ \E c \in Cmds : RecordTerminal(c)
    \/ \E c \in Cmds : FailsafeAgentLoss(c)
    \/ MaintainPartitions
    \/ NextWeek
    \/ \E x \in Stages : GetStageActivity(x)

Spec == Init /\ [][Next]_vars

--------------------------------------------------------------------------------
\* Properties.

\* What a watcher saw live is what the log says at that place: the frame of
\* stdout line i is the log's entry whose seq is the number of rendered lines
\* before i (parse_activity_line, _render_activity_log).
LiveIsPersisted ==
    \A a \in acts : \A j \in DOMAIN live[a.cmd] :
        LET shown  == live[a.cmd][j]
            before == {i \in 1..(shown.at - 1) :
                           ParseActivityLine(cmds[a.cmd].plugin, cmds[a.cmd].stdout[i]) # NoFrame}
        IN \E k \in DOMAIN a.log :
              a.log[k].seq = Cardinality(before) /\ a.log[k].frame = shown.frame

\* Neither a live frame nor a persisted one carries a field that holds source
\* (_safe_tool_input, _safe_codex_tool_input).
SourceStaysInside ==
    /\ \A c \in Cmds : \A j \in DOMAIN live[c] : live[c][j].frame.kept \cap SourceFields = {}
    /\ \A a \in acts : \A k \in DOMAIN a.log : a.log[k].frame.kept \cap SourceFields = {}

\* There is a partition for the activity of a run that ends now, as long as the
\* daily task was not missed for more than MaxMissed weeks.
PartitionReady == week \in parts

\* Whatever the maintenance drops is older than four weeks.
KeptForRetention == \A a \in acts : a \notin acts' => a.week + 4 < week

\* One activity row per run (CodingAgentActivityRow: "Row count: one per run").
OneActivityPerRun == \A a, b \in acts : a.cmd = b.cmd => a = b

\* The Activity tab gets a log or nothing, never an error.
ActivityReadable == \A x \in Stages : reads[x] # "raised"

================================================================================
