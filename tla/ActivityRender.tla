----------------------------- MODULE ActivityRender -----------------------------
(***************************************************************************)
(* How the two coding-agent plugins read the CLI's stdout: one line becomes *)
(* at most one activity frame, a whole stdout becomes the persisted log,    *)
(* its usage and its output (plugins/claude_code/service.py and             *)
(* plugins/codex/service.py).  The text of a line is abstracted to its      *)
(* event type, its content blocks and the fields of a tool call's input.    *)
(***************************************************************************)
EXTENDS Naturals, FiniteSets, Sequences

Kinds == {"session_start", "subagent_dispatched", "tool_call_started", "assistant_message",
          "tool_call_finished", "result"}

\* Fields of a tool's input that hold the customer's source.
SourceFields == {"content", "new_string"}

ToolUse(tool, inp) == [b |-> "tool_use", tool |-> tool, inp |-> inp]
Text == [b |-> "text", tool |-> "", inp |-> {}]
BlankText == [b |-> "blank", tool |-> "", inp |-> {}]
ToolResult == [b |-> "tool_result", tool |-> "", inp |-> {}]

Line(type, blocks) == [type |-> type, blocks |-> blocks]

\* Lines `claude --output-format=stream-json` prints, noise included.
ClaudeLines ==
    {Line("noise", <<>>), Line("init", <<>>), Line("result", <<>>),
     Line("assistant", <<BlankText, ToolUse("Edit", {"file_path", "content", "new_string"})>>),
     Line("assistant", <<Text, ToolUse("Bash", {"command"})>>),
     Line("assistant", <<ToolUse("Task", {"subagent_type", "description"})>>),
     Line("assistant", <<ToolUse("Custom", {"content"})>>),
     Line("user", <<ToolResult>>)}

\* Lines `codex exec` prints.
CodexLines ==
    {Line("noise", <<>>), Line("turn.started", <<>>), Line("turn.completed", <<>>),
     Line("turn.failed", <<>>),
     Line("item.created", <<ToolUse("write_file", {"path", "content"})>>),
     Line("item.created", <<ToolUse("custom", {"content"})>>),
     Line("item.created", <<Text>>),
     Line("item.completed", <<ToolUse("write_file", {"path", "content"})>>),
     Line("item.completed", <<Text>>), Line("item.completed", <<BlankText>>)}

LinesOf(p) == IF p = "codex" THEN CodexLines ELSE ClaudeLines

Frame(kind, kept) == [kind |-> kind, kept |-> kept]
NoFrame == Frame("none", {})

--------------------------------------------------------------------------------
\* plugins/claude_code.

ContentBearingTools == {"Edit", "MultiEdit", "Write", "NotebookEdit"}

SafeToolInput(tool, inp) ==
    CASE tool \in ContentBearingTools -> inp \cap {"file_path", "path"}
      [] tool \in {"Read", "Glob", "LS", "NotebookRead"} -> inp \cap {"file_path", "path", "pattern"}
      [] tool = "Bash" -> inp \cap {"command"}
      [] tool = "Grep" -> inp \cap {"pattern", "path"}
      [] tool = "WebFetch" -> inp \cap {"url"}
      [] tool = "WebSearch" -> inp \cap {"query"}
      [] OTHER -> {}

RenderActivity(line) ==
    LET turn == SelectSeq(line.blocks, LAMBDA k : k.b \in {"tool_use", "text"})
        back == SelectSeq(line.blocks, LAMBDA k : k.b = "tool_result")
    IN CASE line.type = "init" -> Frame("session_start", {})
         [] line.type = "assistant" /\ turn # <<>> ->
              IF turn[1].b = "text" THEN Frame("assistant_message", {})
              ELSE IF turn[1].tool = "Task" THEN Frame("subagent_dispatched", turn[1].inp)
              ELSE Frame("tool_call_started", SafeToolInput(turn[1].tool, turn[1].inp))
         [] line.type = "user" /\ back # <<>> -> Frame("tool_call_finished", {})
         [] line.type = "result" -> Frame("result", {})
         [] OTHER -> NoFrame

--------------------------------------------------------------------------------
\* plugins/codex.

\* The first of these fields that is present is the one that is kept.
SafeCodexToolInput(inp) ==
    CASE "path" \in inp -> {"path"} [] "command" \in inp -> {"command"}
      [] "query" \in inp -> {"query"} [] "url" \in inp -> {"url"} [] OTHER -> {}

RenderActivityCodex(line) ==
    LET item == IF line.blocks = <<>> THEN BlankText ELSE line.blocks[1]
    IN CASE line.type = "turn.started" -> Frame("session_start", {})
         [] line.type = "item.created" /\ item.b = "tool_use" ->
              Frame("tool_call_started", SafeCodexToolInput(item.inp))
         [] line.type = "item.completed" /\ item.b = "text" -> Frame("assistant_message", {})
         [] line.type = "item.completed" /\ item.b = "tool_use" -> Frame("tool_call_finished", {})
         [] line.type = "turn.completed" -> Frame("result", {})
         [] line.type \in {"turn.failed", "error"} -> Frame("result", {})
         [] OTHER -> NoFrame

--------------------------------------------------------------------------------
\* Both.

ParseActivityLine(p, line) == IF p = "codex" THEN RenderActivityCodex(line) ELSE RenderActivity(line)

\* _parse_stream_events, _parse_jsonl_events: unparseable lines are skipped.
ParseEvents(stdout) == SelectSeq(stdout, LAMBDA l : l.type # "noise")

\* The persisted log: null renders dropped, seq from 0 without gaps.
RenderActivityLog(p, stdout) ==
    LET ev == SelectSeq(ParseEvents(stdout), LAMBDA l : ParseActivityLine(p, l) # NoFrame)
    IN [i \in 1..Len(ev) |-> [seq |-> i - 1, frame |-> ParseActivityLine(p, ev[i])]]

\* Whether a stdout reports usage: claude's last result, codex's first turn.completed.
ParseUsage(p, stdout) ==
    \E i \in DOMAIN stdout : stdout[i].type = (IF p = "codex" THEN "turn.completed" ELSE "result")

\* Whether there is a structured answer: claude's last result event, codex's
\* last assistant message with text.
ParseOutput(p, stdout) ==
    \E i \in DOMAIN stdout :
        IF p = "codex" THEN stdout[i].type = "item.completed" /\ stdout[i].blocks[1].b = "text"
        ELSE stdout[i].type = "result"

ParseResult(p, stdout) ==
    [activity |-> RenderActivityLog(p, stdout), usage |-> ParseUsage(p, stdout),
     output |-> ParseOutput(p, stdout)]
================================================================================
