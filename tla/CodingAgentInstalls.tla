------------------------- MODULE CodingAgentInstalls -------------------------
(***************************************************************************)
(* core/coding_agent: which coding agents an org has installed.  Admins    *)
(* install, change settings and uninstall at the same time; the row's      *)
(* primary key, not the check before the insert, keeps installs single.    *)
(***************************************************************************)
EXTENDS Naturals, Sequences, SequencesExt, FiniteSets

CONSTANTS
  Admins,    \* people with CODING_AGENT_WRITE
  Plugins,   \* plugin ids in requests
  Known,     \* the plugins this process has registered
  Settings,  \* settings in requests; "bad" is one that validate_settings refuses
  MaxReq     \* bound: requests

InstallsAssumption == IsFiniteSet(Admins) /\ Known \subseteq Plugins /\ MaxReq \in Nat /\ "none" \notin Settings

VARIABLES
  installed,  \* installed[p]: the settings of the org's row, or "none"
  req,        \* req[a]: the request in progress, or its answer
  trail,      \* trail[p]: the plugin's audit rows and the settings they stand for
  asked       \* requests so far

vars == <<installed, req, trail, asked>>

-----------------------------------------------------------------------------
Request == [op : {"none", "install", "update", "uninstall"}, plugin : Plugins \cup {"none"}, settings : Settings \cup {"none"},
            open : BOOLEAN, answer : {0, 200, 404, 409, 422, 500}]
Audit   == [action : {"installed", "settings_updated", "uninstalled"}, settings : Settings \cup {"none"}]
NoReq   == [op |-> "none", plugin |-> "none", settings |-> "none", open |-> FALSE, answer |-> 0]

TypeOK ==
  /\ installed \in [Plugins -> Settings \cup {"none"}] /\ req \in [Admins -> Request]
  /\ trail \in [Plugins -> Seq(Audit)] /\ asked \in 0..MaxReq

Init ==
  /\ installed = [p \in Plugins |-> "none"] /\ req = [a \in Admins |-> NoReq]
  /\ trail = [p \in Plugins |-> <<>>] /\ asked = 0

Answered(a, op, p, code) == req' = [req EXCEPT ![a] = [op |-> op, plugin |-> p, settings |-> "none", open |-> FALSE, answer |-> code]]

Logged(p, action, s) == trail' = [trail EXCEPT ![p] = Append(@, [action |-> action, settings |-> s])]

\* The checks before the database: the plugin is registered, its settings valid.
Refused(p, s) == CASE p \notin Known -> 404 [] s = "bad" -> 422 [] OTHER -> 0

\* install_coding_agent and update_coding_agent_settings begin by looking.
Looks(a, op, p, s) ==
  LET found == installed[p] # "none" IN
  /\ ~req[a].open /\ asked < MaxReq /\ asked' = asked + 1
  /\ CASE Refused(p, s) # 0 -> Answered(a, op, p, Refused(p, s))
       [] op = "install" /\ found -> Answered(a, op, p, 409)
       [] op = "update" /\ ~found -> Answered(a, op, p, 404)
       [] OTHER -> req' = [req EXCEPT ![a] = [op |-> op, plugin |-> p, settings |-> s, open |-> TRUE, answer |-> 0]]
  /\ UNCHANGED <<installed, trail>>

\* The INSERT and its audit row; a row that came meanwhile is a key violation.
Inserts(a) ==
  LET q == req[a] IN
  /\ q.open /\ q.op = "install"
  /\ IF installed[q.plugin] = "none"
     THEN /\ installed' = [installed EXCEPT ![q.plugin] = q.settings]
          /\ Logged(q.plugin, "installed", q.settings) /\ Answered(a, "install", q.plugin, 200)
     ELSE Answered(a, "install", q.plugin, 500) /\ UNCHANGED <<installed, trail>>
  /\ UNCHANGED asked

\* The UPDATE, the refresh and the audit row; a row gone meanwhile fails both.
Updates(a) ==
  LET q == req[a] IN
  /\ q.open /\ q.op = "update"
  /\ IF installed[q.plugin] # "none"
     THEN /\ installed' = [installed EXCEPT ![q.plugin] = q.settings]
          /\ Logged(q.plugin, "settings_updated", q.settings) /\ Answered(a, "update", q.plugin, 200)
     ELSE Answered(a, "update", q.plugin, 500) /\ UNCHANGED <<installed, trail>>
  /\ UNCHANGED asked

\* One DELETE; it is audited when it removed a row.
Uninstall(a, p) ==
  /\ ~req[a].open /\ asked < MaxReq /\ asked' = asked + 1
  /\ installed' = [installed EXCEPT ![p] = "none"]
  /\ IF installed[p] # "none" THEN Logged(p, "uninstalled", "none") /\ Answered(a, "uninstall", p, 200)
     ELSE Answered(a, "uninstall", p, 404) /\ UNCHANGED trail

-----------------------------------------------------------------------------
Next == \E a \in Admins :
  \/ \E op \in {"install", "update"}, p \in Plugins, s \in Settings : Looks(a, op, p, s)
  \/ Inserts(a) \/ Updates(a)
  \/ \E p \in Plugins : Uninstall(a, p)

Spec == Init /\ [][Next]_vars

-----------------------------------------------------------------------------
\* The audit rows of a plugin are the truth about its install, with any number
\* of admins: nothing is changed or removed that was not installed, nothing
\* installed twice, and the row holds the settings of the last audit row.
TrailIsTruth ==
  \A p \in Plugins :
    /\ \A i \in DOMAIN trail[p] :
         (trail[p][i].action = "installed") <=> (i = 1 \/ trail[p][i - 1].action = "uninstalled")
    /\ installed[p] = IF trail[p] = <<>> THEN "none" ELSE Last(trail[p]).settings

\* Whoever installs what is already installed hears 409, never a server error
\* (CodingAgentAlreadyInstalledError).
DuplicateIs409 == \A a \in Admins : req[a].op = "install" => req[a].answer # 500
=============================================================================
