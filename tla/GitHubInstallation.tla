---------------------------- MODULE GitHubInstallation ----------------------------
(***************************************************************************)
(* How a GitHub App installation is bound to an org: the signed install     *)
(* handshake (plugins/github/web.py), the installation.* webhooks           *)
(* (plugins/github/intake_type.py, service.py), and the org's choice of VCS *)
(* (domain/orgs/vcs.py over core/tenancy).                                  *)
(*                                                                          *)
(* The callback and a webhook each take several transactions, and both write*)
(* the one row an installation has.                                         *)
(***************************************************************************)
EXTENDS Naturals, Sequences, FiniteSets

CONSTANTS
    Orgs,        \* the orgs
    DefaultOrg,  \* DEFAULT_ORG_ID, the org of an installation nobody knows
    Installs,    \* GitHub's installation ids
    Calls,       \* install handshakes (bound)
    MaxHooks,    \* installation.* deliveries GitHub makes (bound)
    Ops          \* what may happen: see the guards

InstallAssumption ==
    /\ DefaultOrg \in Orgs
    /\ MaxHooks \in Nat
    /\ Ops \subseteq {"hooks", "suspend", "permissions", "delete", "reconfigure", "pick",
                      "clear", "expire", "crash", "ordered"}

VARIABLES
    github,   \* GitHub's own state of each installation
    rows,     \* github_app_installations, one row per installation at most
    vcs,      \* orgs.vcs_plugin_id and vcs_settings
    calls,    \* the handshakes: the signed state, then the callback's progress
    hooks,    \* the deliveries GitHub has made, and each one's progress
    links,    \* how many github_app_installation_linked audits an installation has
    binds,    \* how many times a row was inserted for it
    cleared   \* the orgs whose last VCS change was a Remove

vars == <<github, rows, vcs, calls, hooks, links, binds, cleared>>

NoRow == [absent |-> TRUE]
NoVcs == [plugin |-> "none", inst |-> {}]
Activating == {"created", "new_permissions_accepted", "unsuspend"}
Deactivating == {"deleted", "suspend"}

\* account_login is the empty string until somebody learns it.
InstallRow == [org : Orgs, account_login : {"", "login"}, status : {"active", "suspended", "uninstalled"}]
VcsState == [plugin : {"none", "github"}, inst : SUBSET Installs]
NoCall == [pc |-> "idle"]
Call == [pc : {"signed", "returned", "rejected", "fetched", "bound", "done", "crashed"},
         org : Orgs, inst : SUBSET Installs, fresh : BOOLEAN, login : {"", "login"}]
Hook == [inst : Installs, action : Activating \cup Deactivating, org : SUBSET Orgs,
         pc : {"sent", "resolved", "done", "rejected", "crashed"}]

\* Types, and that every org-scoped setting names an installation that was made.
TypeOK ==
    /\ github \in [Installs -> {"none", "active", "suspended", "deleted"}]
    /\ rows \in [Installs -> InstallRow \cup {NoRow}]
    /\ vcs \in [Orgs -> VcsState]
    /\ calls \in [Calls -> Call \cup {NoCall}]
    /\ hooks \in Seq(Hook)
    /\ links \in [Installs -> Nat] /\ binds \in [Installs -> Nat]
    /\ cleared \subseteq Orgs
    /\ \A i \in Installs : rows[i] # NoRow => github[i] # "none"

Init ==
    /\ github = [i \in Installs |-> "none"]
    /\ rows = [i \in Installs |-> NoRow]
    /\ vcs = [o \in Orgs |-> NoVcs]
    /\ calls = [c \in Calls |-> NoCall]
    /\ hooks = <<>>
    /\ links = [i \in Installs |-> 0]
    /\ binds = [i \in Installs |-> 0]
    /\ cleared = {}

--------------------------------------------------------------------------------
\* Reads the rows decide.

Present(i) == rows[i] # NoRow
ActiveOf(o) == {i \in Installs : Present(i) /\ rows[i].org = o /\ rows[i].status = "active"}

--------------------------------------------------------------------------------
\* The row's two writers.

upsert_installation(i, o, login) ==
    /\ rows' = [rows EXCEPT ![i] = [org |-> o, account_login |-> login, status |-> "active"]]
    /\ binds' = [binds EXCEPT ![i] = IF Present(i) THEN @ ELSE @ + 1]

\* What upsert_installation returns: this call inserted the row.
was_insert(i) == ~Present(i)

mark_installation_inactive(i, status) ==
    /\ rows' = [rows EXCEPT ![i] = IF Present(i) THEN [@ EXCEPT !.status = status] ELSE @]
    /\ UNCHANGED binds

--------------------------------------------------------------------------------
\* The install handshake.

\* POST /install/start signs the org into the state; the browser goes to GitHub.
InstallStart(c, o) ==
    /\ calls[c] = NoCall
    /\ calls' = [calls EXCEPT ![c] = [pc |-> "signed", org |-> o, inst |-> {}, fresh |-> TRUE,
                                      login |-> ""]]
    /\ UNCHANGED <<github, rows, vcs, hooks, links, binds, cleared>>

Deliver(i, action) ==
    IF "hooks" \in Ops
    THEN /\ Len(hooks) < MaxHooks
         /\ hooks' = Append(hooks, [inst |-> i, action |-> action, org |-> {}, pc |-> "sent"])
    ELSE hooks' = hooks

\* The user installs the App, or reconfigures an installation it has, and GitHub
\* redirects to the callback with the installation's id and the state.
UserInstalls(c, i) ==
    /\ calls[c] # NoCall /\ calls[c].pc = "signed"
    /\ IF github[i] = "none"
       THEN github' = [github EXCEPT ![i] = "active"] /\ Deliver(i, "created")
       ELSE "reconfigure" \in Ops /\ github[i] = "active" /\ UNCHANGED <<github, hooks>>
    /\ calls' = [calls EXCEPT ![c].pc = "returned", ![c].inst = {i}]
    /\ UNCHANGED <<rows, vcs, links, binds, cleared>>

\* Fifteen minutes pass before the callback verifies the state.
StateExpires(c) ==
    /\ "expire" \in Ops
    /\ calls[c] # NoCall /\ calls[c].pc \in {"signed", "returned"} /\ calls[c].fresh
    /\ calls' = [calls EXCEPT ![c].fresh = FALSE]
    /\ UNCHANGED <<github, rows, vcs, hooks, links, binds, cleared>>

\* GET /install_callback verifies the state and asks GitHub for the account's login;
\* a failure to learn it degrades to the empty string.
CallbackFetch(c) ==
    /\ calls[c] # NoCall /\ calls[c].pc = "returned"
    /\ \E login \in {"", "login"} :
          calls' = IF calls[c].fresh
                   THEN [calls EXCEPT ![c].pc = "fetched", ![c].login = login]
                   ELSE [calls EXCEPT ![c].pc = "rejected"]
    /\ UNCHANGED <<github, rows, vcs, hooks, links, binds, cleared>>

\* The upsert is a transaction of its own; only the insert goes on to the link.
CallbackUpsert(c) ==
    /\ calls[c] # NoCall /\ calls[c].pc = "fetched"
    /\ \E i \in calls[c].inst :
          /\ upsert_installation(i, calls[c].org, calls[c].login)
          /\ calls' = [calls EXCEPT ![c].pc = IF was_insert(i) THEN "bound" ELSE "done"]
    /\ cleared' = cleared \ {calls[c].org}
    /\ UNCHANGED <<github, vcs, hooks, links>>

set_vcs(o, insts) ==
    /\ vcs' = [vcs EXCEPT ![o] = [plugin |-> "github", inst |-> insts]]
    /\ cleared' = cleared \ {o}

CallbackLink_AuditOnly(c) ==
    /\ calls[c] # NoCall /\ calls[c].pc = "bound"
    /\ links' = [i \in Installs |-> IF i \in calls[c].inst THEN links[i] + 1 ELSE links[i]]
    /\ calls' = [calls EXCEPT ![c].pc = "done"]
    /\ UNCHANGED <<github, rows, vcs, hooks, binds, cleared>>

\* The audit row and set_vcs commit together, after the upsert has committed.
CallbackLink(c) ==
    /\ calls[c] # NoCall /\ calls[c].pc = "bound"
    /\ set_vcs(calls[c].org, calls[c].inst)
    /\ links' = [i \in Installs |-> IF i \in calls[c].inst THEN links[i] + 1 ELSE links[i]]
    /\ calls' = [calls EXCEPT ![c].pc = "done"]
    /\ UNCHANGED <<github, rows, hooks, binds>>

\* The web process dies between two of the callback's awaits.
CallbackCrash(c) ==
    /\ "crash" \in Ops
    /\ calls[c] # NoCall /\ calls[c].pc \in {"returned", "fetched", "bound"}
    /\ calls' = [calls EXCEPT ![c].pc = "crashed"]
    /\ UNCHANGED <<github, rows, vcs, hooks, links, binds, cleared>>

--------------------------------------------------------------------------------
\* The org's VCS page.

\* POST /api/vcs: the github plugin has no install_url, so the choice is stored as it is.
PickVcs(o) ==
    /\ "pick" \in Ops
    /\ set_vcs(o, {})
    /\ UNCHANGED <<github, rows, calls, hooks, links, binds>>

\* The clear hook deletes every installation row of the org.
on_vcs_cleared(o) ==
    rows' = [i \in Installs |-> IF Present(i) /\ rows[i].org = o THEN NoRow ELSE rows[i]]

\* DELETE /api/vcs: without a choice to clear it does nothing at all.
ClearVcs(o) ==
    /\ "clear" \in Ops
    /\ vcs[o].plugin # "none"
    /\ vcs' = [vcs EXCEPT ![o] = NoVcs]
    /\ on_vcs_cleared(o)
    /\ cleared' = cleared \cup {o}
    /\ UNCHANGED <<github, calls, hooks, links, binds>>

--------------------------------------------------------------------------------
\* GitHub's side, and its deliveries.

\* In the "ordered" runs GitHub's next event waits for the answers to the last.
Settled(i) ==
    /\ \A k \in DOMAIN hooks : hooks[k].inst = i => hooks[k].pc \notin {"sent", "resolved"}
    /\ \A c \in Calls : calls[c] # NoCall /\ calls[c].inst = {i}
                         => calls[c].pc \notin {"returned", "fetched", "bound"}

GitHubChange(i, from, to, action) ==
    /\ "ordered" \in Ops => Settled(i)
    /\ github[i] \in from
    /\ github' = [github EXCEPT ![i] = to]
    /\ Deliver(i, action)
    /\ UNCHANGED <<rows, vcs, calls, links, binds, cleared>>

GitHubSuspends(i) == "suspend" \in Ops /\ GitHubChange(i, {"active"}, "suspended", "suspend")
GitHubUnsuspends(i) == "suspend" \in Ops /\ GitHubChange(i, {"suspended"}, "active", "unsuspend")
GitHubDeletes(i) == "delete" \in Ops /\ GitHubChange(i, {"active", "suspended"}, "deleted", "deleted")
GitHubPermissions(i) ==
    "permissions" \in Ops /\ GitHubChange(i, {"active"}, "active", "new_permissions_accepted")

\* handle: the row names the org; an activating event without one takes the
\* default org, any other is rejected. The delivery is then recorded.
org_of(h) ==
    IF Present(h.inst) THEN {rows[h.inst].org}
    ELSE IF h.action \in Activating THEN {DefaultOrg} ELSE {}

HookResolve(k) ==
    /\ hooks[k].pc = "sent"
    /\ hooks' = [hooks EXCEPT ![k].org = org_of(hooks[k]),
                              ![k].pc = IF org_of(hooks[k]) = {} THEN "rejected" ELSE "resolved"]
    /\ UNCHANGED <<github, rows, vcs, calls, links, binds, cleared>>

\* _handle_installation writes with the org resolved before.
HookApply(k) ==
    /\ hooks[k].pc = "resolved"
    /\ IF hooks[k].action \in Activating
       THEN \E o \in hooks[k].org : upsert_installation(hooks[k].inst, o, "login")
       ELSE mark_installation_inactive(hooks[k].inst,
                IF hooks[k].action = "deleted" THEN "uninstalled" ELSE "suspended")
    /\ hooks' = [hooks EXCEPT ![k].pc = "done"]
    /\ UNCHANGED <<github, vcs, calls, links, cleared>>

\* The process dies after the delivery was recorded; a redelivery is a duplicate.
HookCrash(k) ==
    /\ "crash" \in Ops
    /\ hooks[k].pc = "resolved"
    /\ hooks' = [hooks EXCEPT ![k].pc = "crashed"]
    /\ UNCHANGED <<github, rows, vcs, calls, links, binds, cleared>>

Next ==
    \/ \E c \in Calls, o \in Orgs : InstallStart(c, o)
    \/ \E c \in Calls, i \in Installs : UserInstalls(c, i)
    \/ \E c \in Calls : StateExpires(c) \/ CallbackFetch(c) \/ CallbackUpsert(c)
                        \/ CallbackLink(c) \/ CallbackCrash(c)
    \/ \E o \in Orgs : PickVcs(o) \/ ClearVcs(o)
    \/ \E i \in Installs : GitHubSuspends(i) \/ GitHubUnsuspends(i) \/ GitHubDeletes(i)
                           \/ GitHubPermissions(i)
    \/ \E k \in DOMAIN hooks : HookResolve(k) \/ HookApply(k) \/ HookCrash(k)

Spec == Init /\ [][Next]_vars

--------------------------------------------------------------------------------
\* Properties.

\* However callbacks, webhooks, removals and crashes interleave, an installation is
\* linked (audited, its org's VCS set) at most once for each time its row was
\* inserted: exactly one concurrent caller of upsert_installation sees True.
LinkPerBind == \A i \in Installs : links[i] <= binds[i]

\* A handshake that ran to its end leaves its org on the GitHub plugin, unless the
\* org removed it since or is about to be linked by another.
LinkDone ==
    \A c \in Calls : calls[c] # NoCall /\ calls[c].pc = "done" /\ calls[c].org \notin cleared
                     => \/ vcs[calls[c].org].plugin = "github"
                        \/ \E d \in Calls : /\ calls[d] # NoCall /\ calls[d].pc = "bound"
                                           /\ calls[d].org = calls[c].org

\* Remove means fully disconnected: until the org installs or picks again, no
\* installation row, and so no installation token, is its own.
Disconnected == \A o \in cleared : \A i \in Installs : Present(i) => rows[i].org # o

\* When every event has been answered, a row is active exactly while GitHub's
\* installation is, so a token is asked for only where GitHub would give one.
StatusFollows ==
    \A i \in Installs : Settled(i) /\ Present(i)
                        => (rows[i].status = "active" <=> github[i] = "active")

\* An installation moves to another org only because that org's owner took it
\* through a handshake of its own.
OrgStays ==
    [][\A i \in Installs : Present(i) /\ rows'[i] # NoRow /\ rows'[i].org # rows[i].org
            => \E c \in Calls : /\ calls[c] # NoCall /\ calls[c].inst = {i}
                                /\ calls[c].org = rows'[i].org]_vars

\* Once a webhook that carries the login has been applied and nothing is in flight,
\* the row has the login.
LoginKnown ==
    \A i \in Installs :
        Settled(i) /\ Present(i) /\ (\E k \in DOMAIN hooks : hooks[k].inst = i /\ hooks[k].action \in Activating
                                                              /\ hooks[k].pc = "done")
        => rows[i].account_login = "login"

\* health and the onboarding step read the active installation of an org with
\* scalar_one_or_none, which raises when there are two.
HealthAnswers == Cardinality(ActiveOf(DefaultOrg)) <= 1
================================================================================
