----------------------------- MODULE OrgAccess -----------------------------
(***************************************************************************)
(* Who is in which org, and how they may enter it: core/tenancy (orgs and  *)
(* memberships) and domain/orgs (invitations, the hourly invitation sweep, *)
(* role changes, handles, the SAML configuration and its copy on the orgs  *)
(* row).                                                                   *)
(*                                                                         *)
(* The Postgres transactions run at READ COMMITTED and the handlers take   *)
(* no lock before their first write.  A handler whose outcome depends on   *)
(* what it read is two steps, the read and the commit, with a transaction  *)
(* record in between; the handlers that read and write the same row are    *)
(* one step.  A mailbox is named by the user who reads it, an invitation   *)
(* token by the number of its row.  The gate in front of a handler (role,  *)
(* session, SSO) is modelled in Sessions; here it is the role the caller   *)
(* has when the handler starts.                                            *)
(***************************************************************************)
EXTENDS Naturals, FiniteSets

CONSTANTS
    Users,      \* people: user rows and the mailboxes they read
    Namesakes,  \* those whose addresses share one local part, at different domains
    Shared,     \* that local part
    Orgs,       \* slugs
    Founded,    \* orgs the bootstrap command has created, with Founder as owner
    Founder,
    MaxInv,     \* bound: invitations ever written
    MaxClock,   \* bound: the clock
    Lifetime,   \* yaaos_invitation_lifetime_seconds
    Txns,       \* transactions that may be open at once
    Ops         \* the operations a run exercises

BoundsAreNat ==
    /\ {MaxInv, MaxClock, Lifetime} \subseteq Nat
    /\ Founded \subseteq Orgs /\ Founder \in Users /\ Namesakes \subseteq Users

NoRow == [absent |-> TRUE]
Invs == 1 .. MaxInv
Time == 0 .. MaxClock
Handles == Users \cup {Shared}

VARIABLES
    clock,      \* datetime.now
    orgs,       \* orgs: slug -> the copied SSO columns
    members,    \* memberships: org -> user -> row
    invites,    \* invitations, by token
    written,    \* how many invitations were ever written
    sso,        \* sso_configs: org -> row
    totp,       \* users whose TOTP secret is verified
    signedIn,   \* users with a live session row
    txn,        \* open transactions
    mailed,     \* tokens that have left by SMTP
    joined      \* history: (token, user) pairs that made a membership

vars == <<clock, orgs, members, invites, written, sso, totp, signedIn, txn, mailed, joined>>

-----------------------------------------------------------------------------
(* Types *)

Roles == {"owner", "admin", "builder"}

Rank(r) == CASE r = "builder" -> 1 [] r = "admin" -> 2 [] r = "owner" -> 3

covers(role, required) == Rank(role) >= Rank(required)

\* sso_enabled and sso_exempt_owner_user_id; the other columns are in OrgSettings.
OrgRow == [enabled: BOOLEAN, exempt: Users \cup {"none"}]

MembershipRow == [role: Roles, handle: Handles]

InvitationRow == [org: Orgs, email: Users, role: Roles, expires: Nat, accepted: BOOLEAN]

\* claims: email_domains contains the one domain the runs are about.
SsoConfigRow == [enabled: BOOLEAN, jit: BOOLEAN, exempt: Users \cup {"none"}, claims: BOOLEAN]

InviteTxn == [kind: {"invite"}, inv: Invs, row: InvitationRow, sent: BOOLEAN]
AcceptTxn == [kind: {"accept"}, inv: Invs, user: Users, existing: BOOLEAN]
SaveTxn == [kind: {"save"}, org: Orgs, body: SsoConfigRow, prev: SsoConfigRow \cup {NoRow}]

\* Every table, transaction and history stays in its range.
TypeOK ==
    /\ clock \in Time
    /\ orgs \in [Orgs -> OrgRow \cup {NoRow}]
    /\ members \in [Orgs -> [Users -> MembershipRow \cup {NoRow}]]
    /\ invites \in [Invs -> InvitationRow \cup {NoRow}]
    /\ written \in 0 .. MaxInv
    /\ sso \in [Orgs -> SsoConfigRow \cup {NoRow}]
    /\ totp \subseteq Users /\ signedIn \subseteq Users
    /\ txn \in [Txns -> InviteTxn \cup AcceptTxn \cup SaveTxn \cup {NoRow}]
    /\ mailed \subseteq Invs
    /\ joined \subseteq Invs \X Users

-----------------------------------------------------------------------------
(* Reads *)

get_membership_info(u, o) == members[o][u]

IsMember(u, o) == get_membership_info(u, o) # NoRow

\* require(action) in front of a handler: somebody signed in holds the role.
Allowed(u, o, required) ==
    /\ u \in signedIn
    /\ IsMember(u, o)
    /\ covers(members[o][u].role, required)

\* email.split("@")[0], the handle a new member starts with.
local_part(u) == IF u \in Namesakes THEN Shared ELSE u

\* uq_membership_org_handle, as an INSERT or UPDATE of user u meets it.
handle_free(u, o, h) ==
    \A v \in Users \ {u} : IsMember(v, o) => members[o][v].handle # h

Pending(i) == invites[i] # NoRow /\ ~invites[i].accepted

\* uq_invitations_pending_org_email; an insert waits for an uncommitted one.
pending_free(o, e) ==
    /\ \A i \in Invs : Pending(i) => ~(invites[i].org = o /\ invites[i].email = e)
    /\ \A x \in Txns : txn[x] # NoRow /\ txn[x].kind = "invite"
                         => ~(txn[x].row.org = o /\ txn[x].row.email = e)

expired(row) == row.expires < clock

\* find_saml_org_slug_for_domain: the orgs whose row answers the query.
find_saml_org_slug_for_domain == {o \in Orgs : sso[o] # NoRow /\ sso[o].enabled /\ sso[o].claims}

-----------------------------------------------------------------------------
(* Accounts, as far as this module needs them *)

\* A session row appears (core/sessions) and is deleted again.
SignIn(u) ==
    /\ u \notin signedIn
    /\ signedIn' = signedIn \cup {u}
    /\ UNCHANGED <<clock, orgs, members, invites, written, sso, totp, txn, mailed, joined>>

revoke_all_sessions_for_user(u) == signedIn' = signedIn \ {u}

\* totp/verify proves the secret; totp/enroll writes a new one over it, unproved.
TotpVerify(u) ==
    /\ "totp" \in Ops /\ u \in signedIn \ totp
    /\ totp' = totp \cup {u}
    /\ UNCHANGED <<clock, orgs, members, invites, written, sso, signedIn, txn, mailed, joined>>

TotpEnroll(u) ==
    /\ "reenroll" \in Ops /\ u \in signedIn \cap totp
    /\ totp' = totp \ {u}
    /\ UNCHANGED <<clock, orgs, members, invites, written, sso, signedIn, txn, mailed, joined>>

-----------------------------------------------------------------------------
(* Orgs and memberships *)

\* POST /api/orgs: the slug must be free; the caller becomes Admin.
CreateOrg(u, o, h) ==
    /\ "create" \in Ops /\ u \in signedIn
    /\ orgs[o] = NoRow
    /\ orgs' = [orgs EXCEPT ![o] = [enabled |-> FALSE, exempt |-> "none"]]
    /\ members' = [members EXCEPT ![o][u] = [role |-> "admin", handle |-> h]]
    /\ UNCHANGED <<clock, invites, written, sso, totp, signedIn, txn, mailed, joined>>

\* PATCH /api/memberships/{user}: any role, whoever holds it now; the target's
\* sessions go.
ChangeRole(caller, u, o, role) ==
    /\ "role" \in Ops /\ Allowed(caller, o, "admin")
    /\ IsMember(u, o)
    /\ members' = [members EXCEPT ![o][u].role = role]
    /\ revoke_all_sessions_for_user(u)
    /\ UNCHANGED <<clock, orgs, invites, written, sso, totp, txn, mailed, joined>>

\* DELETE /api/memberships/{user}; nothing happens when the row is already gone.
RemoveMember(caller, u, o) ==
    /\ "role" \in Ops /\ Allowed(caller, o, "admin")
    /\ IsMember(u, o)
    /\ members' = [members EXCEPT ![o][u] = NoRow]
    /\ revoke_all_sessions_for_user(u)
    /\ UNCHANGED <<clock, orgs, invites, written, sso, totp, txn, mailed, joined>>

\* PATCH /api/memberships/me/{org}: 404 without a row, 409 when the handle is taken.
PatchOwnHandle(u, o, h) ==
    /\ "handle" \in Ops /\ u \in signedIn /\ IsMember(u, o)
    /\ h # members[o][u].handle /\ handle_free(u, o, h)
    /\ members' = [members EXCEPT ![o][u].handle = h]
    /\ UNCHANGED <<clock, orgs, invites, written, sso, totp, signedIn, txn, mailed, joined>>

-----------------------------------------------------------------------------
(* Invitations *)

\* POST /api/memberships/invite, up to the flush of the row: a second pending
\* invitation of the address is refused by the index.
InviteBegin(x, caller, o, e, role) ==
    /\ "invite" \in Ops /\ txn[x] = NoRow /\ Allowed(caller, o, "admin")
    /\ written < MaxInv /\ pending_free(o, e)
    /\ written' = written + 1
    /\ txn' = [txn EXCEPT ![x] =
                 [kind |-> "invite", inv |-> written + 1, sent |-> FALSE,
                  row |-> [org |-> o, email |-> e, role |-> role,
                           expires |-> clock + Lifetime, accepted |-> FALSE]]]
    /\ UNCHANGED <<clock, orgs, members, invites, sso, totp, signedIn, mailed, joined>>

\* send_plain: the token leaves while the row is still uncommitted.
InviteSend(x) ==
    /\ txn[x] # NoRow /\ txn[x].kind = "invite" /\ ~txn[x].sent
    /\ mailed' = mailed \cup {txn[x].inv}
    /\ txn' = [txn EXCEPT ![x].sent = TRUE]
    /\ UNCHANGED <<clock, orgs, members, invites, written, sso, totp, signedIn, joined>>

InviteCommit(x) ==
    /\ txn[x] # NoRow /\ txn[x].kind = "invite" /\ txn[x].sent
    /\ invites' = [invites EXCEPT ![txn[x].inv] = txn[x].row]
    /\ txn' = [txn EXCEPT ![x] = NoRow]
    /\ UNCHANGED <<clock, orgs, members, written, sso, totp, signedIn, mailed, joined>>

\* The process dies, or SMTP refuses: the transaction rolls back.
Abort(x) ==
    /\ "crash" \in Ops /\ txn[x] # NoRow
    /\ txn' = [txn EXCEPT ![x] = NoRow]
    /\ UNCHANGED <<clock, orgs, members, invites, written, sso, totp, signedIn, mailed, joined>>

\* POST /api/memberships/accept, the reads: signature and row, unused, unexpired,
\* and whether the caller is in the org already.
AcceptBegin(x, u, i) ==
    /\ "accept" \in Ops /\ txn[x] = NoRow /\ u \in signedIn /\ i \in mailed
    /\ Pending(i) /\ ~expired(invites[i])
    /\ txn' = [txn EXCEPT ![x] = [kind |-> "accept", inv |-> i, user |-> u,
                                  existing |-> IsMember(u, invites[i].org)]]
    /\ UNCHANGED <<clock, orgs, members, invites, written, sso, totp, signedIn, mailed, joined>>

\* The writes.  The UPDATE of accepted_at must find the row, the INSERT of the
\* membership a free key and a free handle; otherwise everything rolls back.
AcceptWrites(t) ==
    LET row == invites[t.inv] IN
    /\ row # NoRow
    /\ ~t.existing => /\ ~IsMember(t.user, row.org)
                      /\ handle_free(t.user, row.org, local_part(row.email))

AcceptCommit(x) ==
    LET t == txn[x]
        row == invites[t.inv] IN
    /\ t # NoRow /\ t.kind = "accept"
    /\ txn' = [txn EXCEPT ![x] = NoRow]
    /\ IF AcceptWrites(t)
       THEN /\ invites' = [invites EXCEPT ![t.inv].accepted = TRUE]
            /\ members' = IF t.existing THEN members
                          ELSE [members EXCEPT ![row.org][t.user] =
                                  [role |-> row.role, handle |-> local_part(row.email)]]
            /\ joined' = IF t.existing THEN joined ELSE joined \cup {<<t.inv, t.user>>}
       ELSE UNCHANGED <<invites, members, joined>>
    /\ UNCHANGED <<clock, orgs, written, sso, totp, signedIn, mailed>>

\* The rows delete_expired_invitations deletes.
swept == {i \in Invs : Pending(i) /\ expired(invites[i])}

\* invitation_sweep, hourly.
InvitationSweep ==
    /\ swept # {}
    /\ invites' = [i \in Invs |-> IF i \in swept THEN NoRow ELSE invites[i]]
    /\ UNCHANGED <<clock, orgs, members, written, sso, totp, signedIn, txn, mailed, joined>>

-----------------------------------------------------------------------------
(* SAML *)

can_be_sso_exempt_owner(u) == u \in totp

\* PUT /api/sso/config, the reads: the exempt owner's role and TOTP, then the row.
SsoSaveBegin(x, caller, o, body) ==
    /\ "sso" \in Ops /\ txn[x] = NoRow /\ Allowed(caller, o, "owner")
    /\ body.exempt # "none" =>
         /\ IsMember(body.exempt, o) /\ members[o][body.exempt].role = "owner"
         /\ can_be_sso_exempt_owner(body.exempt)
    /\ txn' = [txn EXCEPT ![x] = [kind |-> "save", org |-> o, body |-> body, prev |-> sso[o]]]
    /\ UNCHANGED <<clock, orgs, members, invites, written, sso, totp, signedIn, mailed, joined>>

\* upsert_config on a row that exists: the ORM writes the columns that differ from
\* what it loaded, over whatever the row holds by the time it gets the lock.
MergedConfig(now, prev, body) ==
    [c \in DOMAIN now |-> IF body[c] # prev[c] THEN body[c] ELSE now[c]]

\* set_sso_authz: the orgs row is loaded after that lock was won, and is made equal
\* to the configuration this session has in memory.
set_sso_authz(o, body) ==
    [orgs EXCEPT ![o] = [enabled |-> body.enabled, exempt |-> body.exempt]]

SsoSaveCommit(x) ==
    LET t == txn[x] IN
    /\ t # NoRow /\ t.kind = "save"
    /\ txn' = [txn EXCEPT ![x] = NoRow]
    /\ IF t.prev = NoRow /\ sso[t.org] # NoRow          \* duplicate key, rolled back
       THEN UNCHANGED <<sso, orgs>>
       ELSE /\ sso' = [sso EXCEPT ![t.org] = IF t.prev = NoRow THEN t.body
                                             ELSE MergedConfig(@, t.prev, t.body)]
            /\ orgs' = set_sso_authz(t.org, t.body)
    /\ UNCHANGED <<clock, members, invites, written, totp, signedIn, mailed, joined>>

\* POST /api/sso/{slug}/acs for a mailbox with no account: created just in time as
\* a builder, or refused; for an account with a membership only a session.
SsoAcs(u, o) ==
    /\ "acs" \in Ops /\ sso[o] # NoRow /\ sso[o].enabled
    /\ \/ /\ IsMember(u, o)
          /\ UNCHANGED members
       \/ /\ \A p \in Orgs : ~IsMember(u, p)
          /\ u \notin signedIn /\ sso[o].jit
          /\ handle_free(u, o, local_part(u))
          /\ members' = [members EXCEPT ![o][u] =
                           [role |-> "builder", handle |-> local_part(u)]]
    /\ signedIn' = signedIn \cup {u}
    /\ UNCHANGED <<clock, orgs, invites, written, sso, totp, txn, mailed, joined>>

-----------------------------------------------------------------------------
Tick ==
    /\ clock < MaxClock
    /\ clock' = clock + 1
    /\ UNCHANGED <<orgs, members, invites, written, sso, totp, signedIn, txn, mailed, joined>>

Init ==
    /\ clock = 0
    /\ orgs = [o \in Orgs |-> IF o \in Founded THEN [enabled |-> FALSE, exempt |-> "none"]
                              ELSE NoRow]
    /\ members = [o \in Orgs |-> [u \in Users |->
                    IF o \in Founded /\ u = Founder
                    THEN [role |-> "owner", handle |-> Founder] ELSE NoRow]]
    /\ invites = [i \in Invs |-> NoRow]
    /\ written = 0
    /\ sso = [o \in Orgs |-> NoRow]
    /\ totp = {} /\ signedIn = {}
    /\ txn = [x \in Txns |-> NoRow]
    /\ mailed = {} /\ joined = {}

Next ==
    \/ Tick
    \/ InvitationSweep
    \/ \E u \in Users : SignIn(u) \/ TotpVerify(u) \/ TotpEnroll(u)
    \/ \E u \in Users, o \in Orgs, h \in Handles :
         CreateOrg(u, o, h) \/ PatchOwnHandle(u, o, h)
    \/ \E u \in Users, o \in Orgs : SsoAcs(u, o)
    \/ \E c, u \in Users, o \in Orgs :
         \/ RemoveMember(c, u, o)
         \/ \E r \in Roles : ChangeRole(c, u, o, r)
    \/ \E x \in Txns :
         \/ InviteSend(x) \/ InviteCommit(x) \/ Abort(x)
         \/ AcceptCommit(x) \/ SsoSaveCommit(x)
         \/ \E u \in Users, i \in Invs : AcceptBegin(x, u, i)
         \/ \E c \in Users, o \in Orgs :
              \/ \E e \in Users, r \in Roles : InviteBegin(x, c, o, e, r)
              \/ \E body \in SsoConfigRow : SsoSaveBegin(x, c, o, body)

Spec == Init /\ [][Next]_vars

-----------------------------------------------------------------------------
(* Properties *)

\* One invitation makes at most one member, however many people hold its token
\* and accept at once (accept_invitation, accepted_at and the handle index).
OneMemberPerToken ==
    \A p, q \in joined : p[1] = q[1] => p[2] = q[2]

\* The sweep takes only what nobody can use or needs any more: a token that was
\* used stays known as used, one that can be used stays usable
\* (delete_expired_invitations).
TokenFateKept ==
    \A i \in Invs : invites[i] # NoRow /\ (invites[i].accepted \/ ~expired(invites[i]))
        => /\ invites'[i] # NoRow
           /\ invites[i].accepted => invites'[i].accepted

\* What the gate reads on the orgs row is what the SSO page shows of the
\* configuration (upsert_config, set_sso_authz_for_org).
MirrorInStep ==
    \A o \in Orgs : sso[o] # NoRow =>
        /\ orgs[o].enabled = sso[o].enabled
        /\ orgs[o].exempt = sso[o].exempt

\* An org that has an owner keeps one (change_role, remove_member).
OwnerRemains ==
    \A o \in Founded : \E u \in Users : IsMember(u, o) /\ members[o][u].role = "owner"

\* The break-glass owner of an org behind SSO is an owner with a proved TOTP
\* secret, so that there is a way in when the IdP is down.
BreakGlassWorks ==
    \A o \in Orgs : sso[o] # NoRow /\ sso[o].enabled /\ sso[o].exempt # "none" =>
        /\ IsMember(sso[o].exempt, o) /\ members[o][sso[o].exempt].role = "owner"
        /\ sso[o].exempt \in totp

\* An address is routed to one org's IdP (find_saml_org_slug_for_domain).
OneOrgPerDomain == Cardinality(find_saml_org_slug_for_domain) <= 1
=============================================================================
