------------------------------ MODULE Sessions ------------------------------
(***************************************************************************)
(* Signing in, staying signed in and the gate in front of every org-scoped *)
(* route: core/identity (users, mailboxes, OAuth identities, TOTP secrets, *)
(* session rows, the hourly purge), core/sessions (the /api/auth handlers  *)
(* and the require(action) dependency) and core/auth (the middleware, the  *)
(* role policy, the cookie clearing of a 401).                             *)
(*                                                                         *)
(* A session token is the number of the row it was minted as.  A mailbox   *)
(* is named by the person who reads it, and so is the account that person  *)
(* gets: the user row of person p, once there is one, is p.  Time is a     *)
(* bounded counter; the windows of the code are constants in its units.    *)
(*                                                                         *)
(* require() opens one short transaction per question it asks, so a        *)
(* request is a sequence of steps between which anything else may commit.  *)
(***************************************************************************)
EXTENDS Naturals, FiniteSets

CONSTANTS
    Users,          \* people: the readers of a mailbox, the owners of a user row
    Staff,          \* those the bootstrap command has given a user row
    Subjects,       \* accounts at an identity provider
    Browsers,       \* cookie jars
    Reqs,           \* org-scoped requests that may be in flight at once
    Orgs,           \* organizations
    SsoOrgs,        \* those that require SAML
    ShortOrgs,      \* those with a session_timeout_override
    Exempt,         \* the break-glass owner of the SSO orgs
    MaxTok,         \* bound: session rows ever minted
    MaxClock,       \* bound: the clock
    Lifetime,       \* yaaos_session_lifetime_seconds
    Idle,           \* SESSION_IDLE_TIMEOUT
    ShortIdle,      \* session_timeout_override of a short org
    SsoTTL,         \* SSO_TTL
    SignedAge,      \* STATE_MAX_AGE_SECONDS and TOTP_CHALLENGE_MAX_AGE_SECONDS
    TotpTTL,        \* UNVERIFIED_TOTP_TTL
    Ops             \* the operations a run exercises besides signing in

BoundsAreNat ==
    /\ {MaxTok, MaxClock, Lifetime, Idle, ShortIdle, SsoTTL, SignedAge, TotpTTL} \subseteq Nat
    /\ Staff \subseteq Users /\ SsoOrgs \subseteq Orgs /\ ShortOrgs \subseteq Orgs
    /\ "none" \notin Users

NoRow == [absent |-> TRUE]
Toks == 1 .. MaxTok
Time == 0 .. MaxClock

Roles == {"owner", "admin", "builder"}

Rank(r) == CASE r = "none" -> 0 [] r = "builder" -> 1 [] r = "admin" -> 2 [] r = "owner" -> 3

\* role_policy: one action per tier stands for all the actions of the tier.
Actions == {"ORG_READ", "MEMBERS_INVITE", "SSO_CONFIGURE"}

RequiredRole(a) == CASE a = "ORG_READ" -> "builder"
                     [] a = "MEMBERS_INVITE" -> "admin"
                     [] a = "SSO_CONFIGURE" -> "owner"

covers(role, required) == Rank(role) >= Rank(required)

VARIABLES
    clock,      \* datetime.now
    emails,     \* user_emails
    idents,     \* oauth_identities: subject -> user
    totp,       \* user_totp_secrets: user -> row
    members,    \* memberships: user -> org -> role or "none"
    sess,       \* sessions: token -> row
    minted,     \* how many session rows were ever inserted
    jar,        \* the cookies and the signed state each browser holds
    req,        \* org-scoped requests inside the gate
    purge,      \* the transaction of the hourly purge, when one is open
    audited,    \* audit rows: the (token, org) pairs a logout row was written for
    ends,       \* history: how each session row ended, and the orgs it should be audited in
    signins,    \* history: the users each subject was signed in as
    firstMail,  \* history: the mailbox of each subject's first sign-in
    lastServed, \* history: when a request last got through the gate on each token
    idled       \* history: (token, org) pairs refused as idle

vars == <<clock, emails, idents, totp, members, sess, minted, jar, req, purge, audited,
          ends, signins, firstMail, lastServed, idled>>

history == <<audited, ends, signins, firstMail, lastServed, idled>>

-----------------------------------------------------------------------------
(* Types *)

UserEmailRow == [user: Users, addr: Users, verified: BOOLEAN]

\* minted: when enroll wrote the current seed; the table has no such column.
UserTotpSecretRow == [verified: BOOLEAN, created: Time, minted: Time]

SessionRow == [user: Users, expires: Nat, seen: Time,
               sso: Orgs \cup {"none"}, ssoAt: Time]

Challenge == [user: Users, at: Time]

Jar == [tok: 0 .. MaxTok, chal: Challenge \cup {NoRow}, state: [at: Time] \cup {NoRow}]

Request == [b: Browsers, tok: 0 .. MaxTok, org: Orgs, need: Roles, user: Users \cup {"none"},
            role: Roles \cup {"none"}, step: {"session", "org", "idle", "sso", "touch"}]

EndKinds == {"logout", "logout_all", "expiry", "login", "forced"}

\* Every variable stays in the range of its table, cookie or history.
TypeOK ==
    /\ clock \in Time
    /\ emails \subseteq UserEmailRow
    /\ idents \in [Subjects -> Users \cup {"none"}]
    /\ totp \in [Users -> UserTotpSecretRow \cup {NoRow}]
    /\ members \in [Users -> [Orgs -> Roles \cup {"none"}]]
    /\ sess \in [Toks -> SessionRow \cup {NoRow}]
    /\ minted \in 0 .. MaxTok
    /\ jar \in [Browsers -> Jar]
    /\ req \in [Reqs -> Request \cup {NoRow}]
    /\ purge \in [rows: SUBSET Toks] \cup {NoRow}
    /\ audited \subseteq Toks \X Orgs
    /\ ends \subseteq [tok: Toks, why: EndKinds, orgs: SUBSET Orgs]
    /\ signins \in [Subjects -> SUBSET Users]
    /\ firstMail \in [Subjects -> Users \cup {"none"}]
    /\ lastServed \in [Toks -> Time]
    /\ idled \subseteq Toks \X Orgs

-----------------------------------------------------------------------------
(* Repository reads *)

list_memberships_for_user(u) == {o \in Orgs : members[u][o] # "none"}

\* The verified owners of a mailbox: the join on verified_at IS NOT NULL.
find_user_by_email(a) == {e.user : e \in {x \in emails : x.addr = a /\ x.verified}}

has_verified_totp(u) == totp[u] # NoRow /\ totp[u].verified

expired(row) == row.expires < clock

\* lookup / find_session_by_hash: the user behind a cookie, or "none".
lookup(t) ==
    IF t = 0 \/ sess[t] = NoRow \/ expired(sess[t]) THEN "none" ELSE sess[t].user

session_timeout(o) == IF o \in ShortOrgs THEN ShortIdle ELSE Idle

is_sso_satisfied(row, o) == row.sso = o /\ row.ssoAt + SsoTTL >= clock

-----------------------------------------------------------------------------
(* Session rows *)

\* sessions.create inside the transaction that also revoked the tokens in gone.
SessionsAfterMint(u, gone, o) ==
    [t \in Toks |-> IF t \in gone THEN NoRow
                    ELSE IF t = minted + 1
                    THEN [user |-> u, expires |-> clock + Lifetime, seen |-> clock,
                          sso |-> o, ssoAt |-> clock]
                    ELSE sess[t]]

SessionsWithout(gone) == [t \in Toks |-> IF t \in gone THEN NoRow ELSE sess[t]]

Live(T) == {t \in T \ {0} : sess[t] # NoRow}

EndRecords(T, why) ==
    {[tok |-> t, why |-> why, orgs |-> list_memberships_for_user(sess[t].user)] : t \in Live(T)}

TokensOf(u) == {t \in Toks : sess[t] # NoRow /\ sess[t].user = u}

Cleared(j) == [j EXCEPT !.tok = 0]

-----------------------------------------------------------------------------
(* Signing in *)

\* GET /api/auth/login: the signed state is all that is remembered, in the URL.
Login(b) ==
    /\ jar[b].state = NoRow
    /\ jar' = [jar EXCEPT ![b].state = [at |-> clock]]
    /\ UNCHANGED <<clock, emails, idents, totp, members, sess, minted, req, purge, history>>

\* login_via_oauth: the binding first, a verified mailbox second, nobody third.
login_via_oauth(s, a) ==
    IF idents[s] # "none" THEN {idents[s]} ELSE find_user_by_email(a)

RecordSignIn(s, u, a) ==
    /\ signins' = [signins EXCEPT ![s] = @ \cup {u}]
    /\ firstMail' = [firstMail EXCEPT ![s] = IF @ = "none" THEN a ELSE @]

\* GET /api/auth/callback: the profile of subject s, whose provider has verified
\* the mailbox a.  Either the step-up challenge, or a session in the jar.
Callback(b, s, a, mfa) ==
    /\ jar[b].state # NoRow /\ jar[b].state.at + SignedAge >= clock
    /\ \E u \in login_via_oauth(s, a) :
        /\ idents' = [idents EXCEPT ![s] = u]
        /\ RecordSignIn(s, u, a)
        /\ IF ~mfa /\ has_verified_totp(u)
           THEN /\ jar' = [jar EXCEPT ![b].state = NoRow,
                                      ![b].chal = [user |-> u, at |-> clock]]
                /\ UNCHANGED <<sess, minted, ends>>
           ELSE /\ minted < MaxTok
                /\ sess' = SessionsAfterMint(u, {jar[b].tok}, "none")
                /\ minted' = minted + 1
                /\ ends' = ends \cup EndRecords({jar[b].tok}, "login")
                /\ jar' = [jar EXCEPT ![b].state = NoRow, ![b].tok = minted + 1]
    /\ UNCHANGED <<clock, emails, totp, members, req, purge, audited, lastServed, idled>>

\* totp.verify with a code that matches: the secret counts as proved from now on.
Proved(u) == [totp EXCEPT ![u].verified = TRUE]

\* POST /api/auth/totp/challenge with a code that matches the stored secret,
\* whichever secret that is by now; a code that does not match changes nothing.
TotpChallenge(b) ==
    LET c == jar[b].chal IN
    /\ c # NoRow /\ c.at + SignedAge >= clock
    /\ totp[c.user] # NoRow
    /\ minted < MaxTok
    /\ totp' = Proved(c.user)
    /\ sess' = SessionsAfterMint(c.user, {jar[b].tok}, "none")
    /\ minted' = minted + 1
    /\ ends' = ends \cup EndRecords({jar[b].tok}, "login")
    /\ jar' = [jar EXCEPT ![b].tok = minted + 1, ![b].chal = NoRow]
    /\ UNCHANGED <<clock, emails, idents, members, req, purge, audited, signins, firstMail,
                   lastServed, idled>>

\* POST /api/sso/{slug}/acs with an assertion for mailbox a: the account is found
\* or, just in time, created with a builder membership; the session in the jar is
\* marked, and if there is none that lives, one is minted and marked.
SsoAcs(b, a, o) ==
    /\ "sso" \in Ops /\ o \in SsoOrgs
    /\ \/ /\ find_user_by_email(a) = {}
          /\ emails' = emails \cup {[user |-> a, addr |-> a, verified |-> TRUE]}
          /\ members' = [members EXCEPT ![a][o] = "builder"]
       \/ /\ \E u \in find_user_by_email(a) : members[u][o] # "none"
          /\ UNCHANGED <<emails, members>>
    /\ LET t == jar[b].tok IN
       IF lookup(t) # "none"
       THEN /\ sess' = [sess EXCEPT ![t].sso = o, ![t].ssoAt = clock]
            /\ UNCHANGED <<minted, jar>>
       ELSE /\ minted < MaxTok
            /\ sess' = SessionsAfterMint(a, {}, o)
            /\ minted' = minted + 1
            /\ jar' = [jar EXCEPT ![b].tok = minted + 1]
    /\ UNCHANGED <<clock, idents, totp, req, purge, history>>

-----------------------------------------------------------------------------
(* Signing out *)

\* POST /api/auth/logout: a logout row in every org of the user, the row deleted.
Logout(b) ==
    LET t == jar[b].tok IN
    /\ "logout" \in Ops /\ t # 0
    /\ audited' = IF lookup(t) # "none"
                  THEN audited \cup ({t} \X list_memberships_for_user(lookup(t)))
                  ELSE audited
    /\ sess' = SessionsWithout({t})
    /\ ends' = IF lookup(t) # "none" THEN ends \cup EndRecords({t}, "logout") ELSE ends
    /\ jar' = [jar EXCEPT ![b] = Cleared(@)]
    /\ UNCHANGED <<clock, emails, idents, totp, members, minted, req, purge, signins,
                   firstMail, lastServed, idled>>

\* POST /api/auth/logout-all: every row of the user, and no audit row.
LogoutAll(b) ==
    LET t == jar[b].tok
        gone == IF lookup(t) # "none" THEN TokensOf(lookup(t)) ELSE {t} IN
    /\ "logout_all" \in Ops /\ t # 0
    /\ sess' = SessionsWithout(gone)
    /\ ends' = ends \cup EndRecords(gone, "logout_all")
    /\ jar' = [jar EXCEPT ![b] = Cleared(@)]
    /\ UNCHANGED <<clock, emails, idents, totp, members, minted, req, purge, audited,
                   signins, firstMail, lastServed, idled>>

\* The slip of keeping the membership with its role set aside.
ChangeMembership_Deactivates(u, o, role) ==
    /\ "role" \in Ops /\ members[u][o] # "none" /\ role # members[u][o]
    /\ members' = [members EXCEPT ![u][o] = "deactivated"]
    /\ sess' = SessionsWithout(TokensOf(u))
    /\ ends' = ends \cup EndRecords(TokensOf(u), "forced")
    /\ UNCHANGED <<clock, emails, idents, totp, minted, jar, req, purge, audited, signins,
                   firstMail, lastServed, idled>>

\* invitations.change_role and remove_member: the membership row, and every
\* session of the user.
ChangeMembership(u, o, role) ==
    /\ "role" \in Ops /\ members[u][o] # "none" /\ role # members[u][o]
    /\ members' = [members EXCEPT ![u][o] = role]
    /\ sess' = SessionsWithout(TokensOf(u))
    /\ ends' = ends \cup EndRecords(TokensOf(u), "forced")
    /\ UNCHANGED <<clock, emails, idents, totp, minted, jar, req, purge, audited, signins,
                   firstMail, lastServed, idled>>

-----------------------------------------------------------------------------
(* The account pages *)

\* POST /api/auth/totp/enroll: upsert_totp_secret keeps the row it finds, resets
\* verified_at and leaves created_at.
upsert_totp_secret(u) ==
    [verified |-> FALSE, minted |-> clock,
     created |-> IF totp[u] = NoRow THEN clock ELSE totp[u].created]

TotpEnroll(b) ==
    LET u == lookup(jar[b].tok) IN
    /\ "totp" \in Ops /\ u # "none"
    /\ totp' = [totp EXCEPT ![u] = upsert_totp_secret(u)]
    /\ UNCHANGED <<clock, emails, idents, members, sess, minted, jar, req, purge, history>>

\* POST /api/auth/totp/verify with a code that matches.
TotpVerify(b) ==
    LET u == lookup(jar[b].tok) IN
    /\ "totp" \in Ops /\ u # "none" /\ totp[u] # NoRow
    /\ totp' = Proved(u)
    /\ UNCHANGED <<clock, emails, idents, members, sess, minted, jar, req, purge, history>>

\* POST /api/user/emails: any address, unverified.
AddEmail(b, a) ==
    LET u == lookup(jar[b].tok) IN
    /\ "email" \in Ops /\ u # "none"
    /\ emails' = emails \cup {[user |-> u, addr |-> a, verified |-> FALSE]}
    /\ UNCHANGED <<clock, idents, totp, members, sess, minted, jar, req, purge, history>>

\* DELETE /api/user/emails/{id}: refused for the last verified address.
RemoveEmail(b, e) ==
    LET u == lookup(jar[b].tok) IN
    /\ "email" \in Ops /\ u # "none" /\ e.user = u
    /\ e.verified => Cardinality({x \in emails : x.user = u /\ x.verified}) > 1
    /\ emails' = emails \ {e}
    /\ UNCHANGED <<clock, idents, totp, members, sess, minted, jar, req, purge, history>>

-----------------------------------------------------------------------------
(* The gate of an org-scoped request *)

\* The browser sends its cookie; a request whose X-CSRF-Token does not echo the
\* cookie never gets past the middleware and is not modelled further.
Send(r, b, o, a) ==
    /\ "gate" \in Ops /\ req[r] = NoRow
    /\ req' = [req EXCEPT ![r] = [b |-> b, tok |-> jar[b].tok, org |-> o,
                                  need |-> RequiredRole(a), user |-> "none",
                                  role |-> "none", step |-> "session"]]
    /\ UNCHANGED <<clock, emails, idents, totp, members, sess, minted, jar, purge, history>>

Answered(r) == req' = [req EXCEPT ![r] = NoRow]

\* auth_failure_response: the 401 tells the browser to drop both cookies, the ones
\* it holds when the answer arrives.
AuthFailure(r) ==
    /\ Answered(r)
    /\ jar' = [jar EXCEPT ![req[r].b] = Cleared(@)]

\* _current_session_user_id.
GateSession(r) ==
    LET q == req[r] IN
    /\ q # NoRow /\ q.step = "session"
    /\ IF lookup(q.tok) = "none"
       THEN AuthFailure(r)
       ELSE /\ req' = [req EXCEPT ![r].user = lookup(q.tok), ![r].step = "org"]
            /\ UNCHANGED jar
    /\ UNCHANGED <<clock, emails, idents, totp, members, sess, minted, purge, history>>

\* resolve_auth_org and the role check: 404 without a membership, 403 below the role.
GateOrg(r) ==
    LET q == req[r] IN
    /\ q # NoRow /\ q.step = "org"
    /\ IF covers(members[q.user][q.org], q.need)
       THEN req' = [req EXCEPT ![r].role = members[q.user][q.org], ![r].step = "idle"]
       ELSE Answered(r)
    /\ UNCHANGED <<clock, emails, idents, totp, members, sess, minted, jar, purge, history>>

\* The idle window: the row is read again; a row that is gone passes.
IdledOut(q) ==
    /\ q.tok # 0 /\ lookup(q.tok) # "none"
    /\ sess[q.tok].seen + session_timeout(q.org) < clock

GateIdle(r) ==
    LET q == req[r] IN
    /\ q # NoRow /\ q.step = "idle"
    /\ IF IdledOut(q)
       THEN /\ AuthFailure(r)
            /\ audited' = audited \cup {<<q.tok, q.org>>}
            /\ idled' = idled \cup {<<q.tok, q.org>>}
       ELSE /\ req' = [req EXCEPT ![r].step = "sso"]
            /\ UNCHANGED <<jar, audited, idled>>
    /\ UNCHANGED <<clock, emails, idents, totp, members, sess, minted, purge, ends, signins,
                   firstMail, lastServed>>

\* SSO satisfaction, and the break-glass owner who must hold a verified secret.
SsoPasses(q) ==
    \/ q.org \notin SsoOrgs
    \/ lookup(q.tok) # "none" /\ is_sso_satisfied(sess[q.tok], q.org)
    \/ q.user = Exempt /\ q.role = "owner" /\ has_verified_totp(q.user)

GateSso(r) ==
    LET q == req[r] IN
    /\ q # NoRow /\ q.step = "sso"
    /\ IF SsoPasses(q) THEN req' = [req EXCEPT ![r].step = "touch"] ELSE Answered(r)
    /\ UNCHANGED <<clock, emails, idents, totp, members, sess, minted, jar, purge, history>>

\* touch: an UPDATE, so a row that was revoked meanwhile stays gone.
touch_upsert(q) ==
    [sess EXCEPT ![q.tok] = [user |-> q.user, expires |-> clock + Lifetime, seen |-> clock,
                             sso |-> "none", ssoAt |-> clock]]

touch(q) ==
    IF lookup(q.tok) = "none" THEN sess ELSE [sess EXCEPT ![q.tok].seen = clock]

\* The last step of require, after which the handler runs.
Serve(r) ==
    LET q == req[r] IN
    /\ q # NoRow /\ q.step = "touch"
    /\ sess' = touch(q)
    /\ lastServed' = [lastServed EXCEPT ![q.tok] = clock]
    /\ Answered(r)
    /\ UNCHANGED <<clock, emails, idents, totp, members, minted, jar, purge, audited, ends,
                   signins, firstMail, idled>>

-----------------------------------------------------------------------------
(* The hourly purge and time *)

\* _purge_expired_sessions, the SELECT: the rows that will be written up.
PurgeCollect ==
    /\ purge = NoRow
    /\ \E t \in Toks : sess[t] # NoRow /\ expired(sess[t])
    /\ purge' = [rows |-> {t \in Toks : sess[t] # NoRow /\ expired(sess[t])}]
    /\ UNCHANGED <<clock, emails, idents, totp, members, sess, minted, jar, req, history>>

\* The audit rows, and cleanup_expired with its own reading of the clock.
PurgeDelete ==
    /\ purge # NoRow
    /\ LET gone == {t \in Toks : sess[t] # NoRow /\ expired(sess[t])} IN
       /\ audited' = audited \cup UNION {{t} \X list_memberships_for_user(sess[t].user)
                                         : t \in Live(purge.rows)}
       /\ sess' = SessionsWithout(gone)
       /\ ends' = ends \cup EndRecords(gone, "expiry")
    /\ purge' = NoRow
    /\ UNCHANGED <<clock, emails, idents, totp, members, minted, jar, req, signins,
                   firstMail, lastServed, idled>>

\* _purge_stale_unverified_totp_secrets.
StaleSecret(row) == row # NoRow /\ ~row.verified /\ row.created + TotpTTL < clock

PurgeSecrets ==
    /\ \E u \in Users : StaleSecret(totp[u])
    /\ totp' = [u \in Users |-> IF StaleSecret(totp[u]) THEN NoRow ELSE totp[u]]
    /\ UNCHANGED <<clock, emails, idents, members, sess, minted, jar, req, purge, history>>

Tick ==
    /\ clock < MaxClock
    /\ clock' = clock + 1
    /\ UNCHANGED <<emails, idents, totp, members, sess, minted, jar, req, purge, history>>

-----------------------------------------------------------------------------

Init ==
    /\ clock = 0
    /\ emails = {[user |-> u, addr |-> u, verified |-> TRUE] : u \in Staff}
    /\ idents = [s \in Subjects |-> "none"]
    /\ totp = [u \in Users |-> NoRow]
    /\ members = [u \in Users |-> [o \in Orgs |-> IF u \in Staff THEN "owner" ELSE "none"]]
    /\ sess = [t \in Toks |-> NoRow]
    /\ minted = 0
    /\ jar = [b \in Browsers |-> [tok |-> 0, chal |-> NoRow, state |-> NoRow]]
    /\ req = [r \in Reqs |-> NoRow]
    /\ purge = NoRow
    /\ audited = {} /\ ends = {} /\ idled = {}
    /\ signins = [s \in Subjects |-> {}]
    /\ firstMail = [s \in Subjects |-> "none"]
    /\ lastServed = [t \in Toks |-> 0]

Next ==
    \/ \E b \in Browsers : Login(b)
    \/ \E b \in Browsers, s \in Subjects, a \in Users, mfa \in BOOLEAN : Callback(b, s, a, mfa)
    \/ \E b \in Browsers : TotpChallenge(b)
    \/ \E b \in Browsers, a \in Users, o \in Orgs : SsoAcs(b, a, o)
    \/ \E b \in Browsers : Logout(b)
    \/ \E b \in Browsers : LogoutAll(b)
    \/ \E u \in Users, o \in Orgs, role \in Roles \cup {"none"} : ChangeMembership(u, o, role)
    \/ \E b \in Browsers : TotpEnroll(b)
    \/ \E b \in Browsers : TotpVerify(b)
    \/ \E b \in Browsers, a \in Users : AddEmail(b, a)
    \/ \E b \in Browsers, e \in emails : RemoveEmail(b, e)
    \/ \E r \in Reqs, b \in Browsers, o \in Orgs, a \in Actions : Send(r, b, o, a)
    \/ \E r \in Reqs : GateSession(r)
    \/ \E r \in Reqs : GateOrg(r)
    \/ \E r \in Reqs : GateIdle(r)
    \/ \E r \in Reqs : GateSso(r)
    \/ \E r \in Reqs : Serve(r)
    \/ PurgeCollect
    \/ PurgeDelete
    \/ PurgeSecrets
    \/ Tick

Spec == Init /\ [][Next]_vars

-----------------------------------------------------------------------------
(* Properties *)

\* A session row that was revoked or purged never comes back and no row outlives
\* the expiry it was minted with, whatever request was inside require() when it
\* went: touch and mark_sso_satisfied only ever update.
NeverRevived ==
    \A t \in 1 .. minted :
        /\ sess[t] = NoRow => sess'[t] = NoRow
        /\ sess[t] # NoRow /\ sess'[t] # NoRow => sess'[t].expires = sess[t].expires

\* A provider account always signs in as the reader of the mailbox it first
\* signed in with (login_via_oauth): not as somebody who typed that address into
\* their own account, and not as the owner of an address it moved to later.
SubjectIsMailboxOwner ==
    \A s \in Subjects : signins[s] \subseteq {firstMail[s]}

\* A session that served an org-scoped request within the idle window of an org
\* is not refused as idle there: require() touches the row on every success.
ActiveNeverIdledOut ==
    \A p \in idled' \ idled : lastServed[p[1]] + session_timeout(p[2]) < clock

\* scheduler.py: every explicit or expiry logout of a session leaves a logout row
\* in each org its user belonged to.
EveryEndAudited ==
    \A e \in ends : e.why \in {"logout", "logout_all", "expiry"} => {e.tok} \X e.orgs \subseteq audited

\* auth_failure.py: a 401 of the gate clears the stale cookies, never those of a
\* session that lives.
OnlyStaleCleared ==
    [][\A r \in Reqs :
          LET b == req[r].b IN
          req[r] # NoRow /\ req'[r] = NoRow /\ jar[b].tok # 0 /\ jar'[b].tok = 0
          => \/ lookup(jar[b].tok) = "none"
             \/ sess[jar[b].tok].seen + session_timeout(req[r].org) < clock]_vars

\* auth/types.py: a session past the idle window of an org is treated as expired;
\* once refused there it does not serve that org again.
IdleIsFinal ==
    [][\A r \in Reqs : req[r] # NoRow /\ req[r].step = "touch" /\ req'[r] = NoRow
          => <<req[r].tok, req[r].org>> \notin idled]_vars

\* scheduler.py: only secrets older than the grace period are purged unproved.
FreshSecretKept ==
    [][\A u \in Users : totp[u] # NoRow /\ totp'[u] = NoRow
          => totp[u].minted + TotpTTL < clock]_vars
=============================================================================
