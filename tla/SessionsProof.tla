--------------------------- MODULE SessionsProof ---------------------------
(***************************************************************************)
(* Safety of signing in and of the gate, for any number of people,         *)
(* browsers, requests and organizations, whatever windows and lifetimes    *)
(* are configured.  BoundsAreNat, which the checked instances evaluate, is *)
(* a hypothesis.                                                           *)
(*                                                                         *)
(* require() reads the session row once per question, and between two      *)
(* questions a logout, a role change or the purge may delete it.  The      *)
(* argument is that the number of a row is never used again: what a        *)
(* request or a cookie remembers of a row is then true of the row or the   *)
(* row is gone for good.                                                   *)
(***************************************************************************)
EXTENDS Sessions, TLAPS

-----------------------------------------------------------------------------
(* The inductive invariant.                                                 *)

\* Rows, cookies and requests name tokens that were minted.
TokensMinted ==
    /\ \A t \in Toks : sess[t] # NoRow => t <= minted
    /\ \A b \in Browsers : jar[b].tok <= minted
    /\ \A r \in Reqs : req[r] # NoRow => req[r].tok <= minted

\* A verified mailbox belongs to its reader, and a subject is bound to the reader
\* of the mailbox it first signed in with.
MailboxesOwned ==
    /\ \A e \in emails : e.verified => e.user = e.addr
    /\ \A s \in Subjects : idents[s] = firstMail[s]

\* A session that lives was touched by every request it served.
ServedIsSeen ==
    /\ \A t \in Toks : lastServed[t] <= clock
    /\ \A t \in Toks : sess[t] # NoRow /\ sess[t].expires >= clock => lastServed[t] <= sess[t].seen

\* A request past the first question is that of a user, whose session it names
\* as long as the session exists; past the second, his role covers its action.
RequestOwned(r) ==
    /\ req[r].step # "session" => /\ req[r].user \in Users /\ req[r].tok \in Toks
                                  /\ sess[req[r].tok] # NoRow => sess[req[r].tok].user = req[r].user
    /\ req[r].step \in {"idle", "sso", "touch"} => covers(req[r].role, req[r].need)

RequestsOwned == \A r \in Reqs : req[r] # NoRow => RequestOwned(r)

SInv ==
    /\ TypeOK /\ TokensMinted /\ MailboxesOwned /\ SubjectIsMailboxOwner /\ ServedIsSeen
    /\ RequestsOwned

-----------------------------------------------------------------------------
(* Rows and types.                                                          *)

\* A row is there, or it is not.
LEMMA RowsApart ==
  ASSUME NEW R, R \in SessionRow \/ R \in UserTotpSecretRow \/ R \in Challenge \/ R \in Request
                \/ R \in [at : Time] \/ R \in [rows : SUBSET Toks]
  PROVE  R # NoRow
BY DEF SessionRow, UserTotpSecretRow, Challenge, Request, NoRow

\* The bounds are numbers.
LEMMA Bounded ==
  ASSUME BoundsAreNat
  PROVE  /\ MaxTok \in Nat /\ MaxClock \in Nat /\ Lifetime \in Nat /\ Idle \in Nat /\ ShortIdle \in Nat
         /\ SignedAge \in Nat /\ SsoTTL \in Nat /\ TotpTTL \in Nat
BY DEF BoundsAreNat

\* The user behind a cookie is the user of its row.
LEMMA LookupTyped ==
  ASSUME BoundsAreNat, TypeOK, NEW t \in 0 .. MaxTok
  PROVE  /\ lookup(t) \in Users \cup {"none"}
         /\ lookup(t) # "none" => /\ t \in Toks /\ sess[t] \in SessionRow /\ sess[t] # NoRow
                                  /\ lookup(t) = sess[t].user /\ lookup(t) \in Users
                                  /\ sess[t].expires >= clock
<1>1. CASE t = 0 \/ sess[t] = NoRow
  BY <1>1 DEF lookup
<1>2. CASE t # 0 /\ sess[t] # NoRow
  <2>1. t \in Toks
    BY <1>2, Bounded DEF Toks
  <2>2. sess[t] \in SessionRow
    BY <1>2, <2>1 DEF TypeOK
  <2>3. sess[t].expires \in Nat /\ sess[t].user \in Users
    BY <2>2 DEF SessionRow
  <2>4. clock \in Nat
    BY DEF TypeOK, Time
  <2> QED
    BY <1>2, <2>1, <2>2, <2>3, <2>4 DEF lookup, expired, BoundsAreNat
<1> QED
  BY <1>1, <1>2

\* A live session, or none.
LEMMA LookupNone ==
  ASSUME BoundsAreNat, TypeOK, NEW t \in Toks, lookup(t) = "none"
  PROVE  sess[t] = NoRow \/ sess[t].expires < clock
<1>1. CASE sess[t] # NoRow
  <2>1. sess[t].user \in Users /\ t # 0
    BY <1>1 DEF TypeOK, SessionRow, Toks
  <2> QED
    BY <1>1, <2>1 DEF lookup, expired, BoundsAreNat
<1> QED
  BY <1>1

\* What is recorded of a session that ends.
LEMMA EndsTyped ==
  ASSUME TypeOK, NEW gone, gone \subseteq Toks \cup {0}, NEW why \in EndKinds
  PROVE  EndRecords(gone, why) \subseteq [tok: Toks, why: EndKinds, orgs: SUBSET Orgs]
<1>1. \A u : list_memberships_for_user(u) \in SUBSET Orgs
  BY DEF list_memberships_for_user
<1>2. Live(gone) \subseteq Toks
  BY DEF Live
<1>3. ASSUME NEW e \in EndRecords(gone, why) PROVE e \in [tok: Toks, why: EndKinds, orgs: SUBSET Orgs]
  BY <1>1, <1>2 DEF EndRecords
<1> QED
  BY <1>3

\* The row that sessions.create inserts, next to those it leaves alone.
LEMMA MintTyped ==
  ASSUME BoundsAreNat, TypeOK, NEW u \in Users, NEW o \in Orgs \cup {"none"}, NEW gone, minted < MaxTok,
         NEW S, S = SessionsAfterMint(u, gone, o)
  PROVE  /\ S \in [Toks -> SessionRow \cup {NoRow}] /\ minted + 1 \in Toks /\ minted + 1 \in 0 .. MaxTok
         /\ \A t \in Toks : t # minted + 1 => S[t] \in {NoRow, sess[t]}
         /\ S[minted + 1] # NoRow => S[minted + 1].seen = clock
<1> DEFINE R == [user |-> u, expires |-> clock + Lifetime, seen |-> clock, sso |-> o, ssoAt |-> clock]
<1>1. minted \in Nat /\ minted + 1 \in Toks /\ minted + 1 \in 0 .. MaxTok
  BY Bounded DEF TypeOK, Toks
<1>2. clock \in Time /\ clock \in Nat /\ clock + Lifetime \in Nat
  BY Bounded DEF TypeOK, Time
<1>3. R \in SessionRow /\ R.seen = clock
  BY <1>2 DEF SessionRow
<1>4. S = [t \in Toks |-> IF t \in gone THEN NoRow ELSE IF t = minted + 1 THEN R ELSE sess[t]]
  BY DEF SessionsAfterMint
<1> HIDE DEF R
<1>5. \A t \in Toks : sess[t] \in SessionRow \cup {NoRow}
  BY DEF TypeOK
<1> QED
  BY <1>1, <1>3, <1>4, <1>5

\* The rows that are left.
LEMMA WithoutTyped ==
  ASSUME TypeOK, NEW gone, NEW S, S = SessionsWithout(gone)
  PROVE  S \in [Toks -> SessionRow \cup {NoRow}] /\ \A t \in Toks : S[t] \in {NoRow, sess[t]}
BY DEF SessionsWithout, TypeOK

\* The state at start.
LEMMA InitSInv == ASSUME BoundsAreNat, Init PROVE SInv
<1>1. TypeOK
  <2>1. 0 \in Time /\ 0 \in 0 .. MaxTok
    BY Bounded DEF Time
  <2>2. emails \subseteq UserEmailRow
    <3>1. ASSUME NEW u \in Staff PROVE [user |-> u, addr |-> u, verified |-> TRUE] \in UserEmailRow
      BY DEF UserEmailRow, BoundsAreNat
    <3> QED
      BY <3>1 DEF Init
  <2>3. members \in [Users -> [Orgs -> Roles \cup {"none"}]]
    BY DEF Init, Roles
  <2>4. jar \in [Browsers -> Jar]
    BY <2>1 DEF Init, Jar
  <2> QED
    BY <2>1, <2>2, <2>3, <2>4 DEF Init, TypeOK
<1>2. TokensMinted /\ ServedIsSeen /\ RequestsOwned
  BY DEF Init, TokensMinted, ServedIsSeen, RequestsOwned
<1>3. MailboxesOwned /\ SubjectIsMailboxOwner
  BY DEF Init, MailboxesOwned, SubjectIsMailboxOwner
<1> QED
  BY <1>1, <1>2, <1>3 DEF SInv

-----------------------------------------------------------------------------
(* What a step does to the rows.                                            *)

\* Every step keeps the invariant, revives no row, gives no number twice and idles
\* out no active session.
RowsStayGone == NeverRevived /\ minted' >= minted

StepHolds == SInv' /\ RowsStayGone /\ ActiveNeverIdledOut

\* A row is deleted, or stays that of the same user until the same time, or is
\* new and has a new number.
RowMoves(t) ==
    \/ sess'[t] = NoRow
    \/ sess[t] # NoRow /\ sess'[t].user = sess[t].user /\ sess'[t].expires = sess[t].expires
       /\ (sess'[t].seen >= sess[t].seen \/ sess'[t].seen = clock)
    \/ t = minted + 1 /\ minted' = minted + 1 /\ sess'[t].seen = clock

\* A request that is served touches its session, if that lives.
ServedMoves(t) ==
    \/ lastServed'[t] = lastServed[t]
    \/ lastServed'[t] = clock /\ (sess'[t] = NoRow \/ sess'[t].expires < clock \/ sess'[t].seen = clock)

LEMMA RowsKept ==
  ASSUME BoundsAreNat, SInv, TypeOK', clock' >= clock,
         \A t \in Toks : RowMoves(t), \A t \in Toks : ServedMoves(t),
         minted' = minted \/ minted' = minted + 1,
         \A b \in Browsers : jar'[b].tok \in {0, jar[b].tok, minted'},
         \A r \in Reqs : req'[r] # NoRow => \/ req[r] # NoRow /\ req'[r] = req[r]
                                            \/ req'[r].tok <= minted' /\ RequestOwned(r)'
  PROVE  TokensMinted' /\ ServedIsSeen' /\ RequestsOwned' /\ RowsStayGone
<1>1. TypeOK /\ TokensMinted /\ ServedIsSeen /\ RequestsOwned
  BY DEF SInv
<1>2. /\ minted \in Nat /\ minted' \in Nat /\ clock \in Nat /\ clock' \in Nat
      /\ \A t \in Toks : t \in Nat /\ t >= 1 /\ lastServed[t] \in Nat /\ lastServed'[t] \in Nat
      /\ \A t \in Toks : sess[t] # NoRow => sess[t].seen \in Nat /\ sess[t].expires \in Nat
      /\ \A t \in Toks : sess'[t] # NoRow => sess'[t].seen \in Nat /\ sess'[t].expires \in Nat
  <2>1. /\ minted \in 0 .. MaxTok /\ minted' \in 0 .. MaxTok /\ clock \in Time /\ clock' \in Time
        /\ \A t \in Toks : lastServed[t] \in Time /\ lastServed'[t] \in Time
    BY <1>1 DEF TypeOK
  <2>2. /\ \A t \in Toks : sess[t] \in SessionRow \cup {NoRow}
        /\ \A t \in Toks : sess'[t] \in SessionRow \cup {NoRow}
    BY <1>1 DEF TypeOK
  <2>3. \A R \in SessionRow : R.seen \in Nat /\ R.expires \in Nat
    BY DEF SessionRow, Time
  <2>4. \A t \in Toks : t \in Nat /\ t >= 1
    BY Bounded DEF Toks
  <2> QED
    BY <2>1, <2>2, <2>3, <2>4, Bounded DEF Time
<1>3. TokensMinted'
  <2>1. \A t \in Toks : sess'[t] # NoRow => t <= minted'
    BY <1>1, <1>2 DEF TokensMinted, RowMoves
  <2>2. ASSUME NEW b \in Browsers PROVE jar'[b].tok <= minted'
    <3>1. jar[b].tok <= minted /\ jar[b].tok \in 0 .. MaxTok
      BY <1>1 DEF TokensMinted, TypeOK, Jar
    <3> QED
      BY <1>2, <3>1, Bounded
  <2>3. ASSUME NEW r \in Reqs, req'[r] # NoRow PROVE req'[r].tok <= minted'
    <3>1. CASE req[r] # NoRow /\ req'[r] = req[r]
      <4>1. req[r].tok <= minted /\ req[r].tok \in 0 .. MaxTok
        BY <1>1, <3>1 DEF TokensMinted, TypeOK, Request
      <4> QED
        BY <1>2, <3>1, <4>1, Bounded
    <3> QED
      BY <2>3, <3>1
  <2> QED
    BY <2>1, <2>2, <2>3 DEF TokensMinted
<1>4. ServedIsSeen'
  <2>1. \A t \in Toks : lastServed'[t] <= clock'
    BY <1>1, <1>2 DEF ServedIsSeen, ServedMoves
  <2>2. ASSUME NEW t \in Toks, sess'[t] # NoRow, sess'[t].expires >= clock'
        PROVE  lastServed'[t] <= sess'[t].seen
    <3>1. RowMoves(t) /\ ServedMoves(t)
      OBVIOUS
    <3>2. lastServed[t] <= clock /\ (sess[t] # NoRow /\ sess[t].expires >= clock => lastServed[t] <= sess[t].seen)
      BY <1>1 DEF ServedIsSeen
    <3>3. sess'[t].expires >= clock
      BY <1>2, <2>2
    <3>4. /\ sess[t] # NoRow => sess[t].seen \in Nat /\ sess[t].expires \in Nat
          /\ sess'[t].seen \in Nat /\ sess'[t].expires \in Nat
      BY <1>2, <2>2
    <3>5. CASE lastServed'[t] = lastServed[t]
      BY <1>2, <2>2, <3>1, <3>2, <3>3, <3>4, <3>5 DEF RowMoves
    <3>6. CASE lastServed'[t] = clock /\ (sess'[t].expires < clock \/ sess'[t].seen = clock)
      BY <1>2, <3>3, <3>4, <3>6
    <3> QED
      BY <2>2, <3>1, <3>5, <3>6 DEF ServedMoves
  <2> QED
    BY <2>1, <2>2 DEF ServedIsSeen
<1>5. RequestsOwned'
  <2>1. ASSUME NEW r \in Reqs, req[r] # NoRow, req'[r] = req[r] PROVE RequestOwned(r)'
    <3>1. RequestOwned(r) /\ req[r].tok <= minted
      BY <1>1, <2>1 DEF RequestsOwned, TokensMinted
    <3>2. ASSUME req[r].tok \in Toks, sess'[req[r].tok] # NoRow
          PROVE  sess[req[r].tok] # NoRow /\ sess'[req[r].tok].user = sess[req[r].tok].user
      BY <1>2, <3>1, <3>2 DEF RowMoves
    <3> QED
      BY <2>1, <3>1, <3>2 DEF RequestOwned
  <2> QED
    BY <2>1 DEF RequestsOwned
<1>6. NeverRevived
  <2>1. \A t \in 1 .. minted : t \in Toks /\ t # minted + 1
    BY <1>1, <1>2, Bounded DEF Toks, TypeOK
  <2> QED
    BY <2>1 DEF NeverRevived, RowMoves
<1> QED
  BY <1>2, <1>3, <1>4, <1>5, <1>6 DEF RowsStayGone

\* A step that leaves the sessions, the cookies' tokens and the requests alone.
LEMMA SessionsAlone ==
  ASSUME BoundsAreNat, SInv, TypeOK', MailboxesOwned', SubjectIsMailboxOwner',
         UNCHANGED <<clock, sess, minted, req, lastServed, idled>>,
         \A b \in Browsers : jar'[b].tok = jar[b].tok
  PROVE  StepHolds
<1>1. \A t \in Toks : sess[t] # NoRow => sess[t].seen \in Nat
  BY DEF SInv, TypeOK, SessionRow, Time
<1>2. \A t \in Toks : RowMoves(t) /\ ServedMoves(t)
  BY <1>1 DEF RowMoves, ServedMoves
<1>3. clock \in Nat
  BY DEF SInv, TypeOK, Time
<1>4. TokensMinted' /\ ServedIsSeen' /\ RequestsOwned' /\ RowsStayGone
  BY <1>2, <1>3, RowsKept
<1> QED
  BY <1>4 DEF StepHolds, SInv, ActiveNeverIdledOut

\* Who owns which mailbox, and who signs in as whom, is not touched.
LEMMA OwnersKept ==
  ASSUME SInv, UNCHANGED <<emails, idents, signins, firstMail>>
  PROVE  MailboxesOwned' /\ SubjectIsMailboxOwner'
BY DEF SInv, MailboxesOwned, SubjectIsMailboxOwner

-----------------------------------------------------------------------------
(* Steps that leave the sessions alone.                                     *)

LEMMA LoginHolds ==
  ASSUME BoundsAreNat, SInv, NEW b \in Browsers, Login(b)
  PROVE  StepHolds
<1> DEFINE J == [jar[b] EXCEPT !.state = [at |-> clock]]
<1>1. /\ jar' = [jar EXCEPT ![b] = J]
      /\ UNCHANGED <<clock, emails, idents, totp, members, sess, minted, req, purge, history>>
  BY DEF Login
<1>2. UNCHANGED <<audited, ends, signins, firstMail, lastServed, idled>>
  BY <1>1 DEF history
<1>3. J \in Jar /\ J.tok = jar[b].tok
  BY DEF SInv, TypeOK, Jar
<1> HIDE DEF J
<1>4. TypeOK' /\ \A c \in Browsers : jar'[c].tok = jar[c].tok
  BY <1>1, <1>2, <1>3 DEF SInv, TypeOK
<1> QED
  BY <1>1, <1>2, <1>4, SessionsAlone, OwnersKept

\* The account pages: a typed address is not verified, a secret is its user's.
LEMMA AccountHolds ==
  ASSUME BoundsAreNat, SInv, NEW b \in Browsers,
         \/ TotpEnroll(b) \/ TotpVerify(b)
         \/ \E a \in Users : AddEmail(b, a)
         \/ \E e \in emails : RemoveEmail(b, e)
  PROVE  StepHolds
<1> DEFINE u == lookup(jar[b].tok)
<1>1. UNCHANGED <<clock, idents, members, sess, minted, jar, req, purge, history>> /\ u # "none"
  BY DEF TotpEnroll, TotpVerify, AddEmail, RemoveEmail
<1>2. UNCHANGED <<audited, ends, signins, firstMail, lastServed, idled>>
  BY <1>1 DEF history
<1>3. u \in Users
  <2>1. jar[b].tok \in 0 .. MaxTok
    BY DEF SInv, TypeOK, Jar
  <2> QED
    BY <1>1, <2>1, LookupTyped DEF SInv
<1> HIDE DEF u
<1>4. ASSUME emails' = emails, totp' \in [Users -> UserTotpSecretRow \cup {NoRow}] PROVE StepHolds
  <2>1. TypeOK'
    BY <1>1, <1>2, <1>4 DEF SInv, TypeOK
  <2> QED
    BY <1>1, <1>2, <1>4, <2>1, SessionsAlone, OwnersKept
<1>5. ASSUME totp' = totp, emails' \subseteq UserEmailRow, \A e \in emails' : e.verified => e.user = e.addr
      PROVE  StepHolds
  <2>1. TypeOK'
    BY <1>1, <1>2, <1>5 DEF SInv, TypeOK
  <2>2. MailboxesOwned' /\ SubjectIsMailboxOwner'
    BY <1>1, <1>2, <1>5 DEF SInv, MailboxesOwned, SubjectIsMailboxOwner
  <2> QED
    BY <1>1, <1>2, <2>1, <2>2, SessionsAlone
<1>6. CASE TotpEnroll(b)
  <2> DEFINE R == upsert_totp_secret(u)
  <2>1. totp' = [totp EXCEPT ![u] = R] /\ emails' = emails
    BY <1>6 DEF TotpEnroll, u
  <2>2. R \in UserTotpSecretRow
    BY <1>3 DEF upsert_totp_secret, UserTotpSecretRow, SInv, TypeOK
  <2> HIDE DEF R
  <2>3. totp' \in [Users -> UserTotpSecretRow \cup {NoRow}]
    BY <2>1, <2>2 DEF SInv, TypeOK
  <2> QED
    BY <1>4, <2>1, <2>3
<1>7. CASE TotpVerify(b)
  <2> DEFINE R == [totp[u] EXCEPT !.verified = TRUE]
  <2>1. totp' = [totp EXCEPT ![u] = R] /\ emails' = emails /\ totp[u] # NoRow
    BY <1>7 DEF TotpVerify, Proved, u
  <2>2. totp[u] \in UserTotpSecretRow
    BY <1>3, <2>1 DEF SInv, TypeOK
  <2>3. R \in UserTotpSecretRow
    BY <2>2 DEF UserTotpSecretRow
  <2> HIDE DEF R
  <2>4. totp' \in [Users -> UserTotpSecretRow \cup {NoRow}]
    BY <2>1, <2>3 DEF SInv, TypeOK
  <2> QED
    BY <1>4, <2>1, <2>4
<1>8. CASE \E a \in Users : AddEmail(b, a)
  <2>1. PICK a \in Users : AddEmail(b, a)
    BY <1>8
  <2> DEFINE e == [user |-> u, addr |-> a, verified |-> FALSE]
  <2>2. emails' = emails \cup {e} /\ totp' = totp
    BY <2>1 DEF AddEmail, u
  <2>3. e \in UserEmailRow /\ ~e.verified
    BY <1>3 DEF UserEmailRow
  <2> HIDE DEF e
  <2>4. emails \subseteq UserEmailRow /\ \A x \in emails : x.verified => x.user = x.addr
    BY DEF SInv, TypeOK, MailboxesOwned
  <2> QED
    BY <1>5, <2>2, <2>3, <2>4
<1>9. CASE \E e \in emails : RemoveEmail(b, e)
  <2>1. PICK e \in emails : RemoveEmail(b, e)
    BY <1>9
  <2>2. emails' = emails \ {e} /\ totp' = totp
    BY <2>1 DEF RemoveEmail
  <2>3. emails \subseteq UserEmailRow /\ \A x \in emails : x.verified => x.user = x.addr
    BY DEF SInv, TypeOK, MailboxesOwned
  <2> QED
    BY <1>5, <2>2, <2>3
<1> QED
  BY <1>6, <1>7, <1>8, <1>9

\* What the purge collects, and the secrets nobody proved.
LEMMA PurgeReadsHold ==
  ASSUME BoundsAreNat, SInv, PurgeCollect \/ PurgeSecrets
  PROVE  StepHolds
<1>1. UNCHANGED <<clock, emails, idents, members, sess, minted, jar, req, history>>
  BY DEF PurgeCollect, PurgeSecrets
<1>2. UNCHANGED <<audited, ends, signins, firstMail, lastServed, idled>>
  BY <1>1 DEF history
<1>3. CASE PurgeCollect
  <2>1. totp' = totp /\ purge' = [rows |-> {t \in Toks : sess[t] # NoRow /\ expired(sess[t])}]
    BY <1>3 DEF PurgeCollect
  <2>2. purge' \in [rows : SUBSET Toks]
    BY <2>1
  <2>3. TypeOK'
    BY <1>1, <1>2, <2>1, <2>2 DEF SInv, TypeOK
  <2> QED
    BY <1>1, <1>2, <2>3, SessionsAlone, OwnersKept
<1>4. CASE PurgeSecrets
  <2>1. purge' = purge /\ totp' = [u \in Users |-> IF StaleSecret(totp[u]) THEN NoRow ELSE totp[u]]
    BY <1>4 DEF PurgeSecrets
  <2>2. totp' \in [Users -> UserTotpSecretRow \cup {NoRow}]
    BY <2>1 DEF SInv, TypeOK
  <2>3. TypeOK'
    BY <1>1, <1>2, <2>1, <2>2 DEF SInv, TypeOK
  <2> QED
    BY <1>1, <1>2, <2>3, SessionsAlone, OwnersKept
<1> QED
  BY <1>3, <1>4

\* Time passes: a session that has expired stays so.
LEMMA TickHolds ==
  ASSUME BoundsAreNat, SInv, Tick
  PROVE  StepHolds
<1>1. /\ clock < MaxClock /\ clock' = clock + 1
      /\ UNCHANGED <<emails, idents, totp, members, sess, minted, jar, req, purge, history>>
  BY DEF Tick
<1>2. UNCHANGED <<audited, ends, signins, firstMail, lastServed, idled>>
  BY <1>1 DEF history
<1>3. clock \in Nat /\ clock' \in Time /\ clock' >= clock
  BY <1>1, Bounded DEF SInv, TypeOK, Time
<1>4. TypeOK'
  BY <1>1, <1>2, <1>3 DEF SInv, TypeOK
<1>5. \A t \in Toks : sess[t] # NoRow => sess[t].seen \in Nat
  BY DEF SInv, TypeOK, SessionRow, Time
<1>6. \A t \in Toks : RowMoves(t) /\ ServedMoves(t)
  BY <1>1, <1>2, <1>5 DEF RowMoves, ServedMoves
<1>7. TokensMinted' /\ ServedIsSeen' /\ RequestsOwned' /\ RowsStayGone
  BY <1>1, <1>3, <1>4, <1>6, RowsKept
<1>8. MailboxesOwned' /\ SubjectIsMailboxOwner'
  BY <1>1, <1>2, OwnersKept
<1> QED
  BY <1>2, <1>4, <1>7, <1>8 DEF StepHolds, SInv, ActiveNeverIdledOut

-----------------------------------------------------------------------------
(* The gate.                                                                *)

\* A question of require() that is answered: the request moves on, or is
\* answered and at most takes the cookies with it.
LEMMA Gated ==
  ASSUME BoundsAreNat, SInv, NEW r \in Reqs, NEW Q \in Request \cup {NoRow}, req' = [req EXCEPT ![r] = Q],
         UNCHANGED <<clock, emails, idents, totp, members, sess, minted, purge, ends, signins, firstMail, lastServed>>,
         \/ jar' = jar
         \/ req[r] \in Request /\ jar' = [jar EXCEPT ![req[r].b] = Cleared(@)],
         audited' \subseteq Toks \X Orgs, idled' \subseteq Toks \X Orgs, ActiveNeverIdledOut,
         Q # NoRow => Q.tok <= minted /\ RequestOwned(r)'
  PROVE  StepHolds
<1>1. /\ req' \in [Reqs -> Request \cup {NoRow}]
      /\ \A q \in Reqs : req'[q] = IF q = r THEN Q ELSE req[q]
  BY DEF SInv, TypeOK
<1>2. jar' \in [Browsers -> Jar] /\ \A b \in Browsers : jar'[b].tok \in {0, jar[b].tok}
  <2>1. CASE jar' = jar
    BY <2>1 DEF SInv, TypeOK
  <2>2. CASE req[r] \in Request /\ jar' = [jar EXCEPT ![req[r].b] = Cleared(@)]
    <3> DEFINE b == req[r].b
               J == [jar[b] EXCEPT !.tok = 0]
    <3>1. b \in Browsers /\ 0 \in 0 .. MaxTok
      BY <2>2, Bounded DEF Request
    <3>2. jar' = [jar EXCEPT ![b] = J]
      BY <2>2 DEF Cleared
    <3> HIDE DEF b
    <3>3. J \in Jar /\ J.tok = 0
      <4>1. jar[b] \in Jar
        BY <3>1 DEF SInv, TypeOK
      <4> QED
        BY ONLY <3>1, <4>1 DEF Jar, J
    <3> HIDE DEF J
    <3> QED
      BY <3>1, <3>2, <3>3 DEF SInv, TypeOK
  <2> QED
    BY <2>1, <2>2
<1>3. TypeOK'
  BY <1>1, <1>2 DEF SInv, TypeOK
<1>4. \A t \in Toks : sess[t] # NoRow => sess[t].seen \in Nat
  BY DEF SInv, TypeOK, SessionRow, Time
<1>5. \A t \in Toks : RowMoves(t) /\ ServedMoves(t)
  BY <1>4 DEF RowMoves, ServedMoves
<1>6. clock \in Nat
  BY DEF SInv, TypeOK, Time
<1>7. \A q \in Reqs : req'[q] # NoRow => \/ req[q] # NoRow /\ req'[q] = req[q]
                                         \/ req'[q].tok <= minted' /\ RequestOwned(q)'
  BY <1>1
<1>8. TokensMinted' /\ ServedIsSeen' /\ RequestsOwned' /\ RowsStayGone
  BY <1>2, <1>3, <1>5, <1>6, <1>7, RowsKept
<1>9. MailboxesOwned' /\ SubjectIsMailboxOwner'
  BY OwnersKept
<1> QED
  BY <1>3, <1>8, <1>9 DEF StepHolds, SInv

\* The request takes the cookie of its browser with it.
LEMMA SendHolds ==
  ASSUME BoundsAreNat, SInv, NEW r \in Reqs, NEW b \in Browsers, NEW o \in Orgs, NEW a \in Actions,
         Send(r, b, o, a)
  PROVE  StepHolds
<1> DEFINE Q == [b |-> b, tok |-> jar[b].tok, org |-> o, need |-> RequiredRole(a), user |-> "none",
                 role |-> "none", step |-> "session"]
<1>1. /\ req' = [req EXCEPT ![r] = Q]
      /\ UNCHANGED <<clock, emails, idents, totp, members, sess, minted, jar, purge, history>>
  BY DEF Send
<1>2. UNCHANGED <<audited, ends, signins, firstMail, lastServed, idled>>
  BY <1>1 DEF history
<1>3. RequiredRole(a) \in Roles
  BY DEF Actions, RequiredRole, Roles
<1>4. jar[b].tok \in 0 .. MaxTok /\ jar[b].tok <= minted
  BY DEF SInv, TypeOK, Jar, TokensMinted
<1>5. Q \in Request /\ Q.step = "session" /\ Q.tok <= minted
  BY <1>3, <1>4 DEF Request
<1> HIDE DEF Q
<1>6. req'[r] = Q
  BY <1>1 DEF SInv, TypeOK
<1>7. RequestOwned(r)'
  BY <1>5, <1>6 DEF RequestOwned
<1>8. audited' \subseteq Toks \X Orgs /\ idled' \subseteq Toks \X Orgs /\ ActiveNeverIdledOut
  BY <1>2 DEF SInv, TypeOK, ActiveNeverIdledOut
<1>9. PICK X \in Request : X = Q
  BY <1>5
<1> QED
  BY <1>1, <1>2, <1>5, <1>7, <1>8, <1>9, Gated

\* Who the request is, what he may do, and whether the org wants SSO.
LEMMA QuestionsHold ==
  ASSUME BoundsAreNat, SInv, NEW r \in Reqs, GateSession(r) \/ GateOrg(r) \/ GateSso(r)
  PROVE  StepHolds
<1> DEFINE q == req[r]
<1>1. /\ UNCHANGED <<clock, emails, idents, totp, members, sess, minted, purge, history>>
      /\ q # NoRow
  BY DEF GateSession, GateOrg, GateSso
<1>2. UNCHANGED <<audited, ends, signins, firstMail, lastServed, idled>>
  BY <1>1 DEF history
<1>3. audited' \subseteq Toks \X Orgs /\ idled' \subseteq Toks \X Orgs /\ ActiveNeverIdledOut
  BY <1>2 DEF SInv, TypeOK, ActiveNeverIdledOut
<1>4. q \in Request /\ q.tok \in 0 .. MaxTok /\ q.tok <= minted /\ RequestOwned(r)
  BY <1>1 DEF SInv, TypeOK, TokensMinted, RequestsOwned, Request
<1> HIDE DEF q
<1>5. ASSUME req' = [req EXCEPT ![r] = NoRow],
             jar' = jar \/ jar' = [jar EXCEPT ![q.b] = Cleared(@)]
      PROVE  StepHolds
  BY <1>1, <1>2, <1>3, <1>4, <1>5, Gated DEF q
<1>6. ASSUME NEW Q \in Request, req' = [req EXCEPT ![r] = Q], jar' = jar, Q.tok = q.tok, RequestOwned(r)'
      PROVE  StepHolds
  BY <1>1, <1>2, <1>3, <1>4, <1>6, Gated
<1>7. \A Q : req' = [req EXCEPT ![r] = Q] => req'[r] = Q
  BY DEF SInv, TypeOK
<1>8. CASE GateSession(r)
  <2>1. CASE lookup(q.tok) = "none"
    <3>1. AuthFailure(r)
      BY <1>8, <2>1 DEF GateSession, q
    <3> QED
      BY <1>5, <3>1 DEF AuthFailure, Answered, q
  <2>2. CASE lookup(q.tok) # "none"
    <3>1. PICK Q : Q = [q EXCEPT !.user = lookup(q.tok), !.step = "org"]
      OBVIOUS
    <3>2. req' = [req EXCEPT ![r] = Q] /\ jar' = jar
      BY <1>4, <1>8, <2>2, <3>1 DEF GateSession, Request, q
    <3>3. /\ lookup(q.tok) \in Users /\ q.tok \in Toks /\ lookup(q.tok) = sess[q.tok].user
      BY <1>4, <2>2, LookupTyped DEF SInv
    <3>4. Q \in Request /\ Q.tok = q.tok /\ Q.user = lookup(q.tok) /\ Q.step = "org"
      BY <1>4, <3>1, <3>3 DEF Request
    <3>5. RequestOwned(r)'
      BY <1>1, <1>7, <3>2, <3>3, <3>4 DEF RequestOwned
    <3> QED
      BY <1>6, <3>2, <3>4, <3>5
  <2> QED
    BY <2>1, <2>2
<1>9. CASE GateOrg(r)
  <2>1. CASE ~covers(members[q.user][q.org], q.need)
    <3>1. Answered(r) /\ jar' = jar
      BY <1>9, <2>1 DEF GateOrg, q
    <3> QED
      BY <1>5, <3>1 DEF Answered
  <2>2. CASE covers(members[q.user][q.org], q.need)
    <3>1. PICK Q : Q = [q EXCEPT !.role = members[q.user][q.org], !.step = "idle"]
      OBVIOUS
    <3>2. req' = [req EXCEPT ![r] = Q] /\ jar' = jar /\ q.step = "org"
      BY <1>4, <1>9, <2>2, <3>1 DEF GateOrg, Request, q
    <3>3. q.user \in Users /\ q.tok \in Toks /\ (sess[q.tok] # NoRow => sess[q.tok].user = q.user)
      BY <1>4, <3>2 DEF RequestOwned, q
    <3>4. members[q.user][q.org] \in Roles \cup {"none"}
      BY <1>4, <3>3 DEF SInv, TypeOK, Request
    <3>5. /\ Q \in Request /\ Q.tok = q.tok /\ Q.user = q.user /\ Q.step = "idle"
          /\ Q.role = members[q.user][q.org] /\ Q.need = q.need
      BY <1>4, <3>1, <3>4 DEF Request
    <3>6. RequestOwned(r)'
      BY <1>1, <1>7, <2>2, <3>2, <3>3, <3>5 DEF RequestOwned, covers, Rank
    <3> QED
      BY <1>6, <3>2, <3>5, <3>6
  <2> QED
    BY <2>1, <2>2
<1>10. CASE GateSso(r)
  <2>1. CASE ~SsoPasses(q)
    <3>1. Answered(r) /\ jar' = jar
      BY <1>10, <2>1 DEF GateSso, q
    <3> QED
      BY <1>5, <3>1 DEF Answered
  <2>2. CASE SsoPasses(q)
    <3>1. PICK Q : Q = [q EXCEPT !.step = "touch"]
      OBVIOUS
    <3>2. req' = [req EXCEPT ![r] = Q] /\ jar' = jar /\ q.step = "sso"
      BY <1>4, <1>10, <2>2, <3>1 DEF GateSso, Request, q
    <3>3. /\ Q \in Request /\ Q.tok = q.tok /\ Q.user = q.user /\ Q.step = "touch"
          /\ Q.role = q.role /\ Q.need = q.need
      BY <1>4, <3>1 DEF Request
    <3>4. RequestOwned(r)'
      BY <1>1, <1>4, <1>7, <3>2, <3>3 DEF RequestOwned, covers, Rank, q
    <3> QED
      BY <1>6, <3>2, <3>3, <3>4
  <2> QED
    BY <2>1, <2>2
<1> QED
  BY <1>8, <1>9, <1>10

\* The idle window: who is refused has not been served for that long.
LEMMA GateIdleHolds ==
  ASSUME BoundsAreNat, SInv, NEW r \in Reqs, GateIdle(r)
  PROVE  StepHolds
<1> DEFINE q == req[r]
<1>1. /\ UNCHANGED <<clock, emails, idents, totp, members, sess, minted, purge, ends, signins, firstMail, lastServed>>
      /\ q # NoRow /\ q.step = "idle"
  BY DEF GateIdle
<1>2. q \in Request /\ q.tok \in 0 .. MaxTok /\ q.org \in Orgs /\ q.tok <= minted /\ RequestOwned(r)
  BY <1>1 DEF SInv, TypeOK, TokensMinted, RequestsOwned, Request
<1> HIDE DEF q
<1>3. CASE IdledOut(q)
  <2>1. /\ AuthFailure(r) /\ audited' = audited \cup {<<q.tok, q.org>>}
        /\ idled' = idled \cup {<<q.tok, q.org>>}
    BY <1>3 DEF GateIdle, q
  <2>2. /\ lookup(q.tok) # "none" /\ sess[q.tok].seen + session_timeout(q.org) < clock
    BY <1>3 DEF IdledOut
  <2>3. q.tok \in Toks /\ sess[q.tok] \in SessionRow /\ sess[q.tok] # NoRow /\ sess[q.tok].expires >= clock
    BY <1>2, <2>2, LookupTyped DEF SInv
  <2>4. /\ session_timeout(q.org) \in Nat /\ sess[q.tok].seen \in Nat /\ lastServed[q.tok] \in Nat
        /\ clock \in Nat
    BY <2>3, Bounded DEF session_timeout, SInv, TypeOK, SessionRow, Time
  <2>5. lastServed[q.tok] <= sess[q.tok].seen
    BY <2>3 DEF SInv, ServedIsSeen
  <2>6. lastServed[q.tok] + session_timeout(q.org) < clock
    BY <2>2, <2>4, <2>5
  <2>7. ActiveNeverIdledOut
    <3>1. \A p \in idled' \ idled : p[1] = q.tok /\ p[2] = q.org
      BY <2>1
    <3> QED
      BY <2>6, <3>1 DEF ActiveNeverIdledOut
  <2>8. audited' \subseteq Toks \X Orgs /\ idled' \subseteq Toks \X Orgs
    BY <1>2, <2>1, <2>3 DEF SInv, TypeOK
  <2>9. req' = [req EXCEPT ![r] = NoRow] /\ jar' = [jar EXCEPT ![req[r].b] = Cleared(@)]
    BY <2>1 DEF AuthFailure, Answered
  <2> QED
    BY <1>1, <1>2, <2>7, <2>8, <2>9, Gated DEF q
<1>4. CASE ~IdledOut(q)
  <2>1. PICK Q : Q = [q EXCEPT !.step = "sso"]
    OBVIOUS
  <2>2. req' = [req EXCEPT ![r] = Q] /\ UNCHANGED <<jar, audited, idled>>
    BY <1>2, <1>4, <2>1 DEF GateIdle, Request, q
  <2>3. /\ Q \in Request /\ Q.tok = q.tok /\ Q.user = q.user /\ Q.step = "sso"
        /\ Q.role = q.role /\ Q.need = q.need
    BY <1>2, <2>1 DEF Request
  <2>4. req'[r] = Q
    BY <2>2 DEF SInv, TypeOK
  <2>5. RequestOwned(r)'
    BY <1>1, <1>2, <2>3, <2>4 DEF RequestOwned, covers, Rank, q
  <2>6. audited' \subseteq Toks \X Orgs /\ idled' \subseteq Toks \X Orgs /\ ActiveNeverIdledOut
    BY <2>2 DEF SInv, TypeOK, ActiveNeverIdledOut
  <2> QED
    BY <1>1, <1>2, <2>2, <2>3, <2>5, <2>6, Gated
<1> QED
  BY <1>3, <1>4

\* The last answer of require(): a row that is there is touched, one that is gone
\* stays gone.
LEMMA ServeHolds ==
  ASSUME BoundsAreNat, SInv, NEW r \in Reqs, Serve(r)
  PROVE  StepHolds
<1> DEFINE k == req[r].tok
           R == [sess[k] EXCEPT !.seen = clock]
<1>1. /\ req[r] # NoRow /\ req[r].step = "touch"
      /\ sess' = IF lookup(k) = "none" THEN sess ELSE [sess EXCEPT ![k] = R]
      /\ lastServed' = [lastServed EXCEPT ![k] = clock]
      /\ req' = [req EXCEPT ![r] = NoRow]
      /\ UNCHANGED <<clock, emails, idents, totp, members, minted, jar, purge, audited, ends, signins, firstMail, idled>>
  BY DEF Serve, touch, Answered
<1>2. k \in Toks /\ k \in 0 .. MaxTok
  BY <1>1 DEF SInv, TypeOK, RequestsOwned, RequestOwned, Request
<1>3. clock \in Time /\ clock \in Nat
  BY DEF SInv, TypeOK, Time
<1>4. lookup(k) # "none" => /\ sess[k] \in SessionRow /\ sess[k] # NoRow
                            /\ R \in SessionRow /\ R.user = sess[k].user /\ R.expires = sess[k].expires
                            /\ R.seen = clock
  <2>1. ASSUME lookup(k) # "none" PROVE sess[k] \in SessionRow /\ sess[k] # NoRow
    BY <1>2, <2>1, LookupTyped DEF SInv
  <2>2. ASSUME sess[k] \in SessionRow
        PROVE  R \in SessionRow /\ R.user = sess[k].user /\ R.expires = sess[k].expires /\ R.seen = clock
    BY <1>3, <2>2 DEF SessionRow
  <2> QED
    BY <2>1, <2>2
<1> HIDE DEF R, k
<1>5. sess' \in [Toks -> SessionRow \cup {NoRow}] /\ \A t \in Toks : t # k => sess'[t] = sess[t]
  BY <1>1, <1>2, <1>4 DEF SInv, TypeOK
<1>6. lookup(k) # "none" => sess'[k] = R
  BY <1>1, <1>2 DEF SInv, TypeOK
<1>7. lookup(k) = "none" => sess'[k] = sess[k] /\ (sess[k] = NoRow \/ sess[k].expires < clock)
  BY <1>1, <1>2, LookupNone DEF SInv
<1>8. /\ lastServed' \in [Toks -> Time]
      /\ \A t \in Toks : lastServed'[t] = IF t = k THEN clock ELSE lastServed[t]
  BY <1>1, <1>2, <1>3 DEF SInv, TypeOK
<1>9. TypeOK'
  BY <1>1, <1>5, <1>8 DEF SInv, TypeOK
<1>10. ASSUME NEW t \in Toks PROVE RowMoves(t) /\ ServedMoves(t)
  <2>1. sess[t] # NoRow => sess[t].seen \in Nat
    BY DEF SInv, TypeOK, SessionRow, Time
  <2>2. CASE t # k
    BY <1>5, <1>8, <2>1, <2>2 DEF RowMoves, ServedMoves
  <2>3. CASE t = k /\ lookup(k) # "none"
    BY <1>4, <1>6, <1>8, <2>3 DEF RowMoves, ServedMoves
  <2>4. CASE t = k /\ lookup(k) = "none"
    BY <1>7, <1>8, <2>1, <2>4 DEF RowMoves, ServedMoves
  <2> QED
    BY <2>2, <2>3, <2>4
<1>11. \A q \in Reqs : req'[q] # NoRow => req[q] # NoRow /\ req'[q] = req[q]
  BY <1>1 DEF SInv, TypeOK
<1>12. TokensMinted' /\ ServedIsSeen' /\ RequestsOwned' /\ RowsStayGone
  BY <1>1, <1>3, <1>9, <1>10, <1>11, RowsKept
<1>13. MailboxesOwned' /\ SubjectIsMailboxOwner'
  BY <1>1, OwnersKept
<1> QED
  BY <1>1, <1>9, <1>12, <1>13 DEF StepHolds, SInv, ActiveNeverIdledOut

-----------------------------------------------------------------------------
(* Signing out.                                                             *)

\* Rows are deleted and at most the cookies with them.
LEMMA Ended ==
  ASSUME BoundsAreNat, SInv, NEW gone, gone \subseteq Toks \cup {0}, sess' = SessionsWithout(gone),
         UNCHANGED <<clock, emails, idents, totp, minted, req, signins, firstMail, lastServed, idled>>,
         jar' = jar \/ \E b \in Browsers : jar' = [jar EXCEPT ![b] = Cleared(@)],
         members' \in [Users -> [Orgs -> Roles \cup {"none"}]],
         purge' \in [rows : SUBSET Toks] \cup {NoRow}, audited' \subseteq Toks \X Orgs,
         \E why \in EndKinds, R \in {gone, {}} : ends' = ends \cup EndRecords(R, why)
  PROVE  StepHolds
<1>1. sess' \in [Toks -> SessionRow \cup {NoRow}] /\ \A t \in Toks : sess'[t] \in {NoRow, sess[t]}
  <2>1. PICK S : S = sess'
    OBVIOUS
  <2> QED
    BY <2>1, WithoutTyped DEF SInv
<1>2. jar' \in [Browsers -> Jar] /\ \A b \in Browsers : jar'[b].tok \in {0, jar[b].tok}
  <2>1. CASE jar' = jar
    BY <2>1 DEF SInv, TypeOK
  <2>2. CASE \E b \in Browsers : jar' = [jar EXCEPT ![b] = Cleared(@)]
    <3>1. PICK b \in Browsers : jar' = [jar EXCEPT ![b] = Cleared(jar[b])]
      BY <2>2
    <3> DEFINE J == Cleared(jar[b])
    <3>2. J \in Jar /\ J.tok = 0
      <4>1. jar[b] \in Jar /\ 0 \in 0 .. MaxTok
        BY Bounded DEF SInv, TypeOK
      <4> QED
        BY ONLY <4>1 DEF J, Cleared, Jar
    <3> HIDE DEF J
    <3> QED
      BY <3>1, <3>2 DEF SInv, TypeOK, J
  <2> QED
    BY <2>1, <2>2
<1>3. ends' \subseteq [tok: Toks, why: EndKinds, orgs: SUBSET Orgs]
  <2>1. PICK why \in EndKinds, R \in {gone, {}} : ends' = ends \cup EndRecords(R, why)
    OBVIOUS
  <2>2. R \subseteq Toks \cup {0}
    OBVIOUS
  <2> QED
    BY <2>1, <2>2, EndsTyped DEF SInv, TypeOK
<1>4. TypeOK'
  BY <1>1, <1>2, <1>3 DEF SInv, TypeOK
<1>5. \A t \in Toks : sess[t] # NoRow => sess[t].seen \in Nat
  BY DEF SInv, TypeOK, SessionRow, Time
<1>6. \A t \in Toks : RowMoves(t) /\ ServedMoves(t)
  BY <1>1, <1>5 DEF RowMoves, ServedMoves
<1>7. clock \in Nat
  BY DEF SInv, TypeOK, Time
<1>8. TokensMinted' /\ ServedIsSeen' /\ RequestsOwned' /\ RowsStayGone
  BY <1>2, <1>4, <1>6, <1>7, RowsKept
<1>9. MailboxesOwned' /\ SubjectIsMailboxOwner'
  BY OwnersKept
<1> QED
  BY <1>4, <1>8, <1>9 DEF StepHolds, SInv, ActiveNeverIdledOut

LEMMA LogoutHolds ==
  ASSUME BoundsAreNat, SInv, NEW b \in Browsers, Logout(b) \/ LogoutAll(b)
  PROVE  StepHolds
<1> DEFINE t == jar[b].tok
<1>1. /\ UNCHANGED <<clock, emails, idents, totp, members, minted, req, purge, signins, firstMail, lastServed, idled>>
      /\ jar' = [jar EXCEPT ![b] = Cleared(@)] /\ t # 0
  BY DEF Logout, LogoutAll
<1>2. t \in 0 .. MaxTok /\ t \in Toks
  BY <1>1, Bounded DEF SInv, TypeOK, Jar, Toks
<1> HIDE DEF t
<1>3. /\ members' \in [Users -> [Orgs -> Roles \cup {"none"}]] /\ purge' \in [rows : SUBSET Toks] \cup {NoRow}
      /\ audited \subseteq Toks \X Orgs
  BY <1>1 DEF SInv, TypeOK
<1>4. \A R, why : ends = ends \cup EndRecords({}, why)
  BY DEF EndRecords, Live
<1>5. CASE Logout(b)
  <2> DEFINE gone == {t}
  <2>1. /\ sess' = SessionsWithout(gone)
        /\ ends' = IF lookup(t) # "none" THEN ends \cup EndRecords(gone, "logout") ELSE ends
        /\ audited' = IF lookup(t) # "none" THEN audited \cup ({t} \X list_memberships_for_user(lookup(t)))
                      ELSE audited
    BY <1>5 DEF Logout, t
  <2>2. gone \subseteq Toks \cup {0}
    BY <1>2
  <2>3. audited' \subseteq Toks \X Orgs
    BY <1>2, <1>3, <2>1 DEF list_memberships_for_user
  <2> HIDE DEF gone
  <2>4. ends' = ends \cup EndRecords(gone, "logout") \/ ends' = ends \cup EndRecords({}, "logout")
    BY <1>4, <2>1
  <2>5. \E why \in EndKinds, R \in {gone, {}} : ends' = ends \cup EndRecords(R, why)
    BY <2>4 DEF EndKinds
  <2>6. PICK g : g = gone
    OBVIOUS
  <2> QED
    BY <1>1, <1>3, <2>1, <2>2, <2>3, <2>5, <2>6, Ended
<1>6. CASE LogoutAll(b)
  <2> DEFINE gone == IF lookup(t) # "none" THEN TokensOf(lookup(t)) ELSE {t}
  <2>1. /\ sess' = SessionsWithout(gone)
        /\ ends' = ends \cup EndRecords(gone, "logout_all") /\ audited' = audited
    BY <1>6 DEF LogoutAll, t
  <2>2. gone \subseteq Toks \cup {0}
    BY <1>2 DEF TokensOf
  <2> HIDE DEF gone
  <2>3. \E why \in EndKinds, R \in {gone, {}} : ends' = ends \cup EndRecords(R, why)
    BY <2>1 DEF EndKinds
  <2>4. PICK g : g = gone
    OBVIOUS
  <2> QED
    BY <1>1, <1>3, <2>1, <2>2, <2>3, <2>4, Ended
<1> QED
  BY <1>5, <1>6

LEMMA ChangeMembershipHolds ==
  ASSUME BoundsAreNat, SInv, NEW u \in Users, NEW o \in Orgs, NEW role \in Roles \cup {"none"},
         ChangeMembership(u, o, role)
  PROVE  StepHolds
<1> DEFINE gone == TokensOf(u)
<1>1. /\ sess' = SessionsWithout(gone) /\ ends' = ends \cup EndRecords(gone, "forced")
      /\ members' = [members EXCEPT ![u][o] = role]
      /\ UNCHANGED <<clock, emails, idents, totp, minted, jar, req, purge, audited, signins, firstMail, lastServed, idled>>
  BY DEF ChangeMembership
<1>2. members' \in [Users -> [Orgs -> Roles \cup {"none"}]]
  <2>1. members \in [Users -> [Orgs -> Roles \cup {"none"}]]
    BY DEF SInv, TypeOK
  <2> HIDE DEF gone
  <2> QED
    BY <1>1, <2>1
<1>3. gone \subseteq Toks \cup {0} /\ purge' \in [rows : SUBSET Toks] \cup {NoRow} /\ audited' \subseteq Toks \X Orgs
  BY <1>1 DEF TokensOf, SInv, TypeOK
<1> HIDE DEF gone
<1>4. \E why \in EndKinds, R \in {gone, {}} : ends' = ends \cup EndRecords(R, why)
  BY <1>1 DEF EndKinds
<1>5. PICK g : g = gone
  OBVIOUS
<1> QED
  BY <1>1, <1>2, <1>3, <1>4, <1>5, Ended

\* The purge: the rows that have expired by now, whichever it has written up.
LEMMA PurgeDeleteHolds ==
  ASSUME BoundsAreNat, SInv, PurgeDelete
  PROVE  StepHolds
<1> DEFINE gone == {t \in Toks : sess[t] # NoRow /\ expired(sess[t])}
           rows == UNION {{t} \X list_memberships_for_user(sess[t].user) : t \in Live(purge.rows)}
<1>1. /\ sess' = SessionsWithout(gone) /\ ends' = ends \cup EndRecords(gone, "expiry")
      /\ purge' = NoRow /\ audited' = audited \cup rows
      /\ UNCHANGED <<clock, emails, idents, totp, members, minted, jar, req, signins, firstMail, lastServed, idled>>
  BY DEF PurgeDelete
<1>2. rows \subseteq Toks \X Orgs
  <2>1. purge.rows \subseteq Toks
    BY DEF PurgeDelete, SInv, TypeOK
  <2>2. Live(purge.rows) \subseteq Toks
    BY <2>1 DEF Live
  <2>3. \A u : list_memberships_for_user(u) \subseteq Orgs
    BY DEF list_memberships_for_user
  <2> QED
    BY <2>2, <2>3
<1>3. gone \subseteq Toks \cup {0}
  OBVIOUS
<1> HIDE DEF gone, rows
<1>4. /\ members' \in [Users -> [Orgs -> Roles \cup {"none"}]] /\ purge' \in [rows : SUBSET Toks] \cup {NoRow}
      /\ audited' \subseteq Toks \X Orgs
  BY <1>1, <1>2 DEF SInv, TypeOK
<1>5. \E why \in EndKinds, R \in {gone, {}} : ends' = ends \cup EndRecords(R, why)
  BY <1>1 DEF EndKinds
<1>6. PICK g : g = gone
  OBVIOUS
<1> QED
  BY <1>1, <1>3, <1>4, <1>5, <1>6, Ended

-----------------------------------------------------------------------------
(* Signing in.                                                              *)

\* The row of a new session takes the next number, and the session of the cookie
\* it replaces is gone.
LEMMA Minted ==
  ASSUME BoundsAreNat, SInv, NEW u \in Users, NEW o \in Orgs \cup {"none"}, NEW gone, minted < MaxTok,
         sess' = SessionsAfterMint(u, gone, o), minted' = minted + 1,
         UNCHANGED <<clock, req, lastServed, idled>>,
         \A b \in Browsers : jar'[b].tok \in {0, jar[b].tok, minted'},
         MailboxesOwned', SubjectIsMailboxOwner',
         sess' \in [Toks -> SessionRow \cup {NoRow}] /\ minted' \in 0 .. MaxTok => TypeOK'
  PROVE  StepHolds
<1>1. PICK S : S = sess'
  OBVIOUS
<1>2. /\ sess' \in [Toks -> SessionRow \cup {NoRow}] /\ minted + 1 \in Toks /\ minted' \in 0 .. MaxTok
      /\ \A t \in Toks : t # minted + 1 => sess'[t] \in {NoRow, sess[t]}
      /\ sess'[minted + 1] # NoRow => sess'[minted + 1].seen = clock
  <2>1. TypeOK
    BY DEF SInv
  <2>2. /\ S \in [Toks -> SessionRow \cup {NoRow}] /\ minted + 1 \in Toks /\ minted + 1 \in 0 .. MaxTok
        /\ \A t \in Toks : t # minted + 1 => S[t] \in {NoRow, sess[t]}
        /\ S[minted + 1] # NoRow => S[minted + 1].seen = clock
    BY <1>1, <2>1, MintTyped
  <2> QED
    BY ONLY <1>1, <2>2, minted' = minted + 1
<1>3. TypeOK'
  BY <1>2
<1>4. \A t \in Toks : sess[t] # NoRow => sess[t].seen \in Nat
  BY DEF SInv, TypeOK, SessionRow, Time
<1>5. \A t \in Toks : RowMoves(t) /\ ServedMoves(t)
  BY <1>2, <1>4 DEF RowMoves, ServedMoves
<1>6. clock \in Nat
  BY DEF SInv, TypeOK, Time
<1>7. TokensMinted' /\ ServedIsSeen' /\ RequestsOwned' /\ RowsStayGone
  BY <1>3, <1>5, <1>6, RowsKept
<1> QED
  BY <1>3, <1>7 DEF StepHolds, SInv, ActiveNeverIdledOut

\* login_via_oauth: a subject that is bound signs in as its user, one that is not
\* as the reader of the verified mailbox.
LEMMA CallbackHolds ==
  ASSUME BoundsAreNat, SInv, NEW b \in Browsers, NEW s \in Subjects, NEW a \in Users, NEW mfa \in BOOLEAN,
         Callback(b, s, a, mfa)
  PROVE  StepHolds
<1>1. PICK u \in login_via_oauth(s, a) :
        /\ idents' = [idents EXCEPT ![s] = u]
        /\ RecordSignIn(s, u, a)
        /\ IF ~mfa /\ has_verified_totp(u)
           THEN /\ jar' = [jar EXCEPT ![b].state = NoRow, ![b].chal = [user |-> u, at |-> clock]]
                /\ UNCHANGED <<sess, minted, ends>>
           ELSE /\ minted < MaxTok
                /\ sess' = SessionsAfterMint(u, {jar[b].tok}, "none")
                /\ minted' = minted + 1
                /\ ends' = ends \cup EndRecords({jar[b].tok}, "login")
                /\ jar' = [jar EXCEPT ![b].state = NoRow, ![b].tok = minted + 1]
  BY DEF Callback
<1>2. UNCHANGED <<clock, emails, totp, members, req, purge, audited, lastServed, idled>>
  BY DEF Callback
<1>3. /\ TypeOK /\ idents[s] = firstMail[s] /\ signins[s] \subseteq {firstMail[s]}
      /\ \A e \in emails : e.verified => e.user = e.addr
  BY DEF SInv, MailboxesOwned, SubjectIsMailboxOwner
<1>4. u \in Users /\ u # "none" /\ (idents[s] # "none" => u = idents[s]) /\ (idents[s] = "none" => u = a)
  <2>1. "none" \notin Users /\ idents[s] \in Users \cup {"none"}
    BY <1>3 DEF TypeOK, BoundsAreNat
  <2>2. CASE idents[s] # "none"
    BY <1>1, <2>1, <2>2 DEF login_via_oauth
  <2>3. CASE idents[s] = "none"
    <3>1. u \in find_user_by_email(a)
      BY <1>1, <2>3 DEF login_via_oauth
    <3>2. u = a
      BY <1>3, <3>1 DEF find_user_by_email
    <3> QED
      BY <2>1, <2>3, <3>2
  <2> QED
    BY <2>2, <2>3
<1>5. /\ idents' \in [Subjects -> Users \cup {"none"}] /\ signins' \in [Subjects -> SUBSET Users]
      /\ firstMail' \in [Subjects -> Users \cup {"none"}]
  BY <1>1, <1>3, <1>4 DEF TypeOK, RecordSignIn
<1>6. MailboxesOwned' /\ SubjectIsMailboxOwner'
  <2>1. /\ idents'[s] = u /\ firstMail'[s] = u /\ signins'[s] = signins[s] \cup {u}
        /\ \A x \in Subjects \ {s} : /\ idents'[x] = idents[x] /\ firstMail'[x] = firstMail[x]
                                     /\ signins'[x] = signins[x]
    BY <1>1, <1>3, <1>4 DEF TypeOK, RecordSignIn
  <2>2. signins[s] \subseteq {u}
    <3>1. CASE idents[s] # "none"
      BY <1>3, <1>4, <3>1
    <3>2. CASE idents[s] = "none"
      BY <1>3, <3>2 DEF TypeOK, BoundsAreNat
    <3> QED
      BY <3>1, <3>2
  <2> QED
    BY <1>2, <2>1, <2>2 DEF SInv, MailboxesOwned, SubjectIsMailboxOwner
<1>7. jar[b] \in Jar /\ clock \in Time /\ jar \in [Browsers -> Jar] /\ NoRow \in [at : Time] \cup {NoRow}
  BY <1>3 DEF TypeOK
<1>8. CASE ~mfa /\ has_verified_totp(u)
  <2> DEFINE J == [jar[b] EXCEPT !.state = NoRow, !.chal = [user |-> u, at |-> clock]]
  <2>1. jar' = [jar EXCEPT ![b] = J] /\ UNCHANGED <<sess, minted, ends>>
    BY <1>1, <1>7, <1>8
  <2>2. [user |-> u, at |-> clock] \in Challenge
    BY <1>4, <1>7 DEF Challenge
  <2>3. J \in Jar /\ J.tok = jar[b].tok
    BY ONLY <1>7, <2>2 DEF Jar
  <2> HIDE DEF J
  <2>4. jar' \in [Browsers -> Jar] /\ \A c \in Browsers : jar'[c].tok = jar[c].tok
    BY <1>7, <2>1, <2>3
  <2>5. TypeOK'
    BY <1>2, <1>3, <1>5, <2>1, <2>4 DEF TypeOK
  <2> QED
    BY <1>2, <1>6, <2>1, <2>4, <2>5, SessionsAlone
<1>9. CASE ~(~mfa /\ has_verified_totp(u))
  <2> DEFINE J == [jar[b] EXCEPT !.state = NoRow, !.tok = minted + 1]
  <2>1. /\ jar' = [jar EXCEPT ![b] = J] /\ minted < MaxTok /\ minted' = minted + 1
        /\ sess' = SessionsAfterMint(u, {jar[b].tok}, "none")
        /\ ends' = ends \cup EndRecords({jar[b].tok}, "login")
    BY <1>1, <1>7, <1>9
  <2>2. minted + 1 \in 0 .. MaxTok
    BY <1>3, <2>1, Bounded DEF TypeOK
  <2>3. J \in Jar /\ J.tok = minted + 1
    BY ONLY <1>7, <2>2 DEF Jar
  <2> HIDE DEF J
  <2>4. jar' \in [Browsers -> Jar] /\ \A c \in Browsers : jar'[c].tok \in {0, jar[c].tok, minted'}
    BY <1>7, <2>1, <2>3
  <2>5. {jar[b].tok} \subseteq Toks \cup {0} /\ "login" \in EndKinds
    BY <1>7, Bounded DEF Jar, Toks, EndKinds
  <2>6. PICK gone : gone = {jar[b].tok}
    OBVIOUS
  <2>7. ends' \subseteq [tok: Toks, why: EndKinds, orgs: SUBSET Orgs]
    BY <1>3, <2>1, <2>5, <2>6, EndsTyped DEF TypeOK
  <2>8. sess' \in [Toks -> SessionRow \cup {NoRow}] /\ minted' \in 0 .. MaxTok => TypeOK'
    BY <1>2, <1>3, <1>5, <2>1, <2>4, <2>7 DEF TypeOK
  <2> QED
    BY <1>2, <1>4, <1>6, <2>1, <2>4, <2>6, <2>8, Minted
<1> QED
  BY <1>8, <1>9

\* The step-up: the session is that of the user who was challenged.
LEMMA TotpChallengeHolds ==
  ASSUME BoundsAreNat, SInv, NEW b \in Browsers, TotpChallenge(b)
  PROVE  StepHolds
<1> DEFINE c == jar[b].chal
           u == c.user
           J == [jar[b] EXCEPT !.tok = minted + 1, !.chal = NoRow]
           R == [totp[u] EXCEPT !.verified = TRUE]
<1>1. TypeOK /\ jar \in [Browsers -> Jar] /\ jar[b] \in Jar /\ NoRow \in Challenge \cup {NoRow}
  BY DEF SInv, TypeOK
<1>2. /\ c # NoRow /\ totp[u] # NoRow /\ minted < MaxTok /\ minted' = minted + 1
      /\ totp' = [totp EXCEPT ![u] = R]
      /\ sess' = SessionsAfterMint(u, {jar[b].tok}, "none")
      /\ ends' = ends \cup EndRecords({jar[b].tok}, "login")
      /\ UNCHANGED <<clock, emails, idents, members, req, purge, audited, signins, firstMail, lastServed, idled>>
  BY DEF TotpChallenge, Proved
<1>3. jar' = [jar EXCEPT ![b] = J]
  BY <1>1 DEF TotpChallenge
<1>4. u \in Users
  <2>1. c \in Challenge
    BY <1>1, <1>2 DEF Jar
  <2> QED
    BY <2>1 DEF Challenge
<1>5. minted + 1 \in 0 .. MaxTok
  BY <1>1, <1>2, Bounded DEF TypeOK
<1>6. J \in Jar /\ J.tok = minted + 1
  BY ONLY <1>1, <1>5 DEF Jar
<1>7. R \in UserTotpSecretRow
  <2>1. totp[u] \in UserTotpSecretRow
    BY <1>1, <1>2, <1>4 DEF TypeOK
  <2> QED
    BY <2>1 DEF UserTotpSecretRow
<1>8. PICK w \in Users : w = u
  BY <1>4
<1> HIDE DEF J, R, u, c
<1>9. totp' \in [Users -> UserTotpSecretRow \cup {NoRow}]
  BY <1>1, <1>2, <1>7 DEF TypeOK
<1>10. jar' \in [Browsers -> Jar] /\ \A x \in Browsers : jar'[x].tok \in {0, jar[x].tok, minted'}
  BY <1>1, <1>2, <1>3, <1>6
<1>11. {jar[b].tok} \subseteq Toks \cup {0} /\ "login" \in EndKinds
  BY <1>1, Bounded DEF Jar, Toks, EndKinds
<1>12. PICK gone : gone = {jar[b].tok}
  OBVIOUS
<1>13. ends' \subseteq [tok: Toks, why: EndKinds, orgs: SUBSET Orgs]
  BY <1>1, <1>2, <1>11, <1>12, EndsTyped DEF TypeOK
<1>14. sess' \in [Toks -> SessionRow \cup {NoRow}] /\ minted' \in 0 .. MaxTok => TypeOK'
  BY <1>1, <1>2, <1>9, <1>10, <1>13 DEF TypeOK
<1>15. MailboxesOwned' /\ SubjectIsMailboxOwner'
  BY <1>2, OwnersKept
<1> QED
  BY <1>2, <1>8, <1>10, <1>12, <1>14, <1>15, Minted

\* SAML: the account of a mailbox nobody owns is its reader's; the live session is
\* marked as it stands, and a new one is minted only without one.
LEMMA SsoAcsHolds ==
  ASSUME BoundsAreNat, SInv, NEW b \in Browsers, NEW a \in Users, NEW o \in Orgs, SsoAcs(b, a, o)
  PROVE  StepHolds
<1> DEFINE k == jar[b].tok
           e == [user |-> a, addr |-> a, verified |-> TRUE]
<1>1. TypeOK /\ jar \in [Browsers -> Jar] /\ jar[b] \in Jar /\ k \in 0 .. MaxTok /\ clock \in Time /\ clock \in Nat
  BY DEF SInv, TypeOK, Jar, Time
<1>2. UNCHANGED <<clock, idents, totp, req, purge, history>>
  BY DEF SsoAcs
<1>3. UNCHANGED <<audited, ends, signins, firstMail, lastServed, idled>>
  BY <1>2 DEF history
<1>4. \/ emails' = emails \cup {e} /\ members' = [members EXCEPT ![a][o] = "builder"]
      \/ UNCHANGED <<emails, members>>
  BY DEF SsoAcs
<1>5. e \in UserEmailRow /\ e.user = e.addr
  BY DEF UserEmailRow
<1> HIDE DEF e
<1>6. emails' \subseteq UserEmailRow /\ members' \in [Users -> [Orgs -> Roles \cup {"none"}]]
  <2>1. emails \subseteq UserEmailRow /\ members \in [Users -> [Orgs -> Roles \cup {"none"}]]
    BY <1>1 DEF TypeOK
  <2>2. CASE emails' = emails \cup {e} /\ members' = [members EXCEPT ![a][o] = "builder"]
    BY <1>5, <2>1, <2>2 DEF Roles
  <2>3. CASE UNCHANGED <<emails, members>>
    BY <2>1, <2>3
  <2> QED
    BY <1>4, <2>2, <2>3
<1>7. MailboxesOwned' /\ SubjectIsMailboxOwner'
  BY <1>2, <1>3, <1>4, <1>5 DEF SInv, MailboxesOwned, SubjectIsMailboxOwner
<1>8. CASE lookup(k) # "none"
  <2> DEFINE R == [sess[k] EXCEPT !.sso = o, !.ssoAt = clock]
  <2>1. UNCHANGED <<minted, jar>> /\ sess' = [sess EXCEPT ![k].sso = o, ![k].ssoAt = clock]
    BY <1>8 DEF SsoAcs
  <2>2. k \in Toks /\ sess[k] \in SessionRow /\ sess[k] # NoRow
    BY <1>1, <1>8, LookupTyped
  <2> HIDE DEF k
  <2>3. sess' = [sess EXCEPT ![k] = R]
    BY <1>1, <2>1, <2>2 DEF TypeOK
  <2>4. R \in SessionRow /\ R.user = sess[k].user /\ R.expires = sess[k].expires /\ R.seen = sess[k].seen
    BY <1>1, <2>2 DEF SessionRow
  <2> HIDE DEF R
  <2>5. /\ sess' \in [Toks -> SessionRow \cup {NoRow}] /\ sess'[k] = R
        /\ \A t \in Toks : t # k => sess'[t] = sess[t]
    BY <1>1, <2>2, <2>3, <2>4 DEF TypeOK
  <2>6. TypeOK'
    BY <1>1, <1>2, <1>3, <1>6, <2>1, <2>5 DEF TypeOK
  <2>7. \A t \in Toks : sess[t] # NoRow => sess[t].seen \in Nat
    BY <1>1 DEF TypeOK, SessionRow, Time
  <2>8. \A t \in Toks : RowMoves(t) /\ ServedMoves(t)
    BY <1>3, <2>2, <2>4, <2>5, <2>7 DEF RowMoves, ServedMoves
  <2>9. TokensMinted' /\ ServedIsSeen' /\ RequestsOwned' /\ RowsStayGone
    BY <1>1, <1>2, <2>1, <2>6, <2>8, RowsKept
  <2> QED
    BY <1>3, <1>7, <2>6, <2>9 DEF StepHolds, SInv, ActiveNeverIdledOut
<1>9. CASE lookup(k) = "none"
  <2> DEFINE J == [jar[b] EXCEPT !.tok = minted + 1]
  <2>1. /\ minted < MaxTok /\ minted' = minted + 1 /\ sess' = SessionsAfterMint(a, {}, o)
        /\ jar' = [jar EXCEPT ![b].tok = minted + 1]
    BY <1>9 DEF SsoAcs
  <2>2. minted + 1 \in 0 .. MaxTok
    BY <1>1, <2>1, Bounded DEF TypeOK
  <2>3. J \in Jar /\ J.tok = minted + 1
    BY ONLY <1>1, <2>2 DEF Jar
  <2>4. jar' = [jar EXCEPT ![b] = J]
    BY <1>1, <2>1
  <2> HIDE DEF J, k
  <2>5. jar' \in [Browsers -> Jar] /\ \A c \in Browsers : jar'[c].tok \in {0, jar[c].tok, minted'}
    BY <1>1, <2>1, <2>3, <2>4
  <2>6. sess' \in [Toks -> SessionRow \cup {NoRow}] /\ minted' \in 0 .. MaxTok => TypeOK'
    BY <1>1, <1>2, <1>3, <1>6, <2>5 DEF TypeOK
  <2> QED
    BY <1>2, <1>3, <1>7, <2>1, <2>5, <2>6, Minted
<1> QED
  BY <1>8, <1>9

-----------------------------------------------------------------------------
(* Every step, and the theorems.                                            *)

LEMMA NextHolds == ASSUME BoundsAreNat, SInv, [Next]_vars PROVE StepHolds
<1>1. CASE \E b \in Browsers : Login(b)
  BY <1>1, LoginHolds
<1>2. CASE \E b \in Browsers, s \in Subjects, a \in Users, mfa \in BOOLEAN : Callback(b, s, a, mfa)
  BY <1>2, CallbackHolds
<1>3. CASE \E b \in Browsers : TotpChallenge(b)
  BY <1>3, TotpChallengeHolds
<1>4. CASE \E b \in Browsers, a \in Users, o \in Orgs : SsoAcs(b, a, o)
  BY <1>4, SsoAcsHolds
<1>5. CASE \E b \in Browsers : Logout(b) \/ LogoutAll(b)
  BY <1>5, LogoutHolds
<1>6. CASE \E u \in Users, o \in Orgs, role \in Roles \cup {"none"} : ChangeMembership(u, o, role)
  BY <1>6, ChangeMembershipHolds
<1>7. CASE \E b \in Browsers : \/ TotpEnroll(b) \/ TotpVerify(b)
                               \/ \E a \in Users : AddEmail(b, a)
                               \/ \E e \in emails : RemoveEmail(b, e)
  BY <1>7, AccountHolds
<1>8. CASE \E r \in Reqs, b \in Browsers, o \in Orgs, a \in Actions : Send(r, b, o, a)
  BY <1>8, SendHolds
<1>9. CASE \E r \in Reqs : GateSession(r) \/ GateOrg(r) \/ GateSso(r)
  BY <1>9, QuestionsHold
<1>10. CASE \E r \in Reqs : GateIdle(r)
  BY <1>10, GateIdleHolds
<1>11. CASE \E r \in Reqs : Serve(r)
  BY <1>11, ServeHolds
<1>12. CASE PurgeCollect \/ PurgeSecrets
  BY <1>12, PurgeReadsHold
<1>13. CASE PurgeDelete
  BY <1>13, PurgeDeleteHolds
<1>14. CASE Tick
  BY <1>14, TickHolds
<1>15. CASE UNCHANGED vars
  <2>1. UNCHANGED <<clock, emails, idents, totp, members, sess, minted, jar, req, purge, audited, ends,
                    signins, firstMail, lastServed, idled>>
    BY <1>15 DEF vars, history
  <2>2. TypeOK'
    BY <2>1 DEF SInv, TypeOK
  <2> QED
    BY <2>1, <2>2, SessionsAlone, OwnersKept
<1> QED
  BY <1>1, <1>2, <1>3, <1>4, <1>5, <1>6, <1>7, <1>8, <1>9, <1>10, <1>11, <1>12, <1>13, <1>14, <1>15 DEF Next

LEMMA Invariant == ASSUME BoundsAreNat PROVE Spec => []SInv
<1>1. Init => SInv
  BY InitSInv
<1>2. SInv /\ [Next]_vars => SInv'
  BY NextHolds DEF StepHolds
<1> QED
  BY <1>1, <1>2, PTL DEF Spec

\* Every table, cookie, request and history stays in the range of its type.
THEOREM TypeCorrect == ASSUME BoundsAreNat PROVE Spec => []TypeOK
<1>1. SInv => TypeOK
  BY DEF SInv
<1> QED
  BY <1>1, Invariant, PTL

\* login_via_oauth: a provider account signs in as the reader of the mailbox it
\* first signed in with and as nobody else, whatever addresses are typed into
\* accounts, removed from them or moved to in between.
THEOREM SubjectIsMailboxOwnerHolds == ASSUME BoundsAreNat PROVE Spec => []SubjectIsMailboxOwner
<1>1. SInv => SubjectIsMailboxOwner
  BY DEF SInv
<1> QED
  BY <1>1, Invariant, PTL

\* touch, mark_sso_satisfied and create: no step brings back a row that was
\* revoked or purged, and none moves the expiry of one.
THEOREM NeverRevivedHolds == ASSUME BoundsAreNat PROVE Spec => [][NeverRevived]_vars
<1>1. SInv /\ [Next]_vars => NeverRevived
  BY NextHolds DEF StepHolds, RowsStayGone
<1> QED
  BY <1>1, Invariant, PTL DEF Spec

\* require(): who is refused as idle was not served for the whole idle window of
\* the org, however the last touch and the refusal interleave.
THEOREM ActiveNeverIdledOutHolds == ASSUME BoundsAreNat PROVE Spec => [][ActiveNeverIdledOut]_vars
<1>1. SInv /\ [Next]_vars => ActiveNeverIdledOut
  BY NextHolds DEF StepHolds
<1> QED
  BY <1>1, Invariant, PTL DEF Spec

\* A session that was revoked, in the numbering of the rows that were inserted.
Revoked(t) == t <= minted /\ sess[t] = NoRow

\* sessions.revoke: a token whose row was deleted is that of no session at any
\* later time, so no cookie and no request in flight that remembers it is
\* recognised again (lookup answers "none").
THEOREM RevokedForGood ==
  ASSUME BoundsAreNat, NEW t \in Toks
  PROVE  Spec => [](Revoked(t) => [](Revoked(t) /\ lookup(t) = "none"))
<1>1. SInv /\ [Next]_vars /\ Revoked(t) => Revoked(t)'
  <2> SUFFICES ASSUME SInv, [Next]_vars, Revoked(t) PROVE Revoked(t)'
    OBVIOUS
  <2>1. NeverRevived /\ minted' >= minted /\ SInv'
    BY NextHolds DEF StepHolds, RowsStayGone
  <2>2. minted \in Nat /\ minted' \in Nat /\ t \in Nat /\ t >= 1
    BY <2>1, Bounded DEF SInv, TypeOK, Toks
  <2> QED
    BY <2>1, <2>2 DEF Revoked, NeverRevived
<1>2. Revoked(t) => lookup(t) = "none"
  BY DEF Revoked, lookup
<1> QED
  BY <1>1, <1>2, Invariant, PTL DEF Spec

\* A request about to run its handler has a role that covers its action, and the
\* session it came with is still that of its user unless it is gone.
ServedAsItself ==
    \A r \in Reqs : req[r] # NoRow /\ req[r].step = "touch" =>
        /\ covers(req[r].role, req[r].need)
        /\ req[r].user \in Users
        /\ lookup(req[r].tok) \in {req[r].user, "none"}

\* require() reads the row anew for every question: the answers, given at four
\* different times, are nevertheless about one user.
THEOREM ServedAsItselfHolds == ASSUME BoundsAreNat PROVE Spec => []ServedAsItself
<1>1. SInv => ServedAsItself
  BY DEF SInv, RequestsOwned, RequestOwned, ServedAsItself, lookup, Toks
<1> QED
  BY <1>1, Invariant, PTL
=============================================================================
