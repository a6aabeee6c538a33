------------------------- MODULE AgentIdentityProof -------------------------
(***************************************************************************)
(* Safety of the identity exchange, the bearer ledger and PATCH of an org, *)
(* for any number of orgs, pods, exchanges and PATCH requests in flight    *)
(* and every value of the bounds.  IdentityAssumption, which the checked   *)
(* instances evaluate, is a hypothesis.                                    *)
(*                                                                         *)
(* The replay of an envelope is followed through the exchanges that are    *)
(* past the nonce ("holders") and those AWS vouched for ("accepted"): two  *)
(* may hold one envelope only once its signature has lapsed, and a lapsed  *)
(* one is accepted no more.                                                *)
(***************************************************************************)
EXTENDS AgentIdentity, FiniteSetTheorems, TLAPS

-----------------------------------------------------------------------------
(* The inductive invariant.                                                 *)

\* Who got a bearer for envelope v, or may still get one: exchange number t.
Accepted(t, v) ==
  \/ bearers[t] # NoRow /\ bearers[t].env = v
  \/ \E p \in Procs : /\ exch[p] # NoRow /\ exch[p].try = t /\ exch[p].env = v
                      /\ exch[p].step \in {"lookup", "build", "issue"}

Holds(t, v) ==
  \/ Accepted(t, v)
  \/ \E p \in Procs : exch[p] # NoRow /\ exch[p].try = t /\ exch[p].env = v /\ exch[p].step = "sts"

\* An exchange, a bearer and a nonce are about an envelope that was signed, at most
\* SigTTL ahead of the clock.
EnvelopesKnown ==
  /\ \A v \in Envs : env[v] # NoRow => env[v].date < clock + SigTTL
  /\ \A p \in Procs : exch[p] # NoRow => env[exch[p].env] # NoRow
  /\ \A b \in Tries : bearers[b] # NoRow => env[bearers[b].env] # NoRow

\* The nonce of an envelope was set after it was signed, and is there for every holder.
NoncesHold ==
  /\ \A n \in nonces : /\ n.at <= clock /\ env[n.env] # NoRow /\ env[n.env].date < n.at + SigTTL
  /\ \A t \in Tries, v \in Envs : Holds(t, v) => \E n \in nonces : n.env = v

\* Two exchanges hold one envelope only when AWS accepts it no more, and it was
\* accepted for one of them at most.
HoldersApart ==
  \A t, u \in Tries, v \in Envs : t # u =>
    /\ Holds(t, v) /\ Holds(u, v) => clock >= env[v].date + SigTTL
    /\ ~(Accepted(t, v) /\ Accepted(u, v))

\* Exchanges have numbers of their own, under which no bearer was issued yet.
TriesApart ==
  /\ \A p \in Procs : exch[p] # NoRow => exch[p].try <= tries /\ bearers[exch[p].try] = NoRow
  /\ \A b \in Tries : bearers[b] # NoRow => b <= tries
  /\ \A p, q \in Procs : p # q /\ exch[p] # NoRow /\ exch[q] # NoRow => exch[p].try # exch[q].try

\* An exchange that is past the lookup has an org.
OrgFound == \A p \in Procs : exch[p] # NoRow /\ exch[p].step \in {"build", "issue"} => exch[p].org \in Orgs

\* A PATCH revokes bearers that were issued.
GoneIssued == \A x \in Txns : txn[x] # NoRow => \A b \in txn[x].gone : bearers[b] # NoRow

\* No two orgs registered one role.
OneOrgPerArn == \A o, p \in Orgs : o # p /\ orgs[o].arn # "none" => orgs[o].arn # orgs[p].arn

AInv ==
  /\ TypeOK /\ EnvelopesKnown /\ NoncesHold /\ HoldersApart /\ TriesApart /\ OrgFound
  /\ GoneIssued /\ OneOrgPerArn

\* Who has counted and not yet added.
Counted == {p \in Procs : exch[p] # NoRow /\ exch[p].step = "hit"}

RInv ==
  /\ IsFiniteSet(hits)
  /\ Cardinality(InWindow) + Cardinality(Counted) + 1 <= Limit + Cardinality(Procs)

\* What no PATCH of these columns can change.
MInv ==
  /\ \A x \in Txns : txn[x] # NoRow =>
       LET t == txn[x] IN
       /\ t.body.arn = "absent" /\ t.body.region = "absent"
       /\ t.full.arn = orgs[t.org].arn /\ t.full.region = orgs[t.org].region
       /\ t.base # NoRow => t.base.arn = orgs[t.org].arn /\ t.base.region = orgs[t.org].region
  /\ \A p \in Procs : exch[p] # NoRow /\ exch[p].step \in {"build", "issue"} =>
       /\ orgs[exch[p].org].arn = env[exch[p].env].arn
       /\ orgs[exch[p].org].region = env[exch[p].env].region
  /\ BearerMatchesOrg

\* A PATCH that is alone reads twice what it will change.
PInv ==
  \A x \in Txns : txn[x] # NoRow =>
     /\ txn[x].full = orgs[txn[x].org]
     /\ txn[x].base # NoRow => txn[x].base = orgs[txn[x].org]

-----------------------------------------------------------------------------
(* Types.                                                                   *)

LEMMA Bounds ==
  ASSUME IdentityAssumption
  PROVE  /\ Limit \in Nat /\ Window \in Nat /\ SigTTL \in Nat /\ NonceTTL \in Nat /\ BearerTTL \in Nat
         /\ MaxEnv \in Nat /\ MaxTry \in Nat /\ MaxClock \in Nat /\ Cap0 \in Caps
         /\ SigTTL >= 1 /\ 2 * SigTTL <= NonceTTL /\ Limit >= 1 /\ IsFiniteSet(Procs)
  BY DEF IdentityAssumption, BoundsAreNat

LEMMA InitType ==
  ASSUME IdentityAssumption, Init
  PROVE  TypeOK
<1>1. MaxTry \in Nat /\ MaxClock \in Nat /\ Cap0 \in Caps /\ Fleet \subseteq Insts
  BY Bounds DEF IdentityAssumption, BoundsAreNat
<1>2. clock \in Time /\ tries \in 0 .. MaxTry /\ nonces = {} /\ hits = {} /\ failures = {}
  BY <1>1 DEF Init, Time
<1>3. orgs \in [Orgs -> OrgRow] /\ agents \subseteq Orgs \X Insts
  BY <1>1 DEF Init
<1>4. config \in [Orgs -> [Insts -> Caps \cup {"none"}]]
  BY <1>1 DEF Init
<1> QED
  BY <1>2, <1>3, <1>4 DEF Init, TypeOK

\* What revoking bearers does to each.
RevokeMoves ==
  \A b \in Tries :
    \/ bearers'[b] = bearers[b]
    \/ /\ bearers[b] # NoRow /\ bearers'[b] = [bearers[b] EXCEPT !.revoked = TRUE]
       /\ bearers'[b] # NoRow /\ bearers'[b].revoked
       /\ bearers'[b].org = bearers[b].org /\ bearers'[b].inst = bearers[b].inst
       /\ bearers'[b].arn = bearers[b].arn /\ bearers'[b].env = bearers[b].env
       /\ bearers'[b].expires = bearers[b].expires

LEMMA RevokeFollows ==
  ASSUME TypeOK, NEW S, \A b \in S : b \in Tries => bearers[b] # NoRow, bearers' = revoke(S)
  PROVE  bearers' \in [Tries -> BearerTokenRow \cup {NoRow}] /\ RevokeMoves
<1>1. ASSUME NEW b \in Tries
      PROVE  /\ bearers'[b] \in BearerTokenRow \cup {NoRow}
             /\ \/ bearers'[b] = bearers[b]
                \/ /\ bearers[b] # NoRow /\ bearers'[b] = [bearers[b] EXCEPT !.revoked = TRUE]
                   /\ bearers'[b] # NoRow /\ bearers'[b].revoked
                   /\ bearers'[b].org = bearers[b].org /\ bearers'[b].inst = bearers[b].inst
                   /\ bearers'[b].arn = bearers[b].arn /\ bearers'[b].env = bearers[b].env
                   /\ bearers'[b].expires = bearers[b].expires
  <2>1. CASE b \notin S
    BY <2>1 DEF TypeOK, revoke
  <2>2. CASE b \in S
    <3>1. bearers[b] \in BearerTokenRow /\ bearers'[b] = [bearers[b] EXCEPT !.revoked = TRUE]
      BY <2>2 DEF TypeOK, revoke
    <3>2. PICK B : B = bearers[b]
      OBVIOUS
    <3>3. B \in BearerTokenRow
      BY <3>1, <3>2
    <3>4. DEFINE D == [B EXCEPT !.revoked = TRUE]
    <3>5. /\ D \in BearerTokenRow /\ D.revoked /\ D.org = B.org /\ D.inst = B.inst /\ D.arn = B.arn
          /\ D.env = B.env /\ D.expires = B.expires
      BY ONLY <3>3 DEF BearerTokenRow
    <3>6. D # NoRow
      <4>1. DOMAIN D = DOMAIN B /\ DOMAIN B = {"org", "inst", "arn", "env", "expires", "revoked"}
        BY ONLY <3>3 DEF BearerTokenRow
      <4>2. DOMAIN NoRow = {"absent"}
        BY ONLY DEF NoRow
      <4> QED
        BY <4>1, <4>2
    <3>7. bearers'[b] = D
      BY <3>1, <3>2
    <3> HIDE DEF D
    <3> QED
      BY <2>2, <3>1, <3>2, <3>5, <3>6, <3>7
  <2> QED
    BY <2>1, <2>2
<1>2. bearers' = [b \in Tries |-> bearers'[b]]
  BY DEF revoke
<1> QED
  BY <1>1, <1>2 DEF RevokeMoves

LEMMA EffectiveType ==
  ASSUME NEW t \in Patch
  PROVE  Effective(t) \in OrgRow
<1>1. t.full \in OrgRow /\ t.body \in PatchBody
  BY DEF Patch
<1>2. DOMAIN t.full = {"timeout", "arn", "region", "cap"}
  BY <1>1 DEF OrgRow
<1>3. /\ t.full.timeout \in Timeouts \cup {"none"} /\ t.full.arn \in Arns \cup {"none"}
      /\ t.full.region \in Regions \cup {"none"} /\ t.full.cap \in Caps
  BY <1>1 DEF OrgRow
<1>4. /\ t.body.timeout # "absent" => t.body.timeout \in Timeouts \cup {"none"}
      /\ t.body.arn # "absent" => t.body.arn \in Arns \cup {"none"}
      /\ t.body.region # "absent" => t.body.region \in Regions \cup {"none"}
      /\ t.body.cap # "absent" => t.body.cap \in Caps
  BY <1>1 DEF PatchBody
<1>5. Effective(t) = [timeout |-> Effective(t).timeout, arn |-> Effective(t).arn,
                      region |-> Effective(t).region, cap |-> Effective(t).cap]
  BY <1>2 DEF Effective
<1>6. /\ Effective(t).timeout \in Timeouts \cup {"none"} /\ Effective(t).arn \in Arns \cup {"none"}
      /\ Effective(t).region \in Regions \cup {"none"} /\ Effective(t).cap \in Caps
  BY <1>2, <1>3, <1>4 DEF Effective
<1> QED
  BY <1>5, <1>6 DEF OrgRow

-----------------------------------------------------------------------------
(* What a step does.                                                        *)

\* A signed envelope stays as it is, and a new one is dated less than SigTTL ahead.
EnvMoves ==
  /\ clock' >= clock /\ nonces \subseteq nonces'
  /\ \A v \in Envs :
       /\ env[v] # NoRow => env'[v] = env[v]
       /\ env[v] = NoRow /\ env'[v] # NoRow => env'[v].date < clock + SigTTL

\* A bearer is left alone, revoked, or issued to an exchange that is over.
BearerMoves(b) ==
  \/ bearers'[b] = bearers[b]
  \/ /\ bearers[b] # NoRow /\ bearers'[b] # NoRow /\ bearers'[b].revoked
     /\ bearers'[b].org = bearers[b].org /\ bearers'[b].inst = bearers[b].inst
     /\ bearers'[b].arn = bearers[b].arn /\ bearers'[b].env = bearers[b].env
     /\ bearers'[b].expires = bearers[b].expires
  \/ \E p \in Procs :
       /\ exch[p] # NoRow /\ exch[p].step = "issue" /\ exch[p].try = b /\ exch'[p] = NoRow
       /\ bearers'[b] # NoRow /\ bearers'[b].env = exch[p].env /\ bearers'[b].org = exch[p].org
       /\ bearers'[b].arn = env[exch[p].env].arn

\* An exchange ends, waits, starts, or takes its next step for the reason there is.
ExchStarts(p) ==
  /\ exch[p] = NoRow /\ exch'[p].step = "hit" /\ exch'[p].try = tries + 1 /\ tries' = tries + 1
  /\ env[exch'[p].env] # NoRow /\ \A q \in Procs : q # p => exch'[q] = exch[q]

ExchGoesOn(p) ==
  /\ exch[p] # NoRow /\ exch'[p].env = exch[p].env /\ exch'[p].try = exch[p].try
  /\ \A q \in Procs : q # p => exch'[q] = exch[q]
  /\ \/ exch[p].step = "hit" /\ exch'[p].step = "nonce"
     \/ /\ exch[p].step = "nonce" /\ exch'[p].step = "sts"
        /\ ~nonce_seen(exch[p].env) /\ nonces' = nonces_after(exch[p].env)
     \/ exch[p].step = "sts" /\ exch'[p].step = "lookup" /\ aws_accepts(exch[p].env)
     \/ /\ exch[p].step = "lookup" /\ exch'[p].step = "build" /\ exch'[p].org \in Orgs
        /\ orgs[exch'[p].org].arn = env[exch[p].env].arn
        /\ orgs[exch'[p].org].region = env[exch[p].env].region
     \/ exch[p].step = "build" /\ exch'[p].step = "issue" /\ exch'[p].org = exch[p].org

ExchMoves(p) == exch'[p] = NoRow \/ exch'[p] = exch[p] \/ ExchStarts(p) \/ ExchGoesOn(p)

NonceMoves ==
  \/ nonces' = nonces
  \/ \E p \in Procs : /\ exch[p] # NoRow /\ nonces' = nonces_after(exch[p].env)

\* A hit is added by who has counted; who starts to count found the window under
\* the limit.
HitMoves ==
  \/ hits' = hits /\ Counted' \subseteq Counted
  \/ hits' = hits /\ under_limit /\ clock' = clock
  \/ \E p \in Counted : /\ clock' = clock /\ Counted' \subseteq Counted \ {p}
                        /\ hits' = hits \cup {[try |-> exch[p].try, at |-> clock]}

\* A PATCH is over, waits, starts from the row as it is, or loads that row again.
TxnMoves(x) ==
  \/ txn'[x] = NoRow
  \/ txn'[x] = txn[x]
  \/ /\ txn[x] = NoRow /\ txn'[x].full = orgs[txn'[x].org] /\ txn'[x].base = NoRow
     /\ txn'[x].gone = {}
  \/ /\ txn[x] # NoRow /\ txn[x].base = NoRow /\ txn'[x].org = txn[x].org
     /\ txn'[x].body = txn[x].body /\ txn'[x].full = txn[x].full
     /\ txn'[x].base = orgs[txn[x].org] /\ \A b \in txn'[x].gone : b \in Tries /\ bearers[b] # NoRow

\* An org's row changes when a PATCH of it commits a row that the database can store.
OrgMoves ==
  \/ orgs' = orgs
  \/ \E x \in Txns :
       /\ txn[x] # NoRow /\ txn[x].base # NoRow /\ txn'[x] = NoRow
       /\ Storable(txn[x].org, update_org_fields(txn[x]))
       /\ orgs' = [orgs EXCEPT ![txn[x].org] = update_org_fields(txn[x])]

Moves ==
  /\ EnvMoves /\ NonceMoves /\ HitMoves /\ OrgMoves /\ tries' >= tries
  /\ \A b \in Tries : BearerMoves(b)
  /\ \A p \in Procs : ExchMoves(p)
  /\ \A x \in Txns : TxnMoves(x)

\* Who holds an envelope after a step held it before, but for the exchange whose nonce
\* was new; who was accepted was accepted before, or has just been vouched for.
LEMMA HoldersFollow ==
  ASSUME AInv, TypeOK', Moves, NEW t \in Tries, NEW v \in Envs
  PROVE  /\ Accepted(t, v)' => \/ Accepted(t, v)
                               \/ Holds(t, v) /\ aws_accepts(v)
         /\ Holds(t, v)' =>
              \/ Holds(t, v)
              \/ \E p \in Procs : /\ exch[p] # NoRow /\ exch[p].step = "nonce" /\ exch[p].try = t
                                  /\ exch[p].env = v /\ exch'[p] # NoRow /\ exch'[p].step = "sts"
                                  /\ ExchGoesOn(p)
<1>1. ASSUME bearers'[t] # NoRow, bearers'[t].env = v
      PROVE  Accepted(t, v)
  <2>1. BearerMoves(t)
    BY DEF Moves
  <2> QED
    BY <1>1, <2>1 DEF BearerMoves, Accepted
<1>2. ASSUME NEW p \in Procs, exch'[p] # NoRow, exch'[p].try = t, exch'[p].env = v,
             exch'[p].step \in {"lookup", "build", "issue"}
      PROVE  Accepted(t, v) \/ (Holds(t, v) /\ aws_accepts(v))
  <2>1. ExchMoves(p)
    BY DEF Moves
  <2> QED
    BY <1>2, <2>1 DEF ExchMoves, ExchStarts, ExchGoesOn, Accepted, Holds
<1>3. ASSUME NEW p \in Procs, exch'[p] # NoRow, exch'[p].try = t, exch'[p].env = v, exch'[p].step = "sts"
      PROVE  \/ Holds(t, v)
             \/ /\ exch[p] # NoRow /\ exch[p].step = "nonce" /\ exch[p].try = t
                /\ exch[p].env = v /\ exch'[p] # NoRow /\ exch'[p].step = "sts" /\ ExchGoesOn(p)
  <2>1. ExchMoves(p)
    BY DEF Moves
  <2>2. CASE exch'[p] = exch[p]
    BY <1>3, <2>2 DEF Holds
  <2>3. CASE ExchStarts(p)
    BY <1>3, <2>3 DEF ExchStarts
  <2>4. CASE ExchGoesOn(p)
    BY <1>3, <2>4 DEF ExchGoesOn
  <2> QED
    BY <1>3, <2>1, <2>2, <2>3, <2>4 DEF ExchMoves
<1>4. Accepted(t, v)' => Accepted(t, v) \/ (Holds(t, v) /\ aws_accepts(v))
  <2> SUFFICES ASSUME Accepted(t, v)' PROVE Accepted(t, v) \/ (Holds(t, v) /\ aws_accepts(v))
    OBVIOUS
  <2>1. \/ bearers'[t] # NoRow /\ bearers'[t].env = v
        \/ \E p \in Procs : /\ exch'[p] # NoRow /\ exch'[p].try = t /\ exch'[p].env = v
                            /\ exch'[p].step \in {"lookup", "build", "issue"}
    BY DEF Accepted
  <2> QED
    BY <1>1, <1>2, <2>1
<1>5. Holds(t, v)' => \/ Accepted(t, v)'
                      \/ \E p \in Procs : exch'[p] # NoRow /\ exch'[p].try = t /\ exch'[p].env = v /\ exch'[p].step = "sts"
  BY DEF Holds
<1>6. Accepted(t, v) => Holds(t, v)
  BY DEF Holds
<1> QED
  BY <1>3, <1>4, <1>5, <1>6

LEMMA EnvelopesFollow ==
  ASSUME IdentityAssumption, AInv, TypeOK', Moves
  PROVE  EnvelopesKnown'
<1>1. /\ \A v \in Envs : env[v] # NoRow => env[v].date < clock + SigTTL /\ env[v].date \in Nat
      /\ \A v \in Envs : env'[v] # NoRow => env'[v].date \in Nat
      /\ clock \in Nat /\ clock' \in Nat /\ clock' >= clock /\ SigTTL \in Nat
  BY Bounds DEF AInv, EnvelopesKnown, TypeOK, SignedSTSRequest, Time, Moves, EnvMoves
<1>2. ASSUME NEW v \in Envs, env'[v] # NoRow
      PROVE  env'[v].date < clock' + SigTTL
  <2>1. CASE env[v] = NoRow
    <3>1. env'[v].date < clock + SigTTL
      BY <1>2, <2>1 DEF Moves, EnvMoves
    <3> QED
      BY <1>1, <1>2, <3>1
  <2>2. CASE env[v] # NoRow
    <3>1. env'[v] = env[v]
      BY <2>2 DEF Moves, EnvMoves
    <3> QED
      BY <1>1, <2>2, <3>1
  <2> QED
    BY <2>1, <2>2
<1>3. \A v \in Envs : env[v] # NoRow => env'[v] # NoRow
  BY DEF Moves, EnvMoves
<1>4. ASSUME NEW p \in Procs, exch'[p] # NoRow
      PROVE  env'[exch'[p].env] # NoRow
  <2>1. ExchMoves(p) /\ exch'[p].env \in Envs
    BY <1>4 DEF Moves, TypeOK, Exchange
  <2>2. env[exch'[p].env] # NoRow
    BY <1>4, <2>1 DEF ExchMoves, ExchStarts, ExchGoesOn, AInv, EnvelopesKnown
  <2> QED
    BY <1>3, <2>1, <2>2
<1>5. ASSUME NEW b \in Tries, bearers'[b] # NoRow
      PROVE  env'[bearers'[b].env] # NoRow
  <2>1. BearerMoves(b) /\ bearers'[b].env \in Envs
    BY <1>5 DEF Moves, TypeOK, BearerTokenRow
  <2>2. env[bearers'[b].env] # NoRow
    BY <1>5, <2>1 DEF BearerMoves, AInv, EnvelopesKnown
  <2> QED
    BY <1>3, <2>1, <2>2
<1> QED
  BY <1>2, <1>4, <1>5 DEF EnvelopesKnown

LEMMA NoncesFollow ==
  ASSUME IdentityAssumption, AInv, TypeOK', Moves
  PROVE  NoncesHold'
<1>1. /\ clock \in Nat /\ clock' \in Nat /\ clock' >= clock /\ SigTTL \in Nat
      /\ \A n \in nonces' : n.env \in Envs /\ n.at \in Nat
      /\ nonces \subseteq nonces'
  BY Bounds DEF AInv, TypeOK, Time, Moves, EnvMoves
<1>2. ASSUME NEW n \in nonces'
      PROVE  n.at <= clock' /\ env'[n.env] # NoRow /\ env'[n.env].date < n.at + SigTTL
  <2>1. CASE n \in nonces
    <3>1. n.at <= clock /\ env[n.env] # NoRow /\ env[n.env].date < n.at + SigTTL
      BY <2>1 DEF AInv, NoncesHold
    <3>2. env'[n.env] = env[n.env]
      BY <1>1, <3>1 DEF Moves, EnvMoves
    <3> QED
      BY <1>1, <3>1, <3>2
  <2>2. CASE n \notin nonces
    <3>1. PICK p \in Procs : exch[p] # NoRow /\ nonces' = nonces_after(exch[p].env)
      BY <2>2 DEF Moves, NonceMoves
    <3>2. n = [env |-> exch[p].env, at |-> clock]
      BY <2>2, <3>1 DEF nonces_after
    <3>3. n.env = exch[p].env /\ n.at = clock
      BY <3>2
    <3>4. env[n.env] # NoRow /\ env[n.env].date < clock + SigTTL
      BY <1>1, <3>1, <3>3 DEF AInv, EnvelopesKnown
    <3>5. env'[n.env] = env[n.env]
      BY <1>1, <3>4 DEF Moves, EnvMoves
    <3> QED
      BY <1>1, <3>3, <3>4, <3>5
  <2> QED
    BY <2>1, <2>2
<1>3. ASSUME NEW t \in Tries, NEW v \in Envs, Holds(t, v)'
      PROVE  \E n \in nonces' : n.env = v
  <2>1. CASE Holds(t, v)
    BY <1>1, <2>1 DEF AInv, NoncesHold
  <2>2. CASE \E p \in Procs : exch[p].env = v /\ exch[p].step = "nonce" /\ exch'[p].step = "sts" /\ ExchGoesOn(p)
    <3>1. nonces' = nonces_after(v)
      BY <2>2 DEF ExchGoesOn
    <3>2. [env |-> v, at |-> clock] \in nonces'
      BY <3>1 DEF nonces_after
    <3> QED
      BY <3>2
  <2> QED
    BY <1>3, <2>1, <2>2, HoldersFollow
<1> QED
  BY <1>2, <1>3 DEF NoncesHold

LEMMA ApartFollow ==
  ASSUME IdentityAssumption, AInv, TypeOK', Moves
  PROVE  HoldersApart'
<1>1. /\ clock \in Nat /\ clock' \in Nat /\ clock' >= clock /\ SigTTL \in Nat /\ NonceTTL \in Nat
      /\ 2 * SigTTL <= NonceTTL
      /\ \A n \in nonces : n.env \in Envs /\ n.at \in Nat
      /\ \A v \in Envs : env[v] # NoRow => env[v].date \in Nat
  BY Bounds DEF AInv, TypeOK, Time, SignedSTSRequest, Moves, EnvMoves
\* A held envelope has a nonce, so it was signed, and it stays as it is.
<1>2. ASSUME NEW t \in Tries, NEW v \in Envs, Holds(t, v)
      PROVE  /\ env[v] # NoRow /\ env'[v] = env[v]
             /\ \E n \in nonces : n.env = v /\ env[v].date < n.at + SigTTL
  <2>1. PICK n \in nonces : n.env = v
    BY <1>2 DEF AInv, NoncesHold
  <2>2. env[v] # NoRow /\ env[v].date < n.at + SigTTL
    BY <2>1 DEF AInv, NoncesHold
  <2>3. env'[v] = env[v]
    BY <2>2 DEF Moves, EnvMoves
  <2> QED
    BY <2>1, <2>2, <2>3
\* A second holder passes a nonce that has lapsed, and the signature lapsed before it.
<1>3. ASSUME NEW t \in Tries, NEW u \in Tries, NEW v \in Envs, t # u, Holds(u, v),
             NEW p \in Procs, exch[p].env = v, exch[p].step = "nonce", exch'[p].step = "sts", ExchGoesOn(p)
      PROVE  clock >= env[v].date + SigTTL
  <2>1. ~nonce_seen(v)
    BY <1>3 DEF ExchGoesOn
  <2>2. PICK n \in nonces : n.env = v /\ env[v].date < n.at + SigTTL
    BY <1>2, <1>3
  <2>3. n.at + NonceTTL <= clock
    BY <1>1, <2>1, <2>2 DEF nonce_seen
  <2>4. env[v].date \in Nat /\ n.at \in Nat
    BY <1>1, <1>2, <1>3, <2>2
  <2> QED
    BY <1>1, <2>2, <2>3, <2>4
<1>4. ASSUME NEW t \in Tries, NEW u \in Tries, NEW v \in Envs, t # u, Holds(t, v)', Holds(u, v)'
      PROVE  clock' >= env'[v].date + SigTTL
  <2>1. /\ \/ Holds(t, v)
           \/ \E p \in Procs : /\ exch[p] # NoRow /\ exch[p].step = "nonce" /\ exch[p].try = t
                               /\ exch[p].env = v /\ exch'[p] # NoRow /\ exch'[p].step = "sts"
                               /\ ExchGoesOn(p)
        /\ \/ Holds(u, v)
           \/ \E p \in Procs : /\ exch[p] # NoRow /\ exch[p].step = "nonce" /\ exch[p].try = u
                               /\ exch[p].env = v /\ exch'[p] # NoRow /\ exch'[p].step = "sts"
                               /\ ExchGoesOn(p)
    BY <1>4, HoldersFollow
  <2>2. Holds(t, v) \/ Holds(u, v)
    <3>1. SUFFICES ASSUME ~Holds(t, v), ~Holds(u, v) PROVE FALSE
      OBVIOUS
    <3>2. PICK p \in Procs : /\ exch[p].step = "nonce" /\ exch[p].try = t /\ exch'[p].step = "sts"
                             /\ ExchGoesOn(p)
      BY <2>1, <3>1
    <3>3. PICK q \in Procs : exch[q].step = "nonce" /\ exch[q].try = u /\ exch'[q].step = "sts"
      BY <2>1, <3>1
    <3>4. p # q
      BY <1>4, <3>2, <3>3
    <3>5. exch'[q] = exch[q]
      BY <3>2, <3>4 DEF ExchGoesOn
    <3> QED
      BY <3>3, <3>5
  <2>3. env[v] # NoRow /\ env'[v] = env[v]
    BY <1>2, <2>2
  <2>4. clock >= env[v].date + SigTTL
    <3>1. CASE Holds(t, v) /\ Holds(u, v)
      BY <1>4, <3>1 DEF AInv, HoldersApart
    <3>2. CASE ~Holds(t, v)
      BY <1>3, <1>4, <2>1, <2>2, <3>2
    <3>3. CASE ~Holds(u, v)
      BY <1>3, <1>4, <2>1, <2>2, <3>3
    <3> QED
      BY <3>1, <3>2, <3>3
  <2> QED
    BY <1>1, <2>3, <2>4
<1>5. ASSUME NEW t \in Tries, NEW u \in Tries, NEW v \in Envs, t # u, Accepted(t, v)', Accepted(u, v)'
      PROVE  FALSE
  <2>1. /\ Accepted(t, v) \/ (Holds(t, v) /\ aws_accepts(v))
        /\ Accepted(u, v) \/ (Holds(u, v) /\ aws_accepts(v))
    BY <1>5, HoldersFollow
  <2>2. Holds(t, v) /\ Holds(u, v)
    BY <2>1 DEF Holds
  <2>3. clock >= env[v].date + SigTTL /\ ~(Accepted(t, v) /\ Accepted(u, v))
    BY <1>5, <2>2 DEF AInv, HoldersApart
  <2>4. aws_accepts(v)
    BY <2>1, <2>3
  <2>5. env[v].date \in Nat
    BY <1>1, <1>2, <2>2
  <2> QED
    BY <1>1, <2>3, <2>4, <2>5 DEF aws_accepts
<1> QED
  BY <1>4, <1>5 DEF HoldersApart

LEMMA TriesFollow ==
  ASSUME IdentityAssumption, AInv, TypeOK', Moves
  PROVE  TriesApart' /\ OrgFound'
<1>1. /\ tries \in Nat /\ tries' \in Nat /\ tries' >= tries
      /\ \A b \in Tries : b \in Nat
      /\ \A p \in Procs : exch[p] # NoRow => exch[p].try \in Tries
      /\ \A p \in Procs : exch'[p] # NoRow => exch'[p].try \in Tries
  BY Bounds DEF AInv, TypeOK, Tries, Moves, Exchange
<1>2. /\ \A p \in Procs : exch[p] # NoRow => exch[p].try <= tries /\ bearers[exch[p].try] = NoRow
      /\ \A b \in Tries : bearers[b] # NoRow => b <= tries
      /\ \A p, q \in Procs : p # q /\ exch[p] # NoRow /\ exch[q] # NoRow => exch[p].try # exch[q].try
  BY DEF AInv, TriesApart
<1>3. \A p \in Procs : ExchMoves(p)
  BY DEF Moves
\* Who goes on keeps its number; a new one has the next.
<1>4. ASSUME NEW p \in Procs, exch'[p] # NoRow
      PROVE  \/ exch[p] # NoRow /\ exch'[p].try = exch[p].try
             \/ exch[p] = NoRow /\ exch'[p].try = tries + 1 /\ tries' = tries + 1
  BY <1>3, <1>4 DEF ExchMoves, ExchStarts, ExchGoesOn
<1>5. ASSUME NEW b \in Tries, bearers'[b] # NoRow
      PROVE  \/ bearers[b] # NoRow
             \/ \E p \in Procs : exch[p] # NoRow /\ exch[p].try = b /\ exch'[p] = NoRow
  <2>1. BearerMoves(b)
    BY DEF Moves
  <2> QED
    BY <1>5, <2>1 DEF BearerMoves
<1>6. ASSUME NEW p \in Procs, exch'[p] # NoRow
      PROVE  exch'[p].try <= tries' /\ bearers'[exch'[p].try] = NoRow
  <2>1. PICK b : b = exch'[p].try
    OBVIOUS
  <2>2. b \in Tries
    BY <1>1, <1>6, <2>1
  <2>3. b <= tries'
    BY <1>1, <1>2, <1>4, <1>6, <2>1
  <2>4. SUFFICES ASSUME bearers'[b] # NoRow PROVE FALSE
    BY <2>1, <2>3
  <2>5. CASE exch[p] # NoRow /\ b = exch[p].try
    <3>1. bearers[b] = NoRow
      BY <1>2, <2>5
    <3>2. PICK q \in Procs : exch[q] # NoRow /\ exch[q].try = b /\ exch'[q] = NoRow
      BY <1>5, <2>2, <2>4, <3>1
    <3>3. q # p
      BY <1>6, <3>2
    <3> QED
      BY <1>2, <2>5, <3>2, <3>3
  <2>6. CASE b = tries + 1
    <3>1. bearers[b] = NoRow
      BY <1>1, <1>2, <2>2, <2>6
    <3>2. PICK q \in Procs : exch[q] # NoRow /\ exch[q].try = b
      BY <1>5, <2>2, <2>4, <3>1
    <3> QED
      BY <1>1, <1>2, <2>6, <3>2
  <2> QED
    BY <1>4, <1>6, <2>1, <2>5, <2>6
<1>7. ASSUME NEW b \in Tries, bearers'[b] # NoRow
      PROVE  b <= tries'
  BY <1>1, <1>2, <1>5, <1>7
<1>8. ASSUME NEW p \in Procs, NEW q \in Procs, p # q, exch'[p] # NoRow, exch'[q] # NoRow
      PROVE  exch'[p].try # exch'[q].try
  <2>1. CASE exch[p] # NoRow /\ exch[q] # NoRow
    BY <1>2, <1>4, <1>8, <2>1
  <2>2. CASE exch[p] = NoRow
    <3>1. ExchStarts(p)
      BY <1>3, <1>8, <2>2 DEF ExchMoves, ExchGoesOn
    <3>2. exch'[q] = exch[q] /\ exch'[p].try = tries + 1
      BY <1>8, <3>1 DEF ExchStarts
    <3> QED
      BY <1>1, <1>2, <1>8, <3>2
  <2>3. CASE exch[q] = NoRow
    <3>1. ExchStarts(q)
      BY <1>3, <1>8, <2>3 DEF ExchMoves, ExchGoesOn
    <3>2. exch'[p] = exch[p] /\ exch'[q].try = tries + 1
      BY <1>8, <3>1 DEF ExchStarts
    <3> QED
      BY <1>1, <1>2, <1>8, <3>2
  <2> QED
    BY <2>1, <2>2, <2>3
<1>9. ASSUME NEW p \in Procs, exch'[p] # NoRow, exch'[p].step \in {"build", "issue"}
      PROVE  exch'[p].org \in Orgs
  BY <1>3, <1>9 DEF ExchMoves, ExchStarts, ExchGoesOn, AInv, OrgFound
<1> QED
  BY <1>6, <1>7, <1>8, <1>9 DEF TriesApart, OrgFound

LEMMA OrgsFollow ==
  ASSUME IdentityAssumption, AInv, TypeOK', Moves
  PROVE  GoneIssued' /\ OneOrgPerArn'
<1>1. ASSUME NEW x \in Txns, txn'[x] # NoRow, NEW b \in txn'[x].gone
      PROVE  bearers'[b] # NoRow
  <2>1. TxnMoves(x) /\ b \in Tries
    BY <1>1 DEF Moves, TypeOK, Patch
  <2>2. bearers[b] # NoRow
    BY <1>1, <2>1 DEF TxnMoves, AInv, GoneIssued
  <2>3. BearerMoves(b)
    BY <2>1 DEF Moves
  <2> QED
    BY <2>2, <2>3 DEF BearerMoves
<1>2. OneOrgPerArn'
  <2>1. CASE orgs' = orgs
    BY <2>1 DEF AInv, OneOrgPerArn
  <2>2. ASSUME NEW x \in Txns, txn[x] # NoRow,
               Storable(txn[x].org, update_org_fields(txn[x])),
               orgs' = [orgs EXCEPT ![txn[x].org] = update_org_fields(txn[x])]
        PROVE  OneOrgPerArn'
    <3>1. PICK o, row : o = txn[x].org /\ row = update_org_fields(txn[x])
      OBVIOUS
    <3>2. o \in Orgs /\ orgs' = [orgs EXCEPT ![o] = row] /\ Storable(o, row)
      BY <2>2, <3>1 DEF AInv, TypeOK, Patch
    <3>3. \A q \in Orgs : row.arn # "none" /\ q # o => orgs[q].arn # row.arn
      BY <3>2 DEF Storable, lookup_org_by_arn
    <3>4. orgs'[o] = row /\ \A q \in Orgs : q # o => orgs'[q] = orgs[q]
      BY <3>2 DEF AInv, TypeOK
    <3> QED
      BY <3>3, <3>4 DEF AInv, OneOrgPerArn
  <2> QED
    BY <2>1, <2>2 DEF Moves, OrgMoves
<1> QED
  BY <1>1, <1>2 DEF GoneIssued

LEMMA StepFollows ==
  ASSUME IdentityAssumption, AInv, TypeOK', Moves
  PROVE  AInv'
BY EnvelopesFollow, NoncesFollow, ApartFollow, TriesFollow, OrgsFollow DEF AInv

-----------------------------------------------------------------------------
(* What each action does.                                                   *)

LEMMA TickMoves ==
  ASSUME IdentityAssumption, AInv, Tick
  PROVE  TypeOK' /\ Moves
<1>1. TypeOK'
  BY Bounds DEF AInv, TypeOK, Tick, Time
<1>2. clock' >= clock /\ tries' >= tries
  BY Bounds DEF AInv, TypeOK, Tick, Time
<1>3. Counted' = Counted
  BY DEF Tick, Counted
<1> QED
  BY <1>1, <1>2, <1>3 DEF Tick, Moves, EnvMoves, NonceMoves, HitMoves, OrgMoves, BearerMoves, ExchMoves, TxnMoves

LEMMA SignMoves ==
  ASSUME IdentityAssumption, AInv, NEW v \in Envs, NEW i \in Insts, NEW a \in Arns, NEW r \in Regions,
         NEW ahead \in {0, SigTTL - 1}, NEW aud \in BOOLEAN, Sign(v, i, a, r, ahead, aud)
  PROVE  TypeOK' /\ Moves
<1>1. clock \in Nat /\ SigTTL \in Nat /\ ahead \in Nat /\ ahead < SigTTL /\ clock + ahead < clock + SigTTL
  BY Bounds DEF AInv, TypeOK, Time
<1>2. [inst |-> i, arn |-> a, region |-> r, date |-> clock + ahead, audience |-> aud] \in SignedSTSRequest
  BY <1>1 DEF SignedSTSRequest
<1>3. env' \in [Envs -> SignedSTSRequest \cup {NoRow}]
  BY <1>2 DEF Sign, AInv, TypeOK
<1>4. TypeOK'
  BY <1>3 DEF Sign, AInv, TypeOK
<1>5. clock' >= clock /\ tries' >= tries
  BY Bounds DEF Sign, AInv, TypeOK, Time
<1>6. Counted' = Counted
  BY DEF Sign, Counted
<1>7. \A w \in Envs : /\ env[w] # NoRow => env'[w] = env[w]
                      /\ env[w] = NoRow /\ env'[w] # NoRow => env'[w].date < clock + SigTTL
  <2>1. ASSUME NEW w \in Envs
        PROVE  /\ w # v => env'[w] = env[w]
               /\ w = v => env[w] = NoRow /\ env'[w].date = clock + ahead
    BY DEF Sign, AInv, TypeOK
  <2> QED
    BY <1>1, <2>1
<1> QED
  BY <1>4, <1>5, <1>6, <1>7
  DEF Sign, Moves, EnvMoves, NonceMoves, HitMoves, OrgMoves, BearerMoves, ExchMoves, TxnMoves

\* Facts about one exchange that the lemmas below need.
LEMMA ExchFacts ==
  ASSUME IdentityAssumption, AInv, NEW p \in Procs, exch[p] # NoRow
  PROVE  /\ exch[p] \in Exchange /\ exch[p].env \in Envs /\ exch[p].try \in Tries /\ exch[p].cap \in Caps
         /\ env[exch[p].env] \in SignedSTSRequest /\ env[exch[p].env] # NoRow
         /\ clock \in Nat /\ tries \in Nat
<1>1. exch[p] \in Exchange /\ clock \in Nat /\ tries \in Nat
  BY Bounds DEF AInv, TypeOK, Time
<1>2. exch[p].env \in Envs /\ exch[p].try \in Tries /\ exch[p].cap \in Caps
  BY <1>1 DEF Exchange
<1>3. env[exch[p].env] # NoRow
  BY DEF AInv, EnvelopesKnown
<1> QED
  BY <1>1, <1>2, <1>3 DEF AInv, TypeOK

\* NoRow is no exchange.
LEMMA ExchIsRow ==
  ASSUME NEW E \in Exchange
  PROVE  E # NoRow
<1>1. DOMAIN E = {"env", "try", "step", "org", "cap"} /\ DOMAIN NoRow = {"absent"}
  BY DEF Exchange, NoRow
<1> QED
  BY <1>1

\* An exchange that is dropped moves nothing else.
LEMMA DropMoves ==
  ASSUME IdentityAssumption, AInv, NEW p \in Procs, Dropped(p)
  PROVE  /\ exch' \in [Procs -> Exchange \cup {NoRow}]
         /\ \A q \in Procs : ExchMoves(q)
         /\ exch'[p] = NoRow /\ Counted' \subseteq Counted \ {p}
<1>1. \A q \in Procs : exch'[q] = IF q = p THEN NoRow ELSE exch[q]
  BY DEF Dropped, AInv, TypeOK
<1> QED
  BY <1>1 DEF Dropped, AInv, TypeOK, ExchMoves, Counted

\* An exchange that takes a step is the only one that moves.
LEMMA StepOn ==
  ASSUME IdentityAssumption, AInv, NEW p \in Procs, exch[p] # NoRow, NEW s \in {"nonce", "sts", "lookup"},
         exch' = [exch EXCEPT ![p].step = s]
  PROVE  /\ exch' \in [Procs -> Exchange \cup {NoRow}]
         /\ \A q \in Procs : q # p => exch'[q] = exch[q]
         /\ exch'[p].env = exch[p].env /\ exch'[p].try = exch[p].try /\ exch'[p].step = s
         /\ Counted' \subseteq Counted \ {p}
<1>1. PICK E : E = exch[p]
  OBVIOUS
<1>2. E \in Exchange
  BY <1>1, ExchFacts
<1> DEFINE D == [E EXCEPT !.step = s]
<1>3. D \in Exchange /\ D.env = E.env /\ D.try = E.try /\ D.step = s
  BY ONLY <1>2, s \in {"nonce", "sts", "lookup"} DEF Exchange
<1>4. exch' = [exch EXCEPT ![p] = D]
  BY <1>1
<1> HIDE DEF D
<1>5. exch'[p] = D /\ \A q \in Procs : q # p => exch'[q] = exch[q]
  BY <1>4 DEF AInv, TypeOK
<1>6. Counted' \subseteq Counted \ {p}
  BY <1>3, <1>5 DEF Counted
<1> QED
  BY <1>1, <1>3, <1>4, <1>5, <1>6 DEF AInv, TypeOK

LEMMA StartMoves ==
  ASSUME IdentityAssumption, AInv, NEW p \in Procs, NEW v \in Envs, ExchangeStart(p, v)
  PROVE  TypeOK' /\ Moves
<1> DEFINE E == [env |-> v, try |-> tries + 1, step |-> "hit", org |-> "none", cap |-> Cap0]
<1>1. tries + 1 \in Tries /\ tries \in Nat /\ tries' = tries + 1 /\ tries' \in 0 .. MaxTry
  BY Bounds DEF AInv, TypeOK, ExchangeStart, Tries
<1>2. E \in Exchange
  BY <1>1, Bounds DEF Exchange
<1>3. exch' = [exch EXCEPT ![p] = E] /\ E.env = v /\ E.try = tries + 1 /\ E.step = "hit"
  BY DEF ExchangeStart
<1> HIDE DEF E
<1>4. exch'[p] = E /\ \A q \in Procs : q # p => exch'[q] = exch[q]
  BY <1>3 DEF AInv, TypeOK
<1>5. TypeOK'
  BY <1>1, <1>2, <1>3 DEF ExchangeStart, AInv, TypeOK
<1>6. \A q \in Procs : ExchMoves(q)
  <2>1. ExchStarts(p)
    BY <1>1, <1>3, <1>4 DEF ExchangeStart, ExchStarts
  <2> QED
    BY <1>4, <2>1 DEF ExchMoves
<1>7. HitMoves
  BY DEF ExchangeStart, HitMoves
<1>8. clock' >= clock /\ tries' >= tries
  BY <1>1, Bounds DEF ExchangeStart, AInv, TypeOK, Time
<1> QED
  BY <1>5, <1>6, <1>7, <1>8 DEF ExchangeStart, Moves, EnvMoves, NonceMoves, OrgMoves, BearerMoves, TxnMoves

LEMMA HitStepMoves ==
  ASSUME IdentityAssumption, AInv, NEW p \in Procs, ExchangeHit(p)
  PROVE  TypeOK' /\ Moves
<1>1. exch[p] # NoRow /\ exch[p].step = "hit" /\ p \in Counted
  BY DEF ExchangeHit, At, Counted
<1>2. exch[p].try \in Tries /\ clock \in Time /\ clock' = clock /\ tries' = tries /\ clock \in Nat /\ tries \in Nat
  BY <1>1, ExchFacts DEF ExchangeHit, AInv, TypeOK
<1>3. hits' = hits \cup {[try |-> exch[p].try, at |-> clock]}
  BY DEF ExchangeHit
<1>4. /\ exch' \in [Procs -> Exchange \cup {NoRow}]
      /\ \A q \in Procs : ExchMoves(q)
      /\ Counted' \subseteq Counted \ {p}
  <2>1. CASE Dropped(p)
    BY <2>1, DropMoves
  <2>2. CASE exch' = [exch EXCEPT ![p].step = "nonce"]
    <3>1. /\ exch' \in [Procs -> Exchange \cup {NoRow}]
          /\ \A q \in Procs : q # p => exch'[q] = exch[q]
          /\ exch'[p].env = exch[p].env /\ exch'[p].try = exch[p].try /\ exch'[p].step = "nonce"
          /\ Counted' \subseteq Counted \ {p}
      BY <1>1, <2>2, StepOn
    <3>2. ExchGoesOn(p)
      BY <1>1, <3>1 DEF ExchGoesOn
    <3> QED
      BY <3>1, <3>2 DEF ExchMoves
  <2> QED
    BY <2>1, <2>2 DEF ExchangeHit
<1>5. TypeOK'
  <2>1. hits' \subseteq [try: Tries, at: Time]
    BY <1>2, <1>3 DEF AInv, TypeOK
  <2> QED
    BY <1>4, <2>1 DEF ExchangeHit, AInv, TypeOK
<1>6. HitMoves
  BY <1>1, <1>2, <1>3, <1>4 DEF HitMoves
<1>7. clock' >= clock /\ tries' >= tries
  BY <1>2
<1> QED
  BY <1>4, <1>5, <1>6, <1>7 DEF ExchangeHit, Moves, EnvMoves, NonceMoves, OrgMoves, BearerMoves, TxnMoves

LEMMA NonceStepMoves ==
  ASSUME IdentityAssumption, AInv, NEW p \in Procs, ExchangeNonce(p)
  PROVE  TypeOK' /\ Moves
<1>1. exch[p] # NoRow /\ exch[p].step = "nonce" /\ p \notin Counted
  BY DEF ExchangeNonce, At, Counted
<1>2. /\ exch[p].env \in Envs /\ clock \in Time /\ clock' = clock /\ tries' = tries /\ clock \in Nat
      /\ tries \in Nat
  BY <1>1, ExchFacts DEF ExchangeNonce, AInv, TypeOK
<1>3. /\ exch' \in [Procs -> Exchange \cup {NoRow}]
      /\ \A q \in Procs : ExchMoves(q)
      /\ Counted' \subseteq Counted /\ nonces \subseteq nonces' /\ NonceMoves
      /\ nonces' \subseteq [env: Envs, at: Time]
  <2>1. CASE Dropped(p) /\ nonces' = nonces
    BY <2>1, DropMoves DEF NonceMoves, AInv, TypeOK
  <2>2. CASE ~nonce_seen(exch[p].env) /\ nonces' = nonces_after(exch[p].env) /\ exch' = [exch EXCEPT ![p].step = "sts"]
    <3>1. /\ exch' \in [Procs -> Exchange \cup {NoRow}]
          /\ \A q \in Procs : q # p => exch'[q] = exch[q]
          /\ exch'[p].env = exch[p].env /\ exch'[p].try = exch[p].try /\ exch'[p].step = "sts"
          /\ Counted' \subseteq Counted \ {p}
      BY <1>1, <2>2, StepOn
    <3>2. ExchGoesOn(p)
      BY <1>1, <2>2, <3>1 DEF ExchGoesOn
    <3>3. nonces \subseteq nonces' /\ nonces' \subseteq [env: Envs, at: Time]
      BY <1>2, <2>2 DEF nonces_after, AInv, TypeOK
    <3> QED
      BY <1>1, <2>2, <3>1, <3>2, <3>3 DEF ExchMoves, NonceMoves
  <2> QED
    BY <2>1, <2>2 DEF ExchangeNonce
<1>4. TypeOK'
  BY <1>3 DEF ExchangeNonce, AInv, TypeOK
<1>5. HitMoves
  BY <1>3 DEF ExchangeNonce, HitMoves
<1>6. clock' >= clock /\ tries' >= tries
  BY <1>2
<1> QED
  BY <1>3, <1>4, <1>5, <1>6 DEF ExchangeNonce, Moves, EnvMoves, OrgMoves, BearerMoves, TxnMoves

LEMMA ReplayMoves ==
  ASSUME IdentityAssumption, AInv, NEW p \in Procs, ExchangeReplay(p)
  PROVE  TypeOK' /\ Moves
<1>1. exch[p] # NoRow /\ exch[p].step = "sts"
  BY DEF ExchangeReplay, At
<1>2. clock' = clock /\ tries' = tries /\ clock \in Nat /\ tries \in Nat
  BY <1>1, ExchFacts DEF ExchangeReplay
<1>3. /\ exch' \in [Procs -> Exchange \cup {NoRow}]
      /\ \A q \in Procs : ExchMoves(q)
      /\ Counted' \subseteq Counted
  <2>1. CASE Dropped(p)
    BY <2>1, DropMoves
  <2>2. CASE aws_accepts(exch[p].env) /\ exch' = [exch EXCEPT ![p].step = "lookup"]
    <3>1. /\ exch' \in [Procs -> Exchange \cup {NoRow}]
          /\ \A q \in Procs : q # p => exch'[q] = exch[q]
          /\ exch'[p].env = exch[p].env /\ exch'[p].try = exch[p].try /\ exch'[p].step = "lookup"
          /\ Counted' \subseteq Counted \ {p}
      BY <1>1, <2>2, StepOn
    <3>2. ExchGoesOn(p)
      BY <1>1, <2>2, <3>1 DEF ExchGoesOn
    <3> QED
      BY <3>1, <3>2 DEF ExchMoves
  <2> QED
    BY <2>1, <2>2 DEF ExchangeReplay
<1>4. TypeOK'
  BY <1>3 DEF ExchangeReplay, AInv, TypeOK
<1>5. HitMoves
  BY <1>3 DEF ExchangeReplay, HitMoves
<1>6. clock' >= clock /\ tries' >= tries
  BY <1>2
<1> QED
  BY <1>3, <1>4, <1>5, <1>6 DEF ExchangeReplay, Moves, EnvMoves, NonceMoves, OrgMoves, BearerMoves, TxnMoves

LEMMA LookupMoves ==
  ASSUME IdentityAssumption, AInv, NEW p \in Procs, ExchangeLookup(p)
  PROVE  TypeOK' /\ Moves
<1>1. exch[p] # NoRow /\ exch[p].step = "lookup"
  BY DEF ExchangeLookup, At
<1>2. clock' = clock /\ tries' = tries /\ clock \in Nat /\ tries \in Nat
  BY <1>1, ExchFacts DEF ExchangeLookup
<1> DEFINE Goal == /\ exch' \in [Procs -> Exchange \cup {NoRow}]
                   /\ \A q \in Procs : ExchMoves(q)
                   /\ Counted' \subseteq Counted /\ failures' \subseteq Orgs
<1>3. Goal
  <2>1. CASE Dropped(p) /\ failures' \subseteq Orgs
    BY <2>1, DropMoves
  <2>2. ASSUME NEW o \in lookup_org_by_arn(env[exch[p].env].arn), failures' = failures,
               orgs[o].region = env[exch[p].env].region,
               exch' = [exch EXCEPT ![p].step = "build", ![p].org = o]
        PROVE  Goal
    <3>1. PICK E : E = exch[p]
      OBVIOUS
    <3>2. E \in Exchange /\ o \in Orgs /\ orgs[o].arn = env[E.env].arn
      BY <1>1, <3>1, ExchFacts DEF lookup_org_by_arn
    <3> DEFINE C == [E EXCEPT !.step = "build"]
               D == [C EXCEPT !.org = o]
    <3>3. C \in Exchange /\ C.env = E.env /\ C.try = E.try /\ C.step = "build"
      BY ONLY <3>2 DEF Exchange
    <3>4. exch' = [exch EXCEPT ![p] = D]
      BY <2>2, <3>1
    <3> HIDE DEF C
    <3>5. D \in Exchange /\ D.env = C.env /\ D.try = C.try /\ D.step = C.step /\ D.org = o
      BY ONLY <3>2, <3>3 DEF Exchange
    <3> HIDE DEF D
    <3>6. exch'[p] = D /\ \A q \in Procs : q # p => exch'[q] = exch[q]
      BY <3>4 DEF AInv, TypeOK
    <3>7. ExchGoesOn(p)
      BY <1>1, <2>2, <3>1, <3>2, <3>3, <3>5, <3>6 DEF ExchGoesOn
    <3>8. Counted' \subseteq Counted
      BY <3>3, <3>5, <3>6 DEF Counted
    <3>9. exch' \in [Procs -> Exchange \cup {NoRow}]
      BY <3>4, <3>5 DEF AInv, TypeOK
    <3>10. \A q \in Procs : ExchMoves(q)
      BY <3>6, <3>7 DEF ExchMoves
    <3>11. failures' \subseteq Orgs
      BY <2>2 DEF AInv, TypeOK
    <3> QED
      BY <3>8, <3>9, <3>10, <3>11
  <2>3. lookup_org_by_arn(env[exch[p].env].arn) \subseteq Orgs /\ failures \subseteq Orgs
    BY DEF lookup_org_by_arn, AInv, TypeOK
  <2>4. CASE Dropped(p) /\ failures' = failures
    BY <2>1, <2>3, <2>4
  <2>5. ASSUME NEW o \in lookup_org_by_arn(env[exch[p].env].arn), Dropped(p), failures' = failures \cup {o}
        PROVE  Goal
    BY <2>1, <2>3, <2>5
  <2>6. \/ Dropped(p) /\ failures' = failures
        \/ \E o \in lookup_org_by_arn(env[exch[p].env].arn) :
             \/ Dropped(p) /\ failures' = failures \cup {o}
             \/ /\ orgs[o].region = env[exch[p].env].region /\ failures' = failures
                /\ exch' = [exch EXCEPT ![p].step = "build", ![p].org = o]
    BY DEF ExchangeLookup
  <2> QED
    BY <2>2, <2>4, <2>5, <2>6
<1>4. TypeOK'
  BY <1>3 DEF ExchangeLookup, AInv, TypeOK
<1>5. HitMoves
  BY <1>3 DEF ExchangeLookup, HitMoves
<1>6. clock' >= clock /\ tries' >= tries
  BY <1>2
<1> QED
  BY <1>3, <1>4, <1>5, <1>6 DEF ExchangeLookup, Moves, EnvMoves, NonceMoves, OrgMoves, BearerMoves, TxnMoves

LEMMA BuildMoves ==
  ASSUME IdentityAssumption, AInv, NEW p \in Procs, ExchangeBuild(p)
  PROVE  TypeOK' /\ Moves
<1>1. exch[p] # NoRow /\ exch[p].step = "build" /\ exch[p].org \in Orgs
  BY DEF ExchangeBuild, At, AInv, OrgFound
<1>2. clock' = clock /\ tries' = tries /\ clock \in Nat /\ tries \in Nat
  BY <1>1, ExchFacts DEF ExchangeBuild
<1>3. PICK E, o, c : E = exch[p] /\ o = E.org /\ c = orgs[o].cap
  OBVIOUS
<1>4. E \in Exchange /\ o \in Orgs /\ c \in Caps
  BY <1>1, <1>3, ExchFacts DEF AInv, TypeOK, OrgRow
<1> DEFINE C == [E EXCEPT !.step = "issue"]
           D == [C EXCEPT !.cap = c]
<1>5. C \in Exchange /\ C.env = E.env /\ C.try = E.try /\ C.step = "issue" /\ C.org = E.org
  BY ONLY <1>4 DEF Exchange
<1>6. exch' = [exch EXCEPT ![p] = D]
  BY <1>3 DEF ExchangeBuild
<1> HIDE DEF C
<1>7. D \in Exchange /\ D.env = C.env /\ D.try = C.try /\ D.step = C.step /\ D.org = C.org
  BY ONLY <1>4, <1>5 DEF Exchange
<1> HIDE DEF D
<1>8. exch'[p] = D /\ \A q \in Procs : q # p => exch'[q] = exch[q]
  BY <1>6 DEF AInv, TypeOK
<1>9. ExchGoesOn(p)
  BY <1>1, <1>3, <1>5, <1>7, <1>8 DEF ExchGoesOn
<1>10. Counted' \subseteq Counted
  BY <1>5, <1>7, <1>8 DEF Counted
<1>11. exch' \in [Procs -> Exchange \cup {NoRow}]
  BY <1>6, <1>7 DEF AInv, TypeOK
<1>12. TypeOK'
  BY <1>11 DEF ExchangeBuild, AInv, TypeOK
<1>13. HitMoves
  BY <1>10 DEF ExchangeBuild, HitMoves
<1>14. clock' >= clock /\ tries' >= tries
  BY <1>2
<1> QED
  BY <1>8, <1>9, <1>12, <1>13, <1>14
  DEF ExchangeBuild, Moves, EnvMoves, NonceMoves, OrgMoves, BearerMoves, TxnMoves, ExchMoves

LEMMA IssueMoves ==
  ASSUME IdentityAssumption, AInv, NEW p \in Procs, ExchangeIssue(p)
  PROVE  TypeOK' /\ Moves
<1>1. exch[p] # NoRow /\ exch[p].step = "issue" /\ exch[p].org \in Orgs
  BY DEF ExchangeIssue, At, AInv, OrgFound
<1>2. clock' = clock /\ tries' = tries /\ clock \in Nat /\ tries \in Nat
  BY <1>1, ExchFacts DEF ExchangeIssue
<1>3. PICK E, o, b, v, e : E = exch[p] /\ o = E.org /\ b = E.try /\ v = E.env /\ e = env[v]
  OBVIOUS
<1>4. o \in Orgs /\ b \in Tries /\ v \in Envs /\ e.inst \in Insts /\ e.arn \in Arns /\ E.cap \in Caps
  BY <1>1, <1>3, ExchFacts DEF SignedSTSRequest
<1> DEFINE B == issue(o, v)
<1>5. /\ B \in BearerTokenRow
      /\ B.org = o /\ B.env = v /\ B.arn = e.arn /\ B # NoRow
  <2>1. /\ B = [org |-> o, inst |-> e.inst, arn |-> e.arn, env |-> v, expires |-> clock + BearerTTL,
                revoked |-> FALSE]
        /\ clock + BearerTTL \in Nat
    BY <1>2, <1>3, Bounds DEF issue
  <2> HIDE DEF B
  <2>2. B \in BearerTokenRow
    BY <1>4, <2>1 DEF BearerTokenRow
  <2>3. B # NoRow
    <3>1. DOMAIN B = {"org", "inst", "arn", "env", "expires", "revoked"} /\ DOMAIN NoRow = {"absent"}
      BY <2>1 DEF NoRow
    <3> QED
      BY <3>1
  <2> QED
    BY <2>1, <2>2, <2>3
<1>6. bearers' = [bearers EXCEPT ![b] = B]
  BY <1>3 DEF ExchangeIssue
<1> HIDE DEF B
<1>7. /\ exch' \in [Procs -> Exchange \cup {NoRow}]
      /\ \A q \in Procs : ExchMoves(q)
      /\ exch'[p] = NoRow /\ Counted' \subseteq Counted
  BY DropMoves DEF ExchangeIssue
<1>8. bearers' \in [Tries -> BearerTokenRow \cup {NoRow}]
  BY <1>5, <1>6 DEF AInv, TypeOK
<1>9. agents' \subseteq Orgs \X Insts
  BY <1>3, <1>4 DEF ExchangeIssue, AInv, TypeOK
<1>10. config' \in [Orgs -> [Insts -> Caps \cup {"none"}]]
  <2>1. config' = [config EXCEPT ![o][e.inst] = E.cap]
    BY <1>3 DEF ExchangeIssue
  <2> QED
    BY <1>4, <2>1 DEF AInv, TypeOK
<1>11. TypeOK'
  BY <1>7, <1>8, <1>9, <1>10 DEF ExchangeIssue, AInv, TypeOK
<1>12. \A c \in Tries : BearerMoves(c)
  <2>1. bearers'[b] = B /\ \A c \in Tries : c # b => bearers'[c] = bearers[c]
    BY <1>4, <1>6 DEF AInv, TypeOK
  <2>2. BearerMoves(b)
    BY <1>1, <1>3, <1>5, <1>7, <2>1 DEF BearerMoves
  <2> QED
    BY <2>1, <2>2 DEF BearerMoves
<1>13. HitMoves
  BY <1>7 DEF ExchangeIssue, HitMoves
<1>14. clock' >= clock /\ tries' >= tries
  BY <1>2
<1> QED
  BY <1>7, <1>11, <1>12, <1>13, <1>14 DEF ExchangeIssue, Moves, EnvMoves, NonceMoves, OrgMoves, TxnMoves

LEMMA GoneMoves ==
  ASSUME IdentityAssumption, AInv, NEW o \in Orgs, NEW i \in Insts, AgentGone(o, i)
  PROVE  TypeOK' /\ Moves
<1>1. clock' = clock /\ tries' = tries /\ clock \in Nat /\ tries \in Nat
  BY Bounds DEF AgentGone, AInv, TypeOK, Time
<1>2. bearers' \in [Tries -> BearerTokenRow \cup {NoRow}] /\ RevokeMoves
  <2>1. PICK S : S = revoke_all_for_agent(o, i)
    OBVIOUS
  <2>2. bearers' = revoke(S) /\ \A b \in S : b \in Tries => bearers[b] # NoRow
    BY <2>1 DEF AgentGone, revoke_all_for_agent
  <2> QED
    BY <2>2, RevokeFollows DEF AInv
<1>3. TypeOK'
  BY <1>2 DEF AgentGone, AInv, TypeOK
<1>4. \A b \in Tries : BearerMoves(b)
  BY <1>2 DEF RevokeMoves, BearerMoves
<1>5. Counted' = Counted
  BY DEF AgentGone, Counted
<1>6. clock' >= clock /\ tries' >= tries
  BY <1>1
<1> QED
  BY <1>3, <1>4, <1>5, <1>6 DEF AgentGone, Moves, EnvMoves, NonceMoves, HitMoves, OrgMoves, ExchMoves, TxnMoves

LEMMA ReadMoves ==
  ASSUME IdentityAssumption, AInv, NEW x \in Txns, NEW o \in Orgs, NEW body \in PatchBody, PatchRead(x, o, body)
  PROVE  TypeOK' /\ Moves
<1> DEFINE T == [org |-> o, body |-> body, full |-> orgs[o], base |-> NoRow, gone |-> {}]
<1>1. T \in Patch
  BY DEF Patch, AInv, TypeOK
<1>2. T.org = o /\ T.full = orgs[o] /\ T.base = NoRow /\ T.gone = {}
  OBVIOUS
<1>3. txn[x] = NoRow /\ txn' = [txn EXCEPT ![x] = T]
  BY DEF PatchRead
<1> HIDE DEF T
<1>4. txn'[x] = T /\ \A y \in Txns : y # x => txn'[y] = txn[y]
  BY <1>3 DEF AInv, TypeOK
<1>5. \A y \in Txns : TxnMoves(y)
  BY <1>2, <1>3, <1>4 DEF TxnMoves
<1>6. TypeOK'
  BY <1>1, <1>3 DEF PatchRead, AInv, TypeOK
<1>7. Counted' = Counted
  BY DEF PatchRead, Counted
<1>8. clock' >= clock /\ tries' >= tries
  BY Bounds DEF PatchRead, AInv, TypeOK, Time
<1> QED
  BY <1>5, <1>6, <1>7, <1>8 DEF PatchRead, Moves, EnvMoves, NonceMoves, HitMoves, OrgMoves, ExchMoves, BearerMoves

LEMMA LoadMoves ==
  ASSUME IdentityAssumption, AInv, NEW x \in Txns, PatchLoad(x)
  PROVE  TypeOK' /\ Moves
<1>1. txn[x] # NoRow /\ txn[x].base = NoRow
  BY DEF PatchLoad
<1>2. PICK t, base, gone : /\ t = txn[x] /\ base = orgs[t.org]
                           /\ gone = IF t.full.arn # "none" /\ t.full.arn # Effective(t).arn
                                     THEN revoke_all_for_arn(t.full.arn) ELSE {}
  OBVIOUS
<1>3. t \in Patch /\ base \in OrgRow
  <2>1. t \in Patch
    BY <1>1, <1>2 DEF AInv, TypeOK
  <2>2. t.org \in Orgs
    BY <2>1 DEF Patch
  <2> QED
    BY <1>2, <2>1, <2>2 DEF AInv, TypeOK
<1>4. \A b \in gone : b \in Tries /\ bearers[b] # NoRow
  BY <1>2 DEF revoke_all_for_arn
<1> DEFINE C == [t EXCEPT !.base = base]
           D == [C EXCEPT !.gone = gone]
<1>5. C \in Patch /\ C.org = t.org /\ C.body = t.body /\ C.full = t.full /\ C.base = base
  BY ONLY <1>3 DEF Patch
<1>6. txn' = [txn EXCEPT ![x] = D]
  BY <1>2 DEF PatchLoad
<1> HIDE DEF C
<1>7. D \in Patch /\ D.org = C.org /\ D.body = C.body /\ D.full = C.full /\ D.base = C.base /\ D.gone = gone
  BY ONLY <1>4, <1>5 DEF Patch
<1> HIDE DEF D
<1>8. txn'[x] = D /\ \A y \in Txns : y # x => txn'[y] = txn[y]
  BY <1>6 DEF AInv, TypeOK
<1>9. \A y \in Txns : TxnMoves(y)
  <2>1. TxnMoves(x)
    BY <1>1, <1>2, <1>4, <1>5, <1>7, <1>8 DEF TxnMoves
  <2> QED
    BY <1>8, <2>1 DEF TxnMoves
<1>10. TypeOK'
  BY <1>6, <1>7 DEF PatchLoad, AInv, TypeOK
<1>11. Counted' = Counted
  BY DEF PatchLoad, Counted
<1>12. clock' >= clock /\ tries' >= tries
  BY Bounds DEF PatchLoad, AInv, TypeOK, Time
<1> QED
  BY <1>9, <1>10, <1>11, <1>12
  DEF PatchLoad, Moves, EnvMoves, NonceMoves, HitMoves, OrgMoves, ExchMoves, BearerMoves

\* What a committed row says of each column.
LEMMA UpdateType ==
  ASSUME IdentityAssumption, AInv, NEW x \in Txns, txn[x] # NoRow, txn[x].base # NoRow
  PROVE  /\ update_org_fields(txn[x]) \in OrgRow
         /\ \A k \in {"timeout", "arn", "region", "cap"} :
              update_org_fields(txn[x])[k] =
                IF (k # "cap" \/ txn[x].body.cap # "absent") /\ Effective(txn[x])[k] # txn[x].base[k]
                THEN Effective(txn[x])[k] ELSE orgs[txn[x].org][k]
<1>1. PICK t, e, r, f : t = txn[x] /\ e = Effective(t) /\ r = orgs[t.org] /\ f = update_org_fields(t)
  OBVIOUS
<1>2. t \in Patch
  BY <1>1 DEF AInv, TypeOK
<1>3. t.org \in Orgs /\ t.base \in OrgRow
  BY <1>1, <1>2 DEF Patch
<1>4. e \in OrgRow /\ r \in OrgRow
  BY <1>1, <1>2, <1>3, EffectiveType DEF AInv, TypeOK
<1>5. DOMAIN t.base = {"timeout", "arn", "region", "cap"}
  BY <1>3 DEF OrgRow
<1>6. f = [k \in {"timeout", "arn", "region", "cap"} |->
             IF (k # "cap" \/ t.body.cap # "absent") /\ e[k] # t.base[k] THEN e[k] ELSE r[k]]
  BY <1>1, <1>5 DEF update_org_fields
<1>7. f = [timeout |-> f.timeout, arn |-> f.arn, region |-> f.region, cap |-> f.cap]
  BY <1>6
<1>8. /\ f.timeout \in {e.timeout, r.timeout} /\ f.arn \in {e.arn, r.arn}
      /\ f.region \in {e.region, r.region} /\ f.cap \in {e.cap, r.cap}
  BY <1>6
<1>9. f \in OrgRow
  BY ONLY <1>4, <1>7, <1>8 DEF OrgRow
<1> QED
  BY <1>1, <1>6, <1>9

LEMMA CommitMoves ==
  ASSUME IdentityAssumption, AInv, NEW x \in Txns, PatchCommit(x)
  PROVE  TypeOK' /\ Moves
<1>1. txn[x] # NoRow /\ txn[x].base # NoRow /\ txn' = [txn EXCEPT ![x] = NoRow]
  BY DEF PatchCommit
<1>2. txn'[x] = NoRow /\ \A y \in Txns : y # x => txn'[y] = txn[y]
  BY <1>1 DEF AInv, TypeOK
<1>3. PICK t, row : t = txn[x] /\ row = update_org_fields(t)
  OBVIOUS
<1>4. t.org \in Orgs /\ row \in OrgRow /\ \A b \in t.gone : b \in Tries => bearers[b] # NoRow
  <2>1. t \in Patch /\ row \in OrgRow
    BY <1>1, <1>3, UpdateType DEF AInv, TypeOK
  <2> QED
    BY <1>1, <1>3, <2>1 DEF AInv, GoneIssued, Patch
<1> DEFINE Goal == /\ orgs' \in [Orgs -> OrgRow] /\ OrgMoves
                   /\ bearers' \in [Tries -> BearerTokenRow \cup {NoRow}]
                   /\ \A b \in Tries : BearerMoves(b)
                   /\ config' \in [Orgs -> [Insts -> Caps \cup {"none"}]]
<1>5. ASSUME Storable(t.org, row) PROVE Goal
  <2>1. /\ orgs' = [orgs EXCEPT ![t.org] = row] /\ bearers' = revoke(t.gone)
        /\ config' = config \/ config' = fan_out(t.org, row.cap)
    BY <1>3, <1>5 DEF PatchCommit
  <2>2. bearers' \in [Tries -> BearerTokenRow \cup {NoRow}] /\ RevokeMoves
    BY <1>4, <2>1, RevokeFollows DEF AInv
  <2>3. config' \in [Orgs -> [Insts -> Caps \cup {"none"}]]
    <3>1. row.cap \in Caps
      BY <1>4 DEF OrgRow
    <3>2. config \in [Orgs -> [Insts -> Caps \cup {"none"}]] /\ t.org \in Orgs
      BY <1>4 DEF AInv, TypeOK
    <3> DEFINE C == [i \in Insts |-> IF <<t.org, i>> \in agents THEN row.cap ELSE config[t.org][i]]
    <3>3. C \in [Insts -> Caps \cup {"none"}]
      BY <3>1, <3>2
    <3>4. fan_out(t.org, row.cap) = [config EXCEPT ![t.org] = C]
      BY DEF fan_out
    <3> HIDE DEF C
    <3> QED
      BY <2>1, <3>2, <3>3, <3>4
  <2>4. OrgMoves
    BY <1>1, <1>2, <1>3, <1>5, <2>1 DEF OrgMoves
  <2>5. orgs' \in [Orgs -> OrgRow]
    BY <1>4, <2>1 DEF AInv, TypeOK
  <2>6. \A b \in Tries : BearerMoves(b)
    BY <2>2 DEF RevokeMoves, BearerMoves
  <2> QED
    BY <2>2, <2>3, <2>4, <2>5, <2>6
<1>6. ASSUME ~Storable(t.org, row) PROVE Goal
  <2>1. orgs' = orgs /\ bearers' = bearers /\ config' = config
    BY <1>3, <1>6 DEF PatchCommit
  <2> QED
    BY <2>1 DEF OrgMoves, BearerMoves, AInv, TypeOK
<1>7. Goal
  BY <1>5, <1>6
<1>8. TypeOK'
  BY <1>1, <1>7 DEF PatchCommit, AInv, TypeOK
<1>9. Counted' = Counted
  BY DEF PatchCommit, Counted
<1>10. clock' >= clock /\ tries' >= tries
  BY Bounds DEF PatchCommit, AInv, TypeOK, Time
<1>11. \A y \in Txns : TxnMoves(y)
  BY <1>2 DEF TxnMoves
<1> QED
  BY <1>7, <1>8, <1>9, <1>10, <1>11 DEF PatchCommit, Moves, EnvMoves, NonceMoves, HitMoves, ExchMoves

LEMMA StutterMoves ==
  ASSUME IdentityAssumption, AInv, UNCHANGED vars
  PROVE  TypeOK' /\ Moves
<1>1. TypeOK'
  BY DEF AInv, TypeOK, vars
<1>2. clock' >= clock /\ tries' >= tries
  BY Bounds DEF AInv, TypeOK, Time, vars
<1>3. Counted' = Counted
  BY DEF Counted, vars
<1> QED
  BY <1>1, <1>2, <1>3
  DEF vars, Moves, EnvMoves, NonceMoves, HitMoves, OrgMoves, BearerMoves, ExchMoves, TxnMoves

LEMMA NextMoves ==
  ASSUME IdentityAssumption, AInv, [Next]_vars
  PROVE  TypeOK' /\ Moves
<1>1. CASE Tick
  BY <1>1, TickMoves
<1>2. ASSUME NEW v \in Envs, NEW i \in Insts, NEW a \in Arns, NEW r \in Regions,
             NEW ahead \in {0, SigTTL - 1}, NEW aud \in BOOLEAN, Sign(v, i, a, r, ahead, aud)
      PROVE  TypeOK' /\ Moves
  BY <1>2, SignMoves
<1>3. ASSUME NEW p \in Procs,
             \/ \E v \in Envs : ExchangeStart(p, v)
             \/ ExchangeHit(p) \/ ExchangeNonce(p) \/ ExchangeReplay(p)
             \/ ExchangeLookup(p) \/ ExchangeBuild(p) \/ ExchangeIssue(p)
      PROVE  TypeOK' /\ Moves
  BY <1>3, StartMoves, HitStepMoves, NonceStepMoves, ReplayMoves, LookupMoves, BuildMoves, IssueMoves
<1>4. ASSUME NEW o \in Orgs, NEW i \in Insts, AgentGone(o, i)
      PROVE  TypeOK' /\ Moves
  BY <1>4, GoneMoves
<1>5. ASSUME NEW x \in Txns,
             \/ \E o \in Orgs, body \in PatchBody : PatchRead(x, o, body)
             \/ PatchLoad(x) \/ PatchCommit(x)
      PROVE  TypeOK' /\ Moves
  BY <1>5, ReadMoves, LoadMoves, CommitMoves
<1>6. CASE UNCHANGED vars
  BY <1>6, StutterMoves
<1> QED
  BY <1>1, <1>2, <1>3, <1>4, <1>5, <1>6 DEF Next

LEMMA InitInv ==
  ASSUME IdentityAssumption, Init
  PROVE  AInv
<1>1. TypeOK
  BY InitType
<1>2. /\ bearers = [b \in Tries |-> NoRow] /\ env = [v \in Envs |-> NoRow] /\ nonces = {}
      /\ exch = [p \in Procs |-> NoRow] /\ txn = [x \in Txns |-> NoRow]
      /\ \A o, p \in Orgs : o # p /\ orgs[o].arn # "none" => orgs[o].arn # orgs[p].arn
  BY DEF Init
<1>3. \A t \in Tries, v \in Envs : ~Holds(t, v) /\ ~Accepted(t, v)
  BY <1>2 DEF Holds, Accepted
<1>4. EnvelopesKnown /\ TriesApart /\ OrgFound /\ GoneIssued
  BY <1>2 DEF EnvelopesKnown, TriesApart, OrgFound, GoneIssued
<1>5. NoncesHold /\ HoldersApart
  BY <1>2, <1>3 DEF NoncesHold, HoldersApart
<1>6. OneOrgPerArn
  BY <1>2 DEF OneOrgPerArn
<1> QED
  BY <1>1, <1>4, <1>5, <1>6 DEF AInv

\* The inductive invariant.
THEOREM Invariant ==
  ASSUME IdentityAssumption
  PROVE  Spec => []AInv
<1>1. Init => AInv
  BY InitInv
<1>2. AInv /\ [Next]_vars => AInv'
  BY NextMoves, StepFollows
<1> QED
  BY <1>1, <1>2, PTL DEF Spec

\* Tables, keys and requests in flight are well formed, for any number of orgs, pods,
\* exchanges and PATCH requests (identity_exchange, patch_org_settings).
THEOREM TypeCorrect ==
  ASSUME IdentityAssumption
  PROVE  Spec => []TypeOK
<1>1. AInv => TypeOK
  BY DEF AInv
<1> QED
  BY <1>1, Invariant, PTL

\* A captured envelope is good for one bearer, however many exchanges replay it, early
\* or late and signed ahead of the clock or not (_check_and_add_nonce, sts_verifier).
THEOREM EnvelopeOnceHolds ==
  ASSUME IdentityAssumption
  PROVE  Spec => []EnvelopeOnce
<1>1. AInv => EnvelopeOnce
  <2> SUFFICES ASSUME AInv, NEW b \in Tries, NEW c \in Tries, bearers[b] # NoRow, bearers[c] # NoRow, b # c,
                      bearers[b].env = bearers[c].env
               PROVE  FALSE
    BY DEF EnvelopeOnce
  <2>1. PICK v : v = bearers[b].env
    OBVIOUS
  <2>2. v \in Envs
    BY <2>1 DEF AInv, TypeOK, BearerTokenRow
  <2>3. Accepted(b, v) /\ Accepted(c, v)
    BY <2>1 DEF Accepted
  <2> QED
    BY <2>2, <2>3 DEF AInv, HoldersApart
<1> QED
  BY <1>1, Invariant, PTL

-----------------------------------------------------------------------------
(* The rate limit.                                                          *)

LEMMA RateStep ==
  ASSUME IdentityAssumption, AInv, AInv', RInv, Moves
  PROVE  RInv'
<1>1. /\ Limit \in Nat /\ Window \in Nat /\ clock \in Nat /\ clock' \in Nat /\ clock' >= clock
      /\ IsFiniteSet(Procs) /\ IsFiniteSet(hits)
      /\ \A h \in hits : h.at \in Nat
      /\ \A h \in hits' : h.at \in Nat
  BY Bounds DEF AInv, TypeOK, Time, Moves, EnvMoves, RInv
<1>2. /\ Counted \subseteq Procs /\ IsFiniteSet(Counted) /\ Counted' \subseteq Procs /\ IsFiniteSet(Counted')
      /\ InWindow \subseteq hits /\ IsFiniteSet(InWindow)
  BY <1>1, FS_Subset DEF Counted, InWindow
<1>3. /\ Cardinality(Procs) \in Nat /\ Cardinality(Counted) \in Nat /\ Cardinality(Counted') \in Nat
      /\ Cardinality(InWindow) \in Nat /\ Cardinality(Counted') <= Cardinality(Procs)
  BY <1>1, <1>2, FS_CardinalityType, FS_Subset
<1>4. Cardinality(InWindow) + Cardinality(Counted) + 1 <= Limit + Cardinality(Procs)
  BY DEF RInv
<1>5. CASE hits' = hits
  <2>1. InWindow' \subseteq InWindow
    BY <1>1, <1>5 DEF InWindow
  <2>2. IsFiniteSet(InWindow') /\ Cardinality(InWindow') \in Nat /\ Cardinality(InWindow') <= Cardinality(InWindow)
    BY <1>2, <2>1, FS_Subset, FS_CardinalityType
  <2>3. CASE Counted' \subseteq Counted
    <3>1. Cardinality(Counted') <= Cardinality(Counted)
      BY <1>2, <2>3, FS_Subset
    <3> QED
      BY <1>1, <1>3, <1>4, <1>5, <2>2, <3>1 DEF RInv
  <2>4. CASE under_limit
    BY <1>1, <1>3, <1>5, <2>2, <2>4 DEF RInv, under_limit
  <2>5. \/ Counted' \subseteq Counted
        \/ under_limit
        \/ \E p \in Counted : Counted' \subseteq Counted \ {p}
    BY DEF Moves, HitMoves
  <2> QED
    BY <2>3, <2>4, <2>5
<1>6. ASSUME NEW p \in Counted, clock' = clock, Counted' \subseteq Counted \ {p},
             hits' = hits \cup {[try |-> exch[p].try, at |-> clock]}
      PROVE  RInv'
  <2>1. PICK h : h = [try |-> exch[p].try, at |-> clock]
    OBVIOUS
  <2>2. InWindow' \subseteq InWindow \cup {h}
    BY <1>6, <2>1 DEF InWindow
  <2>3. IsFiniteSet(InWindow \cup {h}) /\ Cardinality(InWindow \cup {h}) <= Cardinality(InWindow) + 1
    <3>1. /\ IsFiniteSet(InWindow \cup {h})
          /\ Cardinality(InWindow \cup {h}) = IF h \in InWindow THEN Cardinality(InWindow) ELSE Cardinality(InWindow) + 1
      BY <1>2, FS_AddElement
    <3> QED
      BY <1>3, <3>1
  <2>4. IsFiniteSet(InWindow') /\ Cardinality(InWindow') <= Cardinality(InWindow \cup {h})
    BY <2>2, <2>3, FS_Subset
  <2>5. /\ Cardinality(InWindow') \in Nat /\ Cardinality(InWindow \cup {h}) \in Nat
        /\ Cardinality(InWindow') <= Cardinality(InWindow) + 1
    BY <1>3, <2>3, <2>4, FS_CardinalityType
  <2>6. IsFiniteSet(Counted \ {p}) /\ Cardinality(Counted \ {p}) = Cardinality(Counted) - 1
    BY <1>2, FS_RemoveElement
  <2>7. Cardinality(Counted') <= Cardinality(Counted \ {p})
    BY <1>6, <2>6, FS_Subset
  <2>8. Cardinality(Counted') <= Cardinality(Counted) - 1
    BY <2>6, <2>7
  <2>9. IsFiniteSet(hits')
    BY <1>1, <1>6, FS_AddElement
  <2> QED
    BY <1>1, <1>3, <1>4, <2>5, <2>8, <2>9 DEF RInv
<1> QED
  BY <1>5, <1>6 DEF Moves, HitMoves

\* However the exchanges race from the count to the add, the window never holds more
\* than the limit and one for each that was in flight besides the one let in
\* (sliding_window_hit).
THEOREM RateBoundHolds ==
  ASSUME IdentityAssumption
  PROVE  Spec => []RateBound
<1>1. Init => RInv
  <2> SUFFICES ASSUME Init PROVE RInv
    OBVIOUS
  <2>1. hits = {} /\ exch = [p \in Procs |-> NoRow]
    BY DEF Init
  <2>2. InWindow = {} /\ Counted = {}
    BY <2>1 DEF InWindow, Counted
  <2>3. Cardinality(Procs) \in Nat /\ Limit \in Nat /\ Limit >= 1
    BY Bounds, FS_CardinalityType
  <2> QED
    BY <2>1, <2>2, <2>3, FS_EmptySet DEF RInv
<1>2. AInv /\ AInv' /\ RInv /\ [Next]_vars => RInv'
  BY NextMoves, RateStep
<1>3. RInv => RateBound
  <2> SUFFICES ASSUME RInv PROVE RateBound
    OBVIOUS
  <2>1. IsFiniteSet(Procs) /\ Limit \in Nat
    BY Bounds
  <2>2. IsFiniteSet(Counted) /\ IsFiniteSet(InWindow)
    BY <2>1, FS_Subset DEF RInv, Counted, InWindow
  <2>3. Cardinality(Counted) \in Nat /\ Cardinality(InWindow) \in Nat /\ Cardinality(Procs) \in Nat
    BY <2>1, <2>2, FS_CardinalityType
  <2> QED
    BY <2>1, <2>3 DEF RInv, RateBound
<1> QED
  BY <1>1, <1>2, <1>3, Invariant, PTL DEF Spec

-----------------------------------------------------------------------------
(* The bearer ledger.                                                       *)

\* A bearer that was issued keeps its subject and its expiry.
BearersKept ==
  \A b \in Tries : bearers[b] # NoRow =>
    /\ bearers'[b] # NoRow /\ bearers'[b].org = bearers[b].org /\ bearers'[b].inst = bearers[b].inst
    /\ bearers'[b].arn = bearers[b].arn /\ bearers'[b].env = bearers[b].env
    /\ bearers'[b].expires = bearers[b].expires
    /\ bearers[b].revoked => bearers'[b].revoked

LEMMA BearersStep ==
  ASSUME IdentityAssumption, AInv, Moves
  PROVE  BearersKept
<1>1. ASSUME NEW b \in Tries, bearers[b] # NoRow
      PROVE  /\ bearers'[b] # NoRow /\ bearers'[b].org = bearers[b].org /\ bearers'[b].inst = bearers[b].inst
             /\ bearers'[b].arn = bearers[b].arn /\ bearers'[b].env = bearers[b].env
             /\ bearers'[b].expires = bearers[b].expires
             /\ bearers[b].revoked => bearers'[b].revoked
  <2>1. BearerMoves(b) /\ \A p \in Procs : exch[p] # NoRow => exch[p].try # b
    BY <1>1 DEF Moves, AInv, TriesApart
  <2> QED
    BY <1>1, <2>1 DEF BearerMoves
<1> QED
  BY <1>1 DEF BearersKept

\* No exchange, revocation or PATCH issues a bearer a second time, moves it to another
\* subject, extends it or takes its revocation back (bearers.issue, revoke).
THEOREM BearersKeptHolds ==
  ASSUME IdentityAssumption
  PROVE  Spec => [][BearersKept]_vars
<1>1. AInv /\ [Next]_vars => [BearersKept]_vars
  BY NextMoves, BearersStep
<1> QED
  BY <1>1, Invariant, PTL DEF Spec

\* Bearer b was issued and is refused.
Refused(b) == bearers[b] # NoRow /\ ~verify(b)

\* A bearer that is revoked or has expired is refused for ever (bearers.verify).
THEOREM RefusedForGood ==
  ASSUME IdentityAssumption, NEW b \in Tries
  PROVE  Spec => [](Refused(b) => []Refused(b))
<1>1. ASSUME AInv, AInv', [Next]_vars, Refused(b)
      PROVE  Refused(b)'
  <2>1. BearersKept /\ Moves
    BY <1>1, NextMoves, BearersStep
  <2>2. bearers[b] \in BearerTokenRow /\ clock \in Nat /\ clock' \in Nat /\ clock' >= clock
    BY <1>1, <2>1, Bounds DEF AInv, TypeOK, Time, Moves, EnvMoves, Refused
  <2>3. bearers[b].expires \in Nat
    BY <2>2 DEF BearerTokenRow
  <2> QED
    BY <1>1, <2>1, <2>2, <2>3 DEF BearersKept, Refused, verify
<1>2. AInv /\ AInv' /\ [Next]_vars /\ Refused(b) => Refused(b)'
  BY <1>1
<1> QED
  BY <1>2, Invariant, PTL DEF Spec

-----------------------------------------------------------------------------
(* PATCH.                                                                   *)

\* While no PATCH body may carry the role or the region, no row's role or region
\* moves, and an exchange works for the org whose they are.
LEMMA MatchStep ==
  ASSUME IdentityAssumption, "arn" \notin Keys, AInv, AInv', MInv, Moves
  PROVE  MInv'
<1>1. /\ \A x \in Txns : txn[x] # NoRow =>
           /\ txn[x].body.arn = "absent" /\ txn[x].body.region = "absent"
           /\ txn[x].full.arn = orgs[txn[x].org].arn /\ txn[x].full.region = orgs[txn[x].org].region
           /\ txn[x].base # NoRow =>
                txn[x].base.arn = orgs[txn[x].org].arn /\ txn[x].base.region = orgs[txn[x].org].region
      /\ \A p \in Procs : exch[p] # NoRow /\ exch[p].step \in {"build", "issue"} =>
           /\ orgs[exch[p].org].arn = env[exch[p].env].arn
           /\ orgs[exch[p].org].region = env[exch[p].env].region
      /\ BearerMatchesOrg
  BY DEF MInv
<1>2. \A o \in Orgs : orgs'[o].arn = orgs[o].arn /\ orgs'[o].region = orgs[o].region
  <2>1. ASSUME NEW x \in Txns, txn[x] # NoRow, txn[x].base # NoRow,
               orgs' = [orgs EXCEPT ![txn[x].org] = update_org_fields(txn[x])]
        PROVE  \A o \in Orgs : orgs'[o].arn = orgs[o].arn /\ orgs'[o].region = orgs[o].region
    <3>1. PICK t, row : t = txn[x] /\ row = update_org_fields(t)
      OBVIOUS
    <3>2. t \in Patch
      BY <2>1, <3>1 DEF AInv, TypeOK
    <3>3. t.org \in Orgs /\ t.full \in OrgRow
      BY <3>2 DEF Patch
    <3>4. Effective(t).arn = t.full.arn /\ Effective(t).region = t.full.region
      <4>1. DOMAIN t.full = {"timeout", "arn", "region", "cap"}
        BY <3>3 DEF OrgRow
      <4> QED
        BY <1>1, <2>1, <3>1, <4>1 DEF Effective
    <3>5. /\ row["arn"] = IF Effective(t)["arn"] # t.base["arn"] THEN Effective(t)["arn"] ELSE orgs[t.org]["arn"]
          /\ row["region"] = IF Effective(t)["region"] # t.base["region"] THEN Effective(t)["region"]
                             ELSE orgs[t.org]["region"]
      BY <2>1, <3>1, UpdateType
    <3>6. row.arn = orgs[t.org].arn /\ row.region = orgs[t.org].region
      BY <1>1, <2>1, <3>1, <3>4, <3>5
    <3>7. orgs' = [orgs EXCEPT ![t.org] = row]
      BY <2>1, <3>1
    <3> QED
      BY <3>3, <3>6, <3>7 DEF AInv, TypeOK
  <2> QED
    BY <2>1 DEF Moves, OrgMoves
<1>3. ASSUME NEW v \in Envs, env[v] # NoRow
      PROVE  env'[v] = env[v]
  BY <1>3 DEF Moves, EnvMoves
<1>4. ASSUME NEW x \in Txns, txn'[x] # NoRow
      PROVE  LET t == txn'[x] IN
             /\ t.body.arn = "absent" /\ t.body.region = "absent"
             /\ t.full.arn = orgs'[t.org].arn /\ t.full.region = orgs'[t.org].region
             /\ t.base # NoRow => t.base.arn = orgs'[t.org].arn /\ t.base.region = orgs'[t.org].region
  <2>1. PICK t : t = txn'[x]
    OBVIOUS
  <2>2. t \in Patch
    BY <1>4, <2>1 DEF AInv, TypeOK
  <2>3. t.org \in Orgs /\ t.body \in PatchBody
    BY <2>2 DEF Patch
  <2>4. t.body.arn = "absent" /\ t.body.region = "absent"
    BY <2>3 DEF PatchBody
  <2>5. TxnMoves(x)
    BY DEF Moves
  <2>6. CASE t = txn[x]
    BY <1>1, <1>2, <1>4, <2>1, <2>3, <2>4, <2>6
  <2>7. CASE t.full = orgs[t.org] /\ t.base = NoRow
    BY <1>2, <2>1, <2>3, <2>4, <2>7
  <2>8. CASE /\ txn[x] # NoRow /\ t.org = txn[x].org /\ t.full = txn[x].full /\ t.base = orgs[txn[x].org]
    BY <1>1, <1>2, <2>1, <2>3, <2>4, <2>8
  <2> QED
    BY <1>4, <2>1, <2>5, <2>6, <2>7, <2>8 DEF TxnMoves
<1>5. ASSUME NEW p \in Procs, exch'[p] # NoRow, exch'[p].step \in {"build", "issue"}
      PROVE  /\ orgs'[exch'[p].org].arn = env'[exch'[p].env].arn
             /\ orgs'[exch'[p].org].region = env'[exch'[p].env].region
  <2>1. ExchMoves(p) /\ exch'[p].org \in Orgs
    BY <1>5 DEF Moves, AInv, OrgFound
  <2>2. /\ exch[p] # NoRow /\ exch'[p].env = exch[p].env
        /\ orgs[exch'[p].org].arn = env[exch[p].env].arn
        /\ orgs[exch'[p].org].region = env[exch[p].env].region
    BY <1>1, <1>5, <2>1 DEF ExchMoves, ExchStarts, ExchGoesOn
  <2>3. env'[exch[p].env] = env[exch[p].env]
    BY <1>3, <2>2, ExchFacts
  <2> QED
    BY <1>2, <2>1, <2>2, <2>3
<1>6. ASSUME NEW b \in Tries, bearers'[b] # NoRow
      PROVE  /\ orgs'[bearers'[b].org].arn = bearers'[b].arn
             /\ orgs'[bearers'[b].org].region = env'[bearers'[b].env].region
  <2>1. BearerMoves(b) /\ bearers'[b].org \in Orgs /\ bearers'[b].env \in Envs
    BY <1>6 DEF Moves, AInv, TypeOK, BearerTokenRow
  <2>2. /\ orgs[bearers'[b].org].arn = bearers'[b].arn
        /\ orgs[bearers'[b].org].region = env[bearers'[b].env].region
        /\ env[bearers'[b].env] # NoRow
    BY <1>1, <1>6, <2>1 DEF BearerMoves, BearerMatchesOrg, AInv, EnvelopesKnown
  <2> QED
    BY <1>2, <1>3, <2>1, <2>2
<1> QED
  BY <1>4, <1>5, <1>6 DEF MInv, BearerMatchesOrg

\* While the role and the region of an org stay, every bearer is of the org that has
\* registered its role, in its region (resolve_org_by_arn, the region check).
THEOREM BearerMatchesOrgHolds ==
  ASSUME IdentityAssumption, "arn" \notin Keys
  PROVE  Spec => []BearerMatchesOrg
<1>1. Init => MInv
  BY DEF Init, MInv, BearerMatchesOrg
<1>2. AInv /\ AInv' /\ MInv /\ [Next]_vars => MInv'
  BY NextMoves, MatchStep
<1>3. MInv => BearerMatchesOrg
  BY DEF MInv
<1> QED
  BY <1>1, <1>2, <1>3, Invariant, PTL DEF Spec

\* Only one PATCH is ever in flight.
OneEditor == \A x, y \in Txns : x = y

LEMMA AloneStep ==
  ASSUME IdentityAssumption, OneEditor, AInv, AInv', PInv, Moves
  PROVE  PInv' /\ PatchTouchesOnlyItsKeys
<1>1. ASSUME NEW x \in Txns, txn'[x] # NoRow
      PROVE  /\ txn'[x].full = orgs'[txn'[x].org]
             /\ txn'[x].base # NoRow => txn'[x].base = orgs'[txn'[x].org]
  <2>1. orgs' = orgs
    BY <1>1 DEF Moves, OrgMoves, OneEditor
  <2>2. TxnMoves(x)
    BY DEF Moves
  <2> QED
    BY <1>1, <2>1, <2>2 DEF TxnMoves, PInv
<1>2. ASSUME NEW x \in Txns, txn[x] # NoRow, txn'[x] = NoRow, NEW k \in {"timeout", "arn", "region", "cap"},
             txn[x].body[k] = "absent"
      PROVE  orgs'[txn[x].org][k] = orgs[txn[x].org][k]
  <2>1. CASE orgs' = orgs
    BY <2>1
  <2>2. CASE txn[x].base # NoRow /\ orgs' = [orgs EXCEPT ![txn[x].org] = update_org_fields(txn[x])]
    <3>1. PICK t, row : t = txn[x] /\ row = update_org_fields(t)
      OBVIOUS
    <3>2. t \in Patch
      BY <1>2, <3>1 DEF AInv, TypeOK
    <3>3. t.org \in Orgs /\ t.full \in OrgRow
      BY <3>2 DEF Patch
    <3>4. Effective(t)[k] = t.full[k]
      <4>1. DOMAIN t.full = {"timeout", "arn", "region", "cap"}
        BY <3>3 DEF OrgRow
      <4> QED
        BY <1>2, <3>1, <4>1 DEF Effective
    <3>5. t.full = orgs[t.org] /\ t.base = orgs[t.org]
      BY <1>2, <2>2, <3>1 DEF PInv
    <3>6. row[k] = orgs[t.org][k]
      BY <1>2, <2>2, <3>1, <3>4, <3>5, UpdateType
    <3>7. orgs'[t.org] = row
      BY <2>2, <3>1, <3>3 DEF AInv, TypeOK
    <3> QED
      BY <3>1, <3>6, <3>7
  <2> QED
    BY <1>2, <2>1, <2>2 DEF Moves, OrgMoves, OneEditor
<1> QED
  BY <1>1, <1>2 DEF PInv, PatchTouchesOnlyItsKeys

\* A PATCH that no other PATCH overlaps changes the columns its body names and no
\* other, whatever is exchanged meanwhile (patch_org_settings).
THEOREM PatchTouchesOnlyItsKeysHolds ==
  ASSUME IdentityAssumption, OneEditor
  PROVE  Spec => [][PatchTouchesOnlyItsKeys]_vars
<1>1. Init => PInv
  BY DEF Init, PInv
<1>2. AInv /\ AInv' /\ PInv /\ [Next]_vars => PInv' /\ [PatchTouchesOnlyItsKeys]_vars
  BY NextMoves, AloneStep
<1> QED
  BY <1>1, <1>2, Invariant, PTL DEF Spec
=============================================================================
