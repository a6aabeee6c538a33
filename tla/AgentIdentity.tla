--------------------------- MODULE AgentIdentity ---------------------------
(***************************************************************************)
(* How a workspace agent proves who it is, and the org settings that proof *)
(* is checked against: POST /api/v1/agent/identity (rate limit, audience,  *)
(* envelope nonce, STS replay, ARN lookup, region pin, agent row, bearer), *)
(* the bearer ledger, and PATCH /api/orgs (timeout, IAM role, region,      *)
(* workspace cap).                                                         *)
(*                                                                         *)
(* An exchange awaits Redis, AWS and the database in turn and holds no     *)
(* transaction across them, so each await is a step.  PATCH reads the org  *)
(* row, computes every column it will write, and loads the row again to    *)
(* write it: the ORM keeps no reference to the first load, so the second   *)
(* one sees what was committed in between.                                 *)
(***************************************************************************)
EXTENDS Naturals, FiniteSets

CONSTANTS
    Orgs,       \* organizations
    Arns,       \* canonical IAM role ARNs
    Regions,    \* AWS regions
    Timeouts,   \* values of session_timeout_override
    Caps,       \* values of workspace_max_count
    Cap0,       \* its server default
    Insts,      \* role-session names: pods
    Fleet,      \* pods that have an agent row and a first ConfigUpdate at the start
    Procs,      \* identity exchanges that may be in flight at once
    Txns,       \* PATCH requests that may be in flight at once
    Keys,       \* the keys a PATCH body may carry
    Limit,      \* PER_IP_LIMIT
    Window,     \* PER_IP_WINDOW_SECONDS
    SigTTL,     \* how far X-Amz-Date may be from AWS's clock
    NonceTTL,   \* _NONCE_TTL_SECONDS
    BearerTTL,  \* DEFAULT_TTL_SECONDS
    MaxEnv,     \* bound: envelopes ever signed
    MaxTry,     \* bound: exchanges ever started
    MaxClock    \* bound: the clock

BoundsAreNat ==
    /\ {Limit, Window, SigTTL, NonceTTL, BearerTTL, MaxEnv, MaxTry, MaxClock} \subseteq Nat
    /\ Cap0 \in Caps /\ Fleet \subseteq Insts

\* _NONCE_TTL_SECONDS spans the dates AWS accepts on both sides of its clock, and
\* PER_IP_LIMIT lets somebody in.
IdentityAssumption ==
    /\ BoundsAreNat /\ IsFiniteSet(Procs)
    /\ SigTTL >= 1 /\ 2 * SigTTL <= NonceTTL /\ Limit >= 1

NoRow == [absent |-> TRUE]
Envs == 1 .. MaxEnv
Tries == 1 .. MaxTry
Time == 0 .. MaxClock

VARIABLES
    clock,      \* datetime.now, and AWS's clock
    orgs,       \* orgs: the columns PATCH writes
    agents,     \* workspace_agents: (org, pod) pairs
    config,     \* the cap in the last ConfigUpdate committed for each agent
    bearers,    \* bearer_tokens, by the exchange that issued them
    env,        \* signed envelopes
    nonces,     \* sts_nonce:* keys: (envelope, when it was set)
    hits,       \* rl:identity_exchange:ip:*: (exchange, when)
    tries,      \* how many exchanges were ever started
    exch,       \* exchanges in flight
    txn,        \* PATCH requests in flight
    failures    \* identity_exchange_failed audit rows, by org

vars == <<clock, orgs, agents, config, bearers, env, nonces, hits, tries, exch, txn, failures>>

-----------------------------------------------------------------------------
(* Types *)

OrgRow == [timeout: Timeouts \cup {"none"}, arn: Arns \cup {"none"},
           region: Regions \cup {"none"}, cap: Caps]

\* A key the body does not carry is "absent"; null is "none".
PatchBody == [timeout: (IF "timeout" \in Keys THEN Timeouts \cup {"none"} ELSE {}) \cup {"absent"},
              arn: (IF "arn" \in Keys THEN Arns \cup {"none"} ELSE {}) \cup {"absent"},
              region: (IF "arn" \in Keys THEN Regions \cup {"none"} ELSE {}) \cup {"absent"},
              cap: (IF "cap" \in Keys THEN Caps ELSE {}) \cup {"absent"}]

Patch == [org: Orgs, body: PatchBody, full: OrgRow, base: OrgRow \cup {NoRow}, gone: SUBSET Tries]

BearerTokenRow == [org: Orgs, inst: Insts, arn: Arns, env: Envs, expires: Nat, revoked: BOOLEAN]

\* date is X-Amz-Date; audience, whether X-Yaaos-Audience names this backend.
SignedSTSRequest == [inst: Insts, arn: Arns, region: Regions, date: Nat, audience: BOOLEAN]

Exchange == [env: Envs, try: Tries, step: {"hit", "nonce", "sts", "lookup", "build", "issue"},
             org: Orgs \cup {"none"}, cap: Caps]

\* Every table, key and request in flight stays in its range.
TypeOK ==
    /\ clock \in Time
    /\ orgs \in [Orgs -> OrgRow]
    /\ agents \subseteq Orgs \X Insts
    /\ config \in [Orgs -> [Insts -> Caps \cup {"none"}]]
    /\ bearers \in [Tries -> BearerTokenRow \cup {NoRow}]
    /\ env \in [Envs -> SignedSTSRequest \cup {NoRow}]
    /\ nonces \subseteq [env: Envs, at: Time]
    /\ hits \subseteq [try: Tries, at: Time]
    /\ tries \in 0 .. MaxTry
    /\ exch \in [Procs -> Exchange \cup {NoRow}]
    /\ txn \in [Txns -> Patch \cup {NoRow}]
    /\ failures \subseteq Orgs

-----------------------------------------------------------------------------
(* The bearer ledger *)

\* bearers.verify: anything else is answered 401, without saying why.
verify(b) == bearers[b] # NoRow /\ ~bearers[b].revoked /\ bearers[b].expires > clock

issue(o, v) == [org |-> o, inst |-> env[v].inst, arn |-> env[v].arn, env |-> v,
                expires |-> clock + BearerTTL, revoked |-> FALSE]

revoke(S) == [b \in Tries |-> IF b \in S THEN [bearers[b] EXCEPT !.revoked = TRUE] ELSE bearers[b]]

revoke_all_for_arn(a) == {b \in Tries : bearers[b] # NoRow /\ bearers[b].arn = a}

revoke_all_for_agent(o, i) ==
    {b \in Tries : bearers[b] # NoRow /\ bearers[b].org = o /\ bearers[b].inst = i}

-----------------------------------------------------------------------------
(* The exchange *)

\* The agent signs GetCallerIdentity; its clock may run ahead of AWS's.
Sign(v, i, a, r, ahead, aud) ==
    /\ env[v] = NoRow /\ (v > 1 => env[v - 1] # NoRow)
    /\ env' = [env EXCEPT ![v] = [inst |-> i, arn |-> a, region |-> r, date |-> clock + ahead,
                                  audience |-> aud]]
    /\ UNCHANGED <<clock, orgs, agents, config, bearers, nonces, hits, tries, exch, txn, failures>>

\* zcard after the trim.
InWindow == {h \in hits : h.at + Window > clock}

under_limit == Cardinality(InWindow) < Limit

\* check_identity_exchange, the count; at the limit the answer is 429.
ExchangeStart(p, v) ==
    /\ exch[p] = NoRow /\ env[v] # NoRow /\ tries < MaxTry
    /\ under_limit
    /\ tries' = tries + 1
    /\ exch' = [exch EXCEPT ![p] = [env |-> v, try |-> tries + 1, step |-> "hit",
                                    org |-> "none", cap |-> Cap0]]
    /\ UNCHANGED <<clock, orgs, agents, config, bearers, env, nonces, hits, txn, failures>>

At(p, step) == exch[p] # NoRow /\ exch[p].step = step

Dropped(p) == exch' = [exch EXCEPT ![p] = NoRow]

\* zadd, then the audience named in the envelope.
ExchangeHit(p) ==
    /\ At(p, "hit")
    /\ hits' = hits \cup {[try |-> exch[p].try, at |-> clock]}
    /\ IF env[exch[p].env].audience
       THEN exch' = [exch EXCEPT ![p].step = "nonce"]
       ELSE Dropped(p)
    /\ UNCHANGED <<clock, orgs, agents, config, bearers, env, nonces, tries, txn, failures>>

\* _check_and_add_nonce: SET NX EX.
nonce_seen(v) == \E n \in nonces : n.env = v /\ n.at + NonceTTL > clock

nonces_after(v) == nonces \cup {[env |-> v, at |-> clock]}

ExchangeNonce(p) ==
    /\ At(p, "nonce")
    /\ IF nonce_seen(exch[p].env)
       THEN Dropped(p) /\ UNCHANGED nonces
       ELSE /\ nonces' = nonces_after(exch[p].env)
            /\ exch' = [exch EXCEPT ![p].step = "sts"]
    /\ UNCHANGED <<clock, orgs, agents, config, bearers, env, hits, tries, txn, failures>>

\* AWS accepts a signature whose date is near its own clock.
aws_accepts(v) == clock < env[v].date + SigTTL /\ env[v].date < clock + SigTTL

\* replay_caller_identity: the ARN, or clock_skew, a rejection, a network error.
ExchangeReplay(p) ==
    /\ At(p, "sts")
    /\ \/ aws_accepts(exch[p].env) /\ exch' = [exch EXCEPT ![p].step = "lookup"]
       \/ Dropped(p)
    /\ UNCHANGED <<clock, orgs, agents, config, bearers, env, nonces, hits, tries, txn, failures>>

lookup_org_by_arn(a) == {o \in Orgs : orgs[o].arn = a}

\* The org of the ARN, then its region; a mismatch is the one failure that is audited.
ExchangeLookup(p) ==
    LET v == exch[p].env IN
    /\ At(p, "lookup")
    /\ \/ lookup_org_by_arn(env[v].arn) = {} /\ Dropped(p) /\ UNCHANGED failures
       \/ \E o \in lookup_org_by_arn(env[v].arn) :
            IF orgs[o].region # env[v].region
            THEN Dropped(p) /\ failures' = failures \cup {o}
            ELSE exch' = [exch EXCEPT ![p].step = "build", ![p].org = o] /\ UNCHANGED failures
    /\ UNCHANGED <<clock, orgs, agents, config, bearers, env, nonces, hits, tries, txn>>

\* The transaction: ensure_agent_row and the ConfigUpdate, built from the org row as
\* it is now ...
ExchangeBuild(p) ==
    /\ At(p, "build")
    /\ exch' = [exch EXCEPT ![p].step = "issue", ![p].cap = orgs[exch[p].org].cap]
    /\ UNCHANGED <<clock, orgs, agents, config, bearers, env, nonces, hits, tries, txn, failures>>

\* ... and the bearer, committed together.
ExchangeIssue(p) ==
    LET x == exch[p]
        i == env[x.env].inst IN
    /\ At(p, "issue")
    /\ agents' = agents \cup {<<x.org, i>>}
    /\ config' = [config EXCEPT ![x.org][i] = x.cap]
    /\ bearers' = [bearers EXCEPT ![x.try] = issue(x.org, x.env)]
    /\ Dropped(p)
    /\ UNCHANGED <<clock, orgs, env, nonces, hits, tries, txn, failures>>

\* An agent shuts down, disconnects or is lost (AgentFleet): its bearers go.
AgentGone(o, i) ==
    /\ \E b \in revoke_all_for_agent(o, i) : verify(b)
    /\ bearers' = revoke(revoke_all_for_agent(o, i))
    /\ UNCHANGED <<clock, orgs, agents, config, env, nonces, hits, tries, exch, txn, failures>>

-----------------------------------------------------------------------------
(* PATCH /api/orgs *)

\* The value each column is to have: the body's, or the one just read.
Effective(t) ==
    [k \in DOMAIN t.full |-> IF t.body[k] = "absent" THEN t.full[k] ELSE t.body[k]]

\* arn_and_region_must_be_paired and arn_already_registered, answered 422.
PatchValid(o, eff, full) ==
    /\ (eff.arn = "none") = (eff.region = "none")
    /\ eff.arn # "none" /\ eff.arn # full.arn => lookup_org_by_arn(eff.arn) \subseteq {o}

PatchRead(x, o, body) ==
    LET t == [org |-> o, body |-> body, full |-> orgs[o], base |-> NoRow, gone |-> {}] IN
    /\ txn[x] = NoRow
    /\ PatchValid(o, Effective(t), orgs[o])
    /\ txn' = [txn EXCEPT ![x] = t]
    /\ UNCHANGED <<clock, orgs, agents, config, bearers, env, nonces, hits, tries, exch, failures>>

\* revoke_all_for_arn on the bearers committed so far, then update_org_fields loads
\* the row once more.
PatchLoad(x) ==
    LET t == txn[x] IN
    /\ t # NoRow /\ t.base = NoRow
    /\ txn' = [txn EXCEPT ![x].base = orgs[t.org],
                          ![x].gone = IF t.full.arn # "none" /\ t.full.arn # Effective(t).arn
                                      THEN revoke_all_for_arn(t.full.arn) ELSE {}]
    /\ UNCHANGED <<clock, orgs, agents, config, bearers, env, nonces, hits, tries, exch, failures>>

\* The columns that differ from that load are written; workspace_max_count only
\* when the body names it.
update_org_fields(t) ==
    [k \in DOMAIN t.base |->
        IF (k # "cap" \/ t.body.cap # "absent") /\ Effective(t)[k] # t.base[k]
        THEN Effective(t)[k] ELSE orgs[t.org][k]]

\* ck_orgs_arn_region_paired and uq_orgs_registered_iam_arn.
Storable(o, row) ==
    /\ (row.arn = "none") = (row.region = "none")
    /\ row.arn # "none" => lookup_org_by_arn(row.arn) \subseteq {o}

\* enqueue_config_update_for_all_org_agents.
fan_out(o, cap) ==
    [config EXCEPT ![o] = [i \in Insts |-> IF <<o, i>> \in agents THEN cap ELSE @[i]]]

PatchCommit(x) ==
    LET t == txn[x]
        row == update_org_fields(t) IN
    /\ t # NoRow /\ t.base # NoRow
    /\ txn' = [txn EXCEPT ![x] = NoRow]
    /\ IF Storable(t.org, row)
       THEN /\ orgs' = [orgs EXCEPT ![t.org] = row]
            /\ bearers' = revoke(t.gone)
            /\ config' = IF t.body.cap # "absent" /\ t.body.cap # t.full.cap
                         THEN fan_out(t.org, row.cap) ELSE config
       ELSE UNCHANGED <<orgs, bearers, config>>
    /\ UNCHANGED <<clock, agents, env, nonces, hits, tries, exch, failures>>

-----------------------------------------------------------------------------
Tick ==
    /\ clock < MaxClock
    /\ clock' = clock + 1
    /\ UNCHANGED <<orgs, agents, config, bearers, env, nonces, hits, tries, exch, txn, failures>>

Init ==
    /\ clock = 0
    /\ orgs \in [Orgs -> {row \in OrgRow : row.timeout = "none" /\ row.cap = Cap0
                                           /\ (row.arn = "none") = (row.region = "none")}]
    /\ \A o, p \in Orgs : o # p /\ orgs[o].arn # "none" => orgs[o].arn # orgs[p].arn
    /\ agents = Orgs \X Fleet
    /\ config = [o \in Orgs |-> [i \in Insts |-> IF i \in Fleet THEN Cap0 ELSE "none"]]
    /\ bearers = [b \in Tries |-> NoRow]
    /\ env = [v \in Envs |-> NoRow]
    /\ nonces = {} /\ hits = {} /\ tries = 0
    /\ exch = [p \in Procs |-> NoRow]
    /\ txn = [x \in Txns |-> NoRow]
    /\ failures = {}

Next ==
    \/ Tick
    \/ \E v \in Envs, i \in Insts, a \in Arns, r \in Regions, ahead \in {0, SigTTL - 1}, aud \in BOOLEAN :
         Sign(v, i, a, r, ahead, aud)
    \/ \E p \in Procs :
         \/ \E v \in Envs : ExchangeStart(p, v)
         \/ ExchangeHit(p) \/ ExchangeNonce(p) \/ ExchangeReplay(p)
         \/ ExchangeLookup(p) \/ ExchangeBuild(p) \/ ExchangeIssue(p)
    \/ \E o \in Orgs, i \in Insts : AgentGone(o, i)
    \/ \E x \in Txns :
         \/ \E o \in Orgs, body \in PatchBody : PatchRead(x, o, body)
         \/ PatchLoad(x) \/ PatchCommit(x)

Spec == Init /\ [][Next]_vars

-----------------------------------------------------------------------------
(* Properties *)

\* A captured envelope is good for one bearer: the nonce outlives the signature,
\* for a signature dated ahead of the clock too (_NONCE_TTL_SECONDS).
EnvelopeOnce ==
    \A b, c \in Tries : bearers[b] # NoRow /\ bearers[c] # NoRow /\ b # c
                          => bearers[b].env # bearers[c].env

\* Exchanges that count before they add race past the limit by one each, and by no
\* more (sliding_window_hit).
RateBound == Cardinality(InWindow) + 1 <= Limit + Cardinality(Procs)

\* An exchange that was refused for its region is on the org's record, and one that
\* got a bearer came from the org's role in the org's region, as registered when it
\* was looked up; so without a PATCH every bearer names its org's role and region.
BearerMatchesOrg ==
    \A b \in Tries : bearers[b] # NoRow =>
        /\ orgs[bearers[b].org].arn = bearers[b].arn
        /\ orgs[bearers[b].org].region = env[bearers[b].env].region

\* A PATCH changes the columns its body names and no other (patch_org_settings).
PatchTouchesOnlyItsKeys ==
    \A x \in Txns : txn[x] # NoRow /\ txn'[x] = NoRow =>
        \A k \in {"timeout", "arn", "region", "cap"} :
            txn[x].body[k] = "absent" => orgs'[txn[x].org][k] = orgs[txn[x].org][k]

\* When no PATCH and no exchange is under way, the last ConfigUpdate of every agent
\* carries the org's cap (workspace_max_changed, fan-out).
CapReachesAgents ==
    (\A x \in Txns : txn[x] = NoRow) /\ (\A p \in Procs : exch[p] = NoRow) =>
        \A a \in agents : config[a[1]][a[2]] = orgs[a[1]].cap

\* No bearer that verifies was issued under a role its org has given up
\* (revoke_all_for_arn).
NoOldArnBearer ==
    \A b \in Tries : verify(b) => orgs[bearers[b].org].arn = bearers[b].arn
=============================================================================
