------------------------------ MODULE McpIntegrations ------------------------------
(* The hosted-MCP credentials of one org (domain/integrations) and the proxy that   *)
(* reviews call them through (domain/mcp_proxy).  One mcp_credentials row per       *)
(* provider is written by the OAuth callback, by the settings endpoints, by the     *)
(* hourly health check and by an on-demand validation; the proxy reads it twice.    *)
(* Display-only columns (scopes, upstream identity, last_validated_at,              *)
(* last_used_at) are left out.  A tick of the clock is the unit of every deadline.  *)
EXTENDS Integers, Sequences, FiniteSets
CONSTANTS Providers,     \* registered IntegrationProviders (Linear, Notion)
          Writes,        \* known_write_tools
          Reads,         \* the other tools
          Reviews, Lifetime, TokenTTL, Dedup, StateMaxAge,
          MaxNow, MaxConn, MaxMint, MaxCalls, Ops
McpAssumption == /\ Writes \cap Reads = {}
                        /\ {Lifetime, TokenTTL, Dedup, StateMaxAge, MaxNow, MaxConn, MaxMint, MaxCalls} \subseteq Nat
VARIABLES now, cred,     \* mcp_credentials
          states,        \* signed states handed out by connect_start
          conn,          \* access tokens issued so far
          dead, garbled, \* tokens revoked upstream; ciphertexts the key no longer opens
          check,         \* the health check in progress
          val,           \* the validate request in progress
          tokens,        \* mcp_review_tokens
          minted, dropped, \* history: tokens ever minted, tokens revoked
          disp,          \* the dispatch in progress
          observed,      \* _broken_creds_observed
          executed, audited, \* history: calls made upstream, calls in the audit log
          mails, crashes,
          granted        \* history: <<gen, tool>>, the write tools an admin ever allowed a row
creds == <<now, cred, conn, dead, garbled, granted>>
proxy == <<tokens, minted, dropped, disp, observed, executed, audited>>
vars == <<creds, states, check, val, proxy, mails, crashes>>

NoRow == [absent |-> TRUE]
Idle == [step |-> "idle"]
Never == -1
Tools == Writes \cup Reads

(* history: gen names the row a credential was inserted as; the code has created_at *)
Row == [tok: 1..MaxConn, gen: 1..MaxConn, expires: Nat, allowed: SUBSET Tools,
        enabled: BOOLEAN, status: {"ok", "failed"}, notifiedAt: Int]
Has(p) == cred[p] # NoRow
Live(tok, expires) == tok \notin dead /\ expires >= now

Init == /\ now = 0 /\ cred = [p \in Providers |-> NoRow] /\ states = {} /\ conn = 0
        /\ dead = {} /\ garbled = {} /\ check = Idle /\ val = Idle
        /\ tokens = {} /\ minted = {} /\ dropped = {} /\ disp = Idle
        /\ observed = [r \in Reviews |-> {}] /\ executed = 0 /\ audited = 0
        /\ mails = <<>> /\ crashes = 0 /\ granted = {}

Tick == /\ now < MaxNow /\ now' = now + 1
        /\ UNCHANGED <<granted, cred, conn, dead, garbled, states, check, val, proxy, mails, crashes>>

----------------------------------------------------------------------------
(* Settings *)
(* Of several flows open for one provider the last stands for all. *)
ConnectStart(p) ==
    /\ conn < MaxConn
    /\ states' = {st \in states : st.provider # p} \cup {[provider |-> p, at |-> now]}
    /\ UNCHANGED <<creds, check, val, proxy, mails, crashes>>

FreshRow == [tok |-> conn + 1, gen |-> conn + 1, expires |-> now + Lifetime, allowed |-> {},
             enabled |-> TRUE, status |-> "ok", notifiedAt |-> Never]
Reconnected(row) == [row EXCEPT !.tok = conn + 1, !.expires = now + Lifetime,
                                !.enabled = TRUE, !.status = "ok"]
(* The authorisation code that comes with a state is exchanged once; a state that   *)
(* is too old or another provider's is refused.                                     *)
ConnectCallback(p, st) ==
    /\ st \in states /\ states' = states \ {st} /\ conn < MaxConn
    /\ st.provider = p /\ now - st.at <= StateMaxAge
    /\ conn' = conn + 1
    /\ cred' = [cred EXCEPT ![p] = IF Has(p) THEN Reconnected(@) ELSE FreshRow]
    /\ UNCHANGED <<granted, now, dead, garbled, check, val, proxy, mails, crashes>>

Clear(p) ==
    /\ Has(p) /\ cred' = [cred EXCEPT ![p] = NoRow]
    /\ UNCHANGED <<granted, now, conn, dead, garbled, states, check, val, proxy, mails, crashes>>

UpdateAllowlist(row, allowed) == [row EXCEPT !.allowed = allowed]
PatchIntegration(p, enabled, allowed) ==
    /\ Has(p)
    /\ cred' = [cred EXCEPT ![p] = UpdateAllowlist([@ EXCEPT !.enabled = enabled], allowed)]
    /\ granted' = granted \cup {<<cred[p].gen, t>> : t \in allowed}
    /\ UNCHANGED <<now, conn, dead, garbled, states, check, val, proxy, mails, crashes>>

(* What a provider's validate makes of a token: True only when the upstream answers *)
(* 2xx.  Linear and Notion unwrap a SecretStr and raise on a plain str, which is     *)
(* what the health check gives them.                                                *)
ProviderValidate(wrapped, tok, expires, reached) == wrapped /\ reached /\ Live(tok, expires)

(* service.validate holds the row it read over the upstream call; an unreadable     *)
(* ciphertext raises before it.                                                     *)
ValidateRead(p) ==
    /\ val = Idle /\ Has(p) /\ cred[p].tok \notin garbled
    /\ val' = [step |-> "call", p |-> p, row |-> cred[p], verdict |-> "ok"]
    /\ UNCHANGED <<creds, states, check, proxy, mails, crashes>>
ValidateCall(reached) ==
    /\ val.step = "call"
    /\ val' = [val EXCEPT !.step = "write",
                  !.verdict = IF ProviderValidate(TRUE, val.row.tok, val.row.expires, reached)
                              THEN "ok" ELSE "failed"]
    /\ UNCHANGED <<creds, states, check, proxy, mails, crashes>>
(* The flush writes a column only when it differs from the value that was read, and *)
(* fails when the row is gone.                                                      *)
ValidateWrite ==
    /\ val.step = "write" /\ val' = Idle
    /\ cred' = IF Has(val.p) /\ val.verdict # val.row.status
               THEN [cred EXCEPT ![val.p].status = val.verdict] ELSE cred
    /\ UNCHANGED <<granted, now, conn, dead, garbled, states, check, proxy, mails, crashes>>

(* What the settings page and the banner of an admin show. *)
ListIntegrations(p) == IF ~Has(p) THEN "not_set"
                       ELSE IF cred[p].status = "failed" THEN "broken" ELSE "configured"
BrokenSummary == {p \in Providers : Has(p) /\ cred[p].enabled /\ cred[p].status = "failed"}

----------------------------------------------------------------------------
(* The hourly health check.  It reads every enabled row first, then takes them one  *)
(* at a time: upstream call, a fresh read and write, and only then the mail.        *)
Selected == {p \in Providers : Has(p) /\ cred[p].enabled}
HealthCheckStart ==
    /\ check = Idle
    /\ check' = [step |-> "call", at |-> now, rows |-> [p \in Selected |-> cred[p]],
                 todo |-> Selected, p |-> "", ok |-> TRUE, gen |-> 0]
    /\ UNCHANGED <<creds, states, val, proxy, mails, crashes>>

HealthCheckCall(p, reached) ==
    /\ check.step = "call" /\ p \in check.todo
    /\ LET row == check.rows[p]
       IN  check' = [check EXCEPT !.step = "write", !.todo = @ \ {p}, !.p = p,
                        !.ok = /\ row.tok \notin garbled
                               /\ ProviderValidate(FALSE, row.tok, row.expires, reached)]
    /\ UNCHANGED <<creds, states, val, proxy, mails, crashes>>

ShouldNotify(row, at) == row.notifiedAt = Never \/ row.notifiedAt < at - Dedup
HealthCheckWrite ==
    /\ check.step = "write"
    /\ LET p == check.p
           notify == Has(p) /\ ~check.ok /\ ShouldNotify(cred[p], check.at)
       IN  /\ cred' = IF ~Has(p) THEN cred
                      ELSE [cred EXCEPT ![p].status = IF check.ok THEN "ok" ELSE "failed",
                                        ![p].notifiedAt = IF notify THEN check.at ELSE @]
           /\ check' = [check EXCEPT !.step = IF notify THEN "mail" ELSE "call",
                                     !.gen = IF notify THEN cred[p].gen ELSE @]
    /\ UNCHANGED <<granted, now, conn, dead, garbled, states, val, proxy, mails, crashes>>

(* Every verified address of every owner is one mail; a mail that cannot be sent is *)
(* logged and not tried again.                                                      *)
NotifyOwners(delivered) ==
    /\ check.step = "mail" /\ check' = [check EXCEPT !.step = "call"]
    /\ mails' = IF delivered THEN Append(mails, [p |-> check.p, gen |-> check.gen, at |-> check.at])
                ELSE mails
    /\ UNCHANGED <<creds, states, val, proxy, crashes>>

HealthCheckEnd == /\ check.step = "call" /\ check.todo = {} /\ check' = Idle
                  /\ UNCHANGED <<creds, states, val, proxy, mails, crashes>>

(* The worker dies: the task is run again from the start, as any later hour is. *)
Crash == /\ check # Idle /\ crashes < 1 /\ check' = Idle /\ crashes' = crashes + 1
         /\ UNCHANGED <<creds, states, val, proxy, mails>>

(* Outside: the account behind a token is closed; the encryption key is rotated. *)
RevokeUpstream(tok) == /\ tok \in (1..conn) \ dead /\ dead' = dead \cup {tok}
                       /\ UNCHANGED <<granted, now, cred, conn, garbled, states, check, val, proxy, mails, crashes>>
RotateKey == /\ garbled' = 1..conn /\ garbled' # garbled
             /\ UNCHANGED <<granted, now, cred, conn, dead, states, check, val, proxy, mails, crashes>>

----------------------------------------------------------------------------
(* Per-review bearers *)
MintToken(r) ==
    /\ Cardinality(minted) < MaxMint
    /\ LET t == [id |-> Cardinality(minted) + 1, review |-> r, expires |-> now + TokenTTL]
       IN  tokens' = tokens \cup {t} /\ minted' = minted \cup {t}
    /\ UNCHANGED <<creds, states, check, val, dropped, disp, observed, executed, audited, mails, crashes>>
LookupToken(t) == t \in tokens /\ t.expires >= now
RevokeToken(r) ==
    /\ tokens' = {t \in tokens : t.review # r}
    /\ dropped' = dropped \cup {t \in minted : t.review = r}
    /\ UNCHANGED <<creds, states, check, val, minted, disp, observed, executed, audited, mails, crashes>>
Expired == {t \in tokens : t.expires < now}
SweepExpired ==
    /\ tokens' = tokens \ Expired
    /\ UNCHANGED <<creds, states, check, val, minted, dropped, disp, observed, executed, audited, mails, crashes>>

RecordBrokenCreds(r, p) == observed' = [observed EXCEPT ![r] = @ \cup {p}]
Blocked(row, tool) == tool \in Writes /\ tool \notin row.allowed

(* dispatch, up to the first read of the row: the bearer, then the credential, then *)
(* the allowlist.                                                                   *)
Dispatch(t, r, p, tool) ==
    /\ disp = Idle /\ executed < MaxCalls
    /\ LookupToken(t) /\ t.review = r
    /\ IF ~Has(p) \/ ~cred[p].enabled \/ cred[p].status = "failed" \/ cred[p].expires < now
       THEN RecordBrokenCreds(r, p) /\ UNCHANGED disp
       ELSE /\ ~Blocked(cred[p], tool)
            /\ disp' = [step |-> "secret", r |-> r, p |-> p, tool |-> tool, tok |-> 0, gen |-> 0]
            /\ UNCHANGED observed
    /\ UNCHANGED <<creds, states, check, val, tokens, minted, dropped, executed, audited, mails, crashes>>
(* The secret is a second read of the row. *)
GetSecret ==
    /\ disp.step = "secret"
    /\ IF ~Has(disp.p) THEN disp' = Idle /\ RecordBrokenCreds(disp.r, disp.p)
       ELSE /\ UNCHANGED observed
            /\ disp' = IF cred[disp.p].tok \in garbled THEN Idle
                       ELSE [disp EXCEPT !.step = "forward", !.tok = cred[disp.p].tok,
                                         !.gen = cred[disp.p].gen]
    /\ UNCHANGED <<creds, states, check, val, tokens, minted, dropped, executed, audited, mails, crashes>>
(* The upstream runs the call or not; the answer comes back, is a 5xx, or is lost.  *)
Forward(ran, answered) ==
    /\ disp.step = "forward"
    /\ executed' = executed + (IF ran \/ answered THEN 1 ELSE 0)
    /\ disp' = IF answered THEN [disp EXCEPT !.step = "record"] ELSE Idle
    /\ UNCHANGED <<creds, states, check, val, tokens, minted, dropped, observed, audited, mails, crashes>>
(* mark_last_used, the audit row and the commit. *)
RecordDispatch ==
    /\ disp.step = "record" /\ disp' = Idle /\ audited' = audited + 1
    /\ UNCHANGED <<creds, states, check, val, tokens, minted, dropped, observed, executed, mails, crashes>>

----------------------------------------------------------------------------
On(op) == op \in Ops
(* Unless "overlap" is on, an admin reconnects only while nothing else holds the row. *)
Quiet == On("overlap") \/ (check = Idle /\ val = Idle /\ disp = Idle)

Settings == \E p \in Providers :
    \/ ConnectStart(p)
    \/ \E st \in states : Quiet /\ ConnectCallback(p, st)
    \/ On("clear") /\ Quiet /\ Clear(p)
    \/ On("patch") /\ \E e \in BOOLEAN, a \in SUBSET Writes : PatchIntegration(p, e, a)
    \/ On("validate") /\ ValidateRead(p)
Validate == ValidateWrite \/ \E reached \in {TRUE, ~On("netDown")} : ValidateCall(reached)
HealthCheck ==
    \/ HealthCheckWrite
    \/ HealthCheckEnd
    \/ \E d \in {TRUE, ~On("smtpDown")} : NotifyOwners(d)
    \/ \E p \in Providers, reached \in {TRUE, ~On("netDown")} : HealthCheckCall(p, reached)
Proxy ==
    \/ \E r \in Reviews : MintToken(r) \/ RevokeToken(r)
    \/ SweepExpired
    \/ \E t \in minted, r \in Reviews, p \in Providers, tool \in Tools : Dispatch(t, r, p, tool)
    \/ GetSecret
    \/ Forward(TRUE, TRUE)
    \/ Forward(FALSE, FALSE)
    \/ On("lost") /\ Forward(TRUE, FALSE)
    \/ RecordDispatch
Outside ==
    \/ Tick
    \/ On("revoke") /\ \E tok \in 1..conn : RevokeUpstream(tok)
    \/ On("rotate") /\ RotateKey
    \/ On("crash") /\ Crash
Next == \/ Settings
        \/ Validate
        \/ On("health") /\ (HealthCheckStart \/ HealthCheck)
        \/ On("proxy") /\ Proxy
        \/ Outside
Spec == Init /\ [][Next]_vars

----------------------------------------------------------------------------
(* Types of the tables, and of the requests in progress. *)
TypeOK == /\ now \in 0..MaxNow /\ cred \in [Providers -> Row \cup {NoRow}]
          /\ tokens \subseteq minted /\ dropped \subseteq minted
          /\ check.step \in {"idle", "call", "write", "mail"}
          /\ val.step \in {"idle", "call", "write"}
          /\ disp.step \in {"idle", "secret", "forward", "record"}
          /\ \A p \in Providers : Has(p) => cred[p].tok >= cred[p].gen /\ cred[p].tok <= conn

(* A credential that fails hour after hour is mailed about at most once in a dedup  *)
(* window, reconnects of the same row included: last_failure_notified_at is written *)
(* with the failure and survives a reconnect.                                       *)
OneMailADay == \A i, j \in 1..Len(mails) :
    i < j /\ mails[i].p = mails[j].p /\ mails[i].gen = mails[j].gen
        => mails[j].at > mails[i].at + Dedup
(* The same of the org as a whole, whatever provider or row it is about. *)
OneMailADayPerOrg == \A i, j \in 1..Len(mails) : i < j => mails[j].at > mails[i].at + Dedup

(* A row that says its owners were told has a mail to show for it, except while the *)
(* check that wrote it is about to send it.                                         *)
OwnersTold == \A p \in Providers : Has(p) /\ cred[p].notifiedAt # Never
    => \/ check.step = "mail" /\ check.p = p
       \/ \E i \in 1..Len(mails) : mails[i].p = p /\ mails[i].gen = cred[p].gen /\ mails[i].at = cred[p].notifiedAt

(* A credential turns "failed" only when the token it now holds is one the upstream *)
(* no longer accepts (or the key no longer opens).                                  *)
StatusHonest == \A p \in Providers :
    Has(p) /\ cred[p].status = "ok" /\ cred'[p] # NoRow /\ cred'[p].status = "failed"
        => ~Live(cred'[p].tok, cred'[p].expires) \/ cred'[p].tok \in garbled

(* A bearer opens the proxy exactly while it is one that was minted, was not revoked *)
(* with its review, and is not past its lifetime: the sweep and a revocation of      *)
(* another review take none of them away, and none outlives its end.                 *)
BearersExact == {t \in tokens : LookupToken(t)} = {t \in minted \ dropped : t.expires >= now}

(* A write tool goes upstream only with the token of a connection for which an admin *)
(* has allowed it, although the allowlist and the token are two reads of the row.    *)
WriteIsAllowed == disp.step \in {"forward", "record"} /\ disp.tool \in Writes
                    => <<disp.gen, disp.tool>> \in granted

(* Every call the upstream has carried out or answered has its audit row. *)
EveryCallAudited == executed = audited + (IF disp.step = "record" THEN 1 ELSE 0)

(* A connected, enabled credential whose token no longer works is shown as broken    *)
(* sooner or later (or reconnected, disabled, removed).                              *)
Unnoticed(p) == /\ Has(p) /\ cred[p].enabled /\ ListIntegrations(p) = "configured" /\ p \notin BrokenSummary
                /\ ~Live(cred[p].tok, cred[p].expires)
====
