------------------------------ MODULE MCPlatform ------------------------------
(***************************************************************************)
(* What the rest stands on: the connections to providers, sessions,        *)
(* organisations and their members, the GitHub installation, the           *)
(* integrations behind the MCP proxy, and the outbox of tasks. A behaviour *)
(* of this module is a behaviour of one of these components, under the     *)
(* constants of its scene.                                                 *)
(***************************************************************************)
EXTENDS Naturals

CONSTANT Scenes  \* the scenes this run follows

VARIABLES
    scene,  \* which component a behaviour follows, under which constants
    \* OAuthConnections
    conn, sess, connLock, sessLock, start, poll, call, closer, todo, prov, epoch, seen, used,
    \* Sessions
    clock, emails, idents, totp, members, sessionsSess, minted, jar, req, purge, audited, ends,
    signins, firstMail, lastServed, idled,
    \* OrgAccess
    orgsClock, orgs, orgsMembers, invites, written, sso, orgsTotp, signedIn, txn, mailed, joined,
    \* GitHubInstallation
    github, rows, vcs, calls, hooks, links, binds, cleared,
    \* McpIntegrations
    now, cred, states, mcpConn, dead, garbled, check, val, tokens, mcpMinted, dropped, disp,
    observed, executed, mcpAudited, mails, crashes, granted,
    \* Outbox
    outboxRows, ledger, outboxClock, drain, tick, redis, body, popped, ran, phase, outboxUsed

Unused == "unused"  \* the value of a variable that its scene leaves alone

\* Two schedules that meet in minute 2, or none.
TwoSchedules == <<"s1", "s2">>
NoSchedules  == <<>>
CronMatches(s, minute) == IF s = "s1" THEN minute % 3 # 0 ELSE minute % 2 = 0

--------------------------------------------------------------------------------
\* OAuthConnections.

\* Two requests and the sweep refresh one connection; an answer is lost, a process dies.
OAuthRefresh == INSTANCE OAuthConnections WITH
    Users <- {"u1"}, Callers <- {"c1", "c2"}, Polls <- {"p1"}, Closers <- {}, MaxTokens <- 3,
    MaxCodes <- 1, MaxEpoch <- 1, MaxTransient <- 1, MaxLost <- 1, MaxNotifyFailures <- 0,
    MaxRevocations <- 1, MaxAccessOnly <- 1, MaxCrashes <- 1

\* Two polls of the device flow race each other and a disconnect.
OAuthConnect == INSTANCE OAuthConnections WITH
    Users <- {"u1"}, Callers <- {}, Polls <- {"p1", "p2"}, Closers <- {"d1"}, MaxTokens <- 3,
    MaxCodes <- 2, MaxEpoch <- 1, MaxTransient <- 0, MaxLost <- 0, MaxNotifyFailures <- 1,
    MaxRevocations <- 0, MaxAccessOnly <- 0, MaxCrashes <- 0

\* A grant is revoked, an answer is lost, a device code runs out.
OAuthLive == INSTANCE OAuthConnections WITH
    Users <- {"u1"}, Callers <- {}, Polls <- {"p1"}, Closers <- {}, MaxTokens <- 3, MaxCodes <- 2,
    MaxEpoch <- 1, MaxTransient <- 0, MaxLost <- 1, MaxNotifyFailures <- 0, MaxRevocations <- 1,
    MaxAccessOnly <- 0, MaxCrashes <- 0

oAuthVars ==
    <<conn, sess, connLock, sessLock, start, poll, call, closer, todo, prov, epoch, seen, used>>

NoOAuth ==
    /\ conn = Unused /\ sess = Unused /\ connLock = Unused /\ sessLock = Unused /\ start = Unused
    /\ poll = Unused /\ call = Unused /\ closer = Unused /\ todo = Unused /\ prov = Unused
    /\ epoch = Unused /\ seen = Unused /\ used = Unused

--------------------------------------------------------------------------------
\* Sessions.

\* Requests through the gate while their session ends.
SessionsGate == INSTANCE Sessions WITH
    Users <- {"u1"}, Staff <- {"u1"}, Subjects <- {"s1"}, Browsers <- {"b1"}, Reqs <- {"r1"},
    Orgs <- {"o1"}, SsoOrgs <- {}, ShortOrgs <- {"o1"}, Exempt <- "u1", MaxTok <- 2,
    MaxClock <- 1, Lifetime <- 0, Idle <- 9, ShortIdle <- 0, SsoTTL <- 1, SignedAge <- 1,
    TotpTTL <- 9, Ops <- {"logout", "role", "gate"}, sess <- sessionsSess

\* Idle time-outs of two organisations, one of them with SSO.
SessionsIdle == INSTANCE Sessions WITH
    Users <- {"u1"}, Staff <- {"u1"}, Subjects <- {"s1"}, Browsers <- {"b1"}, Reqs <- {"r1"},
    Orgs <- {"o1", "o2"}, SsoOrgs <- {"o2"}, ShortOrgs <- {"o1"}, Exempt <- "u1", MaxTok <- 1,
    MaxClock <- 3, Lifetime <- 9, Idle <- 2, ShortIdle <- 1, SsoTTL <- 1, SignedAge <- 1,
    TotpTTL <- 9, Ops <- {"gate", "sso"}, sess <- sessionsSess

\* Mailboxes change hands; everybody logs out.
SessionsIdentity == INSTANCE Sessions WITH
    Users <- {"u1", "u2", "u3"}, Staff <- {"u1", "u2"}, Subjects <- {"s1"}, Browsers <- {"b1"},
    Reqs <- {}, Orgs <- {"o1"}, SsoOrgs <- {"o1"}, ShortOrgs <- {}, Exempt <- "u1", MaxTok <- 3,
    MaxClock <- 0, Lifetime <- 9, Idle <- 9, ShortIdle <- 1, SsoTTL <- 1, SignedAge <- 1,
    TotpTTL <- 9, Ops <- {"email", "logout_all", "sso"}, sess <- sessionsSess

\* Rows expire and the hourly purge runs.
SessionsPurge == INSTANCE Sessions WITH
    Users <- {"u1"}, Staff <- {"u1"}, Subjects <- {"s1"}, Browsers <- {"b1"}, Reqs <- {},
    Orgs <- {"o1"}, SsoOrgs <- {}, ShortOrgs <- {}, Exempt <- "u1", MaxTok <- 2, MaxClock <- 3,
    Lifetime <- 1, Idle <- 9, ShortIdle <- 1, SsoTTL <- 1, SignedAge <- 1, TotpTTL <- 1,
    Ops <- {"totp", "logout"}, sess <- sessionsSess

sessionsVars ==
    <<clock, emails, idents, totp, members, sessionsSess, minted, jar, req, purge, audited, ends,
      signins, firstMail, lastServed, idled>>

NoSessions ==
    /\ clock = Unused /\ emails = Unused /\ idents = Unused /\ totp = Unused /\ members = Unused
    /\ sessionsSess = Unused /\ minted = Unused /\ jar = Unused /\ req = Unused /\ purge = Unused
    /\ audited = Unused /\ ends = Unused /\ signins = Unused /\ firstMail = Unused
    /\ lastServed = Unused /\ idled = Unused

--------------------------------------------------------------------------------
\* OrgAccess.

\* Two people answer one invitation at once.
OrgsInvite == INSTANCE OrgAccess WITH
    Users <- {"u1", "u2", "u3"}, Namesakes <- {"u2", "u3"}, Shared <- "jo", Orgs <- {"o1"},
    Founded <- {"o1"}, Founder <- "u1", MaxInv <- 1, MaxClock <- 1, Lifetime <- 0,
    Txns <- {"x1", "x2"}, Ops <- {"invite", "accept", "crash"}, clock <- orgsClock,
    members <- orgsMembers, totp <- orgsTotp

\* The SSO policy and its mirror on sessions.
OrgsSso == INSTANCE OrgAccess WITH
    Users <- {"u1", "u2"}, Namesakes <- {}, Shared <- "jo", Orgs <- {"o1"}, Founded <- {"o1"},
    Founder <- "u1", MaxInv <- 1, MaxClock <- 0, Lifetime <- 0, Txns <- {"x1"},
    Ops <- {"sso", "acs", "totp", "role", "crash"}, clock <- orgsClock, members <- orgsMembers,
    totp <- orgsTotp

\* Members enrol again, change roles and handles under SSO.
OrgsReenroll == INSTANCE OrgAccess WITH
    Users <- {"u1", "u2"}, Namesakes <- {}, Shared <- "jo", Orgs <- {"o1"}, Founded <- {"o1"},
    Founder <- "u1", MaxInv <- 1, MaxClock <- 0, Lifetime <- 0, Txns <- {"x1"},
    Ops <- {"sso", "acs", "reenroll", "role", "handle"}, clock <- orgsClock,
    members <- orgsMembers, totp <- orgsTotp

\* Invitations run out.
OrgsSweep == INSTANCE OrgAccess WITH
    Users <- {"u1", "u2"}, Namesakes <- {}, Shared <- "jo", Orgs <- {"o1"}, Founded <- {"o1"},
    Founder <- "u1", MaxInv <- 2, MaxClock <- 1, Lifetime <- 0, Txns <- {"x1"},
    Ops <- {"invite", "accept", "create"}, clock <- orgsClock, members <- orgsMembers,
    totp <- orgsTotp

orgsVars ==
    <<orgsClock, orgs, orgsMembers, invites, written, sso, orgsTotp, signedIn, txn, mailed, joined>>

NoOrgs ==
    /\ orgsClock = Unused /\ orgs = Unused /\ orgsMembers = Unused /\ invites = Unused
    /\ written = Unused /\ sso = Unused /\ orgsTotp = Unused /\ signedIn = Unused /\ txn = Unused
    /\ mailed = Unused /\ joined = Unused

--------------------------------------------------------------------------------
\* GitHubInstallation.

\* Two calls pick and clear installations; a code expires.
InstallPick == INSTANCE GitHubInstallation WITH
    Orgs <- {"o0", "o1"}, DefaultOrg <- "o0", Installs <- {"i1", "i2"}, Calls <- {"c1", "c2"},
    MaxHooks <- 0, Ops <- {"pick", "clear", "expire"}

\* Webhooks and crashes in between.
InstallFaults == INSTANCE GitHubInstallation WITH
    Orgs <- {"o0", "o1"}, DefaultOrg <- "o0", Installs <- {"i1"}, Calls <- {"c1", "c2"},
    MaxHooks <- 2,
    Ops <- {"hooks", "suspend", "permissions", "delete", "reconfigure", "clear", "crash"}

\* Webhooks arrive in order.
InstallStatus == INSTANCE GitHubInstallation WITH
    Orgs <- {"o0", "o1"}, DefaultOrg <- "o0", Installs <- {"i1"}, Calls <- {"c1", "c2"},
    MaxHooks <- 4,
    Ops <- {"hooks", "suspend", "permissions", "delete", "clear", "expire", "ordered"}

installVars ==
    <<github, rows, vcs, calls, hooks, links, binds, cleared>>

NoInstall ==
    /\ github = Unused /\ rows = Unused /\ vcs = Unused /\ calls = Unused /\ hooks = Unused
    /\ links = Unused /\ binds = Unused /\ cleared = Unused

--------------------------------------------------------------------------------
\* McpIntegrations.

\* Credentials age, are rotated, revoked and checked.
McpHealth == INSTANCE McpIntegrations WITH
    Providers <- {"linear"}, Writes <- {}, Reads <- {"r"},
    Reviews <- {"v1"}, Lifetime <- 2, TokenTTL <- 2, Dedup <- 1, StateMaxAge <- 0, MaxNow <- 2,
    MaxConn <- 2, MaxMint <- 1, MaxCalls <- 1,
    Ops <- {"clear", "patch", "validate", "health", "revoke", "rotate", "netDown"}, conn <- mcpConn,
    minted <- mcpMinted, audited <- mcpAudited

\* Bearers of two reviews.
McpBearers == INSTANCE McpIntegrations WITH
    Providers <- {"linear"}, Writes <- {}, Reads <- {"r"},
    Reviews <- {"v1", "v2"}, Lifetime <- 2, TokenTTL <- 1, Dedup <- 1, StateMaxAge <- 0,
    MaxNow <- 3, MaxConn <- 1, MaxMint <- 2, MaxCalls <- 1, Ops <- {"proxy", "lost"},
    conn <- mcpConn, minted <- mcpMinted, audited <- mcpAudited

\* Calls through the proxy while the settings change.
McpProxy == INSTANCE McpIntegrations WITH
    Providers <- {"linear"}, Writes <- {"w"}, Reads <- {"r"},
    Reviews <- {"v1"}, Lifetime <- 1, TokenTTL <- 1, Dedup <- 1, StateMaxAge <- 0, MaxNow <- 1,
    MaxConn <- 2, MaxMint <- 1, MaxCalls <- 2, Ops <- {"clear", "patch", "proxy", "rotate"},
    conn <- mcpConn, minted <- mcpMinted, audited <- mcpAudited

\* The provider, the mail server and the worker fail.
McpNoticed == INSTANCE McpIntegrations WITH
    Providers <- {"linear"}, Writes <- {}, Reads <- {"r"},
    Reviews <- {"v1"}, Lifetime <- 0, TokenTTL <- 2, Dedup <- 1, StateMaxAge <- 0, MaxNow <- 1,
    MaxConn <- 1, MaxMint <- 1, MaxCalls <- 1,
    Ops <- {"overlap", "validate", "health", "revoke", "crash", "netDown", "smtpDown"},
    conn <- mcpConn, minted <- mcpMinted, audited <- mcpAudited

mcpVars ==
    <<now, cred, states, mcpConn, dead, garbled, check, val, tokens, mcpMinted, dropped, disp,
      observed, executed, mcpAudited, mails, crashes, granted>>

NoMcp ==
    /\ now = Unused /\ cred = Unused /\ states = Unused /\ mcpConn = Unused /\ dead = Unused
    /\ garbled = Unused /\ check = Unused /\ val = Unused /\ tokens = Unused /\ mcpMinted = Unused
    /\ dropped = Unused /\ disp = Unused /\ observed = Unused /\ executed = Unused
    /\ mcpAudited = Unused /\ mails = Unused /\ crashes = Unused /\ granted = Unused

--------------------------------------------------------------------------------
\* Outbox.

\* A worker is killed, stopped or abandons a body; a transaction fails.
OutboxFaults == INSTANCE Outbox WITH
    Workers <- {"w1", "w2"}, Orgs <- {"o1"}, Batch <- 2, Retention <- 1, MaxRows <- 2,
    MaxRequests <- 1, MaxTime <- 1, MaxCrash <- 1, MaxStop <- 1, MaxAbandon <- 1,
    MaxRollback <- 1, MaxPushFail <- 0, MaxPoison <- 0, Schedules <- NoSchedules,
    Due <- CronMatches, rows <- outboxRows, clock <- outboxClock, used <- outboxUsed

\* Two drains, a refused push and a row nobody can dispatch.
OutboxDrains == INSTANCE Outbox WITH
    Workers <- {"w1", "w2"}, Orgs <- {}, Batch <- 2, Retention <- 1, MaxRows <- 3,
    MaxRequests <- 2, MaxTime <- 1, MaxCrash <- 0, MaxStop <- 1, MaxAbandon <- 0,
    MaxRollback <- 0, MaxPushFail <- 1, MaxPoison <- 1, Schedules <- NoSchedules,
    Due <- CronMatches, rows <- outboxRows, clock <- outboxClock, used <- outboxUsed

\* Two workers tick two schedules.
OutboxSlots == INSTANCE Outbox WITH
    Workers <- {"w1", "w2"}, Orgs <- {}, Batch <- 3, Retention <- 1, MaxRows <- 3,
    MaxRequests <- 0, MaxTime <- 3, MaxCrash <- 0, MaxStop <- 0, MaxAbandon <- 0,
    MaxRollback <- 0, MaxPushFail <- 0, MaxPoison <- 0, Schedules <- TwoSchedules,
    Due <- CronMatches, rows <- outboxRows, clock <- outboxClock, used <- outboxUsed

outboxVars ==
    <<outboxRows, ledger, outboxClock, drain, tick, redis, body, popped, ran, phase, outboxUsed>>

NoOutbox ==
    /\ outboxRows = Unused /\ ledger = Unused /\ outboxClock = Unused /\ drain = Unused
    /\ tick = Unused /\ redis = Unused /\ body = Unused /\ popped = Unused /\ ran = Unused
    /\ phase = Unused /\ outboxUsed = Unused

--------------------------------------------------------------------------------
\* A behaviour starts in one scene and follows its component.

vars == <<scene, oAuthVars, sessionsVars, orgsVars, installVars, mcpVars, outboxVars>>

Init ==
    /\ scene \in Scenes
    /\ IF scene \notin {"oauth_refresh", "oauth_connect", "oauth_live"} THEN NoOAuth
       ELSE IF scene = "oauth_refresh" THEN OAuthRefresh!Init
       ELSE IF scene = "oauth_connect" THEN OAuthConnect!Init
       ELSE OAuthLive!Init
    /\ IF scene \notin {"sessions_gate", "sessions_idle", "sessions_identity", "sessions_purge"} THEN NoSessions
       ELSE IF scene = "sessions_gate" THEN SessionsGate!Init
       ELSE IF scene = "sessions_idle" THEN SessionsIdle!Init
       ELSE IF scene = "sessions_identity" THEN SessionsIdentity!Init
       ELSE SessionsPurge!Init
    /\ IF scene \notin {"orgs_invite", "orgs_sso", "orgs_reenroll", "orgs_sweep"} THEN NoOrgs
       ELSE IF scene = "orgs_invite" THEN OrgsInvite!Init
       ELSE IF scene = "orgs_sso" THEN OrgsSso!Init
       ELSE IF scene = "orgs_reenroll" THEN OrgsReenroll!Init
       ELSE OrgsSweep!Init
    /\ IF scene \notin {"install_no_tunnel", "install_faults", "install_status"} THEN NoInstall
       ELSE IF scene = "install_no_tunnel" THEN InstallPick!Init
       ELSE IF scene = "install_faults" THEN InstallFaults!Init
       ELSE InstallStatus!Init
    /\ IF scene \notin {"mcp_health", "mcp_bearers", "mcp_proxy", "mcp_noticed"} THEN NoMcp
       ELSE IF scene = "mcp_health" THEN McpHealth!Init
       ELSE IF scene = "mcp_bearers" THEN McpBearers!Init
       ELSE IF scene = "mcp_proxy" THEN McpProxy!Init
       ELSE McpNoticed!Init
    /\ IF scene \notin {"outbox_faults", "outbox_drains", "outbox_slots"} THEN NoOutbox
       ELSE IF scene = "outbox_faults" THEN OutboxFaults!Init
       ELSE IF scene = "outbox_drains" THEN OutboxDrains!Init
       ELSE OutboxSlots!Init

OAuthNext ==
    /\ \/ scene = "oauth_refresh" /\ OAuthRefresh!Next
       \/ scene = "oauth_connect" /\ OAuthConnect!Next
       \/ scene = "oauth_live" /\ OAuthLive!Next
    /\ UNCHANGED <<scene, sessionsVars, orgsVars, installVars, mcpVars, outboxVars>>

SessionsNext ==
    /\ \/ scene = "sessions_gate" /\ SessionsGate!Next
       \/ scene = "sessions_idle" /\ SessionsIdle!Next
       \/ scene = "sessions_identity" /\ SessionsIdentity!Next
       \/ scene = "sessions_purge" /\ SessionsPurge!Next
    /\ UNCHANGED <<scene, oAuthVars, orgsVars, installVars, mcpVars, outboxVars>>

OrgsNext ==
    /\ \/ scene = "orgs_invite" /\ OrgsInvite!Next
       \/ scene = "orgs_sso" /\ OrgsSso!Next
       \/ scene = "orgs_reenroll" /\ OrgsReenroll!Next
       \/ scene = "orgs_sweep" /\ OrgsSweep!Next
    /\ UNCHANGED <<scene, oAuthVars, sessionsVars, installVars, mcpVars, outboxVars>>

InstallNext ==
    /\ \/ scene = "install_no_tunnel" /\ InstallPick!Next
       \/ scene = "install_faults" /\ InstallFaults!Next
       \/ scene = "install_status" /\ InstallStatus!Next
    /\ UNCHANGED <<scene, oAuthVars, sessionsVars, orgsVars, mcpVars, outboxVars>>

McpNext ==
    /\ \/ scene = "mcp_health" /\ McpHealth!Next
       \/ scene = "mcp_bearers" /\ McpBearers!Next
       \/ scene = "mcp_proxy" /\ McpProxy!Next
       \/ scene = "mcp_noticed" /\ McpNoticed!Next
    /\ UNCHANGED <<scene, oAuthVars, sessionsVars, orgsVars, installVars, outboxVars>>

OutboxNext ==
    /\ \/ scene = "outbox_faults" /\ OutboxFaults!Next
       \/ scene = "outbox_drains" /\ OutboxDrains!Next
       \/ scene = "outbox_slots" /\ OutboxSlots!Next
    /\ UNCHANGED <<scene, oAuthVars, sessionsVars, orgsVars, installVars, mcpVars>>

Next ==
    \/ OAuthNext
    \/ SessionsNext
    \/ OrgsNext
    \/ InstallNext
    \/ McpNext
    \/ OutboxNext

Spec == Init /\ [][Next]_vars

\* Requests run to their end, the hourly schedule keeps sweeping, and the provider
\* answers (a timeout of _TIMEOUT_SECONDS is an answer).
OAuthLiveFairness ==
    /\ \A p \in {"p1"} : WF_oAuthVars(scene = "oauth_live" /\ OAuthLive!PollGoesOn(p))
    /\ \A p \in {} : WF_oAuthVars(scene = "oauth_live" /\ (OAuthLive!SlowPath(p) \/ OAuthLive!RefreshStep(p)))
    /\ SF_oAuthVars(scene = "oauth_live" /\ OAuthLive!SweepStep)

\* The purge is a scheduled task: it runs every hour and, once begun, ends.
SessionsPurgeFairness ==
    /\ WF_sessionsVars(scene = "sessions_purge" /\ SessionsPurge!PurgeCollect)
    /\ WF_sessionsVars(scene = "sessions_purge" /\ SessionsPurge!PurgeDelete)
    /\ WF_sessionsVars(scene = "sessions_purge" /\ SessionsPurge!PurgeSecrets)

\* The hourly schedule runs the sweep; time passes.
OrgsSweepFairness ==
    /\ WF_orgsVars(scene = "orgs_sweep" /\ OrgsSweep!Tick)
    /\ WF_orgsVars(scene = "orgs_sweep" /\ OrgsSweep!InvitationSweep)

\* The scheduler enqueues the check every hour and a worker runs it to its end.
McpNoticedFairness ==
    /\ WF_mcpVars(scene = "mcp_noticed" /\ McpNoticed!On("health") /\ McpNoticed!HealthCheckStart)
    /\ WF_mcpVars(scene = "mcp_noticed" /\ McpNoticed!On("health") /\ McpNoticed!HealthCheck)

Fairness ==
    /\ OAuthLiveFairness /\ SessionsPurgeFairness /\ OrgsSweepFairness /\ McpNoticedFairness

FairSpec == Spec /\ Fairness

\* The constants of every scene are ones its module allows.
ASSUME ScenesAssumption ==
    /\ OAuthRefresh!OAuthAssumption /\ OAuthConnect!OAuthAssumption /\ OAuthLive!OAuthAssumption
    /\ SessionsGate!BoundsAreNat /\ SessionsIdle!BoundsAreNat /\ SessionsIdentity!BoundsAreNat
    /\ SessionsPurge!BoundsAreNat /\ OrgsInvite!BoundsAreNat /\ OrgsSso!BoundsAreNat
    /\ OrgsReenroll!BoundsAreNat /\ OrgsSweep!BoundsAreNat /\ InstallPick!InstallAssumption
    /\ InstallFaults!InstallAssumption /\ InstallStatus!InstallAssumption
    /\ McpHealth!McpAssumption /\ McpBearers!McpAssumption /\ McpProxy!McpAssumption
    /\ McpNoticed!McpAssumption

--------------------------------------------------------------------------------
\* Safety.

\* Every variable of the component that moves has the values its module gives it.
TypeOK ==
    /\ scene = "oauth_refresh" => OAuthRefresh!TypeOK
    /\ scene = "sessions_gate" => SessionsGate!TypeOK
    /\ scene = "orgs_invite" => OrgsInvite!TypeOK
    /\ scene = "install_no_tunnel" => InstallPick!TypeOK
    /\ scene = "mcp_health" => McpHealth!TypeOK

\* A spent refresh token is shown to the provider a second time only after an answer
\* was lost: consumers and the sweeper never refresh the same row twice (the re-checks
\* under FOR UPDATE).
NoTokenReplay == scene = "oauth_refresh" => OAuthRefresh!NoTokenReplay

\* Between refreshes the stored refresh token is the one the provider handed out last,
\* unless the answer that carried it was lost.
StoredTokenUnspent == scene = "oauth_refresh" => OAuthRefresh!StoredTokenUnspent

\* Nobody spends a refresh token on a row that another refresh renewed while it waited
\* for the lock: the checks made before the lock are made again under it, the sweeper's
\* against the cutoff its sweep began with.
NoNeedlessRefresh == scene = "oauth_refresh" => OAuthRefresh!NoNeedlessRefresh

\* A device session and a connection made from it never coexist: the grant that
\* consumed the code took the session with it, so no client keeps polling a consumed
\* code (unless the grant itself failed to commit).
ConsumedCodeNotPolled == scene = "oauth_connect" => OAuthConnect!ConsumedCodeNotPolled

\* A provider account always signs in as the reader of the mailbox it first signed in
\* with (login_via_oauth): not as somebody who typed that address into their own
\* account, and not as the owner of an address it moved to later.
SubjectIsMailboxOwner == scene = "sessions_identity" => SessionsIdentity!SubjectIsMailboxOwner

\* One invitation makes at most one member, however many people hold its token and
\* accept at once (accept_invitation, accepted_at and the handle index).
OneMemberPerToken == scene = "orgs_invite" => OrgsInvite!OneMemberPerToken

\* What the gate reads on the orgs row is what the SSO page shows of the configuration
\* (upsert_config, set_sso_authz_for_org).
MirrorInStep ==
    /\ scene = "orgs_sso" => OrgsSso!MirrorInStep
    /\ scene = "orgs_reenroll" => OrgsReenroll!MirrorInStep

\* A handshake that ran to its end leaves its org on the GitHub plugin, unless the org
\* removed it since or is about to be linked by another.
LinkDone == scene = "install_no_tunnel" => InstallPick!LinkDone

\* Remove means fully disconnected: until the org installs or picks again, no
\* installation row, and so no installation token, is its own.
Disconnected == scene = "install_no_tunnel" => InstallPick!Disconnected

\* However callbacks, webhooks, removals and crashes interleave, an installation is
\* linked (audited, its org's VCS set) at most once for each time its row was inserted:
\* exactly one concurrent caller of upsert_installation sees True.
LinkPerBind == scene = "install_faults" => InstallFaults!LinkPerBind

\* When every event has been answered, a row is active exactly while GitHub's
\* installation is, so a token is asked for only where GitHub would give one.
StatusFollows == scene = "install_status" => InstallStatus!StatusFollows

\* A credential that fails hour after hour is mailed about at most once in a dedup
\* window, reconnects of the same row included: last_failure_notified_at is written
\* with the failure and survives a reconnect.
OneMailADay == scene = "mcp_health" => McpHealth!OneMailADay

\* A row that says its owners were told has a mail to show for it, except while the
\* check that wrote it is about to send it.
OwnersTold == scene = "mcp_health" => McpHealth!OwnersTold

\* A bearer opens the proxy exactly while it is one that was minted, was not revoked
\* with its review, and is not past its lifetime: the sweep and a revocation of another
\* review take none of them away, and none outlives its end.
BearersExact == scene = "mcp_bearers" => McpBearers!BearersExact

\* A write tool goes upstream only with the token of a connection for which an admin
\* has allowed it, although the allowlist and the token are two reads of the row.
WriteIsAllowed == scene = "mcp_proxy" => McpProxy!WriteIsAllowed

\* Every call the upstream has carried out or answered has its audit row.
EveryCallAudited == scene = "mcp_proxy" => McpProxy!EveryCallAudited

\* Without crashes and rollbacks no row is pushed twice, though every worker drains.
PushedOnce == scene = "outbox_drains" => OutboxDrains!PushedOnce

\* One slot of one schedule is enqueued at most once, and a claimed slot is enqueued:
\* however many workers tick, fail, are cancelled or prune.
SlotEnqueuedOnce == scene = "outbox_slots" => OutboxSlots!SlotEnqueuedOnce

\* A session row that was revoked or purged never comes back and no row outlives the
\* expiry it was minted with, whatever request was inside require() when it went: touch
\* and mark_sso_satisfied only ever update.
NeverRevived ==
    [][scene = "sessions_gate" => SessionsGate!NeverRevived]_vars

\* A session that served an org-scoped request within the idle window of an org is not
\* refused as idle there: require() touches the row on every success.
ActiveNeverIdledOut ==
    [][scene = "sessions_idle" => SessionsIdle!ActiveNeverIdledOut]_vars

\* The sweep takes only what nobody can use or needs any more: a token that was used
\* stays known as used, one that can be used stays usable (delete_expired_invitations).
TokenFateKept ==
    [][scene = "orgs_invite" => OrgsInvite!TokenFateKept]_vars

\* No body runs for a row nobody committed, and no committed row is forgotten: every
\* step is one of the abstract queue's or leaves it alone, whatever crashes or rolls
\* back (drain_once, the receiver).
QueueStep ==
    [][/\ scene = "outbox_faults" => OutboxFaults!QueueStep
       /\ scene = "outbox_drains" => OutboxDrains!QueueStep]_vars

--------------------------------------------------------------------------------
\* Liveness.

\* A connection whose refresh token died (revoked, or its rotation lost) does not stay
\* connected: the sweep finds it and asks for a new consent.
DeadTokenReported ==
    \A u \in {"u1"} : (scene = "oauth_live" /\ OAuthLive!DeadRow(u)) ~> (scene = "oauth_live" => ~OAuthLive!DeadRow(u))

\* An expired device session does not stay behind.
ExpiredSessionGoes ==
    \A u \in {"u1"} :
       (scene = "oauth_live" /\ sess[u] # OAuthLive!NoRow /\ sess[u].expired) ~> (scene = "oauth_live" => sess[u] = OAuthLive!NoRow \/ ~sess[u].expired)

\* Under the hourly schedule an expired session row and an unproved secret past its age
\* do not stay.
StaleRowsGo ==
    /\ \A t \in SessionsPurge!Toks : (scene = "sessions_purge" /\ sessionsSess[t] # SessionsPurge!NoRow /\ SessionsPurge!expired(sessionsSess[t])) ~> (scene = "sessions_purge" => sessionsSess[t] = SessionsPurge!NoRow)
    /\ \A u \in {"u1"} : (scene = "sessions_purge" /\ SessionsPurge!StaleSecret(totp[u])) ~> (scene = "sessions_purge" => ~SessionsPurge!StaleSecret(totp[u]))

\* An address whose invitation ran out can be invited again: the pending row that
\* blocks it goes (invitation_sweep).
StaleInvitesGo ==
    \A i \in OrgsSweep!Invs : (scene = "orgs_sweep" /\ OrgsSweep!Pending(i) /\ OrgsSweep!expired(invites[i])) ~> (scene = "orgs_sweep" => ~OrgsSweep!Pending(i))

\* A connected, enabled credential whose token no longer works is shown as broken
\* sooner or later (or reconnected, disabled, removed).
DeadIsNoticed ==
    \A p \in {"linear"} : (scene = "mcp_noticed" /\ McpNoticed!Unnoticed(p)) ~> (scene = "mcp_noticed" => ~McpNoticed!Unnoticed(p))

--------------------------------------------------------------------------------
\* What the runs check: the properties above, one conjunction per idea.

\* A token, a code, an invitation, a bind, a mail window, a message and a slot are used
\* once, by the one they were made for.
UsedOnce ==
    /\ NoTokenReplay /\ ConsumedCodeNotPolled /\ OneMemberPerToken /\ LinkPerBind
    /\ OneMailADay /\ PushedOnce /\ SlotEnqueuedOnce /\ SubjectIsMailboxOwner

\* Credentials, tenancy rows and their copies agree with each other and with what was
\* done with them outside.
RowsAgree ==
    /\ StoredTokenUnspent /\ NoNeedlessRefresh /\ MirrorInStep /\ LinkDone
    /\ Disconnected /\ StatusFollows /\ OwnersTold /\ BearersExact /\ WriteIsAllowed
    /\ EveryCallAudited

\* No step revives an ended session, idles out an active one, rewrites the fate of a
\* token, or forgets a committed task.
VerdictsStand ==
    /\ NeverRevived /\ ActiveNeverIdledOut /\ TokenFateKept /\ QueueStep

\* Dead tokens and credentials are noticed, and expired sessions, stale rows and stale
\* invitations go.
PlatformSettles ==
    /\ DeadTokenReported /\ ExpiredSessionGoes /\ StaleRowsGo /\ StaleInvitesGo
    /\ DeadIsNoticed
================================================================================
