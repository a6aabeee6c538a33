-------------------------- MODULE OAuthConnections --------------------------
(***************************************************************************)
(* The user-OAuth connections of core/oauth: the device-code handshake     *)
(* (start, poll, grant), disconnect, the refresh a consumer makes          *)
(* (ensure_fresh_access_token) and the hourly sweeper                      *)
(* (_do_refresh_due_connections), against one provider.                    *)
(*                                                                         *)
(* Every database transaction that calls the provider while it holds a row *)
(* lock is several steps: the read, the lock, the provider's answer, the   *)
(* commit.  Times are abstracted to what the code compares: `fresh` says   *)
(* that the access token outlives the threshold, `last` and `epoch` count  *)
(* the refresh_after_seconds periods, `polled` says that last_polled_at is *)
(* younger than poll_interval_seconds.                                     *)
(***************************************************************************)
EXTENDS Integers, FiniteSets

CONSTANTS Users, Callers, Polls, Closers,
          MaxTokens, MaxCodes, MaxEpoch, \* bounds on what the provider issues and on time
          MaxTransient, MaxLost, MaxNotifyFailures, MaxRevocations,
          MaxAccessOnly, MaxCrashes      \* how often each fault happens

Sweeper    == "sweeper"
Refreshers == Callers \cup {Sweeper}
NoOne      == "no one"

OAuthAssumption ==
    /\ Users # {} /\ Sweeper \notin Callers /\ NoOne \notin Users \cup Callers \cup Polls
    /\ MaxTokens \in Nat /\ MaxCodes \in Nat /\ MaxEpoch \in Nat
    /\ MaxTransient \in Nat /\ MaxLost \in Nat /\ MaxNotifyFailures \in Nat
    /\ MaxRevocations \in Nat /\ MaxAccessOnly \in Nat /\ MaxCrashes \in Nat

VARIABLES conn,     \* user_oauth_connections, one row per user at most
          sess,     \* user_oauth_device_sessions, one row per user at most
          connLock, \* who holds the row lock of a connection
          sessLock, \* which poll holds the row lock of a device session
          start,    \* the code a start request got and has not stored
          poll,     \* the poll requests
          call,     \* the refreshes: consumers and the sweeper
          closer,   \* the disconnect requests
          todo,     \* the rows the sweeper still has to visit
          prov,     \* the provider
          epoch,    \* the clock, in units of refresh_after_seconds
          seen,     \* history: what the properties compare
          used      \* faults so far

vars == <<conn, sess, connLock, sessLock, start, poll, call, closer, todo, prov, epoch, seen, used>>

NoRow      == [absent |-> TRUE]
NoToken    == 0
Tokens     == 1 .. MaxTokens
Codes      == 1 .. MaxCodes
NoCode     == 0

UserOAuthConnectionRow ==
    [status : {"connected", "needs_reauth"}, fresh : BOOLEAN,
     refresh : Tokens \cup {NoToken}, last : 0 .. MaxEpoch]
UserOAuthDeviceSessionRow ==
    [code : Codes, polled : BOOLEAN, slowed : BOOLEAN, expired : BOOLEAN]

(* The answers of the token endpoint, as _post_token classifies them. *)
RefreshAnswers == {"ok", "access_only", "terminal", "transient"}
DeviceAnswers  == {"authorization_pending", "slow_down", "access_denied", "expired_token",
                   "ok", "access_only", "transient"}

RefreshType == [pc : {"idle", "slow", "calling", "answered"}, user : Users,
                cutoff : 0 .. MaxEpoch, answer : RefreshAnswers, token : Tokens \cup {NoToken}]
PollType    == [pc : {"idle", "read", "calling", "answered"}, user : Users, code : Codes \cup {NoCode},
                hot : BOOLEAN, answer : DeviceAnswers, token : Tokens \cup {NoToken}]
CodeStates  == {"unissued", "pending", "granted", "denied", "expired", "consumed"}
ProviderType == [codes : [Codes -> CodeStates], minted : 0 .. MaxTokens,
                 spent : SUBSET Tokens, revoked : SUBSET Tokens]
SeenType    == [replayed : BOOLEAN, lost : BOOLEAN, removed : Nat, audited : Nat,
                flipLost : BOOLEAN, unrecorded : BOOLEAN]

Bounds == [transient |-> MaxTransient, lost |-> MaxLost, notify |-> MaxNotifyFailures,
           revoke |-> MaxRevocations, access_only |-> MaxAccessOnly, crash |-> MaxCrashes]

AnyUser == CHOOSE u \in Users : TRUE
IdleRefresh == [pc |-> "idle", user |-> AnyUser, cutoff |-> 0, answer |-> "transient", token |-> NoToken]
IdlePoll == [pc |-> "idle", user |-> AnyUser, code |-> NoCode, hot |-> FALSE,
             answer |-> "transient", token |-> NoToken]

Init ==
    /\ conn = [u \in Users |-> NoRow]
    /\ sess = [u \in Users |-> NoRow]
    /\ connLock = [u \in Users |-> NoOne]
    /\ sessLock = [u \in Users |-> NoOne]
    /\ start = [u \in Users |-> NoCode]
    /\ poll = [p \in Polls |-> IdlePoll]
    /\ call = [p \in Refreshers |-> IdleRefresh]
    /\ closer = [d \in Closers |-> NoOne]
    /\ todo = {}
    /\ prov = [codes |-> [c \in Codes |-> "unissued"], minted |-> 0, spent |-> {}, revoked |-> {}]
    /\ epoch = 0
    /\ seen = [replayed |-> FALSE, lost |-> FALSE, removed |-> 0, audited |-> 0,
               flipLost |-> FALSE, unrecorded |-> FALSE]
    /\ used = [k \in DOMAIN Bounds |-> 0]

Use(k) == used[k] < Bounds[k] /\ used' = [used EXCEPT ![k] = @ + 1]

-----------------------------------------------------------------------------
(* The provider mints a refresh token; `access_only` grants carry none.    *)

CanMint == prov.minted < MaxTokens
Minted  == prov.minted + 1
Live(t) == t \notin prov.spent \cup prov.revoked

-----------------------------------------------------------------------------
(* start_device_auth: the provider call first, then the upsert, which      *)
(* waits for a poll that holds the row and keeps its last_polled_at.       *)

PostDeviceAuthorize(u) ==
    /\ start[u] = NoCode
    /\ \E c \in Codes :
        /\ prov.codes[c] = "unissued"
        /\ \A d \in 1 .. c - 1 : prov.codes[d] # "unissued"
        /\ start' = [start EXCEPT ![u] = c]
        /\ prov' = [prov EXCEPT !.codes[c] = "pending"]
    /\ UNCHANGED <<conn, sess, connLock, sessLock, poll, call, closer, todo, epoch, seen, used>>

StartDeviceAuth(u) ==
    /\ start[u] # NoCode
    /\ sessLock[u] = NoOne
    /\ sess' = [sess EXCEPT ![u] = [code |-> start[u], slowed |-> FALSE, expired |-> FALSE,
                                    polled |-> IF @ = NoRow THEN FALSE ELSE @.polled]]
    /\ start' = [start EXCEPT ![u] = NoCode]
    /\ UNCHANGED <<conn, connLock, sessLock, poll, call, closer, todo, prov, epoch, seen, used>>

-----------------------------------------------------------------------------
(* poll_device_auth.  The read takes no lock; the flush of last_polled_at  *)
(* does, and fails when the row is gone; the answer is applied and         *)
(* committed by poll_device_auth_route.                                    *)

PollReads(p, u) ==
    /\ poll[p].pc = "idle"
    /\ sess[u] # NoRow
    /\ ~sess[u].polled
    /\ poll' = [poll EXCEPT ![p] = [IdlePoll EXCEPT !.pc = "read", !.user = u, !.code = sess[u].code]]
    /\ UNCHANGED <<conn, sess, connLock, sessLock, start, call, closer, todo, prov, epoch, seen, used>>

PollStamps(p) ==
    LET u == poll[p].user IN
    /\ poll[p].pc = "read"
    /\ sessLock[u] = NoOne
    /\ IF sess[u] = NoRow
       THEN poll' = [poll EXCEPT ![p] = IdlePoll] /\ UNCHANGED sessLock
       ELSE /\ poll' = [poll EXCEPT ![p].pc = "calling", ![p].hot = sess[u].polled]
            /\ sessLock' = [sessLock EXCEPT ![u] = p]
    /\ UNCHANGED <<conn, sess, connLock, start, call, closer, todo, prov, epoch, seen, used>>

Answered(p, a, t) == poll' = [poll EXCEPT ![p].pc = "answered", ![p].answer = a, ![p].token = t]

(* The token endpoint's answer to a device-code grant. *)
DeviceTokenAnswer(p) ==
    LET c == poll[p].code IN
    /\ poll[p].pc = "calling"
    /\ \/ /\ prov.codes[c] = "pending"
          /\ \E a \in {"authorization_pending", "slow_down"} : Answered(p, a, NoToken)
          /\ UNCHANGED <<prov, used, seen>>
       \/ /\ prov.codes[c] = "denied" /\ Answered(p, "access_denied", NoToken)
          /\ UNCHANGED <<prov, used, seen>>
       \/ /\ prov.codes[c] = "expired" /\ Answered(p, "expired_token", NoToken)
          /\ UNCHANGED <<prov, used, seen>>
       \/ /\ prov.codes[c] = "granted" /\ CanMint
          /\ prov' = [prov EXCEPT !.codes[c] = "consumed", !.minted = Minted]
          /\ Answered(p, "ok", Minted)
          /\ UNCHANGED <<used, seen>>
       \/ /\ prov.codes[c] = "granted"
          /\ prov' = [prov EXCEPT !.codes[c] = "consumed"]
          /\ Answered(p, "access_only", NoToken)
          /\ Use("access_only") /\ UNCHANGED seen
       \/ /\ prov.codes[c] = "consumed" /\ Answered(p, "transient", NoToken)
          /\ UNCHANGED <<prov, used, seen>>
       \/ /\ Answered(p, "transient", NoToken)
          /\ Use("transient") /\ UNCHANGED <<prov, seen>>
    /\ UNCHANGED <<conn, sess, connLock, sessLock, start, call, closer, todo, epoch>>

PollEnds(p) ==
    /\ poll' = [poll EXCEPT ![p] = IdlePoll]
    /\ sessLock' = [sessLock EXCEPT ![poll[p].user] = NoOne]

PollStaysPending(p) ==
    LET u == poll[p].user IN
    /\ poll[p].pc = "answered"
    /\ poll[p].answer \in {"authorization_pending", "slow_down"}
    /\ sess' = [sess EXCEPT ![u].polled = TRUE, ![u].slowed = @ \/ poll[p].answer = "slow_down"]
    /\ PollEnds(p)
    /\ UNCHANGED <<conn, connLock, start, call, closer, todo, prov, epoch, seen, used>>

PollRefused(p) ==
    /\ poll[p].pc = "answered"
    /\ poll[p].answer \in {"access_denied", "expired_token"}
    /\ sess' = [sess EXCEPT ![poll[p].user] = NoRow]
    /\ PollEnds(p)
    /\ UNCHANGED <<conn, connLock, start, call, closer, todo, prov, epoch, seen, used>>

(* A genuine error is re-raised: the stamp rolls back with the request. *)
PollFails(p) ==
    /\ poll[p].pc = "answered"
    /\ poll[p].answer = "transient"
    /\ PollEnds(p)
    /\ UNCHANGED <<conn, sess, connLock, start, call, closer, todo, prov, epoch, seen, used>>

(* The grant upserts the connection, which waits for a refresh that holds  *)
(* the row, and deletes the device session by user and provider.           *)
PollConnects_KeepsSession(p) ==
    LET u == poll[p].user IN
    /\ poll[p].pc = "answered"
    /\ poll[p].answer \in {"ok", "access_only"}
    /\ connLock[u] = NoOne
    /\ conn' = [conn EXCEPT ![u] = [status |-> "connected", fresh |-> TRUE,
                                    refresh |-> poll[p].token, last |-> epoch]]
    /\ PollEnds(p)
    /\ UNCHANGED <<sess, connLock, start, call, closer, todo, prov, epoch, seen, used>>

PollConnects(p) ==
    LET u == poll[p].user IN
    /\ poll[p].pc = "answered"
    /\ poll[p].answer \in {"ok", "access_only"}
    /\ connLock[u] = NoOne
    /\ conn' = [conn EXCEPT ![u] = [status |-> "connected", fresh |-> TRUE,
                                    refresh |-> poll[p].token, last |-> epoch]]
    /\ sess' = [sess EXCEPT ![u] = NoRow]
    /\ PollEnds(p)
    /\ UNCHANGED <<connLock, start, call, closer, todo, prov, epoch, seen, used>>

-----------------------------------------------------------------------------
(* disconnect_user_connection: the read, then the delete and its audit.    *)

DisconnectReads(d, u) ==
    /\ closer[d] = NoOne
    /\ conn[u] # NoRow
    /\ closer' = [closer EXCEPT ![d] = u]
    /\ UNCHANGED <<conn, sess, connLock, sessLock, start, poll, call, todo, prov, epoch, seen, used>>

DisconnectUserConnection(d) ==
    LET u == closer[d] IN
    /\ u # NoOne
    /\ connLock[u] = NoOne
    /\ conn' = [conn EXCEPT ![u] = NoRow]
    /\ seen' = [seen EXCEPT !.removed = @ + (IF conn[u] = NoRow THEN 0 ELSE 1), !.audited = @ + 1]
    /\ closer' = [closer EXCEPT ![d] = NoOne]
    /\ UNCHANGED <<sess, connLock, sessLock, start, poll, call, todo, prov, epoch, used>>

-----------------------------------------------------------------------------
(* ensure_fresh_access_token: the fast path reads without a lock; the slow *)
(* path takes the row, checks again and only then calls the provider.      *)

FastPath(p, u) ==
    /\ call[p].pc = "idle"
    /\ conn[u] # NoRow
    /\ conn[u].status = "connected"
    /\ ~conn[u].fresh
    /\ call' = [call EXCEPT ![p] = [IdleRefresh EXCEPT !.pc = "slow", !.user = u]]
    /\ UNCHANGED <<conn, sess, connLock, sessLock, start, poll, closer, todo, prov, epoch, seen, used>>

StillStale(u) == conn[u] # NoRow /\ conn[u].status = "connected" /\ ~conn[u].fresh

Locks(p, u) ==
    /\ call' = [call EXCEPT ![p].pc = "calling", ![p].user = u]
    /\ connLock' = [connLock EXCEPT ![u] = p]

SlowPath(p) ==
    LET u == call[p].user IN
    /\ call[p].pc = "slow"
    /\ connLock[u] = NoOne
    /\ IF StillStale(u) /\ conn[u].refresh # NoToken
       THEN Locks(p, u) /\ UNCHANGED seen
       ELSE /\ call' = [call EXCEPT ![p] = IdleRefresh]
            /\ seen' = [seen EXCEPT !.unrecorded = @ \/ StillStale(u)]
            /\ UNCHANGED connLock
    /\ UNCHANGED <<conn, sess, sessLock, start, poll, closer, todo, prov, epoch, used>>

(* The token endpoint's answer to a refresh grant: a rotating provider     *)
(* spends the token it is shown.  The answer may be lost on the way.       *)
RefreshTokenAnswer(p) ==
    LET t == conn[call[p].user].refresh
        Is(a, n) == call' = [call EXCEPT ![p].pc = "answered", ![p].answer = a, ![p].token = n]
        Rotates == prov' = [prov EXCEPT !.minted = Minted, !.spent = @ \cup {t}]
    IN
    /\ call[p].pc = "calling"
    /\ \/ /\ Live(t) /\ CanMint /\ Rotates /\ Is("ok", Minted)
          /\ UNCHANGED <<seen, used>>
       \/ /\ Live(t) /\ Is("access_only", NoToken) /\ Use("access_only")
          /\ UNCHANGED <<seen, prov>>
       \/ /\ ~Live(t) /\ Is("terminal", NoToken)
          /\ seen' = [seen EXCEPT !.replayed = @ \/ t \in prov.spent]
          /\ UNCHANGED <<used, prov>>
       \/ /\ Is("transient", NoToken) /\ Use("transient")
          /\ UNCHANGED <<seen, prov>>
       \/ /\ Live(t) /\ CanMint /\ Rotates /\ Is("transient", NoToken) /\ Use("lost")
          /\ seen' = [seen EXCEPT !.lost = TRUE]
    /\ UNCHANGED <<conn, sess, connLock, sessLock, start, poll, closer, todo, epoch>>

Unlocks(p) ==
    /\ call' = [call EXCEPT ![p] = [IdleRefresh EXCEPT !.cutoff = call[p].cutoff]]
    /\ connLock' = [connLock EXCEPT ![call[p].user] = NoOne]

RotatedToken(p) == IF call[p].token # NoToken THEN call[p].token ELSE conn[call[p].user].refresh

PersistRotation(p) ==
    /\ call[p].pc = "answered"
    /\ call[p].answer \in {"ok", "access_only"}
    /\ conn' = [conn EXCEPT ![call[p].user] =
                    [@ EXCEPT !.fresh = TRUE, !.refresh = RotatedToken(p), !.last = epoch]]
    /\ Unlocks(p)
    /\ UNCHANGED <<sess, sessLock, start, poll, closer, todo, prov, epoch, seen, used>>

(* A terminal answer flips the row and notifies in the same transaction.   *)
(* _notify_needs_reauth swallows its exception, but a failed flush has     *)
(* rolled the transaction back: the commit that follows raises and the     *)
(* flip is gone, with the rest of the sweep when the sweeper made it.      *)
FlipNeedsReauth_Transient(p) ==
    /\ call[p].pc = "answered"
    /\ call[p].answer = "terminal"
    /\ Unlocks(p)
    /\ UNCHANGED <<conn, sess, sessLock, start, poll, closer, todo, prov, epoch, seen, used>>

FlipNeedsReauth(p) ==
    /\ call[p].pc = "answered"
    /\ call[p].answer = "terminal"
    /\ conn' = [conn EXCEPT ![call[p].user].status = "needs_reauth"]
    /\ Unlocks(p)
    /\ UNCHANGED <<sess, sessLock, start, poll, closer, todo, prov, epoch, seen, used>>

NotifyFails(p) ==
    /\ call[p].pc = "answered"
    /\ call[p].answer = "terminal"
    /\ Use("notify")
    /\ seen' = [seen EXCEPT !.flipLost = TRUE]
    /\ todo' = IF p = Sweeper THEN {} ELSE todo
    /\ Unlocks(p)
    /\ UNCHANGED <<conn, sess, sessLock, start, poll, closer, prov, epoch>>

RefreshFails(p) ==
    /\ call[p].pc = "answered"
    /\ call[p].answer = "transient"
    /\ Unlocks(p)
    /\ UNCHANGED <<conn, sess, sessLock, start, poll, closer, todo, prov, epoch, seen, used>>

(* The process dies with the transaction open: an answer it had is lost.   *)
Crash(p) ==
    /\ call[p].pc \in {"calling", "answered"}
    /\ Use("crash")
    /\ seen' = [seen EXCEPT !.lost = @ \/ call[p].token # NoToken]
    /\ todo' = IF p = Sweeper THEN {} ELSE todo
    /\ Unlocks(p)
    /\ UNCHANGED <<conn, sess, sessLock, start, poll, closer, prov, epoch>>

-----------------------------------------------------------------------------
(* _do_refresh_due_connections: the due rows are listed without a lock;    *)
(* each is locked, checked again against the cutoff of the sweep and       *)
(* refreshed in its own transaction; expired device sessions go last.      *)

Due(u, cutoff) == conn[u] # NoRow /\ conn[u].status = "connected" /\ conn[u].last < cutoff

SweepLists ==
    /\ call[Sweeper].pc = "idle"
    /\ todo = {}
    /\ \E u \in Users : Due(u, epoch) \/ (sess[u] # NoRow /\ sess[u].expired)
    /\ todo' = {u \in Users : Due(u, epoch)} \cup {"purge"}
    /\ call' = [call EXCEPT ![Sweeper].cutoff = epoch]
    /\ UNCHANGED <<conn, sess, connLock, sessLock, start, poll, closer, prov, epoch, seen, used>>

SweepDue(u) == Due(u, call[Sweeper].cutoff)

SweepLocks(u) ==
    /\ call[Sweeper].pc = "idle"
    /\ u \in todo
    /\ connLock[u] = NoOne
    /\ todo' = todo \ {u}
    /\ IF SweepDue(u) /\ conn[u].refresh # NoToken
       THEN Locks(Sweeper, u)
       ELSE UNCHANGED <<call, connLock>>
    /\ UNCHANGED <<conn, sess, sessLock, start, poll, closer, prov, epoch, seen, used>>

Purged == {u \in Users : sess[u] # NoRow /\ sess[u].expired}

SweepPurges ==
    /\ call[Sweeper].pc = "idle"
    /\ todo = {"purge"}
    /\ \A u \in Purged : sessLock[u] = NoOne
    /\ sess' = [u \in Users |-> IF u \in Purged THEN NoRow ELSE sess[u]]
    /\ todo' = {}
    /\ UNCHANGED <<conn, connLock, sessLock, start, poll, call, closer, prov, epoch, seen, used>>

-----------------------------------------------------------------------------
(* The environment: the user at the provider's pages, and time.            *)

UserDecides(c) ==
    /\ prov.codes[c] = "pending"
    /\ \E s \in {"granted", "denied"} : prov' = [prov EXCEPT !.codes[c] = s]
    /\ UNCHANGED <<conn, sess, connLock, sessLock, start, poll, call, closer, todo, epoch, seen, used>>

CodeExpires(c) ==
    /\ prov.codes[c] \in {"pending", "granted", "denied", "consumed"}
    /\ \A u \in Users : start[u] # c
    /\ prov' = [prov EXCEPT !.codes[c] = "expired"]
    /\ sess' = [u \in Users |-> IF sess[u] # NoRow /\ sess[u].code = c
                                THEN [sess[u] EXCEPT !.expired = TRUE] ELSE sess[u]]
    /\ UNCHANGED <<conn, connLock, sessLock, start, poll, call, closer, todo, epoch, seen, used>>

UserRevokes(t) ==
    /\ t <= prov.minted /\ Live(t)
    /\ Use("revoke")
    /\ prov' = [prov EXCEPT !.revoked = @ \cup {t}]
    /\ UNCHANGED <<conn, sess, connLock, sessLock, start, poll, call, closer, todo, epoch, seen>>

PollIntervalElapses(u) ==
    /\ sess[u] # NoRow /\ sess[u].polled /\ sessLock[u] = NoOne
    /\ sess' = [sess EXCEPT ![u].polled = FALSE]
    /\ UNCHANGED <<conn, connLock, sessLock, start, poll, call, closer, todo, prov, epoch, seen, used>>

AccessTokenAges(u) ==
    /\ conn[u] # NoRow /\ conn[u].fresh
    /\ connLock[u] = NoOne
    /\ conn' = [conn EXCEPT ![u].fresh = FALSE]
    /\ UNCHANGED <<sess, connLock, sessLock, start, poll, call, closer, todo, prov, epoch, seen, used>>

EpochPasses ==
    /\ epoch < MaxEpoch
    /\ epoch' = epoch + 1
    /\ UNCHANGED <<conn, sess, connLock, sessLock, start, poll, call, closer, todo, prov, seen, used>>

(* What a poll that has read its row does next. *)
PollGoesOn(p) ==
    \/ PollStamps(p) \/ DeviceTokenAnswer(p)
    \/ PollStaysPending(p) \/ PollRefused(p) \/ PollFails(p) \/ PollConnects(p)
PollStep(p) == (\E u \in Users : PollReads(p, u)) \/ PollGoesOn(p)
RefreshStep(p) ==
    \/ RefreshTokenAnswer(p) \/ PersistRotation(p) \/ FlipNeedsReauth(p)
    \/ NotifyFails(p) \/ RefreshFails(p)
CallerStep(p) == (\E u \in Users : FastPath(p, u)) \/ SlowPath(p) \/ RefreshStep(p)
SweepStep == SweepLists \/ (\E u \in Users : SweepLocks(u)) \/ SweepPurges \/ RefreshStep(Sweeper)
Environment ==
    \/ \E c \in Codes : UserDecides(c) \/ CodeExpires(c)
    \/ \E t \in Tokens : UserRevokes(t)
    \/ \E u \in Users : PollIntervalElapses(u) \/ AccessTokenAges(u)
    \/ EpochPasses
    \/ \E p \in Refreshers : Crash(p)

Next ==
    \/ \E u \in Users : PostDeviceAuthorize(u) \/ StartDeviceAuth(u)
    \/ \E p \in Polls : PollStep(p)
    \/ \E d \in Closers : (\E u \in Users : DisconnectReads(d, u)) \/ DisconnectUserConnection(d)
    \/ \E p \in Callers : CallerStep(p)
    \/ SweepStep
    \/ Environment

Spec == Init /\ [][Next]_vars

-----------------------------------------------------------------------------
TypeOK ==
    /\ conn \in [Users -> UserOAuthConnectionRow \cup {NoRow}]
    /\ sess \in [Users -> UserOAuthDeviceSessionRow \cup {NoRow}]
    /\ connLock \in [Users -> Refreshers \cup {NoOne}]
    /\ sessLock \in [Users -> Polls \cup {NoOne}]
    /\ start \in [Users -> Codes \cup {NoCode}]
    /\ poll \in [Polls -> PollType]
    /\ call \in [Refreshers -> RefreshType]
    /\ closer \in [Closers -> Users \cup {NoOne}]
    /\ todo \subseteq Users \cup {"purge"}
    /\ prov \in ProviderType
    /\ epoch \in 0 .. MaxEpoch
    /\ seen \in SeenType
    /\ used \in [DOMAIN Bounds -> Nat]
    /\ \A u \in Users : connLock[u] # NoOne => conn[u] # NoRow /\ call[connLock[u]].user = u
    /\ \A u \in Users : sessLock[u] # NoOne => sess[u] # NoRow /\ poll[sessLock[u]].user = u

Refreshing(p, u) == call[p].user = u /\ call[p].pc \in {"calling", "answered"}

(* A spent refresh token is shown to the provider a second time only after *)
(* an answer was lost: consumers and the sweeper never refresh the same    *)
(* row twice (the re-checks under FOR UPDATE).                             *)
NoTokenReplay == seen.replayed => seen.lost

(* Between refreshes the stored refresh token is the one the provider      *)
(* handed out last, unless the answer that carried it was lost.            *)
StoredTokenUnspent ==
    \A u \in Users :
        (conn[u] # NoRow /\ ~seen.lost /\ \A p \in Refreshers : ~Refreshing(p, u))
            => conn[u].refresh \notin prov.spent

(* Nobody spends a refresh token on a row that another refresh renewed     *)
(* while it waited for the lock: the checks made before the lock are made  *)
(* again under it, the sweeper's against the cutoff its sweep began with.  *)
NoNeedlessRefresh ==
    \A u \in Users :
        /\ connLock[u] \in Callers => ~conn[u].fresh
        /\ connLock[u] = Sweeper => conn[u].last < call[Sweeper].cutoff

(* A device session and a connection made from it never coexist: the grant *)
(* that consumed the code took the session with it, so no client keeps     *)
(* polling a consumed code (unless the grant itself failed to commit).     *)
ConsumedCodeNotPolled ==
    \A u \in Users :
        (sess[u] # NoRow /\ sessLock[u] = NoOne /\ prov.codes[sess[u].code] = "consumed")
            => \E p \in Polls : poll[p].code = sess[u].code /\ poll[p].pc # "idle"

DeadRow(u) ==
    /\ conn[u] # NoRow /\ conn[u].status = "connected"
    /\ conn[u].refresh # NoToken /\ ~Live(conn[u].refresh)
    /\ conn[u].last < epoch

-----------------------------------------------------------------------------
(* What comments and documentation say, and the code does not do.          *)

(* "Stamp last_polled_at before the upstream call so concurrent requests   *)
(* also see the cooldown immediately": no poll calls the provider for a    *)
(* row whose cooldown is running.                                          *)
CooldownSeen == \A p \in Polls : poll[p].pc = "calling" => ~poll[p].hot

(* "re-starting the flow always uses fresh codes": an answer about one     *)
(* code never removes the session of another.                              *)
FreshSessionKept ==
    [][\A p \in Polls : PollRefused(p) => sess[poll[p].user].code = poll[p].code]_vars

(* "the flip's commit must not be lost to a notification failure". *)
FlipSurvives == ~seen.flipLost

(* "Audits oauth_connection.disconnected iff removed". *)
AuditedIffRemoved == seen.audited = seen.removed

(* ConnectionNeedsReauthError: "row is needs_reauth, or a terminal OAuth   *)
(* error flips it".                                                        *)
NeedsReauthRecorded == ~seen.unrecorded
=============================================================================
