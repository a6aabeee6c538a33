----------------------- MODULE OAuthConnectionsProof -----------------------
(***************************************************************************)
(* Safety of the user-OAuth connections, for any number of users, of       *)
(* requests that poll, refresh and disconnect, and any number of faults.   *)
(* OAuthAssumption, which the checked instances evaluate, is a hypothesis. *)
(*                                                                         *)
(* A rotating provider takes a refresh token once.  That nobody shows it a *)
(* second time rests on two things the code never says in one place: a     *)
(* token is stored, or carried by the one request that was given it, never *)
(* both, and whoever is about to use a stored token holds its row's lock.  *)
(* The same holds of device codes, the lock of their session and the polls.*)
(***************************************************************************)
EXTENDS OAuthConnections, TLAPS

-----------------------------------------------------------------------------
(* The inductive invariant.                                                 *)

\* The columns, requests and answers are in their ranges.
Types ==
    /\ conn \in [Users -> UserOAuthConnectionRow \cup {NoRow}]
    /\ sess \in [Users -> UserOAuthDeviceSessionRow \cup {NoRow}]
    /\ connLock \in [Users -> Refreshers \cup {NoOne}]
    /\ sessLock \in [Users -> Polls \cup {NoOne}]
    /\ start \in [Users -> Codes \cup {NoCode}]
    /\ poll \in [Polls -> PollType]
    /\ call \in [Refreshers -> RefreshType]
    /\ closer \in [Closers -> Users \cup {NoOne}]
    /\ todo \subseteq Users \cup {"purge"}
    /\ prov \in ProviderType
    /\ epoch \in 0 .. MaxEpoch
    /\ seen \in SeenType
    /\ used \in [DOMAIN Bounds -> Nat]

\* The refresh token stored for user u.
RowToken(u) == IF conn[u] = NoRow THEN NoToken ELSE conn[u].refresh

\* A refresh calls the provider under the lock of a row that has a token ...
ConnLocks ==
    /\ \A u \in Users : connLock[u] # NoOne => Refreshing(connLock[u], u) /\ RowToken(u) # NoToken
    /\ \A p \in Refreshers : call[p].pc \in {"calling", "answered"} => connLock[call[p].user] = p

\* ... and a poll under the lock of a device session, which nobody deletes.
Polling(p, u) == poll[p].user = u /\ poll[p].pc \in {"calling", "answered"}

SessLocks ==
    /\ \A u \in Users : sessLock[u] # NoOne => Polling(sessLock[u], u) /\ sess[u] # NoRow
    /\ \A p \in Polls : poll[p].pc \in {"calling", "answered"} => sessLock[poll[p].user] = p

\* A refresh has the token of the answer it got, and none otherwise.
AnswersCarried ==
    \A p \in Refreshers : call[p].token # NoToken <=> call[p].pc = "answered" /\ call[p].answer = "ok"

\* A refresh token is in one place: a row, the answer of a refresh or the
\* answer of a poll.
TokensApart ==
    /\ \A u, v \in Users : RowToken(u) # NoToken /\ RowToken(u) = RowToken(v) => u = v
    /\ \A p, q \in Refreshers : call[p].token # NoToken /\ call[p].token = call[q].token => p = q
    /\ \A p, q \in Polls : poll[p].token # NoToken /\ poll[p].token = poll[q].token => p = q
    /\ \A u \in Users, p \in Refreshers : call[p].token # NoToken => call[p].token # RowToken(u)
    /\ \A u \in Users, p \in Polls : poll[p].token # NoToken => poll[p].token # RowToken(u)
    /\ \A p \in Refreshers, q \in Polls : call[p].token # NoToken => call[p].token # poll[q].token

\* Nothing is newer than the last token minted, and an answer is never spent.
TokensMinted ==
    /\ prov.spent \subseteq 1 .. prov.minted
    /\ \A u \in Users : RowToken(u) <= prov.minted
    /\ \A p \in Refreshers : call[p].token <= prov.minted /\ call[p].token \notin prov.spent
    /\ \A p \in Polls : poll[p].token <= prov.minted /\ poll[p].token \notin prov.spent

\* A row has a spent token while the refresh that spent it is being answered,
\* or after an answer was lost.
SpentInHand ==
    \A u \in Users : RowToken(u) \in prov.spent /\ ~seen.lost
        => connLock[u] # NoOne /\ call[connLock[u]].pc = "answered" /\ call[connLock[u]].answer = "ok"

\* A code belongs to one user: to a start request, then to the device session
\* it is stored in and to the polls that read it there.
CodesOwned ==
    /\ \A u \in Users : start[u] # NoCode => prov.codes[start[u]] \in {"pending", "granted", "denied"}
    /\ \A u, v \in Users : start[u] # NoCode /\ start[u] = start[v] => u = v
    /\ \A u \in Users : sess[u] # NoRow => prov.codes[sess[u].code] # "unissued"
    /\ \A u, v \in Users : sess[u] # NoRow => sess[u].code # start[v]
    /\ \A u, v \in Users : sess[u] # NoRow /\ sess[v] # NoRow /\ sess[u].code = sess[v].code => u = v
    /\ \A p \in Polls : poll[p].pc # "idle" => poll[p].code # NoCode /\ prov.codes[poll[p].code] # "unissued"
    /\ \A p \in Polls, u \in Users : poll[p].pc # "idle" => poll[p].code # start[u]
    /\ \A p \in Polls, u \in Users :
         poll[p].pc # "idle" /\ sess[u] # NoRow /\ poll[p].code = sess[u].code => poll[p].user = u

\* While a session has a consumed code, the poll that consumed it has the lock
\* and will take the session with it.
ConsumedInHand ==
    \A u \in Users : sess[u] # NoRow /\ prov.codes[sess[u].code] = "consumed"
        => /\ sessLock[u] # NoOne /\ poll[sessLock[u]].pc = "answered"
           /\ poll[sessLock[u]].answer \in {"ok", "access_only"}

ConnInv ==
    /\ ConnLocks /\ AnswersCarried /\ TokensApart /\ TokensMinted /\ SpentInHand
    /\ NoTokenReplay /\ NoNeedlessRefresh

SessInv == SessLocks /\ CodesOwned /\ ConsumedInHand

OInv == Types /\ ConnInv /\ SessInv

-----------------------------------------------------------------------------
(* Rows and types.                                                          *)

\* A row is there, or it is not.
LEMMA RowsApart ==
  ASSUME NEW R, R \in UserOAuthConnectionRow \/ R \in UserOAuthDeviceSessionRow
  PROVE  R # NoRow
<1>1. CASE R \in UserOAuthConnectionRow
  BY <1>1 DEF UserOAuthConnectionRow, NoRow
<1>2. CASE R \in UserOAuthDeviceSessionRow
  BY <1>2 DEF UserOAuthDeviceSessionRow, NoRow
<1> QED
  BY <1>1, <1>2

\* Tokens are numbers.
LEMMA TokensTyped ==
  ASSUME OAuthAssumption, Types
  PROVE  /\ prov.minted \in Nat /\ prov.minted <= MaxTokens
         /\ \A u \in Users : RowToken(u) \in Nat
         /\ \A p \in Refreshers : call[p].token \in Nat
         /\ \A p \in Polls : poll[p].token \in Nat
<1>1. ASSUME NEW u \in Users PROVE RowToken(u) \in Nat
  <2>1. CASE conn[u] = NoRow
    BY <2>1 DEF RowToken, NoToken
  <2>2. CASE conn[u] \in UserOAuthConnectionRow
    BY <2>2, RowsApart DEF RowToken, UserOAuthConnectionRow, Tokens, NoToken
  <2> QED
    BY <2>1, <2>2 DEF Types
<1>2. prov.minted \in Nat /\ prov.minted <= MaxTokens
  BY DEF Types, ProviderType, OAuthAssumption
<1>3. \A t \in Tokens \cup {NoToken} : t \in Nat
  BY DEF Tokens, NoToken
<1>4. ASSUME NEW p \in Refreshers PROVE call[p].token \in Tokens \cup {NoToken}
  BY DEF Types, RefreshType
<1>5. ASSUME NEW p \in Polls PROVE poll[p].token \in Tokens \cup {NoToken}
  BY DEF Types, PollType
<1> QED
  BY <1>1, <1>2, <1>3, <1>4, <1>5

\* A fault uses up its bound.
LEMMA UseTyped ==
  ASSUME Types, NEW k, Use(k)
  PROVE  used' \in [DOMAIN Bounds -> Nat]
<1> DEFINE D == DOMAIN Bounds
<1>1. used \in [D -> Nat] /\ used' = [used EXCEPT ![k] = @ + 1]
  BY DEF Types, Use
<1> HIDE DEF D
<1>2. used' = [x \in D |-> IF x = k THEN used[k] + 1 ELSE used[x]]
  BY <1>1
<1>3. ASSUME NEW x \in D PROVE (IF x = k THEN used[k] + 1 ELSE used[x]) \in Nat
  BY <1>1
<1>4. used' \in [D -> Nat]
  BY <1>2, <1>3
<1> QED
  BY <1>4 DEF D

\* The requests at rest.
LEMMA IdleTyped ==
  ASSUME OAuthAssumption
  PROVE  /\ IdleRefresh \in RefreshType /\ IdleRefresh.pc = "idle" /\ IdleRefresh.token = NoToken
         /\ IdlePoll \in PollType /\ IdlePoll.pc = "idle" /\ IdlePoll.token = NoToken
<1>1. AnyUser \in Users
  BY DEF AnyUser, OAuthAssumption
<1>2. 0 \in 0 .. MaxEpoch
  BY DEF OAuthAssumption
<1> QED
  BY <1>1, <1>2 DEF IdleRefresh, IdlePoll, RefreshType, PollType, RefreshAnswers, DeviceAnswers

\* The state at start.
LEMMA InitOInv == ASSUME OAuthAssumption, Init PROVE OInv
<1>1. Types
  <2>1. prov \in ProviderType
    BY DEF Init, ProviderType, CodeStates, OAuthAssumption
  <2>2. seen \in SeenType
    BY DEF Init, SeenType
  <2>3. used \in [DOMAIN Bounds -> Nat]
    BY DEF Init
  <2>4. epoch \in 0 .. MaxEpoch
    BY DEF Init, OAuthAssumption
  <2> QED
    BY <2>1, <2>2, <2>3, <2>4, IdleTyped DEF Init, Types
<1>2. /\ \A u \in Users : /\ conn[u] = NoRow /\ sess[u] = NoRow /\ connLock[u] = NoOne
                          /\ sessLock[u] = NoOne /\ start[u] = NoCode
      /\ \A p \in Refreshers : call[p].pc = "idle" /\ call[p].token = NoToken
      /\ \A p \in Polls : poll[p].pc = "idle" /\ poll[p].token = NoToken
      /\ prov.minted = 0 /\ prov.spent = {} /\ seen.replayed = FALSE
  BY IdleTyped DEF Init
<1>3. \A u \in Users : RowToken(u) = NoToken
  BY <1>2 DEF RowToken
<1>4. ConnLocks /\ AnswersCarried /\ TokensApart /\ SpentInHand /\ NoTokenReplay
  BY <1>2, <1>3 DEF ConnLocks, AnswersCarried, TokensApart, SpentInHand, NoTokenReplay
<1>6. TokensMinted
  BY <1>2, <1>3 DEF TokensMinted, NoToken
<1>7. NoNeedlessRefresh
  BY <1>2 DEF NoNeedlessRefresh, OAuthAssumption, Sweeper, NoOne
<1>5. SessInv
  BY <1>2 DEF SessInv, SessLocks, CodesOwned, ConsumedInHand
<1> QED
  BY <1>1, <1>4, <1>5, <1>6, <1>7 DEF OInv, ConnInv

-----------------------------------------------------------------------------
(* What an action leaves alone.                                             *)

\* No step of a poll but a grant concerns the connections.
LEMMA ConnKept ==
  ASSUME OAuthAssumption, OInv, conn' = conn, connLock' = connLock, call' = call,
         prov'.minted = prov.minted, prov'.spent = prov.spent,
         seen'.lost = seen.lost, seen'.replayed = seen.replayed,
         \A p \in Polls : poll'[p].token \in {poll[p].token, NoToken}
  PROVE  ConnInv'
<1>1. \A u \in Users : RowToken(u)' = RowToken(u)
  BY DEF RowToken
<1>2. ConnLocks' /\ AnswersCarried'
  BY <1>1 DEF OInv, ConnInv, ConnLocks, AnswersCarried, Refreshing
<1>3. TokensApart'
  BY <1>1 DEF OInv, ConnInv, TokensApart
<1>4. TokensMinted'
  <2>1. NoToken <= prov.minted /\ NoToken \notin prov.spent
    BY TokensTyped DEF OInv, ConnInv, TokensMinted, NoToken
  <2> QED
    BY <1>1, <2>1 DEF OInv, ConnInv, TokensMinted
<1>5. SpentInHand' /\ NoTokenReplay'
  BY <1>1 DEF OInv, ConnInv, SpentInHand, NoTokenReplay
<1>6. NoNeedlessRefresh'
  BY DEF OInv, ConnInv, NoNeedlessRefresh
<1> QED
  BY <1>2, <1>3, <1>4, <1>5, <1>6 DEF ConnInv

\* Refreshes do not concern the device sessions.
LEMMA SessKept ==
  ASSUME OInv, sess' = sess, sessLock' = sessLock, start' = start, poll' = poll,
         prov'.codes = prov.codes
  PROVE  SessInv'
<1>1. SessLocks' /\ CodesOwned'
  BY DEF OInv, SessInv, SessLocks, CodesOwned, Polling
<1>2. ConsumedInHand'
  BY DEF OInv, SessInv, ConsumedInHand
<1> QED
  BY <1>1, <1>2 DEF SessInv

-----------------------------------------------------------------------------
(* The device-code handshake.                                               *)

\* A fresh code: nobody has it yet.
LEMMA PostDeviceAuthorizeKeeps ==
  ASSUME OAuthAssumption, OInv, NEW u \in Users, PostDeviceAuthorize(u)
  PROVE  OInv'
<1>1. PICK c \in Codes : /\ prov.codes[c] = "unissued"
                         /\ start' = [start EXCEPT ![u] = c]
                         /\ prov' = [prov EXCEPT !.codes[c] = "pending"]
  BY DEF PostDeviceAuthorize
<1>2. /\ UNCHANGED <<conn, sess, connLock, sessLock, poll, call, closer, todo, epoch, seen, used>>
      /\ start[u] = NoCode
  BY DEF PostDeviceAuthorize
<1>3. /\ prov' \in ProviderType /\ prov'.minted = prov.minted /\ prov'.spent = prov.spent
      /\ prov'.codes = [prov.codes EXCEPT ![c] = "pending"]
  BY <1>1 DEF OInv, Types, ProviderType, CodeStates
<1>4. prov.codes \in [Codes -> CodeStates] /\ start \in [Users -> Codes \cup {NoCode}] /\ c # NoCode
  BY DEF OInv, Types, ProviderType, Codes, NoCode
<1>5. Types'
  BY <1>1, <1>2, <1>3, <1>4 DEF OInv, Types
<1>6. ConnInv'
  BY <1>2, <1>3, ConnKept
<1>7. SessLocks'
  BY <1>2 DEF OInv, SessInv, SessLocks, Polling
<1>8. CodesOwned'
  <2>1. \A v \in Users : start[v] # c
    BY <1>1, <1>4 DEF OInv, SessInv, CodesOwned
  <2>2. \A v \in Users : sess[v] # NoRow => sess[v].code # c
    BY <1>1 DEF OInv, SessInv, CodesOwned
  <2>3. \A p \in Polls : poll[p].pc # "idle" => poll[p].code # c
    BY <1>1 DEF OInv, SessInv, CodesOwned
  <2>4. \A v \in Users : start'[v] = IF v = u THEN c ELSE start[v]
    BY <1>1, <1>4
  <2>5. \A d : d # c /\ d \in Codes => prov'.codes[d] = prov.codes[d]
    BY <1>3, <1>4
  <2>6. prov'.codes[c] = "pending"
    BY <1>3, <1>4
  <2>7. \A v \in Users : sess[v] # NoRow => sess[v].code \in Codes
    BY DEF OInv, Types, UserOAuthDeviceSessionRow
  <2>8. \A p \in Polls : poll[p].pc # "idle" => poll[p].code \in Codes
    BY DEF OInv, Types, PollType, SessInv, CodesOwned
  <2>9. ASSUME NEW d \in Codes, prov.codes[d] # "unissued"
        PROVE  prov'.codes[d] # "unissued"
    BY <2>5, <2>6, <2>9
  <2>10. CodesOwned
    BY DEF OInv, SessInv
  <2>11. /\ \A v \in Users : start'[v] # NoCode => prov'.codes[start'[v]] \in {"pending", "granted", "denied"}
         /\ \A v, w \in Users : start'[v] # NoCode /\ start'[v] = start'[w] => v = w
    BY <1>4, <2>1, <2>4, <2>5, <2>6, <2>10 DEF CodesOwned
  <2>12. /\ \A v \in Users : sess[v] # NoRow => prov'.codes[sess[v].code] # "unissued"
         /\ \A v, w \in Users : sess[v] # NoRow => sess[v].code # start'[w]
    BY <2>2, <2>4, <2>7, <2>9, <2>10 DEF CodesOwned
  <2>13. /\ \A q \in Polls : poll[q].pc # "idle" => poll[q].code # NoCode /\ prov'.codes[poll[q].code] # "unissued"
         /\ \A q \in Polls, v \in Users : poll[q].pc # "idle" => poll[q].code # start'[v]
    BY <2>3, <2>4, <2>8, <2>9, <2>10 DEF CodesOwned
  <2> QED
    BY <1>2, <2>10, <2>11, <2>12, <2>13 DEF CodesOwned
<1>9. ConsumedInHand'
  <2>1. \A v \in Users : sess[v] # NoRow => sess[v].code \in Codes /\ sess[v].code # c
    BY <1>1 DEF OInv, Types, UserOAuthDeviceSessionRow, SessInv, CodesOwned
  <2> QED
    BY <1>2, <1>3, <1>4, <2>1 DEF OInv, SessInv, ConsumedInHand
<1> QED
  BY <1>5, <1>6, <1>7, <1>8, <1>9 DEF OInv, SessInv

\* The code goes from the request to the session, whose lock nobody holds.
LEMMA StartDeviceAuthKeeps ==
  ASSUME OAuthAssumption, OInv, NEW u \in Users, StartDeviceAuth(u)
  PROVE  OInv'
<1> DEFINE b == IF sess[u] = NoRow THEN FALSE ELSE sess[u].polled
           S == [code |-> start[u], slowed |-> FALSE, expired |-> FALSE, polled |-> b]
<1>1. /\ start[u] # NoCode /\ sessLock[u] = NoOne
      /\ sess' = [sess EXCEPT ![u] = S] /\ start' = [start EXCEPT ![u] = NoCode]
      /\ UNCHANGED <<conn, connLock, sessLock, poll, call, closer, todo, prov, epoch, seen, used>>
  BY DEF StartDeviceAuth
<1>2. b \in BOOLEAN
  BY DEF OInv, Types, UserOAuthDeviceSessionRow
<1> HIDE DEF b
<1>3. S \in UserOAuthDeviceSessionRow /\ S.code = start[u]
  BY <1>1, <1>2 DEF OInv, Types, UserOAuthDeviceSessionRow
<1> HIDE DEF S
<1>4. Types'
  BY <1>1, <1>3 DEF OInv, Types
<1>5. ConnInv'
  BY <1>1, ConnKept
<1>6. SessLocks'
  BY <1>1 DEF OInv, Types, SessInv, SessLocks, Polling
<1>7. /\ \A v \in Users : start'[v] = IF v = u THEN NoCode ELSE start[v]
      /\ \A v \in Users : sess'[v] = IF v = u THEN S ELSE sess[v]
  BY <1>1 DEF OInv, Types
<1>8. CodesOwned'
  <2>1. \A v \in Users : sess[v] # NoRow => sess[v].code # NoCode
    BY DEF OInv, Types, UserOAuthDeviceSessionRow, Codes, NoCode
  <2> QED
    BY <1>1, <1>3, <1>7, <2>1 DEF OInv, SessInv, CodesOwned
<1>9. ConsumedInHand'
  BY <1>1, <1>3, <1>7 DEF OInv, SessInv, CodesOwned, ConsumedInHand
<1> QED
  BY <1>4, <1>5, <1>6, <1>8, <1>9 DEF OInv, SessInv

\* A poll reads the code of the session.
LEMMA PollReadsKeeps ==
  ASSUME OAuthAssumption, OInv, NEW p \in Polls, NEW u \in Users, PollReads(p, u)
  PROVE  OInv'
<1> DEFINE P == [IdlePoll EXCEPT !.pc = "read", !.user = u, !.code = sess[u].code]
<1>1. /\ sess[u] # NoRow /\ poll[p].pc = "idle" /\ poll' = [poll EXCEPT ![p] = P]
      /\ UNCHANGED <<conn, sess, connLock, sessLock, start, call, closer, todo, prov, epoch, seen, used>>
  BY DEF PollReads
<1>2. sess[u].code \in Codes
  BY <1>1 DEF OInv, Types, UserOAuthDeviceSessionRow
<1>3. /\ P \in PollType /\ P.pc = "read" /\ P.user = u /\ P.code = sess[u].code /\ P.token = NoToken
  BY <1>2, IdleTyped DEF PollType
<1> HIDE DEF P
<1>4. \A q \in Polls : poll'[q] = IF q = p THEN P ELSE poll[q]
  BY <1>1 DEF OInv, Types
<1>5. Types'
  BY <1>1, <1>3 DEF OInv, Types
<1>6. ConnInv'
  BY <1>1, <1>3, <1>4, ConnKept
<1>7. SessLocks'
  BY <1>1, <1>3, <1>4 DEF OInv, SessInv, SessLocks, Polling
<1>8. CodesOwned'
  <2>1. sess[u].code # NoCode
    BY <1>2 DEF Codes, NoCode
  <2> QED
    BY <1>1, <1>3, <1>4, <2>1 DEF OInv, SessInv, CodesOwned
<1>9. ConsumedInHand'
  BY <1>1, <1>3, <1>4 DEF OInv, SessInv, SessLocks, ConsumedInHand, Polling
<1> QED
  BY <1>5, <1>6, <1>7, <1>8, <1>9 DEF OInv, SessInv

\* The stamp of last_polled_at waits for the lock and finds a row, or none.
LEMMA PollStampsKeeps ==
  ASSUME OAuthAssumption, OInv, NEW p \in Polls, PollStamps(p)
  PROVE  OInv'
<1> DEFINE u == poll[p].user
           P == [poll[p] EXCEPT !.pc = "calling", !.hot = sess[u].polled]
<1>1. /\ poll[p].pc = "read" /\ sessLock[u] = NoOne
      /\ UNCHANGED <<conn, sess, connLock, start, call, closer, todo, prov, epoch, seen, used>>
  BY DEF PollStamps
<1>2. u \in Users /\ poll[p] \in PollType
  BY DEF OInv, Types, PollType
<1>3. CASE sess[u] = NoRow
  <2>1. poll' = [poll EXCEPT ![p] = IdlePoll] /\ sessLock' = sessLock
    BY <1>3 DEF PollStamps
  <2>2. \A q \in Polls : poll'[q] = IF q = p THEN IdlePoll ELSE poll[q]
    BY <2>1 DEF OInv, Types
  <2>3. Types'
    BY <1>1, <2>1, IdleTyped DEF OInv, Types
  <2>4. ConnInv'
    BY <1>1, <2>2, IdleTyped, ConnKept
  <2>5. SessLocks'
    BY <1>1, <2>1, <2>2, IdleTyped DEF OInv, SessInv, SessLocks, Polling
  <2>6. CodesOwned'
    BY <1>1, <2>1, <2>2, IdleTyped DEF OInv, SessInv, CodesOwned
  <2>7. ConsumedInHand'
    BY <1>1, <2>1, <2>2, IdleTyped DEF OInv, SessInv, ConsumedInHand, SessLocks, Polling
  <2> QED
    BY <2>3, <2>4, <2>5, <2>6, <2>7 DEF OInv, SessInv
<1>4. CASE sess[u] # NoRow
  <2>1. poll' = [poll EXCEPT ![p] = P] /\ sessLock' = [sessLock EXCEPT ![u] = p]
    BY <1>2, <1>4 DEF PollStamps, PollType
  <2>2. sess[u].polled \in BOOLEAN
    BY <1>2, <1>4 DEF OInv, Types, UserOAuthDeviceSessionRow
  <2>3. /\ P \in PollType /\ P.pc = "calling" /\ P.user = u /\ P.code = poll[p].code
        /\ P.token = poll[p].token
    BY <1>2, <2>2 DEF PollType
  <2> HIDE DEF P, u
  <2>4. /\ \A q \in Polls : poll'[q] = IF q = p THEN P ELSE poll[q]
        /\ \A v \in Users : sessLock'[v] = IF v = u THEN p ELSE sessLock[v]
    BY <2>1 DEF OInv, Types
  <2>5. Types'
    BY <1>1, <1>2, <2>1, <2>3 DEF OInv, Types
  <2>6. ConnInv'
    BY <1>1, <2>3, <2>4, ConnKept
  <2>7. SessLocks'
    <3>1. \A q \in Polls : poll[q].user \in Users /\ q # NoOne
      BY DEF OInv, Types, PollType, OAuthAssumption
    <3>2. \A v \in Users : sessLock[v] \in Polls \cup {NoOne}
      BY DEF OInv, Types
    <3> QED
      BY <1>1, <1>2, <1>4, <2>3, <2>4, <3>1, <3>2 DEF OInv, SessInv, SessLocks, Polling
  <2>8. CodesOwned'
    BY <1>1, <2>3, <2>4 DEF OInv, SessInv, CodesOwned, u
  <2>9. ConsumedInHand'
    <3>1. \A v \in Users : sessLock[v] # NoOne => sessLock[v] # p /\ sessLock[v] \in Polls
      BY <1>1 DEF OInv, Types, SessInv, SessLocks, Polling
    <3> QED
      BY <1>1, <2>4, <3>1 DEF OInv, SessInv, ConsumedInHand
  <2> QED
    BY <2>5, <2>6, <2>7, <2>8, <2>9 DEF OInv, SessInv
<1> QED
  BY <1>3, <1>4

\* What a poll that holds its session does to the invariant of the sessions,
\* whatever it is answered.
LEMMA AnsweredPoll ==
  ASSUME OAuthAssumption, OInv, NEW p \in Polls, poll[p].pc = "calling",
         NEW a \in DeviceAnswers, NEW t \in Tokens \cup {NoToken}, Answered(p, a, t),
         prov' \in ProviderType, used' \in [DOMAIN Bounds -> Nat],
         UNCHANGED <<conn, sess, connLock, sessLock, start, call, closer, todo, epoch, seen>>,
         \/ prov'.codes = prov.codes
         \/ /\ prov.codes[poll[p].code] = "granted" /\ a \in {"ok", "access_only"}
            /\ prov'.codes = [prov.codes EXCEPT ![poll[p].code] = "consumed"]
  PROVE  /\ Types' /\ SessInv'
         /\ \A q \in Polls : poll'[q].token = IF q = p THEN t ELSE poll[q].token
<1> DEFINE P == [poll[p] EXCEPT !.pc = "answered", !.answer = a, !.token = t]
           c == poll[p].code
<1>1. poll[p] \in PollType
  BY DEF OInv, Types
<1>2. poll' = [poll EXCEPT ![p] = P]
  BY <1>1 DEF Answered
<1>3. /\ P \in PollType /\ P.pc = "answered" /\ P.answer = a /\ P.token = t /\ P.user = poll[p].user
      /\ P.code = c
  BY <1>1 DEF PollType
<1> HIDE DEF P
<1>4. \A q \in Polls : poll'[q] = IF q = p THEN P ELSE poll[q]
  BY <1>2 DEF OInv, Types
<1>5. Types'
  BY <1>2, <1>3 DEF OInv, Types
<1>6. SessLocks'
  <2>1. \A v \in Users : sessLock[v] \in Polls \cup {NoOne}
    BY DEF OInv, Types
  <2> QED
    BY <1>3, <1>4, <2>1 DEF OInv, SessInv, SessLocks, Polling
<1>7. /\ prov.codes \in [Codes -> CodeStates]
      /\ \A d \in Codes : prov.codes[d] # "unissued" => prov'.codes[d] # "unissued"
      /\ \A d \in Codes : d # c => prov'.codes[d] = prov.codes[d]
  BY DEF OInv, Types, ProviderType
<1>8. CodesOwned'
  <2>1. CodesOwned
    BY DEF OInv, SessInv
  <2>2. c # NoCode /\ \A v \in Users : start[v] # c
    BY <2>1 DEF CodesOwned
  <2>3. /\ \A v \in Users : sess[v] # NoRow => sess[v].code \in Codes
        /\ \A v \in Users : start[v] # NoCode => start[v] \in Codes
    BY DEF OInv, Types, UserOAuthDeviceSessionRow
  <2>4. \A q \in Polls : poll[q].pc # "idle" => poll[q].code \in Codes
    BY <2>1 DEF OInv, Types, PollType, CodesOwned
  <2>5. \A q \in Polls : /\ poll'[q].code = poll[q].code /\ poll'[q].user = poll[q].user
                         /\ poll'[q].pc = "idle" <=> poll[q].pc = "idle"
    BY <1>3, <1>4
  <2>6. \A v \in Users : start[v] # NoCode => prov'.codes[start[v]] \in {"pending", "granted", "denied"}
    BY <1>7, <2>1, <2>2, <2>3 DEF CodesOwned
  <2>7. \A v \in Users : sess[v] # NoRow => prov'.codes[sess[v].code] # "unissued"
    BY <1>7, <2>1, <2>3 DEF CodesOwned
  <2>8. \A q \in Polls : poll'[q].pc # "idle" => poll'[q].code # NoCode /\ prov'.codes[poll'[q].code] # "unissued"
    BY <1>7, <2>1, <2>4, <2>5 DEF CodesOwned
  <2> QED
    BY <2>1, <2>5, <2>6, <2>7, <2>8 DEF CodesOwned
<1>9. ConsumedInHand'
  <2>1. /\ sessLock[poll[p].user] = p
        /\ \A v \in Users : sessLock[v] # NoOne => poll[sessLock[v]].user = v /\ sessLock[v] \in Polls
    BY DEF OInv, Types, SessInv, SessLocks, Polling
  <2>2. ASSUME NEW v \in Users, sess[v] # NoRow, prov'.codes[sess[v].code] = "consumed"
        PROVE  /\ sessLock[v] # NoOne /\ poll'[sessLock[v]].pc = "answered"
               /\ poll'[sessLock[v]].answer \in {"ok", "access_only"}
    <3>1. CASE sess[v].code = c /\ prov.codes[c] # "consumed"
      <4>1. v = poll[p].user /\ a \in {"ok", "access_only"}
        BY <2>2, <3>1 DEF OInv, SessInv, CodesOwned
      <4> QED
        BY <1>3, <1>4, <2>1, <4>1 DEF OAuthAssumption
    <3>2. CASE sess[v].code # c \/ prov.codes[c] = "consumed"
      <4>1. sess[v].code \in Codes
        BY <2>2 DEF OInv, Types, UserOAuthDeviceSessionRow
      <4>2. prov.codes[sess[v].code] = "consumed"
        BY <1>7, <2>2, <3>2, <4>1
      <4>3. sessLock[v] # NoOne /\ poll[sessLock[v]].pc = "answered" /\ poll[sessLock[v]].answer \in {"ok", "access_only"}
        BY <2>2, <4>2 DEF OInv, SessInv, ConsumedInHand
      <4> QED
        BY <1>4, <2>1, <4>3
    <3> QED
      BY <3>1, <3>2
  <2> QED
    BY <2>2 DEF ConsumedInHand
<1> QED
  BY <1>3, <1>4, <1>5, <1>6, <1>8, <1>9 DEF SessInv

\* The provider's answer: at most a grant consumes the code and mints a token.
LEMMA DeviceTokenAnswerKeeps ==
  ASSUME OAuthAssumption, OInv, NEW p \in Polls, DeviceTokenAnswer(p)
  PROVE  OInv'
<1> DEFINE c == poll[p].code
<1>1. /\ poll[p].pc = "calling"
      /\ UNCHANGED <<conn, sess, connLock, sessLock, start, call, closer, todo, epoch, seen>>
  BY DEF DeviceTokenAnswer
<1>2. c \in Codes /\ prov \in ProviderType
  BY <1>1 DEF OInv, Types, PollType, SessInv, CodesOwned
<1>3. CASE \E a \in DeviceAnswers : Answered(p, a, NoToken) /\ prov' = prov /\ (UNCHANGED used \/ Use("transient"))
  <2>1. used' \in [DOMAIN Bounds -> Nat]
    BY <1>3, UseTyped DEF OInv, Types
  <2>2. /\ Types' /\ SessInv'
        /\ \A q \in Polls : poll'[q].token = IF q = p THEN NoToken ELSE poll[q].token
    BY <1>1, <1>2, <1>3, <2>1, AnsweredPoll
  <2>3. ConnInv'
    BY <1>1, <1>3, <2>2, ConnKept
  <2> QED
    BY <2>2, <2>3 DEF OInv
<1>4. CASE /\ prov.codes[c] = "granted" /\ prov' = [prov EXCEPT !.codes[c] = "consumed"]
           /\ Answered(p, "access_only", NoToken) /\ Use("access_only")
  <2>1. used' \in [DOMAIN Bounds -> Nat]
    BY <1>4, UseTyped DEF OInv
  <2>2. /\ prov' \in ProviderType /\ prov'.codes = [prov.codes EXCEPT ![c] = "consumed"]
        /\ prov'.minted = prov.minted /\ prov'.spent = prov.spent
    BY <1>2, <1>4 DEF ProviderType, CodeStates
  <2>3. /\ Types' /\ SessInv'
        /\ \A q \in Polls : poll'[q].token = IF q = p THEN NoToken ELSE poll[q].token
    BY <1>1, <1>4, <2>1, <2>2, AnsweredPoll DEF DeviceAnswers
  <2>4. ConnInv'
    BY <1>1, <2>2, <2>3, ConnKept
  <2> QED
    BY <2>3, <2>4 DEF OInv
<1>5. CASE /\ prov.codes[c] = "granted" /\ CanMint
           /\ prov' = [prov EXCEPT !.codes[c] = "consumed", !.minted = Minted]
           /\ Answered(p, "ok", Minted) /\ UNCHANGED used
  <2>1. Minted \in Tokens /\ Minted \in 0 .. MaxTokens
    BY <1>2, <1>5 DEF CanMint, Minted, Tokens, ProviderType, OAuthAssumption
  <2>2. /\ prov' \in ProviderType /\ prov'.codes = [prov.codes EXCEPT ![c] = "consumed"]
        /\ prov'.minted = Minted /\ prov'.spent = prov.spent
    BY <1>2, <1>5, <2>1 DEF ProviderType, CodeStates
  <2>3. used' \in [DOMAIN Bounds -> Nat]
    BY <1>5 DEF OInv, Types
  <2>4. /\ Types' /\ SessInv'
        /\ \A q \in Polls : poll'[q].token = IF q = p THEN Minted ELSE poll[q].token
    <3>1. Answered(p, "ok", Minted) /\ "ok" \in DeviceAnswers /\ Minted \in Tokens \cup {NoToken}
      BY <1>5, <2>1 DEF DeviceAnswers
    <3>2. prov.codes[c] = "granted"
      BY <1>5
    <3> QED
      BY <1>1, <2>2, <2>3, <3>1, <3>2, AnsweredPoll
  <2>5. \A u \in Users : RowToken(u)' = RowToken(u)
    BY <1>1 DEF RowToken
  <2>6. /\ prov.minted \in Nat /\ Minted = prov.minted + 1
        /\ \A u \in Users : RowToken(u) \in Nat /\ RowToken(u) <= prov.minted
        /\ \A q \in Refreshers : call[q].token \in Nat /\ call[q].token <= prov.minted
        /\ \A q \in Polls : poll[q].token \in Nat /\ poll[q].token <= prov.minted
        /\ \A t \in prov.spent : t \in Nat /\ t <= prov.minted
    BY TokensTyped DEF OInv, ConnInv, TokensMinted, Minted
  <2>7. TokensApart'
    BY <1>1, <2>4, <2>5, <2>6 DEF OInv, ConnInv, TokensApart
  <2>8. TokensMinted'
    <3>1. prov'.spent \subseteq 1 .. prov'.minted
      BY <2>2, <2>6 DEF OInv, ConnInv, TokensMinted
    <3>2. \A u \in Users : RowToken(u)' <= prov'.minted
      BY <2>2, <2>5, <2>6
    <3>3. \A q \in Refreshers : call'[q].token <= prov'.minted /\ call'[q].token \notin prov'.spent
      BY <1>1, <2>2, <2>6 DEF OInv, ConnInv, TokensMinted
    <3>4. \A q \in Polls : poll'[q].token <= prov'.minted /\ poll'[q].token \notin prov'.spent
      BY <2>2, <2>4, <2>6 DEF OInv, ConnInv, TokensMinted
    <3> QED
      BY <3>1, <3>2, <3>3, <3>4 DEF TokensMinted
  <2>9. ConnLocks' /\ AnswersCarried' /\ SpentInHand' /\ NoTokenReplay' /\ NoNeedlessRefresh'
    BY <1>1, <2>2, <2>5 DEF OInv, ConnInv, ConnLocks, AnswersCarried, SpentInHand, NoTokenReplay,
                            NoNeedlessRefresh, Refreshing
  <2> QED
    BY <2>4, <2>7, <2>8, <2>9 DEF OInv, ConnInv
<1>6. \/ \E a \in DeviceAnswers : Answered(p, a, NoToken) /\ prov' = prov /\ (UNCHANGED used \/ Use("transient"))
      \/ /\ prov.codes[c] = "granted" /\ prov' = [prov EXCEPT !.codes[c] = "consumed"]
         /\ Answered(p, "access_only", NoToken) /\ Use("access_only")
      \/ /\ prov.codes[c] = "granted" /\ CanMint
         /\ prov' = [prov EXCEPT !.codes[c] = "consumed", !.minted = Minted]
         /\ Answered(p, "ok", Minted) /\ UNCHANGED used
  BY DEF DeviceTokenAnswer, DeviceAnswers
<1> QED
  BY <1>3, <1>4, <1>5, <1>6

\* The end of a poll that held its session: the session is gone, or it is the
\* one the answer left alone.
LEMMA EndedPoll ==
  ASSUME OAuthAssumption, OInv, NEW p \in Polls, poll[p].pc = "answered", PollEnds(p),
         UNCHANGED <<start, prov>>,
         NEW X, sess' = [sess EXCEPT ![poll[p].user] = X],
         \/ X = NoRow
         \/ /\ X \in UserOAuthDeviceSessionRow /\ X.code = sess[poll[p].user].code
            /\ poll[p].answer \notin {"ok", "access_only"}
  PROVE  /\ SessInv'
         /\ sess' \in [Users -> UserOAuthDeviceSessionRow \cup {NoRow}]
         /\ sessLock' \in [Users -> Polls \cup {NoOne}] /\ poll' \in [Polls -> PollType]
         /\ \A q \in Polls : poll'[q].token = IF q = p THEN NoToken ELSE poll[q].token
<1> DEFINE u == poll[p].user
<1>1. u \in Users /\ sessLock[u] = p /\ sess[u] # NoRow
  BY DEF OInv, Types, PollType, SessInv, SessLocks, OAuthAssumption
<1>2. poll' = [poll EXCEPT ![p] = IdlePoll] /\ sessLock' = [sessLock EXCEPT ![u] = NoOne]
  BY DEF PollEnds
<1>3. /\ \A q \in Polls : poll'[q] = IF q = p THEN IdlePoll ELSE poll[q]
      /\ \A v \in Users : sessLock'[v] = IF v = u THEN NoOne ELSE sessLock[v]
      /\ \A v \in Users : sess'[v] = IF v = u THEN X ELSE sess[v]
  BY <1>2 DEF OInv, Types
<1>4. /\ sess' \in [Users -> UserOAuthDeviceSessionRow \cup {NoRow}]
      /\ sessLock' \in [Users -> Polls \cup {NoOne}] /\ poll' \in [Polls -> PollType]
  BY <1>2, IdleTyped DEF OInv, Types
<1>5. SessLocks /\ CodesOwned /\ ConsumedInHand
  BY DEF OInv, SessInv
<1>6. SessLocks'
  <2>1. ASSUME NEW v \in Users, v # u, sessLock[v] # NoOne PROVE sessLock[v] # p /\ sessLock[v] \in Polls
    BY <2>1 DEF OInv, Types, SessInv, SessLocks, Polling
  <2>2. ASSUME NEW q \in Polls, q # p, poll[q].pc \in {"calling", "answered"}
        PROVE  poll[q].user # u /\ poll[q].user \in Users
    BY <1>1, <2>2 DEF OInv, Types, PollType, SessInv, SessLocks
  <2> HIDE DEF u
  <2>3. \A v \in Users : sessLock'[v] # NoOne => Polling(sessLock[v], v)' /\ sess'[v] # NoRow /\ sessLock'[v] = sessLock[v]
    BY <1>3, <1>5, <2>1 DEF SessLocks, Polling
  <2>4. \A q \in Polls : poll'[q].pc \in {"calling", "answered"} => sessLock'[poll'[q].user] = q
    BY <1>3, <1>5, <2>2, IdleTyped DEF SessLocks
  <2> QED
    BY <2>3, <2>4 DEF SessLocks, Polling
<1>7. CodesOwned'
  <2>1. \A v \in Users : sess'[v] # NoRow => sess[v] # NoRow /\ sess'[v].code = sess[v].code
    BY <1>1, <1>3
  <2>2. \A q \in Polls : poll'[q].pc # "idle" =>
          poll[q].pc # "idle" /\ poll'[q].code = poll[q].code /\ poll'[q].user = poll[q].user
    BY <1>3, IdleTyped
  <2> QED
    BY <1>5, <2>1, <2>2 DEF CodesOwned
<1>8. ConsumedInHand'
  <2>1. ASSUME NEW v \in Users, sess'[v] # NoRow, prov'.codes[sess'[v].code] = "consumed"
        PROVE  /\ sessLock'[v] # NoOne /\ poll'[sessLock'[v]].pc = "answered"
               /\ poll'[sessLock'[v]].answer \in {"ok", "access_only"}
    <3>1. v # u
      BY <1>1, <1>3, <1>5, <2>1 DEF ConsumedInHand
    <3>2. sessLock[v] \in Polls \ {p} /\ sessLock[v] # NoOne
      BY <1>3, <1>5, <2>1, <3>1 DEF OInv, Types, ConsumedInHand, SessLocks, Polling
    <3> QED
      BY <1>3, <1>5, <2>1, <3>1, <3>2 DEF ConsumedInHand
  <2> QED
    BY <2>1 DEF ConsumedInHand
<1> QED
  BY <1>3, <1>4, <1>6, <1>7, <1>8, IdleTyped DEF SessInv

\* Pending, refused, or an error: the connection is not concerned.
LEMMA PollUnansweredKeeps ==
  ASSUME OAuthAssumption, OInv, NEW p \in Polls, PollStaysPending(p) \/ PollRefused(p) \/ PollFails(p)
  PROVE  OInv'
<1> DEFINE u == poll[p].user
<1>1. /\ poll[p].pc = "answered" /\ PollEnds(p)
      /\ UNCHANGED <<conn, connLock, start, call, closer, todo, prov, epoch, seen, used>>
  BY DEF PollStaysPending, PollRefused, PollFails
<1>2. u \in Users /\ sess[u] \in UserOAuthDeviceSessionRow
  BY <1>1 DEF OInv, Types, PollType, SessInv, SessLocks, OAuthAssumption
<1>3. \E X : /\ sess' = [sess EXCEPT ![u] = X]
             /\ X = NoRow \/ /\ X \in UserOAuthDeviceSessionRow /\ X.code = sess[u].code
                             /\ poll[p].answer \notin {"ok", "access_only"}
  <2>1. CASE PollStaysPending(p)
    <3> DEFINE Y == [sess[u] EXCEPT !.polled = TRUE, !.slowed = @ \/ poll[p].answer = "slow_down"]
    <3>1. sess' = [sess EXCEPT ![u] = Y] /\ poll[p].answer \in {"authorization_pending", "slow_down"}
      BY <2>1 DEF PollStaysPending
    <3>2. Y \in UserOAuthDeviceSessionRow /\ Y.code = sess[u].code
      BY <1>2 DEF UserOAuthDeviceSessionRow
    <3> QED
      BY <3>1, <3>2
  <2>2. CASE PollRefused(p)
    BY <2>2 DEF PollRefused
  <2>3. CASE PollFails(p)
    <3>1. sess' = [sess EXCEPT ![u] = sess[u]] /\ poll[p].answer = "transient"
      BY <2>3 DEF PollFails, OInv, Types
    <3> QED
      BY <1>2, <3>1
  <2> QED
    BY <2>1, <2>2, <2>3
<1>4. /\ SessInv'
      /\ sess' \in [Users -> UserOAuthDeviceSessionRow \cup {NoRow}]
      /\ sessLock' \in [Users -> Polls \cup {NoOne}] /\ poll' \in [Polls -> PollType]
      /\ \A q \in Polls : poll'[q].token = IF q = p THEN NoToken ELSE poll[q].token
  BY <1>1, <1>3, EndedPoll
<1>5. ConnInv'
  BY <1>1, <1>4, ConnKept
<1>6. Types'
  BY <1>1, <1>4 DEF OInv, Types
<1> QED
  BY <1>4, <1>5, <1>6 DEF OInv

\* A grant: the token the poll was given becomes the stored one, in a row that
\* no refresh holds, and the session goes with its lock.
LEMMA PollConnectsKeeps ==
  ASSUME OAuthAssumption, OInv, NEW p \in Polls, PollConnects(p)
  PROVE  OInv'
<1> DEFINE u == poll[p].user
           t == poll[p].token
           C == [status |-> "connected", fresh |-> TRUE, refresh |-> t, last |-> epoch]
<1>1. /\ poll[p].pc = "answered" /\ PollEnds(p) /\ connLock[u] = NoOne
      /\ conn' = [conn EXCEPT ![u] = C] /\ sess' = [sess EXCEPT ![u] = NoRow]
      /\ UNCHANGED <<connLock, start, call, closer, todo, prov, epoch, seen, used>>
  BY DEF PollConnects
<1>2. u \in Users /\ t \in Tokens \cup {NoToken}
  BY DEF OInv, Types, PollType
<1>3. C \in UserOAuthConnectionRow /\ C.refresh = t
  BY <1>2 DEF UserOAuthConnectionRow, OInv, Types
<1>4. C # NoRow
  BY <1>3, RowsApart
<1> HIDE DEF C
<1>5. \A v \in Users : conn'[v] = IF v = u THEN C ELSE conn[v]
  BY <1>1 DEF OInv, Types
<1>6. /\ SessInv'
      /\ sess' \in [Users -> UserOAuthDeviceSessionRow \cup {NoRow}]
      /\ sessLock' \in [Users -> Polls \cup {NoOne}] /\ poll' \in [Polls -> PollType]
      /\ \A q \in Polls : poll'[q].token = IF q = p THEN NoToken ELSE poll[q].token
  BY <1>1, EndedPoll
<1>7. Types'
  BY <1>1, <1>3, <1>6 DEF OInv, Types
<1>8. \A v \in Users : RowToken(v)' = IF v = u THEN t ELSE RowToken(v)
  BY <1>3, <1>4, <1>5 DEF RowToken
<1>9. ConnLocks /\ AnswersCarried /\ TokensApart /\ TokensMinted /\ SpentInHand
  BY DEF OInv, ConnInv
<1> HIDE DEF t, u
<1>10. ConnLocks' /\ AnswersCarried'
  <2>1. \A v \in Users : connLock[v] # NoOne => RowToken(v)' = RowToken(v)
    BY <1>1, <1>8
  <2> QED
    BY <1>1, <1>9, <2>1 DEF ConnLocks, AnswersCarried, Refreshing
<1>11. TokensApart'
  <2>1. /\ \A v \in Users : t # NoToken => RowToken(v) # t
        /\ \A q \in Refreshers : call[q].token # NoToken => call[q].token # t
        /\ \A q \in Polls : poll[q].token # NoToken /\ q # p => poll[q].token # t
    BY <1>9 DEF TokensApart, t
  <2> QED
    BY <1>1, <1>6, <1>8, <1>9, <2>1 DEF TokensApart
<1>12. TokensMinted'
  <2>1. t <= prov.minted /\ NoToken <= prov.minted /\ NoToken \notin prov.spent
    BY <1>9, TokensTyped DEF OInv, TokensMinted, NoToken, t
  <2> QED
    BY <1>1, <1>6, <1>8, <1>9, <2>1 DEF TokensMinted
<1>13. SpentInHand'
  <2>1. t \notin prov.spent
    BY <1>9 DEF TokensMinted, t
  <2> QED
    BY <1>1, <1>8, <1>9, <2>1 DEF SpentInHand
<1>14. NoTokenReplay' /\ NoNeedlessRefresh'
  <2>1. \A v \in Users : connLock[v] \in Refreshers => v # u
    BY <1>1 DEF OAuthAssumption, Refreshers, Sweeper, NoOne
  <2> QED
    BY <1>1, <1>5, <2>1 DEF OInv, ConnInv, NoTokenReplay, NoNeedlessRefresh, Refreshers
<1> QED
  BY <1>6, <1>7, <1>10, <1>11, <1>12, <1>13, <1>14 DEF OInv, ConnInv

-----------------------------------------------------------------------------
(* Refreshes.                                                               *)

\* A refresh that holds no lock stays one that holds none.
LEMMA UnlockedCall ==
  ASSUME OAuthAssumption, OInv, NEW p \in Refreshers, call[p].pc \in {"idle", "slow"},
         NEW X \in RefreshType, X.pc \in {"idle", "slow"}, X.token = NoToken,
         call' = [call EXCEPT ![p] = X], UNCHANGED <<conn, connLock, poll, prov>>,
         seen'.lost = seen.lost, seen'.replayed = seen.replayed
  PROVE  ConnInv' /\ call' \in [Refreshers -> RefreshType]
<1>1. \A q \in Refreshers : call'[q] = IF q = p THEN X ELSE call[q]
  BY DEF OInv, Types
<1>2. \A u \in Users : RowToken(u)' = RowToken(u)
  BY DEF RowToken
<1>3. \A u \in Users : connLock[u] # NoOne => connLock[u] \in Refreshers /\ connLock[u] # p
  BY DEF OInv, Types, ConnInv, ConnLocks, Refreshing
<1>4. ConnLocks'
  BY <1>1, <1>2, <1>3 DEF OInv, ConnInv, ConnLocks, Refreshing
<1>5. AnswersCarried'
  BY <1>1 DEF OInv, ConnInv, AnswersCarried
<1>6. TokensApart'
  BY <1>1, <1>2 DEF OInv, ConnInv, TokensApart
<1>7. TokensMinted'
  <2>1. NoToken <= prov.minted /\ NoToken \notin prov.spent
    BY TokensTyped DEF OInv, ConnInv, TokensMinted, NoToken
  <2> QED
    BY <1>1, <1>2, <2>1 DEF OInv, ConnInv, TokensMinted
<1>8. SpentInHand' /\ NoTokenReplay'
  BY <1>1, <1>2, <1>3 DEF OInv, ConnInv, SpentInHand, NoTokenReplay
<1>9. NoNeedlessRefresh'
  <2>1. \A u \in Users : connLock[u] = Sweeper => call'[Sweeper] = call[Sweeper]
    BY <1>1, <1>3 DEF OAuthAssumption, Refreshers, Sweeper, NoOne
  <2> QED
    BY <2>1 DEF OInv, ConnInv, NoNeedlessRefresh
<1>10. call' \in [Refreshers -> RefreshType]
  BY DEF OInv, Types
<1> QED
  BY <1>4, <1>5, <1>6, <1>7, <1>8, <1>9, <1>10 DEF ConnInv

\* A refresh takes the lock of a row that nobody holds, after a last look at it.
LEMMA LockedCall ==
  ASSUME OAuthAssumption, OInv, NEW p \in Refreshers, NEW u \in Users, call[p].pc \in {"idle", "slow"},
         Locks(p, u), connLock[u] = NoOne, RowToken(u) # NoToken,
         p \in Callers => ~conn[u].fresh, p = Sweeper => conn[u].last < call[p].cutoff,
         UNCHANGED <<conn, poll, prov>>, seen'.lost = seen.lost, seen'.replayed = seen.replayed
  PROVE  /\ ConnInv' /\ call' \in [Refreshers -> RefreshType]
         /\ connLock' \in [Users -> Refreshers \cup {NoOne}]
<1> DEFINE X == [call[p] EXCEPT !.pc = "calling", !.user = u]
<1>1. call[p] \in RefreshType
  BY DEF OInv, Types
<1>2. /\ X \in RefreshType /\ X.pc = "calling" /\ X.user = u /\ X.token = call[p].token
      /\ X.cutoff = call[p].cutoff
  BY <1>1 DEF RefreshType
<1>3. call' = [call EXCEPT ![p] = X] /\ connLock' = [connLock EXCEPT ![u] = p]
  BY <1>1 DEF Locks
<1> HIDE DEF X
<1>4. /\ \A q \in Refreshers : call'[q] = IF q = p THEN X ELSE call[q]
      /\ \A v \in Users : connLock'[v] = IF v = u THEN p ELSE connLock[v]
  BY <1>3 DEF OInv, Types
<1>5. \A v \in Users : RowToken(v)' = RowToken(v)
  BY DEF RowToken
<1>6. \A v \in Users : connLock[v] # NoOne => connLock[v] \in Refreshers /\ connLock[v] # p
  BY DEF OInv, Types, ConnInv, ConnLocks, Refreshing
<1>7. ConnLocks /\ AnswersCarried /\ TokensApart /\ TokensMinted /\ SpentInHand /\ NoTokenReplay /\ NoNeedlessRefresh
  BY DEF OInv, ConnInv
<1>8. ConnLocks'
  <2>1. \A q \in Refreshers : call[q].user \in Users /\ q # NoOne
    BY DEF OInv, Types, RefreshType, OAuthAssumption, Refreshers, Sweeper, NoOne
  <2> QED
    BY <1>2, <1>4, <1>5, <1>6, <1>7, <2>1 DEF ConnLocks, Refreshing
<1>9. AnswersCarried'
  BY <1>2, <1>4, <1>7 DEF AnswersCarried
<1>10. \A q \in Refreshers : call'[q].token = call[q].token
  BY <1>2, <1>4
<1>11. TokensApart' /\ TokensMinted'
  BY <1>5, <1>7, <1>10 DEF TokensApart, TokensMinted
<1>12. SpentInHand' /\ NoTokenReplay'
  BY <1>4, <1>5, <1>6, <1>7 DEF SpentInHand, NoTokenReplay
<1>13. NoNeedlessRefresh'
  <2>1. p # NoOne /\ \A q \in Callers : q # Sweeper
    BY DEF OAuthAssumption, Refreshers, Sweeper, NoOne
  <2>2. p = Sweeper => \A v \in Users : connLock[v] # Sweeper
    BY <1>6 DEF Sweeper, NoOne
  <2>3. p # Sweeper => Sweeper \in Refreshers /\ call'[Sweeper] = call[Sweeper]
    BY <1>4 DEF Refreshers
  <2>4. p = Sweeper => call'[Sweeper].cutoff = call[p].cutoff
    BY <1>2, <1>4
  <2> QED
    BY <1>4, <1>7, <2>1, <2>2, <2>3, <2>4 DEF NoNeedlessRefresh
<1>14. call' \in [Refreshers -> RefreshType] /\ connLock' \in [Users -> Refreshers \cup {NoOne}]
  BY <1>2, <1>3 DEF OInv, Types
<1> QED
  BY <1>8, <1>9, <1>11, <1>12, <1>13, <1>14 DEF ConnInv

\* The fast path of ensure_fresh_access_token takes no lock; the slow path
\* looks again under it.
LEMMA PathsKeep ==
  ASSUME OAuthAssumption, OInv, NEW p \in Callers, (\E u \in Users : FastPath(p, u)) \/ SlowPath(p)
  PROVE  OInv'
<1>1. p \in Refreshers
  BY DEF Refreshers
<1>2. /\ UNCHANGED <<conn, sess, sessLock, start, poll, closer, todo, prov, epoch, used>>
      /\ call[p].pc \in {"idle", "slow"}
  BY DEF FastPath, SlowPath
<1>3. SessInv'
  BY <1>2, SessKept
<1>4. CASE \E u \in Users : FastPath(p, u)
  <2>1. PICK u \in Users : FastPath(p, u)
    BY <1>4
  <2> DEFINE X == [IdleRefresh EXCEPT !.pc = "slow", !.user = u]
  <2>2. X \in RefreshType /\ X.pc = "slow" /\ X.token = NoToken
    BY IdleTyped DEF RefreshType
  <2>3. call' = [call EXCEPT ![p] = X] /\ connLock' = connLock /\ seen' = seen
    BY <2>1 DEF FastPath
  <2> HIDE DEF X
  <2>4. ConnInv' /\ call' \in [Refreshers -> RefreshType]
    BY <1>1, <1>2, <2>2, <2>3, UnlockedCall
  <2>5. Types'
    BY <1>2, <2>3, <2>4 DEF OInv, Types
  <2> QED
    BY <1>3, <2>4, <2>5 DEF OInv
<1>5. CASE SlowPath(p) /\ StillStale(call[p].user) /\ conn[call[p].user].refresh # NoToken
  <2> DEFINE u == call[p].user
  <2>1. /\ connLock[u] = NoOne /\ Locks(p, u) /\ seen' = seen /\ conn[u] # NoRow /\ ~conn[u].fresh
        /\ conn[u].refresh # NoToken
    BY <1>5 DEF SlowPath, StillStale
  <2>2. u \in Users /\ p # Sweeper
    BY <1>1 DEF OInv, Types, RefreshType, OAuthAssumption
  <2>3. RowToken(u) # NoToken
    BY <2>1 DEF RowToken
  <2> HIDE DEF u
  <2>4. /\ ConnInv' /\ call' \in [Refreshers -> RefreshType]
        /\ connLock' \in [Users -> Refreshers \cup {NoOne}]
    BY <1>1, <1>2, <2>1, <2>2, <2>3, LockedCall
  <2>5. Types'
    BY <1>2, <2>1, <2>4 DEF OInv, Types
  <2> QED
    BY <1>3, <2>4, <2>5 DEF OInv
<1>6. CASE SlowPath(p) /\ ~(StillStale(call[p].user) /\ conn[call[p].user].refresh # NoToken)
  <2> DEFINE b == seen.unrecorded \/ StillStale(call[p].user)
  <2>1. call' = [call EXCEPT ![p] = IdleRefresh] /\ connLock' = connLock
    BY <1>6 DEF SlowPath
  <2>2. seen' = [seen EXCEPT !.unrecorded = b] /\ b \in BOOLEAN
    BY <1>6 DEF SlowPath, OInv, Types, SeenType
  <2> HIDE DEF b
  <2>3. seen' \in SeenType /\ seen'.lost = seen.lost /\ seen'.replayed = seen.replayed
    BY <2>2 DEF OInv, Types, SeenType
  <2>4. ConnInv' /\ call' \in [Refreshers -> RefreshType]
    BY <1>1, <1>2, <2>1, <2>3, IdleTyped, UnlockedCall
  <2>5. Types'
    BY <1>2, <2>1, <2>3, <2>4 DEF OInv, Types
  <2> QED
    BY <1>3, <2>4, <2>5 DEF OInv
<1> QED
  BY <1>4, <1>5, <1>6

\* The sweep lists the due rows without a lock and looks again under it.
LEMMA SweepKeeps ==
  ASSUME OAuthAssumption, OInv, SweepLists \/ \E u \in Users : SweepLocks(u)
  PROVE  OInv'
<1>1. /\ UNCHANGED <<conn, sess, sessLock, start, poll, closer, prov, epoch, seen, used>>
      /\ Sweeper \in Refreshers /\ call[Sweeper].pc = "idle" /\ call[Sweeper] \in RefreshType
  BY DEF SweepLists, SweepLocks, Refreshers, OInv, Types
<1>2. SessInv'
  BY <1>1, SessKept
<1>3. CASE SweepLists
  <2> DEFINE X == [call[Sweeper] EXCEPT !.cutoff = epoch]
  <2>1. /\ call' = [call EXCEPT ![Sweeper] = X] /\ connLock' = connLock
        /\ todo' = {u \in Users : Due(u, epoch)} \cup {"purge"}
    BY <1>1, <1>3 DEF SweepLists, RefreshType
  <2>2. X \in RefreshType /\ X.pc = "idle" /\ X.token = call[Sweeper].token
    BY <1>1 DEF RefreshType, OInv, Types
  <2>3. call[Sweeper].token = NoToken
    BY <1>1 DEF OInv, ConnInv, AnswersCarried
  <2> HIDE DEF X
  <2>4. ConnInv' /\ call' \in [Refreshers -> RefreshType]
    BY <1>1, <2>1, <2>2, <2>3, UnlockedCall
  <2>5. Types'
    BY <1>1, <2>1, <2>4 DEF OInv, Types
  <2> QED
    BY <1>2, <2>4, <2>5 DEF OInv
<1>4. CASE \E u \in Users : SweepLocks(u)
  <2>1. PICK u \in Users : SweepLocks(u)
    BY <1>4
  <2>2. todo' = todo \ {u} /\ connLock[u] = NoOne
    BY <2>1 DEF SweepLocks
  <2>3. CASE SweepDue(u) /\ conn[u].refresh # NoToken
    <3>1. Locks(Sweeper, u) /\ RowToken(u) # NoToken /\ conn[u].last < call[Sweeper].cutoff
      BY <2>1, <2>3 DEF SweepLocks, SweepDue, Due, RowToken
    <3>2. Sweeper \notin Callers
      BY DEF OAuthAssumption
    <3>3. /\ ConnInv' /\ call' \in [Refreshers -> RefreshType]
          /\ connLock' \in [Users -> Refreshers \cup {NoOne}]
      BY <1>1, <2>2, <3>1, <3>2, LockedCall
    <3>4. Types'
      BY <1>1, <2>2, <3>3 DEF OInv, Types
    <3> QED
      BY <1>2, <3>3, <3>4 DEF OInv
  <2>4. CASE ~(SweepDue(u) /\ conn[u].refresh # NoToken)
    <3>1. UNCHANGED <<call, connLock>>
      BY <2>1, <2>4 DEF SweepLocks
    <3>2. ConnInv'
      BY <1>1, <3>1, ConnKept
    <3>3. Types'
      BY <1>1, <2>2, <3>1 DEF OInv, Types
    <3> QED
      BY <1>2, <3>2, <3>3 DEF OInv
  <2> QED
    BY <2>3, <2>4
<1> QED
  BY <1>3, <1>4

\* A refresh is answered: at most, the stored token is spent and another one
\* is minted, which the refresh has or which is lost on the way.
LEMMA AnsweredCall ==
  ASSUME OAuthAssumption, OInv, NEW p \in Refreshers, call[p].pc = "calling",
         NEW a \in RefreshAnswers, NEW n \in Tokens \cup {NoToken}, n # NoToken <=> a = "ok",
         call' = [call EXCEPT ![p].pc = "answered", ![p].answer = a, ![p].token = n],
         UNCHANGED <<conn, sess, connLock, sessLock, start, poll, closer, todo, epoch>>,
         prov' \in ProviderType, prov'.codes = prov.codes, seen' \in SeenType,
         used' \in [DOMAIN Bounds -> Nat],
         \/ /\ prov' = prov /\ n = NoToken /\ seen'.lost = seen.lost
            /\ seen'.replayed => seen.replayed \/ RowToken(call[p].user) \in prov.spent
         \/ /\ prov'.minted = Minted /\ prov'.spent = prov.spent \cup {RowToken(call[p].user)}
            /\ seen'.replayed = seen.replayed
            /\ ((n = Minted /\ seen'.lost = seen.lost) \/ (n = NoToken /\ seen'.lost))
  PROVE  OInv'
<1> DEFINE u == call[p].user
           X == [call[p] EXCEPT !.pc = "answered", !.answer = a, !.token = n]
<1>1. call[p] \in RefreshType /\ u \in Users
  BY DEF OInv, Types, RefreshType
<1>2. /\ X \in RefreshType /\ X.pc = "answered" /\ X.answer = a /\ X.token = n /\ X.user = u
      /\ X.cutoff = call[p].cutoff
  BY <1>1 DEF RefreshType
<1>3. call' = [call EXCEPT ![p] = X]
  BY <1>1 DEF RefreshType
<1> HIDE DEF X
<1>20. call \in [Refreshers -> RefreshType]
  BY DEF OInv, Types
<1>21. \A q \in Refreshers : call'[q] = IF q = p THEN X ELSE call[q]
  BY <1>3, <1>20
<1>22. call' \in [Refreshers -> RefreshType]
  BY <1>2, <1>3, <1>20
<1>4. /\ \A q \in Refreshers : call'[q] = IF q = p THEN X ELSE call[q]
      /\ call' \in [Refreshers -> RefreshType]
  BY <1>21, <1>22
<1>5. Types'
  BY <1>4 DEF OInv, Types
<1>6. SessInv'
  BY SessKept
<1>7. ConnLocks /\ AnswersCarried /\ TokensApart /\ TokensMinted /\ SpentInHand /\ NoTokenReplay /\ NoNeedlessRefresh
  BY DEF OInv, ConnInv
<1>8. \A v \in Users : RowToken(v)' = RowToken(v)
  BY DEF RowToken
<1>9. connLock[u] = p /\ RowToken(u) # NoToken /\ \A v \in Users : connLock[v] = p => v = u
  <2>1. connLock[u] = p
    BY <1>1, <1>7 DEF ConnLocks
  <2>2. p # NoOne
    BY DEF OAuthAssumption, Refreshers, Sweeper, NoOne
  <2>3. RowToken(u) # NoToken
    BY <1>1, <1>7, <2>1, <2>2 DEF ConnLocks
  <2>4. \A v \in Users : connLock[v] = p => v = u
    BY <1>7, <2>2 DEF ConnLocks, Refreshing
  <2> QED
    BY <2>1, <2>3, <2>4
<1>10. /\ prov.minted \in Nat /\ Minted = prov.minted + 1
       /\ \A v \in Users : RowToken(v) \in Nat /\ RowToken(v) <= prov.minted
       /\ \A q \in Refreshers : call[q].token \in Nat /\ call[q].token <= prov.minted
       /\ \A q \in Polls : poll[q].token \in Nat /\ poll[q].token <= prov.minted
       /\ \A t \in prov.spent : t \in Nat /\ t <= prov.minted
  BY <1>7, TokensTyped DEF OInv, TokensMinted, Minted
<1>11. n = NoToken \/ n = Minted
  OBVIOUS
<1> HIDE DEF u
<1>12. ConnLocks'
  <2>1. \A v \in Users : connLock[v] # NoOne => connLock[v] \in Refreshers
    BY DEF OInv, Types
  <2> QED
    BY <1>2, <1>4, <1>7, <1>8, <1>9, <2>1 DEF ConnLocks, Refreshing, u
<1>13. AnswersCarried'
  BY <1>2, <1>4, <1>7 DEF AnswersCarried
<1>14. \A q \in Refreshers : call'[q].token = IF q = p THEN n ELSE call[q].token
  BY <1>2, <1>4
<1>15. TokensApart'
  <2>1. /\ \A v \in Users : n # NoToken => n # RowToken(v)
        /\ \A q \in Refreshers : n # NoToken => n # call[q].token
        /\ \A q \in Polls : n # NoToken => n # poll[q].token
    BY ONLY <1>10, <1>11
  <2>2. poll' = poll /\ TokensApart
    BY <1>7
  <2> QED
    BY ONLY <1>8, <1>14, <2>1, <2>2 DEF TokensApart
<1>16. TokensMinted'
  <2>1. CASE prov' = prov /\ n = NoToken
    <3>1. NoToken <= prov.minted /\ NoToken \notin prov.spent
      BY <1>7, <1>10 DEF TokensMinted, NoToken
    <3>2. poll' = poll /\ prov' = prov /\ n = NoToken /\ TokensMinted
      BY <1>7, <2>1
    <3> QED
      BY ONLY <1>8, <1>14, <3>1, <3>2 DEF TokensMinted
  <2>2. CASE prov'.minted = Minted /\ prov'.spent = prov.spent \cup {RowToken(u)}
    <3>1. prov'.spent \subseteq 1 .. prov'.minted
      BY <1>1, <1>7, <1>9, <1>10, <2>2 DEF TokensMinted, NoToken
    <3>2. \A v \in Users : RowToken(v)' <= prov'.minted
      BY <1>8, <1>10, <2>2
    <3>3. ASSUME NEW q \in Refreshers PROVE call'[q].token <= prov'.minted /\ call'[q].token \notin prov'.spent
      <4>4. RowToken(u) \in Nat /\ RowToken(u) <= prov.minted /\ RowToken(u) # NoToken
        BY <1>1, <1>9, <1>10
      <4>5. NoToken \notin prov.spent
        BY <1>7, <1>10 DEF TokensMinted, NoToken
      <4>1. n <= Minted /\ n \notin prov'.spent
        BY ONLY <1>10, <1>11, <2>2, <4>4, <4>5 DEF NoToken
      <4>2. call[q].token <= Minted /\ call[q].token \notin prov.spent
        BY <1>7, <1>10 DEF TokensMinted
      <4>3. call[q].token # RowToken(u)
        BY <1>1, <1>7, <1>9 DEF TokensApart
      <4> QED
        BY <1>14, <2>2, <4>1, <4>2, <4>3
    <3>4. ASSUME NEW q \in Polls PROVE poll'[q].token <= prov'.minted /\ poll'[q].token \notin prov'.spent
      <4>1. poll[q].token # RowToken(u)
        BY <1>1, <1>7, <1>9 DEF TokensApart
      <4> QED
        BY <1>7, <1>10, <2>2, <4>1 DEF TokensMinted
    <3> QED
      BY <3>1, <3>2, <3>3, <3>4 DEF TokensMinted
  <2> QED
    BY <2>1, <2>2 DEF u
<1>17. SpentInHand'
  <2>1. ASSUME NEW v \in Users, RowToken(v) \in prov.spent, ~seen.lost
        PROVE  /\ connLock[v] \in Refreshers /\ connLock[v] # NoOne
               /\ call[connLock[v]].pc = "answered" /\ call[connLock[v]].answer = "ok"
    BY <1>7, <2>1 DEF SpentInHand, OInv, Types
  <2>2. ASSUME NEW v \in Users, RowToken(v)' \in prov'.spent, ~seen'.lost
        PROVE  /\ connLock'[v] # NoOne
               /\ call'[connLock'[v]].pc = "answered" /\ call'[connLock'[v]].answer = "ok"
    <3>1. ~seen.lost
      BY <2>2 DEF SeenType, OInv, Types
    <3>2. CASE RowToken(v) \in prov.spent
      <4>1. connLock[v] # p
        BY <2>1, <3>1, <3>2
      <4> QED
        BY <1>4, <2>1, <3>1, <3>2, <4>1
    <3>3. CASE RowToken(v) \notin prov.spent
      <4>1. RowToken(v) = RowToken(u) /\ n = Minted
        BY <1>8, <2>2, <3>3 DEF u
      <4>2. v = u /\ a = "ok"
        BY <1>1, <1>7, <1>9, <1>10, <4>1 DEF TokensApart, NoToken
      <4> QED
        BY <1>2, <1>4, <1>9, <4>2 DEF OAuthAssumption, Refreshers, Sweeper, NoOne
    <3> QED
      BY <3>2, <3>3
  <2> QED
    BY <2>2 DEF SpentInHand
<1>18. NoTokenReplay'
  <2>1. RowToken(u) \in prov.spent => seen.lost
    BY <1>1, <1>7, <1>9 DEF SpentInHand
  <2> QED
    BY <1>7, <2>1 DEF NoTokenReplay, u
<1>19. NoNeedlessRefresh'
  <2>1. call'[Sweeper].cutoff = call[Sweeper].cutoff
    BY <1>2, <1>4 DEF Refreshers
  <2> QED
    BY <1>7, <2>1 DEF NoNeedlessRefresh
<1> QED
  BY <1>5, <1>6, <1>12, <1>13, <1>15, <1>16, <1>17, <1>18, <1>19 DEF OInv, ConnInv

\* The provider's answer to a refresh grant, which may be lost on the way.
LEMMA RefreshTokenAnswerKeeps ==
  ASSUME OAuthAssumption, OInv, NEW p \in Refreshers, RefreshTokenAnswer(p)
  PROVE  OInv'
<1> DEFINE u == call[p].user
           t == conn[u].refresh
           Is(a, n) == call' = [call EXCEPT ![p].pc = "answered", ![p].answer = a, ![p].token = n]
           Rotates == prov' = [prov EXCEPT !.minted = Minted, !.spent = @ \cup {t}]
<1>1. /\ call[p].pc = "calling"
      /\ UNCHANGED <<conn, sess, connLock, sessLock, start, poll, closer, todo, epoch>>
  BY DEF RefreshTokenAnswer
<1>2. /\ u \in Users /\ Types /\ prov \in ProviderType /\ seen \in SeenType
      /\ used \in [DOMAIN Bounds -> Nat]
  BY DEF OInv, Types, RefreshType
<1>3. t = RowToken(u) /\ t \in Tokens
  <2>1. connLock[u] = p
    BY <1>1, <1>2 DEF OInv, ConnInv, ConnLocks
  <2>2. p # NoOne
    BY DEF OAuthAssumption, Refreshers, Sweeper, NoOne
  <2>3. RowToken(u) # NoToken
    BY <1>2, <2>1, <2>2 DEF OInv, ConnInv, ConnLocks
  <2>4. conn[u] # NoRow
    BY <2>3 DEF RowToken
  <2>5. conn[u] \in UserOAuthConnectionRow
    BY <1>2, <2>4 DEF Types
  <2> QED
    BY <2>3, <2>4, <2>5 DEF RowToken, UserOAuthConnectionRow
<1> HIDE DEF u, t, Is, Rotates
<1>4. ASSUME CanMint, Rotates
      PROVE  /\ prov' \in ProviderType /\ prov'.codes = prov.codes /\ prov'.minted = Minted
             /\ prov'.spent = prov.spent \cup {RowToken(u)} /\ Minted \in Tokens /\ Minted # NoToken
  <2>1. prov.minted \in Nat /\ MaxTokens \in Nat
    BY <1>2, TokensTyped DEF OAuthAssumption
  <2>2. Minted \in Tokens /\ Minted \in 0 .. MaxTokens /\ Minted # NoToken
    BY <1>4, <2>1 DEF CanMint, Minted, Tokens, NoToken
  <2> HIDE DEF Minted
  <2>3. prov' = [prov EXCEPT !.minted = Minted, !.spent = prov.spent \cup {t}]
    BY <1>2, <1>4 DEF Rotates, ProviderType
  <2> QED
    BY <1>2, <1>3, <2>2, <2>3 DEF ProviderType
<1>5. ASSUME NEW a \in RefreshAnswers, NEW n \in Tokens \cup {NoToken}, n # NoToken <=> a = "ok",
             Is(a, n), prov' \in ProviderType, prov'.codes = prov.codes, seen' \in SeenType,
             used' \in [DOMAIN Bounds -> Nat],
             \/ /\ prov' = prov /\ n = NoToken /\ seen'.lost = seen.lost
                /\ seen'.replayed => seen.replayed \/ RowToken(u) \in prov.spent
             \/ /\ prov'.minted = Minted /\ prov'.spent = prov.spent \cup {RowToken(u)}
                /\ seen'.replayed = seen.replayed
                /\ ((n = Minted /\ seen'.lost = seen.lost) \/ (n = NoToken /\ seen'.lost))
      PROVE  OInv'
  BY <1>1, <1>5, AnsweredCall DEF Is, u
<1>6. /\ \A a \in {"ok", "access_only", "terminal", "transient"} : a \in RefreshAnswers
      /\ NoToken \in Tokens \cup {NoToken}
  BY DEF RefreshAnswers
<1>7. CASE CanMint /\ Rotates /\ Is("ok", Minted) /\ UNCHANGED <<seen, used>>
  <2>1. /\ prov' \in ProviderType /\ prov'.codes = prov.codes /\ prov'.minted = Minted
        /\ prov'.spent = prov.spent \cup {RowToken(u)} /\ Minted \in Tokens /\ Minted # NoToken
    BY <1>4, <1>7
  <2>2. seen' \in SeenType /\ used' \in [DOMAIN Bounds -> Nat] /\ seen'.replayed = seen.replayed /\ seen'.lost = seen.lost
    BY <1>2, <1>7
  <2>3. "ok" \in RefreshAnswers /\ Is("ok", Minted)
    BY <1>6, <1>7
  <2>4. PICK n \in Tokens : n = Minted
    BY <2>1
  <2>5. n \in Tokens \cup {NoToken} /\ n # NoToken /\ Is("ok", n)
    BY <2>1, <2>3, <2>4
  <2> QED
    BY <1>5, <2>1, <2>2, <2>3, <2>4, <2>5
<1>8. CASE Is("access_only", NoToken) /\ Use("access_only") /\ UNCHANGED <<seen, prov>>
  <2>1. used' \in [DOMAIN Bounds -> Nat]
    BY <1>2, <1>8, UseTyped
  <2> QED
    BY <1>2, <1>5, <1>6, <1>8, <2>1
<1>9. CASE /\ Is("terminal", NoToken) /\ UNCHANGED <<used, prov>>
           /\ seen' = [seen EXCEPT !.replayed = @ \/ t \in prov.spent]
  <2> DEFINE b == seen.replayed \/ t \in prov.spent
  <2>1. b \in BOOLEAN /\ seen' = [seen EXCEPT !.replayed = b]
    BY <1>2, <1>9 DEF SeenType
  <2>2. b => seen.replayed \/ RowToken(u) \in prov.spent
    BY <1>3
  <2> HIDE DEF b
  <2>3. seen' \in SeenType /\ seen'.lost = seen.lost /\ seen'.replayed = b
    BY <1>2, <2>1 DEF SeenType
  <2> QED
    BY <1>2, <1>5, <1>6, <1>9, <2>2, <2>3
<1>10. CASE Is("transient", NoToken) /\ Use("transient") /\ UNCHANGED <<seen, prov>>
  <2>1. used' \in [DOMAIN Bounds -> Nat]
    BY <1>2, <1>10, UseTyped
  <2> QED
    BY <1>2, <1>5, <1>6, <1>10, <2>1
<1>11. CASE /\ CanMint /\ Rotates /\ Is("transient", NoToken) /\ Use("lost")
            /\ seen' = [seen EXCEPT !.lost = TRUE]
  <2>1. used' \in [DOMAIN Bounds -> Nat]
    BY <1>2, <1>11, UseTyped
  <2>2. seen' \in SeenType /\ seen'.lost /\ seen'.replayed = seen.replayed
    BY <1>2, <1>11 DEF SeenType
  <2> QED
    BY <1>4, <1>5, <1>6, <1>11, <2>1, <2>2
<1> QED
  BY <1>7, <1>8, <1>9, <1>10, <1>11 DEF RefreshTokenAnswer, u, t, Is, Rotates

\* The end of a refresh: the row has the token of the answer, or the one it
\* had, and the lock is free.
LEMMA ReleasedCall ==
  ASSUME OAuthAssumption, OInv, NEW p \in Refreshers, NEW u \in Users, call[p].user = u,
         call[p].pc \in {"calling", "answered"}, Unlocks(p), UNCHANGED <<poll, prov>>,
         \A v \in Users : v # u => conn'[v] = conn[v],
         seen'.replayed = seen.replayed, seen.lost => seen'.lost,
         \/ RowToken(u)' = call[p].token /\ call[p].token # NoToken
         \/ RowToken(u)' = RowToken(u) /\ (call[p].token # NoToken => seen'.lost)
  PROVE  /\ ConnInv' /\ call' \in [Refreshers -> RefreshType]
         /\ connLock' \in [Users -> Refreshers \cup {NoOne}]
<1> DEFINE X == [IdleRefresh EXCEPT !.cutoff = call[p].cutoff]
<1>1. call[p] \in RefreshType
  BY DEF OInv, Types
<1>2. X \in RefreshType /\ X.pc = "idle" /\ X.token = NoToken /\ X.cutoff = call[p].cutoff
  BY <1>1, IdleTyped DEF RefreshType
<1>3. call' = [call EXCEPT ![p] = X] /\ connLock' = [connLock EXCEPT ![u] = NoOne]
  BY DEF Unlocks
<1> HIDE DEF X
<1>4. call' \in [Refreshers -> RefreshType] /\ connLock' \in [Users -> Refreshers \cup {NoOne}]
  BY <1>2, <1>3 DEF OInv, Types
<1>5. /\ \A q \in Refreshers : call'[q] = IF q = p THEN X ELSE call[q]
      /\ \A v \in Users : connLock'[v] = IF v = u THEN NoOne ELSE connLock[v]
  BY <1>3 DEF OInv, Types
<1>6. ConnLocks /\ AnswersCarried /\ TokensApart /\ TokensMinted /\ SpentInHand /\ NoTokenReplay /\ NoNeedlessRefresh
  BY DEF OInv, ConnInv
<1>7. connLock[u] = p /\ p # NoOne
  BY <1>6 DEF ConnLocks, OAuthAssumption, Refreshers, Sweeper, NoOne
<1>8. \A v \in Users : connLock[v] # NoOne /\ v # u => connLock[v] \in Refreshers /\ connLock[v] # p
  BY <1>6 DEF OInv, Types, ConnLocks, Refreshing
<1>9. \A v \in Users : v # u => RowToken(v)' = RowToken(v)
  BY DEF RowToken
<1>10. PICK T : /\ RowToken(u)' = T
                /\ \/ T = call[p].token /\ call[p].token # NoToken
                   \/ T = RowToken(u) /\ (call[p].token # NoToken => seen'.lost)
  OBVIOUS
<1>11. \A v \in Users : RowToken(v)' = IF v = u THEN T ELSE RowToken(v)
  BY <1>9, <1>10
<1>12. \A q \in Refreshers : call'[q].token = IF q = p THEN NoToken ELSE call[q].token
  BY <1>2, <1>5
<1>13. ConnLocks'
  <2>1. \A q \in Refreshers : call[q].user \in Users
    BY DEF OInv, Types, RefreshType
  <2> QED
    BY <1>2, <1>5, <1>6, <1>7, <1>8, <1>11, <2>1 DEF ConnLocks, Refreshing
<1>14. AnswersCarried'
  BY <1>2, <1>5, <1>6 DEF AnswersCarried
<1>15. TokensApart'
  <2>1. poll' = poll /\ TokensApart
    BY <1>6
  <2>2. CASE T = call[p].token /\ call[p].token # NoToken
    BY <1>11, <1>12, <2>1, <2>2 DEF TokensApart
  <2>3. CASE T = RowToken(u)
    BY <1>11, <1>12, <2>1, <2>3 DEF TokensApart
  <2> QED
    BY <1>10, <2>2, <2>3
<1>16. TokensMinted'
  <2>1. T <= prov.minted /\ NoToken <= prov.minted /\ NoToken \notin prov.spent
    BY <1>6, <1>10, TokensTyped DEF OInv, TokensMinted, NoToken
  <2> QED
    BY <1>6, <1>11, <1>12, <2>1 DEF TokensMinted
<1>17. SpentInHand'
  <2>1. ASSUME T \in prov.spent PROVE seen'.lost
    <3>1. T = RowToken(u) /\ (call[p].token # NoToken => seen'.lost)
      BY <1>6, <1>10, <2>1 DEF TokensMinted
    <3>2. seen.lost \/ call[p].token # NoToken
      BY <1>6, <1>7, <2>1, <3>1 DEF SpentInHand, AnswersCarried
    <3> QED
      BY <3>1, <3>2
  <2> QED
    BY <1>5, <1>6, <1>8, <1>11, <2>1 DEF SpentInHand
<1>18. NoTokenReplay'
  BY <1>6 DEF NoTokenReplay
<1>19. NoNeedlessRefresh'
  <2>1. Sweeper \in Refreshers /\ NoOne \notin Callers /\ NoOne # Sweeper
    BY DEF OAuthAssumption, Refreshers, Sweeper, NoOne
  <2>2. call'[Sweeper].cutoff = call[Sweeper].cutoff
    BY <1>2, <1>5, <2>1
  <2> QED
    BY <1>5, <1>6, <2>1, <2>2 DEF NoNeedlessRefresh
<1> QED
  BY <1>4, <1>13, <1>14, <1>15, <1>16, <1>17, <1>18, <1>19 DEF ConnInv

\* The commit of a refresh: the row takes the token of the answer, or keeps
\* the one it has when the provider did not rotate it.
LEMMA PersistRotationKeeps ==
  ASSUME OAuthAssumption, OInv, NEW p \in Refreshers, PersistRotation(p)
  PROVE  OInv'
<1>1. PICK u \in Users : call[p].user = u
  BY DEF OInv, Types, RefreshType
<1> DEFINE T == IF call[p].token # NoToken THEN call[p].token ELSE conn[u].refresh
           R == [conn[u] EXCEPT !.fresh = TRUE, !.refresh = T, !.last = epoch]
<1>2. /\ call[p].pc = "answered" /\ call[p].answer \in {"ok", "access_only"} /\ Unlocks(p)
      /\ conn' = [conn EXCEPT ![u] = R]
      /\ UNCHANGED <<sess, sessLock, start, poll, closer, todo, prov, epoch, seen, used>>
  BY <1>1 DEF PersistRotation, RotatedToken
<1>3. conn[u] \in UserOAuthConnectionRow /\ conn[u] # NoRow
  <2>1. connLock[u] = p /\ p # NoOne
    BY <1>1, <1>2 DEF OInv, ConnInv, ConnLocks, OAuthAssumption, Refreshers, Sweeper, NoOne
  <2>2. RowToken(u) # NoToken
    BY <2>1 DEF OInv, ConnInv, ConnLocks
  <2> QED
    BY <2>2 DEF RowToken, OInv, Types
<1>4. T \in Tokens \cup {NoToken}
  <2>1. call[p].token \in Tokens \cup {NoToken}
    BY DEF OInv, Types, RefreshType
  <2>2. conn[u].refresh \in Tokens \cup {NoToken}
    BY <1>3 DEF UserOAuthConnectionRow
  <2> QED
    BY <2>1, <2>2
<1>5. call[p].token # NoToken => T = call[p].token
  OBVIOUS
<1>6. call[p].token = NoToken => T = RowToken(u)
  BY <1>3 DEF RowToken
<1> HIDE DEF T
<1>7. R \in UserOAuthConnectionRow /\ R.refresh = T
  BY <1>3, <1>4 DEF UserOAuthConnectionRow, OInv, Types
<1>8. R # NoRow
  BY <1>7, RowsApart
<1> HIDE DEF R
<1>9. \A v \in Users : conn'[v] = IF v = u THEN R ELSE conn[v]
  BY <1>2 DEF OInv, Types
<1>10. RowToken(u)' = T
  BY <1>7, <1>8, <1>9 DEF RowToken
<1>11. /\ ConnInv' /\ call' \in [Refreshers -> RefreshType]
       /\ connLock' \in [Users -> Refreshers \cup {NoOne}]
  <2>1. \/ RowToken(u)' = call[p].token /\ call[p].token # NoToken
        \/ RowToken(u)' = RowToken(u) /\ (call[p].token # NoToken => seen'.lost)
    BY <1>5, <1>6, <1>10
  <2> QED
    BY <1>1, <1>2, <1>9, <2>1, ReleasedCall
<1>12. SessInv'
  BY <1>2, SessKept
<1>13. Types'
  BY <1>2, <1>7, <1>11 DEF OInv, Types
<1> QED
  BY <1>11, <1>12, <1>13 DEF OInv

\* A refresh that changes nothing of its row but the status gives the lock back.
LEMMA GivenUp ==
  ASSUME OAuthAssumption, OInv, NEW p \in Refreshers, call[p].pc \in {"calling", "answered"}, Unlocks(p),
         UNCHANGED <<sess, sessLock, start, poll, closer, prov, epoch>>,
         \/ conn' = conn
         \/ conn' = [conn EXCEPT ![call[p].user].status = "needs_reauth"],
         seen' \in SeenType, seen'.replayed = seen.replayed, seen.lost => seen'.lost,
         call[p].token # NoToken => seen'.lost,
         used' \in [DOMAIN Bounds -> Nat], todo' \subseteq todo
  PROVE  OInv'
<1>1. PICK u \in Users : call[p].user = u
  BY DEF OInv, Types, RefreshType
<1>2. conn[u] \in UserOAuthConnectionRow /\ conn[u] # NoRow
  <2>1. connLock[u] = p /\ p # NoOne
    BY <1>1 DEF OInv, ConnInv, ConnLocks, OAuthAssumption, Refreshers, Sweeper, NoOne
  <2>2. RowToken(u) # NoToken
    BY <2>1 DEF OInv, ConnInv, ConnLocks
  <2> QED
    BY <2>2 DEF RowToken, OInv, Types
<1>3. PICK R \in UserOAuthConnectionRow : /\ R.refresh = conn[u].refresh
                                         /\ conn' = [conn EXCEPT ![u] = R]
  <2>1. CASE conn' = conn
    BY <1>2, <2>1 DEF OInv, Types
  <2>2. CASE conn' = [conn EXCEPT ![u].status = "needs_reauth"]
    <3> DEFINE R == [conn[u] EXCEPT !.status = "needs_reauth"]
    <3>1. R \in UserOAuthConnectionRow /\ R.refresh = conn[u].refresh
      BY <1>2 DEF UserOAuthConnectionRow
    <3>2. conn' = [conn EXCEPT ![u] = R]
      BY <2>2
    <3> HIDE DEF R
    <3> QED
      BY <3>1, <3>2
  <2> QED
    BY <1>1, <2>1, <2>2
<1>4. \A v \in Users : conn'[v] = IF v = u THEN R ELSE conn[v]
  BY <1>3 DEF OInv, Types
<1>5. R # NoRow
  BY RowsApart
<1>6. RowToken(u)' = RowToken(u)
  BY <1>2, <1>3, <1>4, <1>5 DEF RowToken
<1>7. /\ ConnInv' /\ call' \in [Refreshers -> RefreshType]
      /\ connLock' \in [Users -> Refreshers \cup {NoOne}]
  BY <1>1, <1>4, <1>6, ReleasedCall
<1>8. SessInv'
  BY SessKept
<1>9. conn' \in [Users -> UserOAuthConnectionRow \cup {NoRow}]
  BY <1>3 DEF OInv, Types
<1>10. Types'
  BY <1>7, <1>9 DEF OInv, Types
<1> QED
  BY <1>7, <1>8, <1>10 DEF OInv

\* A terminal answer flips the row, or fails to; a transient one is raised; a
\* process that dies loses the answer it had.
LEMMA RefreshEndsKeep ==
  ASSUME OAuthAssumption, OInv, NEW p \in Refreshers,
         FlipNeedsReauth(p) \/ NotifyFails(p) \/ RefreshFails(p) \/ Crash(p)
  PROVE  OInv'
<1>1. /\ AnswersCarried /\ seen \in SeenType /\ used \in [DOMAIN Bounds -> Nat] /\ Types
  BY DEF OInv, ConnInv, Types
<1>2. ASSUME call[p].answer \in {"terminal", "transient"}, call[p].pc = "answered"
      PROVE  call[p].token = NoToken
  BY <1>1, <1>2 DEF AnswersCarried
<1>3. CASE FlipNeedsReauth(p)
  <2>1. /\ call[p].pc = "answered" /\ Unlocks(p)
        /\ conn' = [conn EXCEPT ![call[p].user].status = "needs_reauth"]
        /\ UNCHANGED <<sess, sessLock, start, poll, closer, todo, prov, epoch, seen, used>>
        /\ call[p].token = NoToken
    BY <1>2, <1>3 DEF FlipNeedsReauth
  <2> QED
    BY <1>1, <2>1, GivenUp
<1>4. CASE NotifyFails(p)
  <2>1. /\ call[p].pc = "answered" /\ Unlocks(p)
        /\ UNCHANGED <<conn, sess, sessLock, start, poll, closer, prov, epoch>>
        /\ call[p].token = NoToken /\ todo' \subseteq todo
    BY <1>2, <1>4 DEF NotifyFails
  <2>2. seen' \in SeenType /\ seen'.replayed = seen.replayed /\ seen'.lost = seen.lost
    BY <1>1, <1>4 DEF NotifyFails, SeenType
  <2>3. used' \in [DOMAIN Bounds -> Nat]
    BY <1>1, <1>4, UseTyped DEF NotifyFails
  <2> QED
    BY <2>1, <2>2, <2>3, GivenUp
<1>5. CASE RefreshFails(p)
  <2>1. /\ call[p].pc = "answered" /\ Unlocks(p)
        /\ UNCHANGED <<conn, sess, sessLock, start, poll, closer, todo, prov, epoch, seen, used>>
        /\ call[p].token = NoToken
    BY <1>2, <1>5 DEF RefreshFails
  <2> QED
    BY <1>1, <2>1, GivenUp
<1>6. CASE Crash(p)
  <2>1. /\ call[p].pc \in {"calling", "answered"} /\ Unlocks(p)
        /\ UNCHANGED <<conn, sess, sessLock, start, poll, closer, prov, epoch>>
        /\ todo' \subseteq todo
    BY <1>6 DEF Crash
  <2> DEFINE b == seen.lost \/ call[p].token # NoToken
  <2>2. b \in BOOLEAN /\ seen' = [seen EXCEPT !.lost = b]
    BY <1>1, <1>6 DEF Crash, SeenType
  <2>3. (seen.lost => b) /\ (call[p].token # NoToken => b)
    OBVIOUS
  <2> HIDE DEF b
  <2>4. seen' \in SeenType /\ seen'.replayed = seen.replayed /\ seen'.lost = b
    BY <1>1, <2>2 DEF SeenType
  <2>5. used' \in [DOMAIN Bounds -> Nat]
    BY <1>1, <1>6, UseTyped DEF Crash
  <2> QED
    BY <2>1, <2>3, <2>4, <2>5, GivenUp
<1> QED
  BY <1>3, <1>4, <1>5, <1>6

-----------------------------------------------------------------------------
(* Disconnecting, the sweeper's purge, the user's pages and time.           *)

\* A row that nobody refreshes loses its token or keeps it.
LEMMA FreeRow ==
  ASSUME OAuthAssumption, OInv, NEW u \in Users, connLock[u] = NoOne,
         \A v \in Users : v # u => conn'[v] = conn[v],
         RowToken(u)' = RowToken(u) \/ RowToken(u)' = NoToken,
         UNCHANGED <<connLock, call, poll>>, prov'.minted = prov.minted, prov'.spent = prov.spent,
         seen'.lost = seen.lost, seen'.replayed = seen.replayed
  PROVE  ConnInv'
<1>1. ConnLocks /\ AnswersCarried /\ TokensApart /\ TokensMinted /\ SpentInHand /\ NoTokenReplay /\ NoNeedlessRefresh
  BY DEF OInv, ConnInv
<1>2. PICK T : RowToken(u)' = T /\ (T = RowToken(u) \/ T = NoToken)
  OBVIOUS
<1>3. \A v \in Users : v # u => RowToken(v)' = RowToken(v)
  BY DEF RowToken
<1>4. \A v \in Users : RowToken(v)' = IF v = u THEN T ELSE RowToken(v)
  BY <1>2, <1>3
<1>5. ConnLocks' /\ AnswersCarried'
  BY <1>1, <1>3 DEF ConnLocks, AnswersCarried, Refreshing
<1>6. TokensApart'
  BY <1>1, <1>2, <1>4 DEF TokensApart
<1>7. NoToken \notin prov.spent /\ NoToken <= prov.minted
  BY <1>1, TokensTyped DEF OInv, TokensMinted, NoToken
<1>8. TokensMinted'
  BY <1>1, <1>2, <1>4, <1>7 DEF TokensMinted
<1>9. SpentInHand' /\ NoTokenReplay'
  BY <1>1, <1>2, <1>4, <1>7 DEF SpentInHand, NoTokenReplay
<1>10. NoNeedlessRefresh'
  <2>1. NoOne \notin Callers /\ NoOne # Sweeper
    BY DEF OAuthAssumption, Sweeper, NoOne
  <2> QED
    BY <1>1, <2>1 DEF NoNeedlessRefresh
<1> QED
  BY <1>5, <1>6, <1>8, <1>9, <1>10 DEF ConnInv

\* A device session keeps its code, or it is deleted while no poll has its lock.
LEMMA SessionsDwindle ==
  ASSUME OInv, UNCHANGED <<sessLock, start, poll>>,
         \A v \in Users : sess'[v] # NoRow => sess[v] # NoRow /\ sess'[v].code = sess[v].code,
         \A v \in Users : sessLock[v] # NoOne /\ sess[v] # NoRow => sess'[v] # NoRow,
         \A d \in Codes : prov.codes[d] # "unissued" => prov'.codes[d] # "unissued",
         \A d \in Codes : prov'.codes[d] = "consumed" => prov.codes[d] = "consumed",
         \A v \in Users : start[v] # NoCode => prov'.codes[start[v]] \in {"pending", "granted", "denied"}
  PROVE  SessInv'
<1>1. SessLocks /\ CodesOwned /\ ConsumedInHand
  BY DEF OInv, SessInv
<1>2. SessLocks'
  BY <1>1 DEF SessLocks, Polling
<1>3. \A v \in Users : sess[v] # NoRow => sess[v].code \in Codes
  BY DEF OInv, Types, UserOAuthDeviceSessionRow
<1>4. \A q \in Polls : poll[q].pc # "idle" => poll[q].code \in Codes
  BY <1>1 DEF OInv, Types, PollType, CodesOwned
<1>5. CodesOwned'
  <2>1. \A v \in Users : sess'[v] # NoRow => prov'.codes[sess'[v].code] # "unissued"
    BY <1>1, <1>3 DEF CodesOwned
  <2>2. \A q \in Polls : poll[q].pc # "idle" => poll[q].code # NoCode /\ prov'.codes[poll[q].code] # "unissued"
    BY <1>1, <1>4 DEF CodesOwned
  <2> QED
    BY <1>1, <2>1, <2>2 DEF CodesOwned
<1>6. ConsumedInHand'
  BY <1>1, <1>3 DEF ConsumedInHand
<1> QED
  BY <1>2, <1>5, <1>6 DEF SessInv

\* A disconnect deletes the row, once no refresh has its lock.
LEMMA DisconnectsKeep ==
  ASSUME OAuthAssumption, OInv, NEW d \in Closers,
         (\E u \in Users : DisconnectReads(d, u)) \/ DisconnectUserConnection(d)
  PROVE  OInv'
<1>1. CASE \E u \in Users : DisconnectReads(d, u)
  <2>1. PICK u \in Users : DisconnectReads(d, u)
    BY <1>1
  <2>2. /\ closer' = [closer EXCEPT ![d] = u]
        /\ UNCHANGED <<conn, sess, connLock, sessLock, start, poll, call, todo, prov, epoch, seen, used>>
    BY <2>1 DEF DisconnectReads
  <2>3. ConnInv' /\ SessInv'
    BY <2>2, ConnKept, SessKept
  <2>4. Types'
    BY <2>2 DEF OInv, Types
  <2> QED
    BY <2>3, <2>4 DEF OInv
<1>2. CASE DisconnectUserConnection(d)
  <2>1. PICK u \in Users : closer[d] = u
    BY <1>2 DEF DisconnectUserConnection, OInv, Types
  <2>2. /\ connLock[u] = NoOne /\ conn' = [conn EXCEPT ![u] = NoRow]
        /\ closer' = [closer EXCEPT ![d] = NoOne]
        /\ UNCHANGED <<sess, connLock, sessLock, start, poll, call, todo, prov, epoch, used>>
    BY <1>2, <2>1 DEF DisconnectUserConnection
  <2>3. seen' \in SeenType /\ seen'.lost = seen.lost /\ seen'.replayed = seen.replayed
    <3> DEFINE m == seen.removed + (IF conn[u] = NoRow THEN 0 ELSE 1)
               k == seen.audited + 1
    <3>1. seen \in SeenType
      BY DEF OInv, Types
    <3>2. m \in Nat /\ k \in Nat
      BY <3>1 DEF SeenType
    <3>3. seen' = [seen EXCEPT !.removed = m, !.audited = k]
      BY <1>2, <2>1, <3>1 DEF DisconnectUserConnection, SeenType
    <3> HIDE DEF m, k
    <3> QED
      BY <3>1, <3>2, <3>3 DEF SeenType
  <2>4. /\ \A v \in Users : v # u => conn'[v] = conn[v]
        /\ conn'[u] = NoRow
    BY <2>2 DEF OInv, Types
  <2>5. RowToken(u)' = NoToken
    BY <2>4 DEF RowToken
  <2>6. ConnInv' /\ SessInv'
    BY <2>2, <2>3, <2>4, <2>5, FreeRow, SessKept
  <2>7. Types'
    BY <2>2, <2>3 DEF OInv, Types
  <2> QED
    BY <2>6, <2>7 DEF OInv
<1> QED
  BY <1>1, <1>2

\* The access token outlives its threshold no longer.
LEMMA AccessTokenAgesKeeps ==
  ASSUME OAuthAssumption, OInv, NEW u \in Users, AccessTokenAges(u)
  PROVE  OInv'
<1> DEFINE R == [conn[u] EXCEPT !.fresh = FALSE]
<1>1. /\ conn[u] # NoRow /\ connLock[u] = NoOne /\ conn' = [conn EXCEPT ![u] = R]
      /\ UNCHANGED <<sess, connLock, sessLock, start, poll, call, closer, todo, prov, epoch, seen, used>>
  BY DEF AccessTokenAges
<1>2. R \in UserOAuthConnectionRow /\ R.refresh = conn[u].refresh
  <2>1. conn[u] \in UserOAuthConnectionRow
    BY <1>1 DEF OInv, Types
  <2> QED
    BY <2>1 DEF UserOAuthConnectionRow
<1>3. R # NoRow
  BY <1>2, RowsApart
<1> HIDE DEF R
<1>4. \A v \in Users : conn'[v] = IF v = u THEN R ELSE conn[v]
  BY <1>1 DEF OInv, Types
<1>5. RowToken(u)' = RowToken(u)
  BY <1>1, <1>2, <1>3, <1>4 DEF RowToken
<1>6. ConnInv' /\ SessInv'
  BY <1>1, <1>4, <1>5, FreeRow, SessKept
<1>7. Types'
  BY <1>1, <1>2 DEF OInv, Types
<1> QED
  BY <1>6, <1>7 DEF OInv

\* The sweep ends with the expired sessions whose lock is free.
LEMMA SweepPurgesKeeps ==
  ASSUME OAuthAssumption, OInv, SweepPurges
  PROVE  OInv'
<1>1. /\ \A v \in Purged : sessLock[v] = NoOne
      /\ sess' = [v \in Users |-> IF v \in Purged THEN NoRow ELSE sess[v]]
      /\ todo' = {}
      /\ UNCHANGED <<conn, connLock, sessLock, start, poll, call, closer, prov, epoch, seen, used>>
  BY DEF SweepPurges
<1>2. ConnInv'
  BY <1>1, ConnKept
<1>3. SessInv'
  <2>1. \A v \in Users : start[v] # NoCode => prov.codes[start[v]] \in {"pending", "granted", "denied"}
    BY DEF OInv, SessInv, CodesOwned
  <2>2. \A v \in Users : sess'[v] # NoRow => sess[v] # NoRow /\ sess'[v].code = sess[v].code
    BY <1>1
  <2>3. \A v \in Users : sessLock[v] # NoOne /\ sess[v] # NoRow => sess'[v] # NoRow
    BY <1>1
  <2> QED
    BY <1>1, <2>1, <2>2, <2>3, SessionsDwindle
<1>4. Types'
  BY <1>1 DEF OInv, Types
<1> QED
  BY <1>2, <1>3, <1>4 DEF OInv

\* The cooldown of a session ends.
LEMMA PollIntervalElapsesKeeps ==
  ASSUME OAuthAssumption, OInv, NEW u \in Users, PollIntervalElapses(u)
  PROVE  OInv'
<1> DEFINE S == [sess[u] EXCEPT !.polled = FALSE]
<1>1. /\ sess[u] # NoRow /\ sess' = [sess EXCEPT ![u] = S]
      /\ UNCHANGED <<conn, connLock, sessLock, start, poll, call, closer, todo, prov, epoch, seen, used>>
  BY DEF PollIntervalElapses
<1>2. S \in UserOAuthDeviceSessionRow /\ S.code = sess[u].code
  <2>1. sess[u] \in UserOAuthDeviceSessionRow
    BY <1>1 DEF OInv, Types
  <2> QED
    BY <2>1 DEF UserOAuthDeviceSessionRow
<1>3. S # NoRow
  BY <1>2, RowsApart
<1> HIDE DEF S
<1>4. \A v \in Users : sess'[v] = IF v = u THEN S ELSE sess[v]
  BY <1>1 DEF OInv, Types
<1>5. ConnInv'
  BY <1>1, ConnKept
<1>6. SessInv'
  <2>1. \A v \in Users : start[v] # NoCode => prov.codes[start[v]] \in {"pending", "granted", "denied"}
    BY DEF OInv, SessInv, CodesOwned
  <2> QED
    BY <1>1, <1>2, <1>3, <1>4, <2>1, SessionsDwindle
<1>7. Types'
  BY <1>1, <1>2 DEF OInv, Types
<1> QED
  BY <1>5, <1>6, <1>7 DEF OInv

\* What the user decides on the provider's pages, what the provider forgets,
\* and what the user revokes.
LEMMA ProviderKeeps ==
  ASSUME OAuthAssumption, OInv,
         \/ \E c \in Codes : UserDecides(c) \/ CodeExpires(c)
         \/ \E t \in Tokens : UserRevokes(t)
  PROVE  OInv'
<1>1. /\ Types /\ prov \in ProviderType /\ prov.codes \in [Codes -> CodeStates] /\ SessLocks /\ CodesOwned
      /\ ConsumedInHand
  BY DEF OInv, Types, ProviderType, SessInv
<1>2. /\ \A v \in Users : start[v] # NoCode => start[v] \in Codes
      /\ \A v \in Users : start[v] # NoCode => prov.codes[start[v]] \in {"pending", "granted", "denied"}
  BY <1>1 DEF Types, CodesOwned
<1>3. CASE \E c \in Codes : UserDecides(c)
  <2>1. PICK c \in Codes, s \in {"granted", "denied"} :
          /\ prov.codes[c] = "pending" /\ prov' = [prov EXCEPT !.codes[c] = s]
          /\ UNCHANGED <<conn, sess, connLock, sessLock, start, poll, call, closer, todo, epoch, seen, used>>
    BY <1>3 DEF UserDecides
  <2>2. /\ prov' \in ProviderType /\ prov'.minted = prov.minted /\ prov'.spent = prov.spent
        /\ prov'.codes = [prov.codes EXCEPT ![c] = s]
    BY <1>1, <2>1 DEF ProviderType, CodeStates
  <2>3. \A d \in Codes : prov'.codes[d] = IF d = c THEN s ELSE prov.codes[d]
    BY <1>1, <2>2
  <2>4. ConnInv'
    BY <2>1, <2>2, ConnKept
  <2>5. SessInv'
    <3>1. \A d \in Codes : prov.codes[d] # "unissued" => prov'.codes[d] # "unissued"
      BY <2>3
    <3>2. \A d \in Codes : prov'.codes[d] = "consumed" => prov.codes[d] = "consumed"
      BY <2>3
    <3>3. \A v \in Users : start[v] # NoCode => prov'.codes[start[v]] \in {"pending", "granted", "denied"}
      BY <1>2, <2>3
    <3> QED
      BY <2>1, <3>1, <3>2, <3>3, SessionsDwindle
  <2>6. Types'
    BY <1>1, <2>1, <2>2 DEF Types
  <2> QED
    BY <2>4, <2>5, <2>6 DEF OInv
<1>4. CASE \E c \in Codes : CodeExpires(c)
  <2> DEFINE E(v) == [sess[v] EXCEPT !.expired = TRUE]
  <2>1. PICK c \in Codes :
          /\ \A v \in Users : start[v] # c
          /\ prov.codes[c] \in {"pending", "granted", "denied", "consumed"}
          /\ prov' = [prov EXCEPT !.codes[c] = "expired"]
          /\ sess' = [v \in Users |-> IF sess[v] # NoRow /\ sess[v].code = c THEN E(v) ELSE sess[v]]
          /\ UNCHANGED <<conn, connLock, sessLock, start, poll, call, closer, todo, epoch, seen, used>>
    BY <1>4 DEF CodeExpires
  <2>2. /\ prov' \in ProviderType /\ prov'.minted = prov.minted /\ prov'.spent = prov.spent
        /\ prov'.codes = [prov.codes EXCEPT ![c] = "expired"]
    BY <1>1, <2>1 DEF ProviderType, CodeStates
  <2>3. \A d \in Codes : prov'.codes[d] = IF d = c THEN "expired" ELSE prov.codes[d]
    BY <1>1, <2>2
  <2>4. ConnInv'
    BY <2>1, <2>2, ConnKept
  <2>5. ASSUME NEW v \in Users, sess[v] # NoRow
        PROVE  E(v) \in UserOAuthDeviceSessionRow /\ E(v) # NoRow /\ E(v).code = sess[v].code
    <3>1. sess[v] \in UserOAuthDeviceSessionRow
      BY <1>1, <2>5 DEF Types
    <3>2. E(v) \in UserOAuthDeviceSessionRow /\ E(v).code = sess[v].code
      BY <3>1 DEF UserOAuthDeviceSessionRow
    <3> QED
      BY <3>2, RowsApart
  <2> HIDE DEF E
  <2>6. \A v \in Users : /\ sess'[v] # NoRow => sess[v] # NoRow /\ sess'[v].code = sess[v].code
                         /\ sess[v] # NoRow => sess'[v] # NoRow
    BY <2>1, <2>5
  <2>7. SessInv'
    <3>1. \A d \in Codes : prov.codes[d] # "unissued" => prov'.codes[d] # "unissued"
      BY <2>3
    <3>2. \A d \in Codes : prov'.codes[d] = "consumed" => prov.codes[d] = "consumed"
      BY <2>3
    <3>3. \A v \in Users : start[v] # NoCode => prov'.codes[start[v]] \in {"pending", "granted", "denied"}
      BY <1>2, <2>1, <2>3
    <3> QED
      BY <2>1, <2>6, <3>1, <3>2, <3>3, SessionsDwindle
  <2>8. Types'
    <3>1. sess \in [Users -> UserOAuthDeviceSessionRow \cup {NoRow}]
      BY <1>1 DEF Types
    <3>2. sess' \in [Users -> UserOAuthDeviceSessionRow \cup {NoRow}]
      BY <2>1, <2>5, <3>1
    <3> QED
      BY <1>1, <2>1, <2>2, <3>2 DEF Types
  <2> QED
    BY <2>4, <2>7, <2>8 DEF OInv
<1>5. CASE \E t \in Tokens : UserRevokes(t)
  <2>1. PICK t \in Tokens :
          /\ Use("revoke") /\ prov' = [prov EXCEPT !.revoked = prov.revoked \cup {t}]
          /\ UNCHANGED <<conn, sess, connLock, sessLock, start, poll, call, closer, todo, epoch, seen>>
    BY <1>1, <1>5 DEF UserRevokes, ProviderType
  <2>2. /\ prov' \in ProviderType /\ prov'.minted = prov.minted /\ prov'.spent = prov.spent
        /\ prov'.codes = prov.codes
    BY <1>1, <2>1 DEF ProviderType
  <2>3. ConnInv' /\ SessInv'
    BY <2>1, <2>2, ConnKept, SessKept
  <2>4. used' \in [DOMAIN Bounds -> Nat]
    BY <1>1, <2>1, UseTyped
  <2>5. Types'
    BY <1>1, <2>1, <2>2, <2>4 DEF Types
  <2> QED
    BY <2>3, <2>5 DEF OInv
<1> QED
  BY <1>3, <1>4, <1>5

\* A period passes.
LEMMA EpochPassesKeeps ==
  ASSUME OAuthAssumption, OInv, EpochPasses
  PROVE  OInv'
<1>1. /\ epoch < MaxEpoch /\ epoch' = epoch + 1
      /\ UNCHANGED <<conn, sess, connLock, sessLock, start, poll, call, closer, todo, prov, seen, used>>
  BY DEF EpochPasses
<1>2. ConnInv' /\ SessInv'
  BY <1>1, ConnKept, SessKept
<1>3. epoch' \in 0 .. MaxEpoch
  BY <1>1 DEF OAuthAssumption, OInv, Types
<1>4. Types'
  BY <1>1, <1>3 DEF OInv, Types
<1> QED
  BY <1>2, <1>4 DEF OInv

\* Every step keeps the invariant.
LEMMA NextKeeps ==
  ASSUME OAuthAssumption, OInv, [Next]_vars
  PROVE  OInv'
<1>1. CASE \E u \in Users : PostDeviceAuthorize(u) \/ StartDeviceAuth(u)
  BY <1>1, PostDeviceAuthorizeKeeps, StartDeviceAuthKeeps
<1>2. CASE \E p \in Polls : PollStep(p)
  BY <1>2, PollReadsKeeps, PollStampsKeeps, DeviceTokenAnswerKeeps, PollUnansweredKeeps, PollConnectsKeeps
     DEF PollStep, PollGoesOn
<1>3. CASE \E d \in Closers : (\E u \in Users : DisconnectReads(d, u)) \/ DisconnectUserConnection(d)
  BY <1>3, DisconnectsKeep
<1>4. ASSUME NEW p \in Refreshers, RefreshStep(p) PROVE OInv'
  BY <1>4, RefreshTokenAnswerKeeps, PersistRotationKeeps, RefreshEndsKeep DEF RefreshStep
<1>5. CASE \E p \in Callers : CallerStep(p)
  BY <1>4, <1>5, PathsKeep DEF CallerStep, Refreshers
<1>6. CASE SweepStep
  BY <1>4, <1>6, SweepKeeps, SweepPurgesKeeps DEF SweepStep, Refreshers
<1>7. CASE Environment
  BY <1>7, ProviderKeeps, PollIntervalElapsesKeeps, AccessTokenAgesKeeps, EpochPassesKeeps, RefreshEndsKeep
     DEF Environment
<1>8. CASE UNCHANGED vars
  <2>1. /\ UNCHANGED <<conn, sess, connLock, sessLock, start, poll, call>>
        /\ UNCHANGED <<closer, todo, prov, epoch, seen, used>>
    BY <1>8 DEF vars
  <2>2. ConnInv' /\ SessInv'
    BY <2>1, ConnKept, SessKept
  <2>3. Types'
    BY <2>1 DEF OInv, Types
  <2> QED
    BY <2>2, <2>3 DEF OInv
<1> QED
  BY <1>1, <1>2, <1>3, <1>5, <1>6, <1>7, <1>8 DEF Next

\* The invariant holds in every reachable state.
LEMMA OInvHolds == ASSUME OAuthAssumption PROVE Spec => []OInv
<1>1. Init => OInv
  BY InitOInv
<1>2. OInv /\ [Next]_vars => OInv'
  BY NextKeeps
<1> QED
  BY <1>1, <1>2, PTL DEF Spec

-----------------------------------------------------------------------------
(* The properties.                                                          *)

\* The rows, the requests and the provider are in their ranges; whoever holds
\* a row's lock works for the user of the row, and the row is there: no
\* disconnect, and no purge, deletes it under a refresh or a poll.
THEOREM TypeCorrect == ASSUME OAuthAssumption PROVE Spec => []TypeOK
<1>1. ASSUME OInv PROVE TypeOK
  <2>1. \A u \in Users : connLock[u] # NoOne => conn[u] # NoRow /\ call[connLock[u]].user = u
    BY <1>1 DEF OInv, ConnInv, ConnLocks, Refreshing, RowToken
  <2>2. \A u \in Users : sessLock[u] # NoOne => sess[u] # NoRow /\ poll[sessLock[u]].user = u
    BY <1>1 DEF OInv, SessInv, SessLocks, Polling
  <2> QED
    BY <1>1, <2>1, <2>2 DEF OInv, Types, TypeOK
<1> QED
  BY <1>1, OInvHolds, PTL

\* A refresh token that a rotating provider has spent is shown to it again only
\* after an answer was lost: the two checks of ensure_fresh_access_token and of
\* the sweep, one before the row's lock and one under it, are enough for any
\* number of consumers.
THEOREM NoTokenReplayHolds == ASSUME OAuthAssumption PROVE Spec => []NoTokenReplay
<1>1. OInv => NoTokenReplay
  BY DEF OInv, ConnInv
<1> QED
  BY <1>1, OInvHolds, PTL

\* Between two refreshes the stored token is the last one the provider handed
\* out: a commit that loses nothing leaves no spent token in a row.
THEOREM StoredTokenUnspentHolds == ASSUME OAuthAssumption PROVE Spec => []StoredTokenUnspent
<1>1. ASSUME OInv PROVE StoredTokenUnspent
  <2>1. ASSUME NEW u \in Users, conn[u] # NoRow, ~seen.lost, \A p \in Refreshers : ~Refreshing(p, u),
               conn[u].refresh \in prov.spent
        PROVE  FALSE
    <3>1. RowToken(u) \in prov.spent
      BY <2>1 DEF RowToken
    <3>2. connLock[u] # NoOne /\ connLock[u] \in Refreshers
      BY <1>1, <2>1, <3>1 DEF OInv, Types, ConnInv, SpentInHand
    <3>3. Refreshing(connLock[u], u)
      BY <1>1, <3>2 DEF OInv, ConnInv, ConnLocks
    <3> QED
      BY <2>1, <3>2, <3>3
  <2> QED
    BY <2>1 DEF StoredTokenUnspent
<1> QED
  BY <1>1, OInvHolds, PTL

\* Whoever takes the lock of a row after waiting for it looks at the row again:
\* a consumer finds an access token that has aged, the sweeper a row its cutoff
\* still covers, as long as the lock is held.
THEOREM NoNeedlessRefreshHolds == ASSUME OAuthAssumption PROVE Spec => []NoNeedlessRefresh
<1>1. OInv => NoNeedlessRefresh
  BY DEF OInv, ConnInv
<1> QED
  BY <1>1, OInvHolds, PTL

\* The poll whose grant consumed a device code holds the session it read the
\* code from until it has stored the connection and deleted the session.
THEOREM ConsumedCodeNotPolledHolds == ASSUME OAuthAssumption PROVE Spec => []ConsumedCodeNotPolled
<1>1. OInv => ConsumedCodeNotPolled
  BY DEF OInv, SessInv, ConsumedInHand, ConsumedCodeNotPolled
<1> QED
  BY <1>1, OInvHolds, PTL
=============================================================================
