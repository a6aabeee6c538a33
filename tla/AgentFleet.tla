----------------------------- MODULE AgentFleet -----------------------------
(***************************************************************************)
(* The life of a workspace-agent pod as the control plane sees it          *)
(* (core/agent_gateway): the workspace_agents row (liveness and lifecycle),*)
(* the bearer ledger, the agent-scoped commands (ConfigUpdate, Shutdown,   *)
(* CancelShutdown) and the liveness sweep, composed with the supervisor    *)
(* process on the other end of the link.                                   *)
(*                                                                         *)
(* A bearer is verified in a session of its own before the handler's       *)
(* transaction starts, so a request is two steps: it is accepted, and      *)
(* later its handler commits.  A claim waits up to 30 s between the two.   *)
(***************************************************************************)
EXTENDS Naturals, FiniteSets, Sequences

CONSTANTS
  Agents,       \* pods, by (org_id, instance_id)
  MaxAttempt,   \* MAX_ATTEMPT: leases of one command before it is retired
  MaxTokens,    \* bound: identity exchanges of one pod
  MaxCmds,      \* bound: agent-scoped commands enqueued
  MaxRequests,  \* bound: admin requests (shutdown, cancel shutdown, config fan-out)
  MaxLost,      \* bound: claim responses and `received` events lost
  MaxCrash,     \* bound: pods killed or terminated
  MaxSilence    \* bound: gaps in which a live pod's heartbeats do not arrive

FleetAssumption ==
  /\ IsFiniteSet(Agents) /\ Agents # {} /\ "null" \notin Agents
  /\ MaxAttempt \in Nat \ {0} /\ MaxTokens \in Nat \ {0} /\ MaxCmds \in Nat
  /\ MaxRequests \in Nat /\ MaxLost \in Nat /\ MaxCrash \in Nat /\ MaxSilence \in Nat

VARIABLES
  agent,    \* agent[a]: the workspace_agents row
  bearer,   \* bearer[a]: the bearer_tokens rows of a pod
  cmd,      \* the agent-scoped agent_commands rows, in UUIDv7 order
  flight,   \* flight[a]: requests whose bearer was verified, handler not committed
  pod,      \* pod[a]: the supervisor process
  used      \* how much of each environment bound is used up

vars == <<agent, bearer, cmd, flight, pod, used>>

-----------------------------------------------------------------------------
(* Rows, requests and processes.                                            *)

Lifecycles == {"none", "unconfigured", "active", "draining", "shutdown"}
Liveness   == {"reachable", "stale", "offline"}
Tokens     == 1..MaxTokens

\* age: seconds since last_heartbeat_at, 0 (under 60 s), 1 (under 5 min), 2.
\* bye: last_shutdown_at is later than last_heartbeat_at.
AgentType  == [life : Lifecycles, live : Liveness, age : 0..2, bye : BOOLEAN]
BearerType == [issued : 0..MaxTokens, valid : SUBSET Tokens]
CmdType    == [kind : {"config", "shutdown", "cancel"}, pin : Agents \cup {"null"},
               status : {"pending", "claimed", "delivered", "done"},
               claims : Nat,          \* completion tokens minted; the hash is the last
               attempt : 0..MaxAttempt, late : BOOLEAN]
RequestType == [kind : {"heartbeat", "claim", "delete"}, life : Lifecycles, tok : Tokens]
Locals     == {"unconfigured", "active", "draining"}
\* waiting: the bearer of the claim the pod is blocked on, 0 when there is none.
PodType    == [up : BOOLEAN, tok : 0..MaxTokens, local : Locals, waiting : 0..MaxTokens,
               hand : 0..MaxCmds, claim : Nat, step : {"received", "route", "post"},
               busy : BOOLEAN, exiting : BOOLEAN]

NoPod == [up |-> FALSE, tok |-> 0, local |-> "unconfigured", waiting |-> 0, hand |-> 0,
          claim |-> 0, step |-> "received", busy |-> FALSE, exiting |-> FALSE]

TypeOK ==
  /\ agent \in [Agents -> AgentType]
  /\ bearer \in [Agents -> BearerType]
  /\ cmd \in Seq(CmdType) /\ Len(cmd) <= MaxCmds
  /\ flight \in [Agents -> SUBSET RequestType]
  /\ pod \in [Agents -> PodType]
  /\ used \in [requests : 0..MaxRequests, lost : 0..MaxLost, crash : 0..MaxCrash, silence : 0..MaxSilence]

Init ==
  /\ agent = [a \in Agents |-> [life |-> "none", live |-> "offline", age |-> 0, bye |-> FALSE]]
  /\ bearer = [a \in Agents |-> [issued |-> 0, valid |-> {}]]
  /\ cmd = <<>>
  /\ flight = [a \in Agents |-> {}]
  /\ pod = [a \in Agents |-> NoPod]
  /\ used = [requests |-> 0, lost |-> 0, crash |-> 0, silence |-> 0]

\* The link only fails while the bounds leave the pod one more exchange, so that
\* a bound is never what keeps it from recovering.
Spare(a) == bearer[a].issued < MaxTokens

Use(k, n) == used[k] < n /\ used' = [used EXCEPT ![k] = @ + 1]

-----------------------------------------------------------------------------
(* The supervisor process.                                                  *)

\* A pod that says goodbye waits for the answer: its successor starts after it.
Start(a) ==
  /\ ~pod[a].up /\ \A q \in flight[a] : q.kind # "delete"
  /\ bearer[a].issued < MaxTokens
  /\ pod' = [pod EXCEPT ![a] = [NoPod EXCEPT !.up = TRUE]]
  /\ UNCHANGED <<agent, bearer, cmd, flight, used>>

\* The process dies without a word.  What it had in flight is still handled.
Crash(a) ==
  /\ pod[a].up /\ Use("crash", MaxCrash)
  /\ pod' = [pod EXCEPT ![a] = NoPod]
  /\ UNCHANGED <<agent, bearer, cmd, flight>>

\* SIGTERM: the loops end and the process says goodbye (SayGoodbye).
Terminate(a) ==
  /\ pod[a].up /\ ~pod[a].exiting /\ Use("crash", MaxCrash)
  /\ pod' = [pod EXCEPT ![a].exiting = TRUE]
  /\ UNCHANGED <<agent, bearer, cmd, flight>>

\* Workspaces come and go; only whether the pool is empty matters here.
WorkStarts(a) ==
  /\ pod[a].up /\ pod[a].local = "active" /\ ~pod[a].busy /\ ~pod[a].exiting
  /\ pod' = [pod EXCEPT ![a].busy = TRUE]
  /\ UNCHANGED <<agent, bearer, cmd, flight, used>>

WorkEnds(a) ==
  /\ pod[a].busy
  /\ pod' = [pod EXCEPT ![a].busy = FALSE]
  /\ UNCHANGED <<agent, bearer, cmd, flight, used>>

-----------------------------------------------------------------------------
(* Identity exchange.                                                       *)

\* A ConfigUpdate pre-stamped with its agent, and a placeholder token hash.
NewCmd(kind, a) == [kind |-> kind, pin |-> a, status |-> "pending", claims |-> 0,
                    attempt |-> 0, late |-> FALSE]

EnsureAgentRow_KeepsShutdown(a) ==
  [agent[a] EXCEPT !.live = "reachable", !.age = 0, !.bye = FALSE,
                   !.life = IF @ = "none" THEN "unconfigured" ELSE @]

\* The upsert keeps the lifecycle, except that a shut-down pod starts afresh.
EnsureAgentRow(a) ==
  [agent[a] EXCEPT !.live = "reachable", !.age = 0, !.bye = FALSE,
                   !.life = IF @ \in {"none", "shutdown"} THEN "unconfigured" ELSE @]

\* At boot, after a 401, and at renewal_after: row, ConfigUpdate and bearer in
\* one transaction; earlier bearers stay valid.
ExchangeIdentity(a) ==
  /\ pod[a].up /\ ~pod[a].exiting
  /\ bearer[a].issued < MaxTokens /\ Len(cmd) < MaxCmds
  /\ agent' = [agent EXCEPT ![a] = EnsureAgentRow(a)]
  /\ cmd' = Append(cmd, NewCmd("config", a))
  /\ LET t == bearer[a].issued + 1 IN
       /\ bearer' = [bearer EXCEPT ![a] = [issued |-> t, valid |-> @.valid \cup {t}]]
       /\ pod' = [pod EXCEPT ![a].tok = t]
  /\ UNCHANGED <<flight, used>>

\* A bearer outlives its hour; the pod renewed before that.
BearerExpires(a) ==
  /\ \E t \in bearer[a].valid :
       /\ t < bearer[a].issued
       /\ bearer' = [bearer EXCEPT ![a].valid = @ \ {t}]
  /\ UNCHANGED <<agent, cmd, flight, pod, used>>

-----------------------------------------------------------------------------
(* Requests: accepted by _verify_bearer, then handled.                      *)

Verified(a) == pod[a].up /\ pod[a].tok \in bearer[a].valid

Request(a, kind) == [kind |-> kind, life |-> pod[a].local, tok |-> pod[a].tok]

SendHeartbeat(a) ==
  /\ Verified(a) /\ ~pod[a].exiting
  /\ \A q \in flight[a] : q.kind # "heartbeat"
  /\ flight' = [flight EXCEPT ![a] = @ \cup {Request(a, "heartbeat")}]
  /\ UNCHANGED <<agent, bearer, cmd, pod, used>>

\* record_heartbeat asks nothing of the lifecycle.
RecordHeartbeat(a) ==
  /\ \E q \in flight[a] :
       /\ q.kind = "heartbeat"
       /\ flight' = [flight EXCEPT ![a] = @ \ {q}]
  /\ agent' = [agent EXCEPT ![a].live = "reachable", ![a].age = 0, ![a].bye = FALSE]
  /\ UNCHANGED <<bearer, cmd, pod, used>>

\* claimLoop: one outstanding claim, and none while a command is in hand.
SendClaim(a) ==
  /\ Verified(a) /\ ~pod[a].exiting /\ pod[a].waiting = 0 /\ pod[a].hand = 0
  /\ pod' = [pod EXCEPT ![a].waiting = pod[a].tok]
  /\ flight' = [flight EXCEPT ![a] = @ \cup {Request(a, "claim")}]
  /\ UNCHANGED <<agent, bearer, cmd, used>>

\* The bucket of agent-scoped rows, which every claim looks at first.
Eligible(a, life) ==
  {c \in DOMAIN cmd : /\ cmd[c].status = "pending"
                      /\ cmd[c].pin = a
                      /\ life = "unconfigured" => cmd[c].kind = "config"}

\* ORDER BY id LIMIT 1: the oldest row of a set, or none.
Oldest(C) == {c \in C : \A d \in C : c <= d}

Claims(a) == {q \in flight[a] : q.kind = "claim"}

\* The process that sent the claim is still there to read the answer.
Awaited(a, q) == pod[a].waiting = q.tok

\* A 204 while draining with an empty pool ends the process.
MaybeTriggerShutdownExit(p) == p.local = "draining" /\ ~p.busy

ClaimNothing(a) ==
  /\ \E q \in Claims(a) :
       /\ Eligible(a, q.life) = {}
       /\ flight' = [flight EXCEPT ![a] = @ \ {q}]
       /\ pod' = IF Awaited(a, q)
                 THEN [pod EXCEPT ![a].waiting = 0, ![a].exiting = @ \/ MaybeTriggerShutdownExit(pod[a])]
                 ELSE pod
  /\ UNCHANGED <<agent, bearer, cmd, used>>

\* The oldest eligible row is stamped.  `arrives`: the response reaches the pod.
ClaimNext(a, arrives) ==
  /\ \E q \in Claims(a) : \E c \in Oldest(Eligible(a, q.life)) :
       /\ flight' = [flight EXCEPT ![a] = @ \ {q}]
       /\ cmd' = [cmd EXCEPT ![c].status = "claimed", ![c].claims = @ + 1, ![c].late = FALSE]
       /\ pod' = CASE ~Awaited(a, q) -> pod
                   [] Awaited(a, q) /\ arrives -> [pod EXCEPT ![a].waiting = 0, ![a].hand = c,
                                                    ![a].claim = cmd[c].claims + 1, ![a].step = "received"]
                   [] OTHER -> [pod EXCEPT ![a].waiting = 0]
       /\ IF arrives THEN used' = used ELSE Awaited(a, q) /\ Spare(a) /\ Use("lost", MaxLost)
  /\ UNCHANGED <<agent, bearer>>

\* A ConfigUpdate whose API keys cannot be read goes back to pending, its new
\* token with it; the pod gets a 204.
ClaimHydrationFails(a) ==
  /\ \E q \in Claims(a) : \E c \in Oldest(Eligible(a, q.life)) :
       /\ cmd[c].kind = "config"
       /\ flight' = [flight EXCEPT ![a] = @ \ {q}]
       /\ cmd' = [cmd EXCEPT ![c].claims = @ + 1]
       /\ pod' = IF Awaited(a, q) THEN [pod EXCEPT ![a].waiting = 0] ELSE pod
  /\ Spare(a) /\ Use("lost", MaxLost)
  /\ UNCHANGED <<agent, bearer>>

-----------------------------------------------------------------------------
(* What the pod does with a claimed command, and what it reports.           *)

TokenMatches(a) == cmd[pod[a].hand].claims = pod[a].claim

\* `received`: best effort; the command is run whether or not it arrives.
PostReceived(a, arrives) ==
  /\ pod[a].hand # 0 /\ pod[a].step = "received"
  /\ pod' = [pod EXCEPT ![a].step = "route"]
  /\ IF arrives
     THEN /\ Verified(a)
          /\ cmd' = [cmd EXCEPT ![pod[a].hand].status =
                       IF @ = "claimed" /\ TokenMatches(a) THEN "delivered" ELSE @]
          /\ used' = used
     ELSE cmd' = cmd /\ Spare(a) /\ Use("lost", MaxLost)
  /\ UNCHANGED <<agent, bearer, flight>>

\* ApplyConfig never overrides a drain; Shutdown and CancelShutdown always act.
ApplyConfig(local) == IF local = "unconfigured" THEN "active" ELSE local

Routed(kind, local) ==
  CASE kind = "config" -> ApplyConfig(local)
    [] kind = "shutdown" -> "draining"
    [] kind = "cancel" -> "active"

RouteCommand(a) ==
  /\ pod[a].hand # 0 /\ pod[a].step = "route"
  /\ pod' = [pod EXCEPT ![a].step = "post", ![a].local = Routed(cmd[pod[a].hand].kind, @)]
  /\ UNCHANGED <<agent, bearer, cmd, flight, used>>

MarkAgentConfigured(life) == IF life = "unconfigured" THEN "active" ELSE life

\* completed_success: a stale token is answered 410 and dropped by the pod; else
\* the row is retired and a ConfigUpdate configures the agent it is pinned to.
PostTerminal(a) ==
  /\ pod[a].hand # 0 /\ pod[a].step = "post" /\ Verified(a)
  /\ LET c == pod[a].hand IN
       IF TokenMatches(a)
       THEN /\ cmd' = [cmd EXCEPT ![c].status = "done"]
            /\ agent' = IF cmd[c].kind = "config" /\ cmd[c].pin # "null"
                        THEN [agent EXCEPT ![cmd[c].pin].life = MarkAgentConfigured(@)]
                        ELSE agent
       ELSE UNCHANGED <<cmd, agent>>
  /\ pod' = [pod EXCEPT ![a].hand = 0, ![a].step = "received"]
  /\ UNCHANGED <<bearer, flight, used>>

-----------------------------------------------------------------------------
(* Saying goodbye.                                                          *)

\* The process exits; the DELETE is accepted, or its bearer is refused.
SayGoodbye(a) ==
  /\ pod[a].up /\ pod[a].exiting
  /\ flight' = [flight EXCEPT ![a] = IF Verified(a) THEN @ \cup {Request(a, "delete")} ELSE @]
  /\ pod' = [pod EXCEPT ![a] = NoPod]
  /\ UNCHANGED <<agent, bearer, cmd, used>>

\* CAS draining -> shutdown, with the liveness, the goodbye stamp and every
\* bearer of the pod in the same transaction.
MarkAgentShutdownComplete(r) ==
  IF r.life = "draining" THEN [r EXCEPT !.life = "shutdown", !.live = "offline", !.bye = TRUE] ELSE r

MarkAgentOffline(r) == [r EXCEPT !.live = "offline", !.bye = TRUE]

\* draining: complete the shutdown.  shutdown: nothing.  Otherwise the pod left
\* unasked.  Either way handle_agent_loss revokes what bearers are left.
DeregisterIdentity(a) ==
  /\ \E q \in flight[a] :
       /\ q.kind = "delete"
       /\ flight' = [flight EXCEPT ![a] = @ \ {q}]
  /\ IF agent[a].life = "shutdown"
     THEN UNCHANGED <<agent, bearer>>
     ELSE /\ agent' = [agent EXCEPT ![a] = IF @.life = "draining" THEN MarkAgentShutdownComplete(@)
                                                                  ELSE MarkAgentOffline(@)]
          /\ bearer' = [bearer EXCEPT ![a].valid = {}]
  /\ UNCHANGED <<cmd, pod, used>>

-----------------------------------------------------------------------------
(* Time and the reaper's sweep.                                             *)

\* A pod that is up heartbeats every 30 s: it only ages when its heartbeats are
\* held up, and a pod that is gone always does.
TimePasses(a) ==
  /\ agent[a].life # "none" /\ agent[a].age < 2
  /\ IF pod[a].up THEN Use("silence", MaxSilence) ELSE used' = used
  /\ agent' = [agent EXCEPT ![a].age = @ + 1]
  /\ UNCHANGED <<bearer, cmd, flight, pod>>

\* LEASE_SECONDS after a claim.  A pod acknowledges long before that.
LeaseLapses(c) ==
  /\ cmd[c].status = "claimed" /\ ~cmd[c].late
  /\ \A a \in Agents : ~(pod[a].hand = c /\ pod[a].step = "received")
  /\ cmd' = [cmd EXCEPT ![c].late = TRUE]
  /\ UNCHANGED <<agent, bearer, flight, pod, used>>

TargetState(age) == CASE age = 0 -> "reachable" [] age = 1 -> "stale" [] age = 2 -> "offline"

\* Rows compute_agent_liveness_transitions writes.
Transitions == {a \in Agents : /\ agent[a].life \notin {"none", "shutdown"}
                               /\ agent[a].live # TargetState(agent[a].age)}

Swept_NoDrainRecovery(a) == [agent[a] EXCEPT !.live = TargetState(agent[a].age)]

Swept(a) ==
  LET r == [agent[a] EXCEPT !.live = TargetState(agent[a].age)] IN
    IF r.live = "offline" THEN MarkAgentShutdownComplete(r) ELSE r

NewlyOffline == {a \in Transitions : TargetState(agent[a].age) = "offline"}

Stale == {c \in DOMAIN cmd : cmd[c].status = "claimed" /\ cmd[c].late}

Requeued(r) ==
  IF r.attempt >= MaxAttempt - 1
  THEN [r EXCEPT !.status = "done", !.attempt = MaxAttempt]
  ELSE [r EXCEPT !.status = "pending", !.pin = "null", !.late = FALSE, !.attempt = @ + 1]

\* One reaper transaction: liveness, failsafe_agent_loss, requeue_stale_claimed.
ReaperSweep ==
  /\ Transitions # {} \/ Stale # {}
  /\ agent' = [a \in Agents |-> IF a \in Transitions THEN Swept(a) ELSE agent[a]]
  /\ bearer' = [a \in Agents |-> IF a \in NewlyOffline THEN [bearer[a] EXCEPT !.valid = {}] ELSE bearer[a]]
  /\ cmd' = [c \in DOMAIN cmd |-> IF c \in Stale THEN Requeued(cmd[c]) ELSE cmd[c]]
  /\ UNCHANGED <<flight, pod, used>>

-----------------------------------------------------------------------------
(* Admin requests.                                                          *)

\* CAS unconfigured | active -> draining, and the Shutdown command with it.
ShutdownAgents(a) ==
  /\ agent[a].life \in {"unconfigured", "active"}
  /\ Len(cmd) < MaxCmds /\ Use("requests", MaxRequests)
  /\ agent' = [agent EXCEPT ![a].life = "draining"]
  /\ cmd' = Append(cmd, NewCmd("shutdown", a))
  /\ UNCHANGED <<bearer, flight, pod>>

\* CAS draining -> active, and the CancelShutdown command with it.
CancelShutdownAgents(a) ==
  /\ agent[a].life = "draining"
  /\ Len(cmd) < MaxCmds /\ Use("requests", MaxRequests)
  /\ agent' = [agent EXCEPT ![a].life = "active"]
  /\ cmd' = Append(cmd, NewCmd("cancel", a))
  /\ UNCHANGED <<bearer, flight, pod>>

\* An API key or workspace_max_count changed: one ConfigUpdate for every row.
ConfigFanOut ==
  /\ Use("requests", MaxRequests)
  /\ LET known == {a \in Agents : agent[a].life # "none"} IN
       /\ known # {} /\ Len(cmd) + Cardinality(known) <= MaxCmds
       /\ \E order \in {s \in [1..Cardinality(known) -> known] : \A i, j \in DOMAIN s : s[i] = s[j] => i = j} :
            cmd' = cmd \o [i \in DOMAIN order |-> NewCmd("config", order[i])]
  /\ UNCHANGED <<agent, bearer, flight, pod>>

-----------------------------------------------------------------------------
PodStep(a) ==
  \/ Start(a) \/ ExchangeIdentity(a) \/ SendHeartbeat(a) \/ SendClaim(a)
  \/ PostReceived(a, TRUE) \/ RouteCommand(a) \/ PostTerminal(a)
  \/ WorkStarts(a) \/ WorkEnds(a) \/ SayGoodbye(a)

HandlerStep(a) ==
  RecordHeartbeat(a) \/ ClaimNothing(a) \/ ClaimNext(a, TRUE) \/ DeregisterIdentity(a)

FaultStep(a) ==
  \/ Crash(a) \/ Terminate(a) \/ PostReceived(a, FALSE)
  \/ ClaimNext(a, FALSE) \/ ClaimHydrationFails(a) \/ BearerExpires(a)

AdminStep(a) == ShutdownAgents(a) \/ CancelShutdownAgents(a)

Next ==
  \/ \E a \in Agents : PodStep(a) \/ HandlerStep(a) \/ FaultStep(a) \/ AdminStep(a) \/ TimePasses(a)
  \/ \E c \in DOMAIN cmd : LeaseLapses(c)
  \/ ReaperSweep
  \/ ConfigFanOut

Spec == Init /\ [][Next]_vars

-----------------------------------------------------------------------------
(* Properties.                                                              *)

\* A row that completed its shutdown has no bearer left: whatever exchange, sweep
\* or DELETE raced, a pod of that row has to exchange its identity again, and
\* that exchange makes it `unconfigured` (mark_agent_shutdown_complete).
ShutdownMeansNoBearer == \A a \in Agents : agent[a].life = "shutdown" => bearer[a].valid = {}

\* A pod that the sweep or a DELETE declared lost cannot go on using the bearer
\* it had: it re-exchanges when it returns (failsafe_agent_loss).
LostPodIsLockedOut == \A a \in Agents : agent[a].live = "offline" => bearer[a].valid = {}

\* With no Shutdown or CancelShutdown left to carry out, pod and row agree on
\* whether the pod is draining, whatever ConfigUpdates are mixed in between.
DrainMirrored ==
  \A a \in Agents :
    (/\ pod[a].up /\ pod[a].local # "unconfigured" /\ agent[a].life \in {"active", "draining"}
     /\ \A c \in DOMAIN cmd : cmd[c].pin = a /\ cmd[c].kind # "config" => cmd[c].status = "done")
    => (pod[a].local = "draining" <=> agent[a].life = "draining")

\* The same of every pod an admin may drain, one that is already offline included.
AnyDrainSettles == \A a \in Agents : (agent[a].life = "draining") ~> (agent[a].life # "draining")

\* A command whose lease lapsed is delivered again or given up, not left pending
\* (requeue_stale_claimed "flips claimed back to pending for re-delivery").
RequeuedIsRedelivered ==
  \A c \in 1..MaxCmds :
    (c \in DOMAIN cmd /\ cmd[c].status = "pending" /\ cmd[c].attempt > 0)
      ~> (c \in DOMAIN cmd /\ cmd[c].status # "pending")

\* A row in `shutdown` is offline (compute_agent_liveness_transitions: the
\* lifecycle is terminal and its state already pinned).
ShutdownIsOffline == \A a \in Agents : agent[a].life = "shutdown" => agent[a].live = "offline"

\* A pod that said goodbye stays offline until it is heard of again
\* (compute_agent_liveness_transitions: "explicit shutdown ... -> offline").
GoneStaysOffline ==
  [][\A a \in Agents : agent[a].live = "offline" /\ agent[a].bye /\ agent'[a].live # "offline"
                        => ~agent'[a].bye]_vars

=============================================================================
