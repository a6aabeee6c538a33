----------------------------- MODULE ApiKeyDelivery -----------------------------
(* How the API keys of one org reach its agents.  core/api_keys keeps one          *)
(* encrypted row per provider; set and clear enqueue, in their transaction, a      *)
(* ConfigUpdate for every agent of the org; the keys themselves are put into the   *)
(* command when the agent claims it.  An agent runs one claim loop (Concurrency is *)
(* never set above 1): it applies a ConfigUpdate before it claims again, and a     *)
(* workspace it starts gets the keys in effect at that moment for its whole life.  *)
EXTENDS Integers, Sequences, FiniteSets, FiniteSetsExt
CONSTANTS Providers, Agents, MaxSets, MaxWork, MaxAttempt, Ops
KeysAssumption == {MaxSets, MaxWork, MaxAttempt} \subseteq Nat
VARIABLES key,      \* org_api_keys: the version of the stored key, 0 for no row
          stamp,    \* last_validated_at: the key version a successful probe was about
          issued,   \* versions handed out; history
          garbled,  \* versions whose ciphertext the master key no longer opens
          val,      \* a validate request over its probe
          cmds,     \* agent_commands: the ConfigUpdates, by id
          work,     \* ProvisionWorkspace rows not yet claimed
          hand,     \* what an agent's claim loop is busy with
          config,   \* Supervisor.config: the key versions an agent has applied
          spawned   \* history: [want, got], keys committed and keys in effect at each claim of work
table == <<key, stamp, issued, garbled, val>>
agent == <<hand, config, spawned>>
vars == <<table, cmds, work, agent>>

NoKeys == [p \in Providers |-> 0]
Idle == [step |-> "idle"]
ConfigUpdate == [to: Agents \cup {"null"}, born: Agents, status: {"pending", "claimed", "delivered", "done"}, attempt: 0..MaxAttempt]

(* Every agent has exchanged its identity and applied a first, empty configuration. *)
Init == /\ key = NoKeys /\ stamp = NoKeys /\ issued = 0 /\ garbled = {} /\ val = Idle
        /\ cmds = <<>> /\ work = 0
        /\ hand = [a \in Agents |-> Idle] /\ config = [a \in Agents |-> NoKeys] /\ spawned = {}

----------------------------------------------------------------------------
(* core/api_keys *)
(* history: born is the agent a row was made for. *)
(* _build_agent_config leaves the keys out of what is stored. *)
BuildAgentConfig(a) == [to |-> a, born |-> a, status |-> "pending", attempt |-> 0]
EnqueueForAllOrgAgents == FoldSet(LAMBDA a, q : Append(q, BuildAgentConfig(a)), cmds, Agents)

SetKey(p) ==
    /\ issued < MaxSets
    /\ issued' = issued + 1 /\ key' = [key EXCEPT ![p] = issued + 1]
    /\ cmds' = EnqueueForAllOrgAgents
    /\ UNCHANGED <<stamp, garbled, val, work, agent>>

ClearKey_Silent(p) ==
    /\ key[p] # 0
    /\ key' = [key EXCEPT ![p] = 0] /\ stamp' = [stamp EXCEPT ![p] = 0]
    /\ UNCHANGED <<issued, garbled, val, cmds, work, agent>>
(* Only a clear that removed a row tells the agents. *)
ClearKey(p) ==
    /\ key[p] # 0 /\ Len(cmds) < Cardinality(Agents) * (MaxSets + 1)
    /\ key' = [key EXCEPT ![p] = 0] /\ stamp' = [stamp EXCEPT ![p] = 0]
    /\ cmds' = EnqueueForAllOrgAgents
    /\ UNCHANGED <<issued, garbled, val, work, agent>>

(* validate holds the row it read while the provider is asked; the stamp is written *)
(* by primary key, and fails when the row is gone.                                  *)
ValidateRead(p) ==
    /\ val = Idle /\ key[p] \notin garbled \cup {0}
    /\ val' = [step |-> "probe", p |-> p, version |-> key[p]]
    /\ UNCHANGED <<key, stamp, issued, garbled, cmds, work, agent>>
ValidateWrite(ok) ==
    /\ val.step = "probe" /\ val' = Idle
    /\ stamp' = IF ok /\ key[val.p] # 0 THEN [stamp EXCEPT ![val.p] = val.version] ELSE stamp
    /\ UNCHANGED <<key, issued, garbled, cmds, work, agent>>

(* Outside: the master key changes under the stored ciphertexts. *)
RotateMasterKey == /\ garbled' = 1..issued /\ garbled' # garbled
                   /\ UNCHANGED <<key, stamp, issued, val, cmds, work, agent>>

(* get_all_for_org: every key of the org, or an error when one is unreadable. *)
Readable == \A p \in Providers : key[p] \notin garbled
GetAllForOrg == key

----------------------------------------------------------------------------
(* core/agent_gateway: claim, lease and report *)
Pinned(a) == {c \in 1..Len(cmds) : cmds[c].to = a /\ cmds[c].status = "pending"}

(* Bucket 1, oldest first.  Unreadable keys fail the whole claim, and the row is as *)
(* it was.                                                                          *)
ClaimConfig(a, arrives) ==
    /\ hand[a] = Idle /\ Pinned(a) # {} /\ Readable
    /\ LET c == Min(Pinned(a))
       IN  /\ cmds' = [cmds EXCEPT ![c].status = "claimed"]
           /\ hand' = IF arrives THEN [hand EXCEPT ![a] = [step |-> "config", cmd |-> c, keys |-> GetAllForOrg]]
                      ELSE hand
    /\ UNCHANGED <<table, work, config, spawned>>

(* Buckets 2 and 3 are looked at only when bucket 1 is empty. *)
ClaimWork(a) ==
    /\ hand[a] = Idle /\ Pinned(a) = {} /\ work > 0
    /\ work' = work - 1 /\ spawned' = spawned \cup {[want |-> key, got |-> config[a]]}
    /\ UNCHANGED <<table, cmds, hand, config>>
ProvisionWorkspace(n) == /\ work + n + Cardinality(spawned) <= MaxWork /\ work' = work + n
                         /\ UNCHANGED <<table, cmds, agent>>

(* postReceivedEvent: best effort, cancels the lease. *)
PostReceived(a, arrives) ==
    /\ hand[a].step = "config" /\ hand' = [hand EXCEPT ![a].step = "apply"]
    /\ cmds' = IF arrives /\ cmds[hand[a].cmd].status = "claimed"
               THEN [cmds EXCEPT ![hand[a].cmd].status = "delivered"] ELSE cmds
    /\ UNCHANGED <<table, work, config, spawned>>

ApplyConfig(a) ==
    /\ hand[a].step = "apply" /\ hand' = [hand EXCEPT ![a].step = "report"]
    /\ config' = [config EXCEPT ![a] = hand[a].keys]
    /\ UNCHANGED <<table, cmds, work, spawned>>

(* The terminal event is posted until it is answered; the row is done. *)
PostTerminal(a) ==
    /\ hand[a].step = "report" /\ hand' = [hand EXCEPT ![a] = Idle]
    /\ cmds' = [cmds EXCEPT ![hand[a].cmd].status = "done"]
    /\ UNCHANGED <<table, work, config, spawned>>

(* A claim nobody acknowledged in time: back to pending without its agent, or, at   *)
(* the cap, done.                                                                   *)
RequeueStaleClaimed(c) ==
    /\ cmds[c].status = "claimed"
    /\ cmds' = [cmds EXCEPT ![c] = IF @.attempt >= MaxAttempt - 1
                                   THEN [@ EXCEPT !.status = "done", !.attempt = MaxAttempt]
                                   ELSE [@ EXCEPT !.status = "pending", !.to = "null", !.attempt = @ + 1]]
    /\ UNCHANGED <<table, work, agent>>

----------------------------------------------------------------------------
On(op) == op \in Ops
Admin == \/ \E p \in Providers : SetKey(p) \/ ClearKey(p)
         \/ On("validate") /\ \E p \in Providers : ValidateRead(p)
         \/ On("validate") /\ \E ok \in BOOLEAN : ValidateWrite(ok)
         \/ On("rotate") /\ RotateMasterKey
Step(a) == \/ ClaimConfig(a, TRUE)
           \/ ClaimWork(a)
           \/ PostReceived(a, TRUE)
           \/ ApplyConfig(a)
           \/ PostTerminal(a)
Faults == \/ On("lost") /\ \E a \in Agents : ClaimConfig(a, FALSE) \/ PostReceived(a, FALSE)
          \/ On("lost") /\ \E c \in 1..Len(cmds) : RequeueStaleClaimed(c)
Next == \/ Admin
        \/ ProvisionWorkspace(1)
        \/ \E a \in Agents : Step(a)
        \/ Faults
Spec == Init /\ [][Next]_vars

----------------------------------------------------------------------------
(* Types of the tables and of the agents' loops. *)
TypeOK == /\ key \in [Providers -> 0..MaxSets] /\ stamp \in [Providers -> 0..issued]
          /\ cmds \in Seq(ConfigUpdate) /\ work \in 0..MaxWork
          /\ config \in [Agents -> [Providers -> 0..issued]]
          /\ \A a \in Agents : hand[a].step \in {"idle", "config", "apply", "report"}

(* Once an agent has nothing left to claim and nothing in hand it holds exactly the *)
(* keys that are stored: no set or clear, however they are interleaved with claims, *)
(* leaves it with an older key.                                                     *)
Settled(a) == hand[a] = Idle /\ \A c \in 1..Len(cmds) : cmds[c].to = a => cmds[c].status = "done"
KeysArrive == \A a \in Agents : Settled(a) => config[a] = key

(* With lost claims too: an agent whose newest ConfigUpdate was not taken from it   *)
(* by the lease ends with the stored keys, whatever became of the ones before.      *)
Newest(a) == LET own == {c \in 1..Len(cmds) : cmds[c].born = a} IN IF own = {} THEN 0 ELSE Max(own)
LaterUpdateRepairs == \A a \in Agents :
    Settled(a) /\ (Newest(a) = 0 \/ cmds[Newest(a)].attempt = 0) => config[a] = key

(* A workspace that is claimed after a key change was committed is started with it: *)
(* ConfigUpdates come before any other command.                                     *)
WorkGetsTheNewKey == \A s \in spawned : s.got = s.want

====
