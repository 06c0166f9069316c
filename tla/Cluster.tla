------------------------------ MODULE Cluster ------------------------------
(***************************************************************************)
(* The Kubernetes objects this operator reads and writes, and everyone else *)
(* who touches them: the API server's copies (agents, secrets, workloads),  *)
(* the informer caches the operator's reads are answered from               *)
(* (cachedAgents, cachedSecrets), the garbage collector, the pods and the   *)
(* users.  An object is named by the agent it is constructed for: Name()    *)
(* digests the whole GRN, so two agents share no name.                      *)
(*                                                                          *)
(* A write whose writer stopped waiting for the answer, or stopped being     *)
(* the leader, may still reach the API server: it waits in lateWrites.      *)
(*                                                                          *)
(* uid 0 is an object that does not exist.  author is history no code reads:*)
(* it remembers who created an Agent.                                       *)
(***************************************************************************)
EXTENDS GaramTypes

CONSTANTS OtherSecrets,  \* Secret names a user's spec may name instead
          Images,        \* agent images
          UserActs,      \* what users do in this instance
          MaxUserActs,   \* bound: how often they do it
          MaxLateWrites  \* bound: writes given up on and still under way

ASSUME ClusterAssumption == MaxUserActs \in Nat /\ MaxLateWrites \in Nat

VARIABLES agents, secrets, workloads, cachedAgents, cachedSecrets, uids, userActs,
          lateWrites

clusterVars ==
  <<agents, secrets, workloads, cachedAgents, cachedSecrets, uids, userActs, lateWrites>>

SecretNames == Agents \cup OtherSecrets

\* credentialsKey: the Secret named after the agent it is for.
credentialsKey(a) == a

ConditionStatus == {"absent", "True", "False", "Unknown"}

AgentObject ==
  [uid: Nat, author: {"none", "operator", "user"}, image: Images \cup {"none"},
   secretName: SecretNames \cup {"none"},
   grn: Agents \cup {"none"}, epoch: Nat, available: ConditionStatus]

NoAgent ==
  [uid |-> 0, author |-> "none", image |-> "none", secretName |-> "none",
   grn |-> "none", epoch |-> 0, available |-> "absent"]

\* cert is the epoch the certificate in the Secret was issued at, 0 where the
\* Secret holds something a user put there; owner is its controller's uid.
SecretObject == [exists: BOOLEAN, owner: Nat, cert: Nat]

NoSecret == [exists |-> FALSE, owner |-> 0, cert |-> 0]

\* The StatefulSet of an Agent: owner 0 is no StatefulSet.
Workload == [owner: Nat, ready: BOOLEAN]

NoWorkload == [owner |-> 0, ready |-> FALSE]

\* A write of the constructor's as it is sent: none names a version or a uid.
Write ==
  [kind: {"create", "image"}, agent: Agents, image: Images]
    \cup [kind: {"status"}, agent: Agents, epoch: Nat]
    \cup [kind: {"secret"}, name: SecretNames \cup {"none"}, owner: Nat, cert: Nat]

ClusterTypeOK ==
  /\ agents \in [Agents -> AgentObject]
  /\ secrets \in [SecretNames -> SecretObject]
  /\ workloads \in [Agents -> Workload]
  /\ cachedAgents \in [Agents -> AgentObject]
  /\ cachedSecrets \in [SecretNames -> BOOLEAN]
  /\ uids \in Nat
  /\ userActs \in Nat
  /\ lateWrites \subseteq Write

ClusterInit ==
  /\ agents = [a \in Agents |-> NoAgent]
  /\ secrets = [n \in SecretNames |-> NoSecret]
  /\ workloads = [a \in Agents |-> NoWorkload]
  /\ cachedAgents = agents
  /\ cachedSecrets = [n \in SecretNames |-> FALSE]
  /\ uids = 0
  /\ userActs = 0
  /\ lateWrites = {}

Exists(object) == object.uid # 0

\* The API server admits a new Agent: a fresh uid and an empty status.
NewAgent(author, image, secretName) ==
  [uid |-> uids + 1, author |-> author, image |-> image, secretName |-> secretName,
   grn |-> "none", epoch |-> 0, available |-> "absent"]

CreateAgent(a, author, image, secretName) ==
  /\ ~Exists(agents[a])
  /\ agents' = [agents EXCEPT ![a] = NewAgent(author, image, secretName)]
  /\ uids' = uids + 1

\* What the merge patches and the create of a Secret leave.
SetImage(a, i) == [agents EXCEPT ![a].image = i]

SetStatus(a, e) == [agents EXCEPT ![a].grn = a, ![a].epoch = e]

PutSecret(n, owner, c) ==
  [secrets EXCEPT ![n] = [exists |-> TRUE, owner |-> owner, cert |-> c]]

Alive(uid) == \E a \in Agents : agents[a].uid = uid

\* The informers hear of a change, some time after it was made.
SyncAgent(a) ==
  /\ cachedAgents[a] # agents[a]
  /\ cachedAgents' = [cachedAgents EXCEPT ![a] = agents[a]]
  /\ UNCHANGED <<agents, secrets, workloads, cachedSecrets, uids, userActs, lateWrites>>

SyncSecret(n) ==
  /\ cachedSecrets[n] # secrets[n].exists
  /\ cachedSecrets' = [cachedSecrets EXCEPT ![n] = secrets[n].exists]
  /\ UNCHANGED <<agents, secrets, workloads, cachedAgents, uids, userActs,
                 lateWrites>>

\* A process that starts lists before it reads.
CachesInSync ==
  /\ cachedAgents' = agents
  /\ cachedSecrets' = [n \in SecretNames |-> secrets[n].exists]

\* The garbage collector takes what an Agent that is gone owned.
CollectSecret(n) ==
  /\ secrets[n].owner # 0 /\ ~Alive(secrets[n].owner)
  /\ secrets' = [secrets EXCEPT ![n] = NoSecret]
  /\ UNCHANGED <<agents, workloads, cachedAgents, cachedSecrets, uids, userActs, lateWrites>>

CollectWorkload(a) ==
  /\ workloads[a].owner # 0 /\ ~Alive(workloads[a].owner)
  /\ workloads' = [workloads EXCEPT ![a] = NoWorkload]
  /\ UNCHANGED <<agents, secrets, cachedAgents, cachedSecrets, uids, userActs, lateWrites>>

\* A write arrives that nobody waits for any longer.  It names an object and
\* neither its uid nor its version, so it lands on whatever has the name by now;
\* a create finds the name free, and a status below the CRD's minimum is refused.
LandWrite(w) ==
  /\ lateWrites' = lateWrites \ {w}
  /\ \/ /\ w.kind = "create"
        /\ CreateAgent(w.agent, "operator", w.image, credentialsKey(w.agent))
        /\ UNCHANGED secrets
     \/ /\ w.kind = "image" /\ Exists(agents[w.agent])
        /\ agents' = SetImage(w.agent, w.image)
        /\ UNCHANGED <<secrets, uids>>
     \/ /\ w.kind = "status" /\ Exists(agents[w.agent]) /\ w.epoch # 0
        /\ agents' = SetStatus(w.agent, w.epoch)
        /\ UNCHANGED <<secrets, uids>>
     \/ /\ w.kind = "secret" /\ ~secrets[w.name].exists
        /\ secrets' = PutSecret(w.name, w.owner, w.cert)
        /\ UNCHANGED <<agents, uids>>
  /\ UNCHANGED <<workloads, cachedAgents, cachedSecrets, userActs>>

\* Whatever is still under way is lost, or refused with nobody listening.
LoseWrites ==
  /\ lateWrites # {}
  /\ lateWrites' = {}
  /\ UNCHANGED <<agents, secrets, workloads, cachedAgents, cachedSecrets, uids, userActs>>

\* The replica becomes ready, or stops being.
PodChanges(a) ==
  /\ workloads[a].owner # 0
  /\ workloads' = [workloads EXCEPT ![a].ready = ~@]
  /\ UNCHANGED <<agents, secrets, cachedAgents, cachedSecrets, uids, userActs, lateWrites>>

UserCreatesAgent(a) ==
  /\ \E i \in Images, n \in SecretNames : CreateAgent(a, "user", i, n)
  /\ UNCHANGED secrets

UserDeletesAgent(a) ==
  /\ Exists(agents[a])
  /\ agents' = [agents EXCEPT ![a] = NoAgent]
  /\ UNCHANGED <<secrets, uids>>

UserEditsImage(a) ==
  /\ Exists(agents[a])
  /\ \E i \in Images : agents' = [agents EXCEPT ![a].image = i]
  /\ UNCHANGED <<secrets, uids>>

UserEditsSecretName(a) ==
  /\ Exists(agents[a])
  /\ \E n \in SecretNames : agents' = [agents EXCEPT ![a].secretName = n]
  /\ UNCHANGED <<secrets, uids>>

UserCreatesSecret(n) ==
  /\ ~secrets[n].exists
  /\ secrets' = [secrets EXCEPT ![n].exists = TRUE]
  /\ UNCHANGED <<agents, uids>>

UserDeletesSecret(n) ==
  /\ secrets[n].exists
  /\ secrets' = [secrets EXCEPT ![n] = NoSecret]
  /\ UNCHANGED <<agents, uids>>

\* One thing a user does with kubectl, of the kinds this instance allows.
UserAct ==
  /\ userActs < MaxUserActs
  /\ userActs' = userActs + 1
  /\ UNCHANGED <<workloads, cachedAgents, cachedSecrets, lateWrites>>
  /\ \/ "createAgent" \in UserActs /\ \E a \in Agents : UserCreatesAgent(a)
     \/ "deleteAgent" \in UserActs /\ \E a \in Agents : UserDeletesAgent(a)
     \/ "editImage" \in UserActs /\ \E a \in Agents : UserEditsImage(a)
     \/ "editSecretName" \in UserActs /\ \E a \in Agents : UserEditsSecretName(a)
     \/ "createSecret" \in UserActs /\ \E n \in SecretNames : UserCreatesSecret(n)
     \/ "deleteSecret" \in UserActs /\ \E n \in SecretNames : UserDeletesSecret(n)

Sync == (\E a \in Agents : SyncAgent(a)) \/ (\E n \in SecretNames : SyncSecret(n))

Collect == (\E n \in SecretNames : CollectSecret(n))
           \/ (\E a \in Agents : CollectWorkload(a))

ClusterNext ==
  \/ Sync \/ Collect \/ UserAct \/ LoseWrites
  \/ \E w \in lateWrites : LandWrite(w)
  \/ \E a \in Agents : PodChanges(a)
=============================================================================
