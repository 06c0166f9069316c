--------------------------- MODULE OperatorProofs ---------------------------
(***************************************************************************)
(* What TLAPS proves of Operator for any number of agents, epochs, late     *)
(* calls, restarts and acts of users: its types, the fence that an epoch    *)
(* recorded is, and that a recorded epoch is never taken back.              *)
(***************************************************************************)
EXTENDS Operator, TLAPS

\* Steps of one component leave the types of the others alone.
LEMMA GaramKeepsTypes ==
  ASSUME GaramTypeOK, GaramNext
  PROVE  GaramTypeOK'
<1>1. CASE \E a \in Agents, mine \in BOOLEAN : Reassign(a, mine)
  <2>1. PICK a \in Agents, mine \in BOOLEAN : Reassign(a, mine)
    BY <1>1
  <2>2. epoch[a] + 1 \in Nat /\ heldAt[a] \cup {epoch[a] + 1} \in SUBSET Nat
    BY DEF GaramTypeOK
  <2> QED
    BY <2>1, <2>2 DEF Reassign, GaramTypeOK
<1>2. CASE \E a \in Agents : DeliverLateClaim(a)
  BY <1>2 DEF DeliverLateClaim, AdmitClaim, GaramTypeOK
<1>3. CASE \E r \in lateReports : DeliverLateReport(r)
  BY <1>3 DEF DeliverLateReport, RecordReport, GaramTypeOK, Report, ProvisioningState
<1>4. CASE LoseLateCalls
  BY <1>4 DEF LoseLateCalls, GaramTypeOK
<1> QED
  BY <1>1, <1>2, <1>3, <1>4 DEF GaramNext

\* An Agent the API server creates has the type of an Agent.
LEMMA NewAgentType ==
  ASSUME uids \in Nat, NEW i \in Images, NEW n \in SecretNames,
         NEW author \in {"operator", "user"}
  PROVE  NewAgent(author, i, n) \in AgentObject
BY DEF NewAgent, AgentObject, ConditionStatus

\* So has the one that does not exist.
LEMMA NoAgentType == NoAgent \in AgentObject
BY DEF NoAgent, AgentObject, ConditionStatus

\* Recording a status changes one Agent, in its GRN and its epoch.
LEMMA SetStatusType ==
  ASSUME agents \in [Agents -> AgentObject], NEW a \in Agents, NEW e \in Nat
  PROVE  /\ SetStatus(a, e) \in [Agents -> AgentObject]
         /\ \A b \in Agents : b # a => SetStatus(a, e)[b] = agents[b]
         /\ SetStatus(a, e)[a].uid = agents[a].uid
         /\ SetStatus(a, e)[a].grn = a /\ SetStatus(a, e)[a].epoch = e
<1> DEFINE object == [agents[a] EXCEPT !.grn = a, !.epoch = e]
<1>1. /\ object \in AgentObject /\ object.uid = agents[a].uid
      /\ object.grn = a /\ object.epoch = e
  BY Zenon DEF AgentObject
<1>2. SetStatus(a, e) = [agents EXCEPT ![a] = object]
  BY Zenon DEF SetStatus
<1> HIDE DEF object
<1> QED
  BY <1>1, <1>2

\* What a user does to Agents and Secrets keeps the cluster's types.
LEMMA UserKeepsTypes ==
  ASSUME ClusterTypeOK, UserAct
  PROVE  ClusterTypeOK'
<1> USE DEF ClusterTypeOK
<1>1. UNCHANGED <<workloads, cachedAgents, cachedSecrets, lateWrites>> /\ userActs' \in Nat
  BY DEF UserAct
<1>2. ASSUME NEW a \in Agents, UserCreatesAgent(a)  PROVE ClusterTypeOK'
  <2>1. PICK i \in Images, n \in SecretNames : CreateAgent(a, "user", i, n)
    BY <1>2 DEF UserCreatesAgent
  <2> QED
    BY <1>1, <1>2, <2>1, NewAgentType DEF UserCreatesAgent, CreateAgent
<1>3. ASSUME NEW a \in Agents, UserDeletesAgent(a)  PROVE ClusterTypeOK'
  BY <1>1, <1>3, NoAgentType DEF UserDeletesAgent
<1>4. ASSUME NEW a \in Agents, UserEditsImage(a)  PROVE ClusterTypeOK'
  BY <1>1, <1>4 DEF UserEditsImage, AgentObject
<1>5. ASSUME NEW a \in Agents, UserEditsSecretName(a)  PROVE ClusterTypeOK'
  BY <1>1, <1>5 DEF UserEditsSecretName, AgentObject
<1>6. ASSUME NEW n \in SecretNames, UserCreatesSecret(n)  PROVE ClusterTypeOK'
  BY <1>1, <1>6, Zenon DEF UserCreatesSecret, SecretObject
<1>7. ASSUME NEW n \in SecretNames, UserDeletesSecret(n)  PROVE ClusterTypeOK'
  BY <1>1, <1>7 DEF UserDeletesSecret, SecretObject, NoSecret
<1> QED
  BY <1>2, <1>3, <1>4, <1>5, <1>6, <1>7 DEF UserAct

\* A write that lands late keeps them too.
LEMMA LandKeepsTypes ==
  ASSUME ClusterTypeOK, NEW w \in lateWrites, LandWrite(w)
  PROVE  ClusterTypeOK'
<1> USE DEF ClusterTypeOK
<1>0. /\ w \in Write
      /\ lateWrites' \subseteq Write
      /\ UNCHANGED <<workloads, cachedAgents, cachedSecrets, userActs>>
  BY DEF LandWrite
<1>1. CASE w.kind = "create"
  <2>1. w.agent \in Agents /\ w.image \in Images /\ credentialsKey(w.agent) \in SecretNames
    BY <1>0, <1>1 DEF Write, credentialsKey, SecretNames
  <2>2. CreateAgent(w.agent, "operator", w.image, credentialsKey(w.agent)) /\ UNCHANGED secrets
    BY <1>1 DEF LandWrite
  <2> QED
    BY <1>0, <2>1, <2>2, NewAgentType DEF CreateAgent
<1>2. CASE w.kind = "image"
  <2>1. w.agent \in Agents /\ w.image \in Images
    BY <1>0, <1>2 DEF Write
  <2>2. agents' = [agents EXCEPT ![w.agent].image = w.image] /\ UNCHANGED <<secrets, uids>>
    BY <1>2 DEF LandWrite, SetImage
  <2>3. agents' \in [Agents -> AgentObject]
    <3>1. [agents[w.agent] EXCEPT !.image = w.image] \in AgentObject
      BY <2>1 DEF AgentObject
    <3> QED
      BY <2>1, <2>2, <3>1
  <2> QED
    BY <1>0, <2>2, <2>3
<1>3. CASE w.kind = "status"
  <2>1. w.agent \in Agents /\ w.epoch \in Nat
    BY <1>0, <1>3 DEF Write
  <2>2. agents' = SetStatus(w.agent, w.epoch) /\ UNCHANGED <<secrets, uids>>
    BY <1>3 DEF LandWrite
  <2>3. agents' \in [Agents -> AgentObject]
    BY <2>1, <2>2, SetStatusType
  <2> QED
    BY <1>0, <2>2, <2>3
<1>4. CASE w.kind = "secret"
  <2>1. w.owner \in Nat /\ w.cert \in Nat
    BY <1>0, <1>4 DEF Write
  <2>2. secrets' = PutSecret(w.name, w.owner, w.cert) /\ UNCHANGED <<agents, uids>>
    BY <1>4 DEF LandWrite
  <2>3. secrets' \in [SecretNames -> SecretObject]
    BY <2>1, <2>2, Zenon DEF PutSecret, SecretObject
  <2> QED
    BY <1>0, <2>2, <2>3
<1> QED
  BY <1>1, <1>2, <1>3, <1>4 DEF LandWrite

\* So do the informers, the garbage collector and the Pods.
LEMMA ClusterKeepsTypes ==
  ASSUME ClusterTypeOK, ClusterNext
  PROVE  ClusterTypeOK'
<1> USE DEF ClusterTypeOK
<1>1. ASSUME NEW a \in Agents, SyncAgent(a)  PROVE ClusterTypeOK'
  BY <1>1 DEF SyncAgent
<1>2. ASSUME NEW n \in SecretNames, SyncSecret(n)  PROVE ClusterTypeOK'
  BY <1>2 DEF SyncSecret, SecretObject
<1>3. ASSUME NEW n \in SecretNames, CollectSecret(n)  PROVE ClusterTypeOK'
  BY <1>3 DEF CollectSecret, SecretObject, NoSecret
<1>4. ASSUME NEW a \in Agents, CollectWorkload(a)  PROVE ClusterTypeOK'
  BY <1>4 DEF CollectWorkload, Workload, NoWorkload
<1>5. ASSUME NEW a \in Agents, PodChanges(a)  PROVE ClusterTypeOK'
  BY <1>5, Zenon DEF PodChanges, Workload
<1>6. CASE LoseWrites
  BY <1>6 DEF LoseWrites
<1> QED
  BY <1>1, <1>2, <1>3, <1>4, <1>5, <1>6, UserKeepsTypes, LandKeepsTypes
     DEF ClusterNext, Sync, Collect

\* The Poller's own state keeps its type, and so does what it writes.
LEMMA PollerKeepsTypes ==
  ASSUME GaramTypeOK, ClusterTypeOK, PollerTypeOK, PollerNext
  PROVE  GaramTypeOK' /\ ClusterTypeOK' /\ PollerTypeOK'
<1> USE DEF PollerTypeOK, PollerPCs, Leave, Proceed, NoRef, garamVars, clusterVars,
            processVars, passVars
<1>q. ASSUME UNCHANGED garamVars  PROVE GaramTypeOK'
  BY <1>q DEF GaramTypeOK
<1>c. ASSUME UNCHANGED clusterVars  PROVE ClusterTypeOK'
  BY <1>c DEF ClusterTypeOK
<1>r. \A object \in AgentObject :
        Ref(object) \in [uid: Nat, secretName: SecretNames \cup {"none"}]
  BY DEF Ref, AgentObject
<1>1. CASE ListDefinitions
  BY <1>1, <1>q, <1>c DEF ListDefinitions, GaramTypeOK
<1>2. CASE NextDefinition
  BY <1>2, <1>q, <1>c DEF NextDefinition
<1>3. CASE EndPass
  BY <1>3, <1>q, <1>c DEF EndPass, Idle
<1>4. CASE ClaimAnswered
  BY <1>4, <1>c DEF ClaimAnswered, AdmitClaim, GaramTypeOK
<1>5. CASE ClaimRefused
  BY <1>5, <1>q, <1>c DEF ClaimRefused
<1>6. CASE CorrectImage
  BY <1>6, <1>q, <1>c DEF CorrectImage
<1>7. CASE PatchImage
  BY <1>7, <1>q DEF PatchImage, SetImage, ClusterTypeOK, AgentObject
<1>8. CASE HasCredential
  BY <1>8, <1>q, <1>c DEF HasCredential
<1>9. CASE IssueAgentCertificate
  BY <1>9, <1>q, <1>c DEF IssueAgentCertificate, GaramTypeOK
<1>10. CASE EnsureCreate
  <2>1. credentialsKey(current) \in SecretNames
    BY DEF credentialsKey, SecretNames
  <2>2. ClusterTypeOK'
    BY <1>10, <2>1, NewAgentType DEF EnsureCreate, CreateAgent, ClusterTypeOK
  <2> QED
    BY <1>10, <1>q, <1>r, <2>2 DEF EnsureCreate, ClusterTypeOK
<1>11. CASE EnsureAlreadyExists
  BY <1>11, <1>q, <1>c DEF EnsureAlreadyExists
<1>12. CASE EnsureGet
  BY <1>12, <1>q, <1>c, <1>r DEF EnsureGet, ClusterTypeOK
<1>13. CASE EnsureStatus
  <2>0. agents' = SetStatus(current, inHand)
    BY <1>13 DEF EnsureStatus
  <2>1. agents' \in [Agents -> AgentObject]
    BY <2>0, SetStatusType DEF ClusterTypeOK
  <2>2. ClusterTypeOK'
    BY <1>13, <2>1 DEF EnsureStatus, ClusterTypeOK
  <2> QED
    BY <1>13, <1>q, <1>r, <2>2 DEF EnsureStatus, ClusterTypeOK
<1>14. CASE PlaceCredential
  BY <1>14, <1>q, Zenon DEF PlaceCredential, PutSecret, ClusterTypeOK, SecretObject
<1>15. CASE ClaimGivenUp
  BY <1>15, <1>c DEF ClaimGivenUp, GaramTypeOK
<1>16. CASE CallFails
  BY <1>16, <1>q, <1>c DEF CallFails
<1>17. CASE WriteGivenUp
  <2>1. PendingWrite \in Write
    <3>1. CASE pc \in {"create", "patch"}
      BY <3>1 DEF PendingWrite, Write
    <3>2. CASE pc = "status"
      BY <3>2 DEF PendingWrite, Write
    <3>3. CASE pc \notin {"create", "patch", "status"}
      BY <3>3 DEF PendingWrite, Write
    <3> QED
      BY <3>1, <3>2, <3>3
  <2>2. ClusterTypeOK'
    BY <1>17, <2>1 DEF WriteGivenUp, ClusterTypeOK
  <2> QED
    BY <1>17, <1>q, <2>2 DEF WriteGivenUp
<1> QED
  BY <1>1, <1>2, <1>3, <1>4, <1>5, <1>6, <1>7, <1>8, <1>9, <1>10, <1>11, <1>12,
     <1>13, <1>14, <1>15, <1>16, <1>17 DEF PollerNext, PollerAnswered

\* A pass of the Reporter keeps its types and those of what it reports to.
LEMMA ReporterKeepsTypes ==
  ASSUME GaramTypeOK, ClusterTypeOK, ReporterTypeOK, ReporterNext
  PROVE  GaramTypeOK' /\ ClusterTypeOK' /\ ReporterTypeOK'
<1> USE DEF ReporterTypeOK, garamVars, clusterVars
<1>1. CASE ListObservations
  <2>1. \A a \in Agents : Observable(cachedAgents[a])
                            => Observe(cachedAgents[a]) \in Observation
    BY DEF ClusterTypeOK, AgentObject, Observable, Observe, Observation, readiness,
           Readiness
  <2> QED
    BY <1>1, <2>1 DEF ListObservations, GaramTypeOK, ClusterTypeOK
<1>2. ASSUME NEW o \in observations,
             SkipUnobserved(o) \/ ReportAnswered(o) \/ ReportGivenUp(o)
      PROVE  GaramTypeOK' /\ ClusterTypeOK' /\ ReporterTypeOK'
  <2>1. ReportOf(o) \in Report
    BY DEF ReportOf, Observation, Report, provisioningState, ProvisioningState
  <2>2. ClusterTypeOK' /\ ReporterTypeOK'
    BY <1>2 DEF SkipUnobserved, ReportAnswered, ReportGivenUp, ClusterTypeOK
  <2>3. GaramTypeOK'
    BY <1>2, <2>1 DEF SkipUnobserved, ReportAnswered, ReportGivenUp, RecordReport,
                      GaramTypeOK, Report
  <2> QED
    BY <2>2, <2>3
<1> QED
  BY <1>1, <1>2 DEF ReporterNext

\* The initial states are well typed.
LEMMA InitTypeOK == Init => TypeOK
BY DEF Init, TypeOK, GaramInit, GaramTypeOK, ClusterInit, ClusterTypeOK, NoAgent,
       AgentObject, NoSecret, SecretObject, NoWorkload, Workload, PollerInit,
       PollerTypeOK, PollerPCs, NoRef, ReporterInit, ReporterTypeOK, ConditionStatus

\* Every step of the system keeps all the types, one case per component.
LEMMA TypeKept ==
  ASSUME TypeOK, [Next]_vars
  PROVE  TypeOK'
<1> USE DEF TypeOK
<1>g. ASSUME UNCHANGED garamVars  PROVE GaramTypeOK'
  BY <1>g DEF GaramTypeOK, garamVars
<1>c. ASSUME UNCHANGED clusterVars  PROVE ClusterTypeOK'
  BY <1>c DEF ClusterTypeOK, clusterVars
<1>p. ASSUME UNCHANGED pollerVars  PROVE PollerTypeOK'
  BY <1>p DEF PollerTypeOK, pollerVars
<1>o. ASSUME UNCHANGED observations  PROVE ReporterTypeOK'
  BY <1>o DEF ReporterTypeOK
<1>1. CASE PollerStep
  BY <1>1, <1>o, PollerKeepsTypes DEF PollerStep
<1>2. CASE ReporterStep
  BY <1>2, <1>p, ReporterKeepsTypes DEF ReporterStep
<1>3. ASSUME NEW a \in Agents, Reconcile(a)  PROVE TypeOK'
  <2>1. Available(a, cachedAgents[a]) \in ConditionStatus
    BY DEF Available, ConditionStatus
  <2>2. agents' \in [Agents -> AgentObject]
    BY <1>3, <2>1 DEF Reconcile, ClusterTypeOK, AgentObject
  <2>3. workloads' \in [Agents -> Workload]
    <3>1. cachedAgents[a].uid \in Nat /\ workloads \in [Agents -> Workload]
      BY DEF ClusterTypeOK, AgentObject
    <3>2. \/ workloads' = workloads
          \/ workloads' = [workloads EXCEPT ![a].owner = cachedAgents[a].uid]
      BY <1>3 DEF Reconcile
    <3>3. [workloads[a] EXCEPT !.owner = cachedAgents[a].uid] \in Workload
      BY <3>1 DEF Workload
    <3> QED
      BY <3>1, <3>2, <3>3
  <2>4. ClusterTypeOK'
    BY <1>3, <2>2, <2>3 DEF Reconcile, ClusterTypeOK
  <2> QED
    BY <1>3, <2>4, <1>g, <1>p, <1>o DEF Reconcile
<1>4. CASE GaramStep
  BY <1>4, <1>c, <1>p, <1>o, GaramKeepsTypes DEF GaramStep
<1>5. CASE ClusterStep
  BY <1>5, <1>g, <1>p, <1>o, ClusterKeepsTypes DEF ClusterStep
<1>6. CASE Restart
  <2>1. ClusterTypeOK'
    BY <1>6 DEF Restart, PollerRestart, CachesInSync, ClusterTypeOK, SecretObject
  <2>2. PollerTypeOK'
    BY <1>6 DEF Restart, PollerRestart, Idle, NoRef, PollerTypeOK, PollerPCs
  <2> QED
    BY <1>6, <2>1, <2>2, <1>g DEF Restart, PollerRestart, ReporterTypeOK
<1>7. CASE UNCHANGED vars
  BY <1>7, <1>g, <1>c, <1>p, <1>o DEF vars
<1> QED
  BY <1>1, <1>2, <1>3, <1>4, <1>5, <1>6, <1>7 DEF Next

\* Every variable of the operator, of garam and of the cluster keeps its type:
\* whatever the interleaving, no pass holds an epoch, a certificate or an Agent
\* that is not one.
THEOREM TypeCorrect == Spec => []TypeOK
<1>1. Init => TypeOK
  BY InitTypeOK
<1>2. TypeOK /\ [Next]_vars => TypeOK'
  BY TypeKept
<1> QED
  BY <1>1, <1>2, PTL DEF Spec
-----------------------------------------------------------------------------
\* The inductive invariant behind the fence.  EpochFences says nothing of the
\* epochs a pass still carries, and nothing of a recorded epoch garam has moved
\* past; what is kept is that no recorded epoch is ahead of garam's, and that
\* one which is garam's is held.
Proved(a, e) == e <= epoch[a] /\ Fenced(a, e)

\* The epochs an Agent carries, or comes to carry when a late write lands.
Carried(a) ==
  {agents[a].epoch}
    \cup {w.epoch : w \in {v \in lateWrites : v.kind = "status" /\ v.agent = a}}

Recorded ==
  /\ \A a \in Agents : \A e \in Carried(a) \cup {cachedAgents[a].epoch} : Proved(a, e)
  /\ \A r \in observations \cup lateReports : Proved(r.agent, r.epoch)
  /\ \A a \in Agents : agents[a].grn \in {a, "none"} /\ cachedAgents[a].grn \in {a, "none"}

\* The pass has an epoch in hand for the definition it looks at.
Holding == pc \notin {"idle", "next", "claim"}

\* The epoch in hand is proved once the certificate route answered.
InHandProved ==
  /\ \A a \in Agents : listed[a] <= epoch[a]
  /\ Holding => inHand <= epoch[current]
  /\ pc \in {"create", "get", "status", "place"} => Proved(current, inHand)

\* A pass never carries an epoch below one the Agent has, or may come to have.
NotAhead ==
  /\ \A a \in todo : listed[a] # 0 => \A e \in Carried(a) : e <= listed[a]
  /\ Holding => \A e \in Carried(current) : e <= inHand
  /\ pc \notin {"idle", "next"} => current \notin todo

IInv == TypeOK /\ Recorded /\ InHandProved /\ NotAhead

\* In one step an assignment stays as it is, or moves to a later epoch.
LEMMA EpochStep ==
  ASSUME TypeOK, [Next]_vars, NEW a \in Agents
  PROVE  \/ epoch'[a] = epoch[a] /\ heldAt'[a] = heldAt[a]
         \/ epoch'[a] > epoch[a]
<1> USE DEF TypeOK, GaramTypeOK
<1>1. ASSUME NEW b \in Agents, AdmitClaim(b)
      PROVE  epoch'[a] > epoch[a] \/ (epoch'[a] = epoch[a] /\ heldAt'[a] = heldAt[a])
  BY <1>1 DEF AdmitClaim, Claimed
<1>2. ASSUME NEW b \in Agents, NEW mine \in BOOLEAN, Reassign(b, mine)
      PROVE  epoch'[a] > epoch[a] \/ (epoch'[a] = epoch[a] /\ heldAt'[a] = heldAt[a])
  BY <1>2 DEF Reassign
<1>3. CASE PollerStep
  <2>1. CASE ClaimAnswered
    BY <1>1, <2>1 DEF ClaimAnswered, PollerTypeOK
  <2>2. CASE ~ClaimAnswered
    BY <1>3, <2>2, Zenon DEF PollerStep, PollerNext, PollerAnswered, ListDefinitions,
       NextDefinition, EndPass, ClaimRefused, ClaimGivenUp, CorrectImage, PatchImage,
       HasCredential, IssueAgentCertificate, EnsureCreate, EnsureAlreadyExists,
       EnsureGet, EnsureStatus, PlaceCredential, CallFails, WriteGivenUp, garamVars
  <2> QED
    BY <2>1, <2>2
<1>4. CASE ReporterStep
  BY <1>4 DEF ReporterStep, ReporterNext, ListObservations, SkipUnobserved,
              ReportAnswered, ReportGivenUp, garamVars
<1>5. CASE GaramStep
  BY <1>1, <1>2, <1>5 DEF GaramStep, GaramNext, DeliverLateClaim, DeliverLateReport,
                          LoseLateCalls
<1>6. CASE \/ \E b \in Agents : Reconcile(b)
           \/ ClusterStep \/ Restart \/ UNCHANGED vars
  BY <1>6 DEF Reconcile, ClusterStep, Restart, PollerRestart, vars, garamVars
<1> QED
  BY <1>3, <1>4, <1>5, <1>6 DEF Next

\* So an epoch that is proved stays proved.
LEMMA ProvedStays ==
  ASSUME TypeOK, [Next]_vars, NEW a \in Agents, NEW e \in Nat, Proved(a, e)
  PROVE  Proved(a, e)'
<1>1. epoch[a] \in Nat /\ epoch'[a] \in Nat
  BY TypeKept DEF TypeOK, GaramTypeOK
<1>2. \/ epoch'[a] = epoch[a] /\ heldAt'[a] = heldAt[a]
      \/ epoch'[a] > epoch[a]
  BY EpochStep
<1>3. CASE epoch'[a] = epoch[a] /\ heldAt'[a] = heldAt[a]
  BY <1>3 DEF Proved, Fenced, Holds
<1>4. CASE epoch'[a] > epoch[a]
  <2>1. e <= epoch[a]
    BY <1>1 DEF Proved, Fenced, Holds
  <2>2. e < epoch'[a]
    BY <1>1, <1>4, <2>1
  <2> QED
    BY <1>1, <2>2 DEF Proved, Fenced
<1> QED
  BY <1>2, <1>3, <1>4

\* What one step does to the Agent of a name: what was recorded stays, the
\* Agent is another one or none, EnsureStatus records what is in hand, or a
\* status write lands late.
AgentKept(a) ==
  agents'[a].uid = agents[a].uid /\ agents'[a].grn = agents[a].grn
    /\ agents'[a].epoch = agents[a].epoch

AgentReplaced(a) ==
  agents'[a].uid # agents[a].uid /\ agents'[a].grn = "none" /\ agents'[a].epoch = 0

AgentRecorded(a) ==
  /\ a = current /\ EnsureStatus
  /\ agents'[a].grn = a /\ agents'[a].epoch = inHand

AgentOverwritten(a) ==
  \E w \in lateWrites :
    /\ w.kind = "status" /\ w.agent = a /\ w \notin lateWrites'
    /\ agents'[a].uid = agents[a].uid /\ agents'[a].grn = a /\ agents'[a].epoch = w.epoch

\* A create brings an Agent that records nothing, where there was none.
LEMMA CreateStep ==
  ASSUME TypeOK, NEW a \in Agents, NEW b \in Agents, NEW author, NEW i, NEW n,
         CreateAgent(b, author, i, n)
  PROVE  AgentKept(a) \/ AgentReplaced(a)
<1>1. agents \in [Agents -> AgentObject] /\ uids \in Nat
  BY DEF TypeOK, ClusterTypeOK
<1>2. agents' = [agents EXCEPT ![b] = NewAgent(author, i, n)] /\ agents[b].uid = 0
  BY DEF CreateAgent, Exists
<1>3. CASE a # b
  <2>1. agents'[a] = agents[a]
    BY <1>1, <1>2, <1>3
  <2> QED
    BY <2>1 DEF AgentKept
<1>4. CASE a = b
  <2>1. agents'[a] = NewAgent(author, i, n)
    BY <1>1, <1>2, <1>4
  <2>2. agents'[a].uid = uids + 1 /\ agents'[a].grn = "none" /\ agents'[a].epoch = 0
    BY <2>1 DEF NewAgent
  <2> QED
    BY <1>1, <1>2, <1>4, <2>2 DEF AgentReplaced
<1> QED
  BY <1>3, <1>4

\* A user takes no epoch back: an Agent is untouched, edited, new or gone.
LEMMA UserStep ==
  ASSUME TypeOK, UserAct, NEW a \in Agents
  PROVE  AgentKept(a) \/ AgentReplaced(a)
<1> USE DEF TypeOK, ClusterTypeOK, AgentObject, AgentKept, AgentReplaced
<1>1. ASSUME NEW b \in Agents, UserCreatesAgent(b)  PROVE AgentKept(a) \/ AgentReplaced(a)
  BY <1>1, CreateStep DEF UserCreatesAgent
<1>2. ASSUME NEW b \in Agents, UserDeletesAgent(b)  PROVE AgentKept(a) \/ AgentReplaced(a)
  BY <1>2 DEF UserDeletesAgent, NoAgent, Exists
<1>3. ASSUME NEW b \in Agents, UserEditsImage(b)  PROVE AgentKept(a) \/ AgentReplaced(a)
  BY <1>3 DEF UserEditsImage
<1>4. ASSUME NEW b \in Agents, UserEditsSecretName(b)
      PROVE  AgentKept(a) \/ AgentReplaced(a)
  BY <1>4 DEF UserEditsSecretName
<1>5. ASSUME NEW n \in SecretNames, UserCreatesSecret(n) \/ UserDeletesSecret(n)
      PROVE  AgentKept(a) \/ AgentReplaced(a)
  BY <1>5 DEF UserCreatesSecret, UserDeletesSecret
<1> QED
  BY <1>1, <1>2, <1>3, <1>4, <1>5 DEF UserAct

\* So does a late write, unless it is one of the status.
LEMMA LandStep ==
  ASSUME TypeOK, NEW w \in lateWrites, LandWrite(w), NEW a \in Agents
  PROVE  AgentKept(a) \/ AgentReplaced(a) \/ AgentOverwritten(a)
<1> USE DEF TypeOK, ClusterTypeOK
<1>0. w \in Write
  OBVIOUS
<1>1. CASE w.kind = "create"
  <2>1. w.agent \in Agents
    BY <1>0, <1>1 DEF Write
  <2>2. CreateAgent(w.agent, "operator", w.image, credentialsKey(w.agent))
    BY <1>1 DEF LandWrite
  <2> QED
    BY <2>1, <2>2, CreateStep
<1>2. CASE w.kind = "image"
  <2>1. agents' = [agents EXCEPT ![w.agent].image = w.image]
    BY <1>2 DEF LandWrite, SetImage
  <2> QED
    BY <2>1 DEF AgentObject, AgentKept
<1>3. CASE w.kind = "status"
  <2>1. w.agent \in Agents /\ w.epoch \in Nat
    BY <1>0, <1>3 DEF Write
  <2>2. agents' = SetStatus(w.agent, w.epoch) /\ w \notin lateWrites'
    BY <1>3 DEF LandWrite
  <2>s. /\ \A b \in Agents : b # w.agent => agents'[b] = agents[b]
        /\ agents'[w.agent].uid = agents[w.agent].uid
        /\ agents'[w.agent].grn = w.agent /\ agents'[w.agent].epoch = w.epoch
    <3>1. PICK b \in Agents, e \in Nat : b = w.agent /\ e = w.epoch
      BY <2>1
    <3>2. /\ \A c \in Agents : c # b => SetStatus(b, e)[c] = agents[c]
          /\ SetStatus(b, e)[b].uid = agents[b].uid
          /\ SetStatus(b, e)[b].grn = b /\ SetStatus(b, e)[b].epoch = e
      BY SetStatusType
    <3>3. agents' = SetStatus(b, e)
      BY <2>2, <3>1
    <3> QED
      BY <3>1, <3>2, <3>3
  <2>3. CASE a = w.agent
    BY <1>3, <2>2, <2>3, <2>s DEF AgentOverwritten
  <2>4. CASE a # w.agent
    BY <2>4, <2>s DEF AgentKept
  <2> QED
    BY <2>3, <2>4
<1>4. CASE w.kind = "secret"
  BY <1>4 DEF LandWrite, AgentKept
<1> QED
  BY <1>1, <1>2, <1>3, <1>4 DEF LandWrite

\* In one step the epoch of an Agent stays, goes with it, is the one in hand or
\* one that was under way.
LEMMA AgentStep ==
  ASSUME TypeOK, [Next]_vars, NEW a \in Agents
  PROVE  AgentKept(a) \/ AgentReplaced(a) \/ AgentRecorded(a) \/ AgentOverwritten(a)
<1> USE DEF TypeOK, ClusterTypeOK, AgentObject
<1>0. ASSUME UNCHANGED agents  PROVE AgentKept(a)
  BY <1>0 DEF AgentKept
<1>1. CASE PollerStep
  <2>1. CASE PatchImage
    BY <2>1 DEF PatchImage, SetImage, AgentKept
  <2>2. CASE EnsureCreate
    <3>1. current \in Agents /\ CreateAgent(current, "operator", image, credentialsKey(current))
      BY <2>2 DEF EnsureCreate, PollerTypeOK
    <3> QED
      BY <3>1, CreateStep
  <2>3. CASE EnsureStatus
    <3>1. agents' = SetStatus(current, inHand)
      BY <2>3 DEF EnsureStatus
    <3>2. current \in Agents /\ inHand \in Nat
      BY DEF PollerTypeOK
    <3>3. CASE a = current
      BY <2>3, <3>1, <3>2, <3>3, SetStatusType DEF AgentRecorded
    <3>4. CASE a # current
      BY <3>1, <3>2, <3>4, SetStatusType DEF AgentKept
    <3> QED
      BY <3>3, <3>4
  <2>4. CASE ~(PatchImage \/ EnsureCreate \/ EnsureStatus)
    BY <1>0, <1>1, <2>4, Zenon DEF PollerStep, PollerNext, PollerAnswered, ListDefinitions,
       NextDefinition, EndPass, ClaimAnswered, ClaimRefused, ClaimGivenUp, CorrectImage,
       HasCredential, IssueAgentCertificate, EnsureAlreadyExists, EnsureGet,
       PlaceCredential, CallFails, WriteGivenUp, clusterVars
  <2> QED
    BY <2>1, <2>2, <2>3, <2>4
<1>2. CASE ReporterStep
  BY <1>0, <1>2 DEF ReporterStep, ReporterNext, ListObservations, SkipUnobserved,
                    ReportAnswered, ReportGivenUp, clusterVars
<1>3. ASSUME NEW b \in Agents, Reconcile(b)  PROVE AgentKept(a)
  BY <1>3 DEF Reconcile, AgentKept
<1>4. CASE ClusterStep
  BY <1>0, <1>4, UserStep, LandStep DEF ClusterStep, ClusterNext, Sync, SyncAgent,
     SyncSecret, Collect, CollectSecret, CollectWorkload, PodChanges, LoseWrites
<1>5. CASE GaramStep \/ Restart \/ UNCHANGED vars
  BY <1>0, <1>5 DEF GaramStep, Restart, PollerRestart, vars, clusterVars
<1> QED
  BY <1>1, <1>2, <1>3, <1>4, <1>5 DEF Next

\* The epochs carried are numbers.
LEMMA CarriedType ==
  ASSUME TypeOK, NEW a \in Agents
  PROVE  Carried(a) \subseteq Nat
<1>1. agents[a].epoch \in Nat
  BY DEF TypeOK, ClusterTypeOK, AgentObject
<1>2. \A w \in lateWrites : w.kind = "status" => w.epoch \in Nat
  BY DEF TypeOK, ClusterTypeOK, Write
<1> QED
  BY <1>1, <1>2 DEF Carried

\* What an Agent carries, it carried; or it is nothing, or the epoch in hand.
LEMMA CarriedStep ==
  ASSUME TypeOK, [Next]_vars, NEW a \in Agents, NEW e \in Carried(a)'
  PROVE  \/ e \in Carried(a) \/ e = 0
         \/ pc = "status" /\ pc' # "status" /\ a = current /\ e = inHand
<1>1. CASE e = agents'[a].epoch
  <2>1. AgentOverwritten(a) => e \in Carried(a)
    BY <1>1 DEF AgentOverwritten, Carried
  <2>2. AgentRecorded(a)
          => pc = "status" /\ pc' # "status" /\ a = current /\ e = inHand
    BY <1>1 DEF AgentRecorded, EnsureStatus, Leave
  <2> QED
    BY <1>1, <2>1, <2>2, AgentStep DEF AgentKept, AgentReplaced, Carried
<1>2. CASE e # agents'[a].epoch
  <2>1. PICK w \in lateWrites' : w.kind = "status" /\ w.agent = a /\ e = w.epoch
    BY <1>2 DEF Carried
  <2>2. CASE w \in lateWrites
    BY <2>1, <2>2 DEF Carried
  <2>3. CASE w \notin lateWrites
    <3>1. PollerStep /\ WriteGivenUp
      BY <2>1, <2>3, Zenon DEF Next, PollerStep, PollerNext, PollerAnswered, ListDefinitions,
         NextDefinition, EndPass, ClaimAnswered, ClaimRefused, ClaimGivenUp, CorrectImage,
         PatchImage, HasCredential, IssueAgentCertificate, EnsureCreate,
         EnsureAlreadyExists, EnsureGet, EnsureStatus, PlaceCredential, CallFails,
         ReporterStep, ReporterNext, ListObservations, SkipUnobserved, ReportAnswered,
         ReportGivenUp, Reconcile, GaramStep, ClusterStep, ClusterNext, Sync, SyncAgent,
         SyncSecret, Collect, CollectSecret, CollectWorkload, PodChanges, UserAct,
         LandWrite, LoseWrites, Restart, PollerRestart, vars, clusterVars
    <3>2. w = PendingWrite /\ pc \in {"patch", "create", "status", "place"}
      BY <2>1, <2>3, <3>1 DEF WriteGivenUp
    <3>3. pc = "status"
      BY <2>1, <3>2 DEF PendingWrite
    <3> QED
      BY <2>1, <3>1, <3>2, <3>3 DEF PendingWrite, WriteGivenUp, Leave
  <2> QED
    BY <2>2, <2>3
<1> QED
  BY <1>1, <1>2

\* A cached Agent is the one cached before, or the one the API server has.
LEMMA CacheStep ==
  ASSUME TypeOK, [Next]_vars, NEW a \in Agents
  PROVE  cachedAgents'[a] \in {cachedAgents[a], agents[a]}
<1> USE DEF TypeOK, ClusterTypeOK
<1>1. CASE PollerStep \/ ReporterStep
  BY <1>1, Zenon DEF PollerStep, PollerNext, PollerAnswered, ListDefinitions,
     NextDefinition, EndPass, ClaimAnswered, ClaimRefused, ClaimGivenUp, CorrectImage,
     PatchImage, HasCredential, IssueAgentCertificate, EnsureCreate, EnsureAlreadyExists,
     EnsureGet, EnsureStatus, PlaceCredential, CallFails, WriteGivenUp, ReporterStep, ReporterNext,
     ListObservations, SkipUnobserved, ReportAnswered, ReportGivenUp, clusterVars
<1>2. CASE ClusterStep
  BY <1>2 DEF ClusterStep, ClusterNext, Sync, SyncAgent, SyncSecret, Collect,
     CollectSecret, CollectWorkload, PodChanges, UserAct, LandWrite, LoseWrites
<1>3. CASE (\E b \in Agents : Reconcile(b)) \/ GaramStep \/ Restart \/ UNCHANGED vars
  BY <1>3 DEF Reconcile, GaramStep, Restart, PollerRestart, CachesInSync, vars, clusterVars
<1> QED
  BY <1>1, <1>2, <1>3 DEF Next

\* A report under way carries what one before it carried, or what a cached
\* Agent had recorded.
LEMMA ReportStep ==
  ASSUME TypeOK, [Next]_vars, NEW r \in observations' \cup lateReports'
  PROVE  \/ \E q \in observations \cup lateReports : r.agent = q.agent /\ r.epoch = q.epoch
         \/ \E a \in Agents : /\ Observable(cachedAgents[a])
                             /\ r.agent = cachedAgents[a].grn
                             /\ r.epoch = cachedAgents[a].epoch
<1>1. CASE ReporterStep
  <2>1. CASE ListObservations
    <3>1. CASE r \in lateReports'
      BY <2>1, <3>1 DEF ListObservations, garamVars
    <3>2. CASE r \in observations'
      <4>1. PICK a \in Agents : Observable(cachedAgents[a]) /\ r = Observe(cachedAgents[a])
        BY <2>1, <3>2 DEF ListObservations
      <4> QED
        BY <4>1 DEF Observe
    <3> QED
      BY <3>1, <3>2
  <2>2. ASSUME NEW o \in observations, SkipUnobserved(o) \/ ReportAnswered(o)
        PROVE  r \in observations \cup lateReports
    BY <2>2 DEF SkipUnobserved, ReportAnswered, garamVars
  <2>3. ASSUME NEW o \in observations, ReportGivenUp(o)
        PROVE  \E q \in observations \cup lateReports : r.agent = q.agent /\ r.epoch = q.epoch
    <3>1. r \in observations \cup lateReports \/ r = ReportOf(o)
      BY <2>3 DEF ReportGivenUp
    <3> QED
      BY <3>1 DEF ReportOf
  <2> QED
    BY <1>1, <2>1, <2>2, <2>3 DEF ReporterStep, ReporterNext
<1>2. CASE GaramStep
  BY <1>2 DEF GaramStep, GaramNext, Reassign, DeliverLateClaim, DeliverLateReport,
              LoseLateCalls
<1>3. CASE PollerStep
  BY <1>3, Zenon DEF PollerStep, PollerNext, PollerAnswered, ListDefinitions, NextDefinition,
     EndPass, ClaimAnswered, ClaimRefused, ClaimGivenUp, CorrectImage, PatchImage,
     HasCredential, IssueAgentCertificate, EnsureCreate, EnsureAlreadyExists, EnsureGet,
     EnsureStatus, PlaceCredential, CallFails, WriteGivenUp, garamVars
<1>4. CASE (\E b \in Agents : Reconcile(b)) \/ ClusterStep \/ Restart \/ UNCHANGED vars
  BY <1>4 DEF Reconcile, ClusterStep, Restart, PollerRestart, vars, garamVars
<1> QED
  BY <1>1, <1>2, <1>3, <1>4 DEF Next

\* Every copy of an epoch that was proved when it was made stays proved.
LEMMA RecordedKept ==
  ASSUME IInv, [Next]_vars
  PROVE  Recorded'
<1> USE DEF IInv
<1>t. \A a \in Agents : Carried(a) \subseteq Nat /\ cachedAgents[a].epoch \in Nat
  BY CarriedType DEF TypeOK, ClusterTypeOK, AgentObject
<1>1. ASSUME NEW a \in Agents, NEW e \in Carried(a)' \cup {cachedAgents'[a].epoch}
      PROVE  Proved(a, e)'
  <2>1. inHand \in Nat /\ epoch'[a] \in Nat
    BY TypeKept DEF TypeOK, PollerTypeOK, GaramTypeOK
  <2>2. CASE e = 0
    BY <2>1, <2>2 DEF Proved, Fenced
  <2>3. CASE \/ e \in Carried(a) \cup {cachedAgents[a].epoch}
             \/ pc = "status" /\ a = current /\ e = inHand
    <3>1. e \in Nat /\ Proved(a, e)
      BY <1>t, <2>1, <2>3 DEF Recorded, InHandProved
    <3> QED
      BY <3>1, ProvedStays DEF Proved, Fenced, Holds
  <2>4. cachedAgents'[a].epoch \in Carried(a) \cup {cachedAgents[a].epoch}
    BY CacheStep DEF Carried
  <2>5. TypeOK
    OBVIOUS
  <2> QED
    BY <2>2, <2>3, <2>4, <2>5, CarriedStep
<1>3. ASSUME NEW a \in Agents
      PROVE  agents'[a].grn \in {a, "none"} /\ cachedAgents'[a].grn \in {a, "none"}
  BY AgentStep, CacheStep
     DEF AgentKept, AgentReplaced, AgentRecorded, AgentOverwritten, Recorded
<1>2. ASSUME NEW r \in observations' \cup lateReports'
      PROVE  Proved(r.agent, r.epoch)'
  <2>1. PICK a \in Agents, e \in Nat : Proved(a, e) /\ r.agent = a /\ r.epoch = e
    <3>1. CASE \E q \in observations \cup lateReports : r.agent = q.agent /\ r.epoch = q.epoch
      BY <3>1 DEF Recorded, TypeOK, ReporterTypeOK, GaramTypeOK, Observation, Report
    <3>2. CASE \E a \in Agents : /\ Observable(cachedAgents[a])
                                /\ r.agent = cachedAgents[a].grn
                                /\ r.epoch = cachedAgents[a].epoch
      BY <3>2 DEF Recorded, TypeOK, ClusterTypeOK, AgentObject, Observable
    <3> QED
      BY <3>1, <3>2, ReportStep
  <2>2. Proved(a, e)'
    BY <2>1, ProvedStays
  <2> QED
    BY <2>1, <2>2 DEF Proved, Fenced, Holds
<1> QED
  BY <1>1, <1>2, <1>3 DEF Recorded

\* What a pass carries stays behind garam and not behind the Agents when
\* someone else takes a step.
LEMMA PassKeptByOthers ==
  ASSUME IInv, [Next]_vars, UNCHANGED pollerVars
  PROVE  InHandProved' /\ NotAhead'
<1> USE DEF IInv, pollerVars
<1>1. \A a \in Agents : /\ epoch[a] \in Nat /\ epoch'[a] \in Nat /\ epoch[a] <= epoch'[a]
                         /\ Carried(a) \subseteq Nat /\ listed[a] \in Nat
  <2>1. \A a \in Agents : epoch[a] \in Nat /\ epoch'[a] \in Nat
    BY TypeKept DEF TypeOK, GaramTypeOK
  <2>2. ASSUME NEW a \in Agents  PROVE epoch[a] <= epoch'[a]
    <3>1. epoch'[a] = epoch[a] \/ epoch'[a] > epoch[a]
      BY EpochStep
    <3> QED
      BY <2>1, <3>1
  <2>3. \A a \in Agents : Carried(a) \subseteq Nat /\ listed[a] \in Nat
    BY CarriedType DEF TypeOK, PollerTypeOK
  <2> QED
    BY <2>1, <2>2, <2>3
<1>2. ASSUME NEW a \in Agents, NEW e \in Carried(a)'
      PROVE  e \in Carried(a) \/ e = 0
  BY <1>2, CarriedStep
<1>3. current \in Agents /\ inHand \in Nat /\ todo \subseteq Agents
  BY DEF TypeOK, PollerTypeOK
<1>4. InHandProved'
  <2>1. ASSUME NEW a \in Agents  PROVE listed'[a] <= epoch'[a]
    <3>1. listed[a] <= epoch[a] /\ listed'[a] = listed[a]
      BY DEF InHandProved
    <3>2. listed[a] \in Nat /\ epoch[a] \in Nat /\ epoch'[a] \in Nat /\ epoch[a] <= epoch'[a]
      BY <1>1
    <3> QED
      BY <3>1, <3>2
  <2>2. Holding' => inHand' <= epoch'[current']
    <3>1. Holding' => inHand <= epoch[current] /\ inHand' = inHand /\ current' = current
      BY DEF InHandProved, Holding
    <3>2. epoch[current] \in Nat /\ epoch'[current] \in Nat /\ epoch[current] <= epoch'[current]
      BY <1>1, <1>3
    <3> QED
      BY <1>3, <3>1, <3>2
  <2>3. pc \in {"create", "get", "status", "place"} => Proved(current, inHand)'
    <3>1. Proved(current, inHand) => Proved(current, inHand)'
      BY <1>3, ProvedStays
    <3> QED
      BY <3>1 DEF InHandProved
  <2> QED
    BY <2>1, <2>2, <2>3 DEF InHandProved
<1>5. NotAhead'
  <2>1. ASSUME NEW a \in todo, listed[a] # 0, NEW e \in Carried(a)'
        PROVE  e <= listed[a]
    <3>1. a \in Agents /\ \A f \in Carried(a) : f <= listed[a]
      BY <1>3, <2>1 DEF NotAhead
    <3>2. e \in Carried(a) \/ e = 0
      BY <1>2, <2>1, <3>1
    <3>3. listed[a] \in Nat
      BY <1>1, <3>1
    <3> QED
      BY <3>1, <3>2, <3>3
  <2>2. ASSUME Holding, NEW e \in Carried(current)'
        PROVE  e <= inHand
    <3>1. \A f \in Carried(current) : f <= inHand
      BY <2>2 DEF NotAhead
    <3>2. e \in Carried(current) \/ e = 0
      BY <1>2, <1>3, <2>2
    <3> QED
      BY <1>3, <3>1, <3>2
  <2> QED
    BY <2>1, <2>2 DEF NotAhead, Holding
<1> QED
  BY <1>4, <1>5

\* ... and when the pass itself does.
LEMMA PassKeptByPoller ==
  ASSUME IInv, PollerStep
  PROVE  InHandProved' /\ NotAhead'
<1> USE DEF IInv
<1>t. /\ epoch \in [Agents -> Nat] /\ listed \in [Agents -> Nat] /\ inHand \in Nat
      /\ current \in Agents /\ todo \subseteq Agents
      /\ \A a \in Agents : Carried(a) \subseteq Nat
  BY CarriedType DEF TypeOK, GaramTypeOK, PollerTypeOK
<1>n. TypeOK /\ [Next]_vars
  BY DEF Next
<1>c. ASSUME UNCHANGED clusterVars, NEW a \in Agents  PROVE Carried(a)' = Carried(a)
  BY <1>c DEF Carried, clusterVars
<1>1. CASE ListDefinitions
  <2>1. /\ pc' = "next" /\ listed' = epoch /\ epoch' = epoch /\ todo' = Agents
        /\ UNCHANGED clusterVars
    BY <1>1 DEF ListDefinitions, garamVars
  <2>2. InHandProved'
    BY <1>t, <2>1 DEF InHandProved, Holding
  <2>3. \A a \in Agents : Carried(a)' = Carried(a)
    BY <1>c, <2>1
  <2>4. \A a \in Agents : \A e \in Carried(a)' : e <= listed'[a]
    BY <2>1, <2>3 DEF Recorded, Proved
  <2>5. NotAhead'
    BY <2>1, <2>4 DEF NotAhead, Holding
  <2> QED
    BY <2>2, <2>5
<1>2. CASE NextDefinition
  BY <1>2, <1>t, <1>c DEF NextDefinition, InHandProved, NotAhead, Holding, garamVars
<1>3. CASE EndPass
  BY <1>3, <1>t DEF EndPass, Idle, InHandProved, NotAhead, Holding, garamVars
<1>4. CASE ClaimAnswered
  <2>1. Carried(current) \subseteq {0} /\ epoch'[current] = 1
    <3>1. epoch[current] = 0 /\ epoch' = [epoch EXCEPT ![current] = 1]
      BY <1>4 DEF ClaimAnswered, AdmitClaim, Claimed
    <3>2. ASSUME NEW e \in Carried(current)  PROVE e = 0
      <4>1. e <= epoch[current] /\ e \in Nat
        BY <1>t DEF Recorded, Proved
      <4> QED
        BY <3>1, <4>1
    <3> QED
      BY <1>t, <3>1, <3>2
  <2>2. \A a \in Agents : epoch[a] <= epoch'[a]
    BY <1>4, <1>t DEF ClaimAnswered, AdmitClaim, Claimed
  <2>3. InHandProved'
    BY <1>4, <1>t, <2>1, <2>2 DEF ClaimAnswered, AdmitClaim, InHandProved, Holding, passVars
  <2>4. NotAhead'
    BY <1>4, <1>t, <1>c, <2>1 DEF ClaimAnswered, NotAhead, Holding, passVars
  <2> QED
    BY <2>3, <2>4
<1>5. CASE IssueAgentCertificate
  BY <1>5, <1>t, <1>c DEF IssueAgentCertificate, Leave, InHandProved, NotAhead, Holding,
                          Proved, Fenced, Holds, garamVars, passVars
<1>6. CASE ClaimRefused \/ ClaimGivenUp
  BY <1>6, <1>t, <1>c DEF ClaimRefused, ClaimGivenUp, Leave, InHandProved, NotAhead,
                          Holding, garamVars, passVars
<1>7. CASE \/ CorrectImage \/ PatchImage \/ HasCredential \/ EnsureCreate
           \/ EnsureAlreadyExists \/ EnsureGet \/ EnsureStatus \/ PlaceCredential
           \/ CallFails \/ WriteGivenUp
  <2>1. /\ UNCHANGED <<epoch, heldAt, listed, todo, current>>
        /\ Holding /\ (pc' = "next" \/ (Holding' /\ inHand' = inHand))
        /\ pc' \in {"create", "get", "status", "place"}
             => pc \in {"create", "get", "status", "place"}
    <3>0. USE DEF Holding, garamVars, passVars
    <3>1. CASE CorrectImage \/ PatchImage \/ HasCredential \/ CallFails
      BY <3>1 DEF CorrectImage, PatchImage, HasCredential, CallFails, Leave, Proceed
    <3>2. CASE EnsureCreate \/ EnsureAlreadyExists
      BY <3>2, Zenon DEF EnsureCreate, EnsureAlreadyExists, Leave, Proceed
    <3>3. CASE EnsureGet
      BY <3>3 DEF EnsureGet, Leave
    <3>4. CASE EnsureStatus \/ PlaceCredential
      BY <3>4 DEF EnsureStatus, PlaceCredential, Leave
    <3>5. CASE WriteGivenUp
      BY <3>5 DEF WriteGivenUp, Leave, Proceed
    <3> QED
      BY <1>7, <3>1, <3>2, <3>3, <3>4, <3>5
  <2>2. ASSUME NEW a \in Agents, NEW e \in Carried(a)'
        PROVE  e \in Carried(a) \/ e = 0 \/ (a = current /\ e = inHand)
    BY <1>n, <2>2, CarriedStep
  <2>3. InHandProved'
    BY <2>1, <1>t DEF InHandProved, Holding, Proved, Fenced, Holds
  <2>4. NotAhead'
    BY <2>1, <2>2, <1>t DEF NotAhead, Holding
  <2> QED
    BY <2>3, <2>4
<1> QED
  BY <1>1, <1>2, <1>3, <1>4, <1>5, <1>6, <1>7 DEF PollerStep, PollerNext, PollerAnswered

\* The strengthened invariant holds of every reachable state.
LEMMA IInvariant == Spec => []IInv
<1>1. Init => IInv
  <2>1. Init => TypeOK
    BY InitTypeOK
  <2>2. ASSUME Init  PROVE Recorded /\ InHandProved /\ NotAhead
    <3>0. epoch \in [Agents -> Nat]
      BY <2>1, <2>2 DEF TypeOK, GaramTypeOK
    <3>1. /\ pc = "idle" /\ todo = {} /\ \A a \in Agents : listed[a] = 0 /\ epoch[a] \in Nat
          /\ \A a \in Agents : agents[a] = NoAgent /\ cachedAgents[a] = NoAgent
          /\ lateWrites = {} /\ observations = {} /\ lateReports = {}
      BY <2>2, <3>0 DEF Init, GaramInit, ClusterInit, PollerInit, ReporterInit
    <3>2. ASSUME NEW a \in Agents
          PROVE  /\ Carried(a) = {0} /\ cachedAgents[a].epoch = 0
                 /\ agents[a].grn = "none" /\ cachedAgents[a].grn = "none"
      <4>0. NoAgent.epoch = 0 /\ NoAgent.grn = "none"
        BY DEF NoAgent
      <4>1. /\ agents[a].epoch = 0 /\ cachedAgents[a].epoch = 0
            /\ agents[a].grn = "none" /\ cachedAgents[a].grn = "none"
        BY <3>1, <4>0
      <4> QED
        BY <3>1, <4>1 DEF Carried
    <3>z. \A a \in Agents : Proved(a, 0)
      BY <3>0 DEF Proved, Fenced
    <3>3. Recorded
      <4>1. \A a \in Agents : \A e \in Carried(a) \cup {cachedAgents[a].epoch} : Proved(a, e)
        BY <3>2, <3>z
      <4> QED
        BY <3>1, <3>2, <4>1 DEF Recorded
    <3>4. InHandProved /\ NotAhead
      BY <3>1 DEF InHandProved, NotAhead, Holding
    <3> QED
      BY <3>3, <3>4
  <2> QED
    BY <2>1, <2>2 DEF IInv
<1>2. IInv /\ [Next]_vars => IInv'
  <2> SUFFICES ASSUME IInv, [Next]_vars  PROVE IInv'
    OBVIOUS
  <2>1. TypeOK' /\ Recorded'
    BY TypeKept, RecordedKept DEF IInv
  <2>2. InHandProved' /\ NotAhead'
    <3>1. CASE PollerStep
      BY <3>1, PassKeptByPoller
    <3>2. CASE Restart
      BY <3>2, <2>1 DEF Restart, PollerRestart, Idle, InHandProved, NotAhead, Holding, TypeOK,
                  GaramTypeOK
    <3>3. CASE UNCHANGED pollerVars
      BY <3>3, PassKeptByOthers
    <3> QED
      BY <3>1, <3>2, <3>3 DEF Next, ReporterStep, Reconcile, GaramStep, ClusterStep, vars
  <2> QED
    BY <2>1, <2>2 DEF IInv
<1> QED
  BY <1>1, <1>2, PTL DEF Spec

\* The fence holds for every number of agents, reassignments, late calls and
\* restarts, and whatever users do: an epoch recorded on an Agent, cached, or on
\* its way to garam in a report that equals the one that stands is this
\* operator's.
THEOREM FenceHolds == Spec => []EpochFences
<1>1. IInv => EpochFences
  BY DEF IInv, Recorded, Carried, Proved, EpochFences
<1> QED
  BY <1>1, IInvariant, PTL

\* Neither construct, from an epoch it listed long ago, nor the reconciler,
\* from a stale cache, nor anyone else takes back the epoch recorded on an
\* Agent that stands, but for a write that lands after its writer gave up on it.
THEOREM EpochNeverTakenBack == Spec => EpochOnlyRises
<1> DEFINE Rises ==
      \A a \in Agents : agents'[a].uid = agents[a].uid /\ lateWrites \subseteq lateWrites'
                           => agents'[a].epoch >= agents[a].epoch
<1>1. IInv /\ [Next]_vars => [Rises]_vars
  <2> SUFFICES ASSUME IInv, [Next]_vars, NEW a \in Agents, agents'[a].uid = agents[a].uid,
                      lateWrites \subseteq lateWrites'
               PROVE  agents'[a].epoch >= agents[a].epoch
    OBVIOUS
  <2>1. agents[a].epoch \in Nat /\ inHand \in Nat
    BY DEF IInv, TypeOK, ClusterTypeOK, AgentObject, PollerTypeOK
  <2>2. EnsureStatus => agents[current].epoch <= inHand
    BY DEF IInv, NotAhead, Holding, Carried, EnsureStatus
  <2>3. TypeOK
    BY DEF IInv
  <2>4. AgentKept(a) \/ AgentReplaced(a) \/ AgentRecorded(a) \/ AgentOverwritten(a)
    BY <2>3, AgentStep
  <2>5. ~AgentReplaced(a) /\ ~AgentOverwritten(a)
    BY DEF AgentReplaced, AgentOverwritten
  <2>6. CASE AgentKept(a)
    BY <2>1, <2>6 DEF AgentKept
  <2>7. CASE AgentRecorded(a)
    BY <2>2, <2>1, <2>7 DEF AgentRecorded
  <2> QED
    BY <2>4, <2>5, <2>6, <2>7
<1> QED
  BY <1>1, IInvariant, PTL DEF Spec, EpochOnlyRises

\* A Secret that stands keeps what it holds, though HasCredential answered from
\* a cache and a whole construction lies between that read and the create.
THEOREM CredentialKept == Spec => CredentialNeverReplaced
<1> DEFINE Kept == \A n \in SecretNames : secrets[n].exists /\ secrets'[n].exists
                                            => secrets'[n] = secrets[n]
<1>1. TypeOK /\ [Next]_vars => [Kept]_vars
  <2> SUFFICES ASSUME TypeOK, [Next]_vars, NEW n \in SecretNames,
                      secrets[n].exists, secrets'[n].exists
               PROVE  secrets'[n] = secrets[n]
    OBVIOUS
  <2> USE DEF TypeOK, ClusterTypeOK
  <2>1. CASE PollerStep
    <3>1. CASE PlaceCredential
      BY <3>1 DEF PlaceCredential, PutSecret
    <3>2. CASE ~PlaceCredential
      BY <2>1, <3>2, Zenon DEF PollerStep, PollerNext, PollerAnswered, ListDefinitions,
         NextDefinition, EndPass, ClaimAnswered, ClaimRefused, ClaimGivenUp, CorrectImage,
         PatchImage, HasCredential, IssueAgentCertificate, EnsureCreate,
         EnsureAlreadyExists, EnsureGet, EnsureStatus, CallFails, WriteGivenUp, clusterVars
    <3> QED
      BY <3>1, <3>2
  <2>2. CASE ReporterStep
    BY <2>2 DEF ReporterStep, ReporterNext, ListObservations, SkipUnobserved,
                ReportAnswered, ReportGivenUp, clusterVars
  <2>3. CASE ClusterStep
    <3>1. ASSUME NEW m \in SecretNames, CollectSecret(m)  PROVE secrets'[n] = secrets[n]
      BY <3>1 DEF CollectSecret, NoSecret
    <3>2. CASE UserAct
      BY <3>2 DEF UserAct, UserCreatesAgent, UserDeletesAgent, UserEditsImage,
         UserEditsSecretName, UserCreatesSecret, UserDeletesSecret, NoSecret
    <3>3. ASSUME NEW w \in lateWrites, LandWrite(w)  PROVE secrets'[n] = secrets[n]
      BY <3>3, Zenon DEF LandWrite, PutSecret
    <3> QED
      BY <2>3, <3>1, <3>2, <3>3 DEF ClusterStep, ClusterNext, Sync, SyncAgent, SyncSecret,
         Collect, CollectWorkload, PodChanges, LoseWrites
  <2>4. CASE (\E a \in Agents : Reconcile(a)) \/ GaramStep \/ Restart \/ UNCHANGED vars
    BY <2>4 DEF Reconcile, GaramStep, Restart, PollerRestart, vars, clusterVars
  <2> QED
    BY <2>1, <2>2, <2>3, <2>4 DEF Next
<1> QED
  BY <1>1, TypeCorrect, PTL DEF Spec, CredentialNeverReplaced
=============================================================================
