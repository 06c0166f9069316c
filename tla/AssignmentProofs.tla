-------------------------- MODULE AssignmentProofs --------------------------
(***************************************************************************)
(* Operator implements Assignment, for any number of agents, epochs, late   *)
(* calls, late writes, restarts and acts of users.  Each part of what        *)
(* Assignment speaks of (the assignments, the state garam holds, the epochs *)
(* recorded, the Secrets) has a lemma that says in which ways one step      *)
(* changes it, and that the step changes none of the others.                *)
(***************************************************************************)
EXTENDS OperatorProofs

\* What has to be known of a state for its next step to keep the promise.
\* An agent nobody claimed was never held; a certificate in hand was issued at
\* an epoch held; a Secret about to be created, by the pass or by a write that
\* lands late, has a name, an owner and such a certificate; and no Secret that
\* does not exist has an owner.
Issued(c) == \E a \in Agents : c \in heldAt[a]

NeverHeld == \A a \in Agents : epoch[a] = 0 => heldAt[a] = {}

CertInHand == pc \in {"create", "get", "status", "place"} => cert \in heldAt[current]

Addressed == pc = "place" => constructed.uid # 0 /\ constructed.secretName \in SecretNames

LateSecrets ==
  \A w \in lateWrites :
    w.kind = "secret" => w.owner # 0 /\ w.name \in SecretNames /\ Issued(w.cert)

Named ==
  \A a \in Agents : /\ Exists(agents[a]) => agents[a].secretName \in SecretNames
                    /\ Exists(cachedAgents[a]) => cachedAgents[a].secretName \in SecretNames

Unowned == \A n \in SecretNames : ~secrets[n].exists => secrets[n].owner = 0

AInv == NeverHeld /\ CertInHand /\ Addressed /\ LateSecrets /\ Named /\ Unowned

\* One step of an assignment, and nothing else.
Moved(a) ==
  /\ epoch' = [epoch EXCEPT ![a] = @ + 1]
  /\ \/ heldAt' = [heldAt EXCEPT ![a] = @ \cup {epoch[a] + 1}]
     \/ epoch[a] # 0 /\ UNCHANGED heldAt
  /\ UNCHANGED <<agents, secrets, latch>>

\* An assignment moves by a claim, in time or late, or by a reassignment.
LEMMA AssignmentStep ==
  ASSUME TypeOK, NeverHeld, [Next]_vars
  PROVE  UNCHANGED <<epoch, heldAt>> \/ \E a \in Agents : Moved(a)
<1> USE DEF TypeOK, GaramTypeOK
<1>1. ASSUME NEW a \in Agents, AdmitClaim(a), UNCHANGED <<agents, secrets, latch>>
      PROVE  Moved(a)
  <2>1. epoch[a] = 0 /\ heldAt[a] = {}
    BY <1>1 DEF AdmitClaim, Claimed, NeverHeld
  <2>2. epoch[a] + 1 = 1 /\ heldAt[a] \cup {epoch[a] + 1} = {1}
    BY <2>1
  <2> QED
    BY <1>1, <2>2, Zenon DEF AdmitClaim, Moved
<1>2. CASE PollerStep
  <2>1. CASE ClaimAnswered
    BY <1>1, <2>1 DEF ClaimAnswered, clusterVars, PollerTypeOK
  <2>2. CASE ~ClaimAnswered
    BY <1>2, <2>2, Zenon DEF PollerStep, PollerNext, PollerAnswered, ListDefinitions,
       NextDefinition, EndPass, ClaimRefused, ClaimGivenUp, CorrectImage, PatchImage,
       HasCredential, IssueAgentCertificate, EnsureCreate, EnsureAlreadyExists, EnsureGet,
       EnsureStatus, PlaceCredential, CallFails, WriteGivenUp, garamVars
  <2> QED
    BY <2>1, <2>2
<1>3. CASE GaramStep
  <2>1. ASSUME NEW a \in Agents, NEW mine \in BOOLEAN, Reassign(a, mine)  PROVE Moved(a)
    BY <1>3, <2>1 DEF Reassign, Claimed, Moved, GaramStep, clusterVars
  <2>2. ASSUME NEW a \in Agents, DeliverLateClaim(a)  PROVE Moved(a)
    BY <1>1, <1>3, <2>2 DEF DeliverLateClaim, GaramStep, clusterVars
  <2> QED
    BY <1>3, <2>1, <2>2 DEF GaramStep, GaramNext, DeliverLateReport, LoseLateCalls
<1>4. CASE ReporterStep
  BY <1>4 DEF ReporterStep, ReporterNext, ListObservations, SkipUnobserved, ReportAnswered,
              ReportGivenUp, garamVars
<1>5. CASE (\E b \in Agents : Reconcile(b)) \/ ClusterStep \/ Restart \/ UNCHANGED vars
  BY <1>5 DEF Reconcile, ClusterStep, Restart, PollerRestart, vars, garamVars
<1> QED
  BY <1>2, <1>3, <1>4, <1>5 DEF Next

\* garam takes a state from the operator that holds the agent, and nothing else.
Taken(a, s) ==
  /\ Holds(a)
  /\ latch' = [latch EXCEPT ![a] = s]
  /\ UNCHANGED <<epoch, heldAt, agents, secrets>>

\* The state garam holds changes by a report, in time or late.
LEMMA LatchStep ==
  ASSUME TypeOK, [Next]_vars
  PROVE  UNCHANGED latch \/ \E a \in Agents, s \in ProvisioningState : Taken(a, s)
<1> USE DEF TypeOK
<1>1. ASSUME NEW r, r.agent \in Agents, r.state \in ProvisioningState, RecordReport(r),
             UNCHANGED <<epoch, heldAt, agents, secrets>>
      PROVE  UNCHANGED latch \/ Taken(r.agent, r.state)
  BY <1>1 DEF RecordReport, Admits, Taken
<1>2. CASE ReporterStep
  <2>1. ASSUME NEW o \in observations, ReportAnswered(o)
        PROVE  UNCHANGED latch \/ \E a \in Agents, s \in ProvisioningState : Taken(a, s)
    <3> DEFINE r == ReportOf(o)
    <3>1. r.agent \in Agents /\ r.state \in ProvisioningState
      BY DEF ReporterTypeOK, Observation, ReportOf, provisioningState, ProvisioningState
    <3>2. RecordReport(r) /\ UNCHANGED <<epoch, heldAt, agents, secrets>>
      BY <2>1 DEF ReportAnswered, clusterVars
    <3> HIDE DEF r
    <3> QED
      BY <1>1, <3>1, <3>2
  <2> QED
    BY <1>2, <2>1 DEF ReporterStep, ReporterNext, ListObservations, SkipUnobserved,
                      ReportGivenUp, garamVars
<1>3. CASE GaramStep
  <2>1. ASSUME NEW r \in lateReports, DeliverLateReport(r)
        PROVE  UNCHANGED latch \/ \E a \in Agents, s \in ProvisioningState : Taken(a, s)
    <3>1. r.agent \in Agents /\ r.state \in ProvisioningState
      BY DEF GaramTypeOK, Report
    <3> QED
      BY <1>1, <1>3, <2>1, <3>1 DEF DeliverLateReport, GaramStep, clusterVars
  <2> QED
    BY <1>3, <2>1 DEF GaramStep, GaramNext, Reassign, DeliverLateClaim, LoseLateCalls
<1>4. CASE PollerStep
  BY <1>4, Zenon DEF PollerStep, PollerNext, PollerAnswered, ListDefinitions, NextDefinition,
     EndPass, ClaimAnswered, ClaimRefused, ClaimGivenUp, CorrectImage, PatchImage,
     HasCredential, IssueAgentCertificate, EnsureCreate, EnsureAlreadyExists, EnsureGet,
     EnsureStatus, PlaceCredential, CallFails, WriteGivenUp, garamVars
<1>5. CASE (\E b \in Agents : Reconcile(b)) \/ ClusterStep \/ Restart \/ UNCHANGED vars
  BY <1>5 DEF Reconcile, ClusterStep, Restart, PollerRestart, vars, garamVars
<1> QED
  BY <1>2, <1>3, <1>4, <1>5 DEF Next

\* One Agent is written, and nothing else: what it records stays, goes, or is
\* an epoch that was proved.  If it exists it names a Secret.
Written(a) ==
  /\ \A b \in Agents : b # a => agents'[b] = agents[b]
  /\ \/ agents'[a].epoch \in {0, agents[a].epoch}
     \/ agents'[a].epoch \in Nat \ {0} /\ Proved(a, agents'[a].epoch)
  /\ Exists(agents'[a]) => agents'[a].secretName \in SecretNames
  /\ UNCHANGED <<epoch, heldAt, secrets, latch>>

\* The ways a writer leaves one Agent.
LEMMA Writes ==
  ASSUME TypeOK, Named, NEW a \in Agents, UNCHANGED <<epoch, heldAt, secrets, latch>>
  PROVE  /\ \A author \in {"operator", "user"}, i \in Images, n \in SecretNames :
              CreateAgent(a, author, i, n) => Written(a)
         /\ \A i \in Images : Exists(agents[a]) /\ agents' = SetImage(a, i) => Written(a)
         /\ \A e \in Nat \ {0} :
              Exists(agents[a]) /\ Proved(a, e) /\ agents' = SetStatus(a, e) => Written(a)
         /\ agents' = [agents EXCEPT ![a] = NoAgent] => Written(a)
         /\ \A n \in SecretNames : agents' = [agents EXCEPT ![a].secretName = n] => Written(a)
         /\ \A c : agents' = [agents EXCEPT ![a].available = c] => Written(a)
<1> USE DEF TypeOK, ClusterTypeOK
<1>0. Exists(agents[a]) => agents[a].secretName \in SecretNames
  BY DEF Named
<1>1. ASSUME NEW author \in {"operator", "user"}, NEW i \in Images, NEW n \in SecretNames,
             CreateAgent(a, author, i, n)
      PROVE  Written(a)
  BY <1>1 DEF CreateAgent, NewAgent, Written
<1>2. ASSUME NEW i \in Images, Exists(agents[a]), agents' = SetImage(a, i)
      PROVE  Written(a)
  BY <1>0, <1>2 DEF SetImage, Written, AgentObject
<1>3. ASSUME NEW e \in Nat \ {0}, Exists(agents[a]), Proved(a, e), agents' = SetStatus(a, e)
      PROVE  Written(a)
  <2>1. agents'[a].secretName = agents[a].secretName
    BY <1>3 DEF SetStatus, AgentObject
  <2>2. agents'[a].epoch = e /\ \A b \in Agents : b # a => agents'[b] = agents[b]
    BY <1>3, SetStatusType
  <2> QED
    BY <1>0, <1>3, <2>1, <2>2 DEF Written
<1>4. ASSUME agents' = [agents EXCEPT ![a] = NoAgent]  PROVE Written(a)
  BY <1>4 DEF NoAgent, Exists, Written
<1>5. ASSUME NEW n \in SecretNames, agents' = [agents EXCEPT ![a].secretName = n]
      PROVE  Written(a)
  BY <1>5 DEF Written, AgentObject
<1>6. ASSUME NEW c, agents' = [agents EXCEPT ![a].available = c]
      PROVE  Written(a)
  BY <1>0, <1>6 DEF Written, AgentObject, Exists
<1> QED
  BY <1>1, <1>2, <1>3, <1>4, <1>5, <1>6

\* A record is made by the pass once the certificate route answered, or by such
\* a write that lands late, and goes with its Agent.
LEMMA RecordStep ==
  ASSUME IInv, Named, [Next]_vars
  PROVE  UNCHANGED agents \/ \E a \in Agents : Written(a)
<1>0. TypeOK
  BY DEF IInv
<1>1. CASE PollerStep
  <2>0. current \in Agents /\ image \in Images /\ credentialsKey(current) \in SecretNames
    BY <1>0 DEF TypeOK, PollerTypeOK, credentialsKey, SecretNames
  <2>1. CASE PatchImage
    BY <1>0, <2>0, <2>1, Writes, Zenon DEF PatchImage, garamVars
  <2>2. CASE EnsureCreate
    <3>1. UNCHANGED <<epoch, heldAt, secrets, latch>>
      BY <2>2 DEF EnsureCreate, garamVars
    <3>2. CreateAgent(current, "operator", image, credentialsKey(current))
      BY <2>2 DEF EnsureCreate
    <3> QED
      BY <1>0, <2>0, <3>1, <3>2, Writes
  <2>3. CASE EnsureStatus
    <3>1. UNCHANGED <<epoch, heldAt, secrets, latch>>
      BY <2>3 DEF EnsureStatus, garamVars
    <3>2. inHand \in Nat \ {0} /\ Proved(current, inHand)
      BY <1>0, <2>3 DEF EnsureStatus, IInv, InHandProved, TypeOK, PollerTypeOK
    <3>3. Exists(agents[current]) /\ agents' = SetStatus(current, inHand)
      BY <2>3 DEF EnsureStatus
    <3> QED
      BY <1>0, <2>0, <3>1, <3>2, <3>3, Writes
  <2>4. CASE ~PatchImage /\ ~EnsureCreate /\ ~EnsureStatus
    BY <1>1, <2>4, Zenon DEF PollerStep, PollerNext, PollerAnswered, ListDefinitions,
       NextDefinition, EndPass, ClaimAnswered, ClaimRefused, ClaimGivenUp, CorrectImage,
       HasCredential, IssueAgentCertificate, EnsureAlreadyExists, EnsureGet,
       PlaceCredential, CallFails, WriteGivenUp, clusterVars
  <2> QED
    BY <2>1, <2>2, <2>3, <2>4
<1>2. CASE ClusterStep
  <2>0. UNCHANGED <<epoch, heldAt, latch>>
    BY <1>2 DEF ClusterStep, garamVars
  <2>1. CASE UserAct
    <3>1. ASSUME NEW a \in Agents, UserCreatesAgent(a)  PROVE Written(a)
      BY <1>0, <2>0, <3>1, Writes DEF UserCreatesAgent
    <3>2. ASSUME NEW a \in Agents, UserDeletesAgent(a)  PROVE Written(a)
      BY <1>0, <2>0, <3>2, Writes, Zenon DEF UserDeletesAgent
    <3>3. ASSUME NEW a \in Agents, UserEditsImage(a)  PROVE Written(a)
      BY <1>0, <2>0, <3>3, Writes, Zenon DEF UserEditsImage, SetImage
    <3>4. ASSUME NEW a \in Agents, UserEditsSecretName(a)  PROVE Written(a)
      BY <1>0, <2>0, <3>4, Writes, Zenon DEF UserEditsSecretName
    <3> QED
      BY <2>1, <3>1, <3>2, <3>3, <3>4 DEF UserAct, UserCreatesSecret, UserDeletesSecret
  <2>2. ASSUME NEW w \in lateWrites, LandWrite(w)
        PROVE  UNCHANGED agents \/ \E a \in Agents : Written(a)
    <3>0. w \in Write
      BY <1>0 DEF TypeOK, ClusterTypeOK
    <3>1. CASE w.kind \in {"create", "image"}
      <4>1. w.agent \in Agents /\ w.image \in Images /\ credentialsKey(w.agent) \in SecretNames
        BY <3>0, <3>1 DEF Write, credentialsKey, SecretNames
      <4>2. UNCHANGED secrets
        BY <2>2, <3>1 DEF LandWrite
      <4>3. \/ CreateAgent(w.agent, "operator", w.image, credentialsKey(w.agent))
            \/ Exists(agents[w.agent]) /\ agents' = SetImage(w.agent, w.image)
        BY <2>2, <3>1 DEF LandWrite
      <4> QED
        BY <1>0, <2>0, <4>1, <4>2, <4>3, Writes
    <3>2. CASE w.kind = "status"
      <4>1. w.agent \in Agents /\ w.epoch \in Nat
        BY <3>0, <3>2 DEF Write
      <4>2. /\ Exists(agents[w.agent]) /\ w.epoch # 0 /\ UNCHANGED secrets
            /\ agents' = SetStatus(w.agent, w.epoch)
        BY <2>2, <3>2 DEF LandWrite
      <4>3. Proved(w.agent, w.epoch)
        BY <3>2, <4>1 DEF IInv, Recorded, Carried
      <4> QED
        BY <1>0, <2>0, <4>1, <4>2, <4>3, Writes, Zenon
    <3>3. CASE w.kind \notin {"create", "image", "status"}
      BY <2>2, <3>3 DEF LandWrite
    <3> QED
      BY <3>1, <3>2, <3>3
  <2> QED
    BY <1>2, <2>1, <2>2 DEF ClusterStep, ClusterNext, Sync, SyncAgent, SyncSecret,
       Collect, CollectSecret, CollectWorkload, PodChanges, LoseWrites
<1>3. ASSUME NEW a \in Agents, Reconcile(a)  PROVE UNCHANGED agents \/ Written(a)
  <2>1. UNCHANGED <<epoch, heldAt, secrets, latch>>
    BY <1>3 DEF Reconcile, garamVars
  <2>2. \/ UNCHANGED agents
        \/ agents' = [agents EXCEPT ![a].available = Available(a, cachedAgents[a])]
    BY <1>3 DEF Reconcile
  <2> QED
    BY <1>0, <2>1, <2>2, Writes
<1>4. CASE ReporterStep
  BY <1>4 DEF ReporterStep, ReporterNext, ListObservations, SkipUnobserved, ReportAnswered,
              ReportGivenUp, clusterVars
<1>5. CASE GaramStep \/ Restart \/ UNCHANGED vars
  BY <1>5 DEF GaramStep, Restart, PollerRestart, vars, clusterVars
<1> QED
  BY <1>1, <1>2, <1>3, <1>4, <1>5 DEF Next

\* One Secret is created by this operator, created by a user, or removed.
Placed(n) ==
  /\ ~secrets[n].exists
  /\ \E u \in Nat \ {0}, c \in Nat : Issued(c) /\ secrets' = PutSecret(n, u, c)

Supplied(n) == ~secrets[n].exists /\ secrets' = [secrets EXCEPT ![n].exists = TRUE]

Removed(n) == secrets' = [secrets EXCEPT ![n] = NoSecret]

\* Secrets change one at a time, and nothing else with them.
LEMMA SecretStep ==
  ASSUME TypeOK, AInv, [Next]_vars
  PROVE  \/ UNCHANGED secrets
         \/ /\ \E n \in SecretNames : Placed(n) \/ Supplied(n) \/ Removed(n)
            /\ UNCHANGED <<epoch, heldAt, agents, latch>>
<1> USE DEF TypeOK
<1>1. CASE PollerStep
  <2>1. CASE PlaceCredential
    <3> DEFINE n == constructed.secretName
    <3>1. n \in SecretNames /\ constructed.uid \in Nat \ {0} /\ cert \in Nat
      BY <2>1 DEF PlaceCredential, AInv, Addressed, PollerTypeOK
    <3>2. Issued(cert)
      BY <2>1 DEF PlaceCredential, AInv, CertInHand, Issued, PollerTypeOK
    <3>3. \/ UNCHANGED secrets
          \/ ~secrets[n].exists /\ secrets' = PutSecret(n, constructed.uid, cert)
      BY <2>1 DEF PlaceCredential
    <3>4. UNCHANGED <<epoch, heldAt, agents, latch>>
      BY <2>1 DEF PlaceCredential, garamVars
    <3> HIDE DEF n
    <3> QED
      BY <3>1, <3>2, <3>3, <3>4 DEF Placed
  <2>2. CASE ~PlaceCredential
    BY <1>1, <2>2, Zenon DEF PollerStep, PollerNext, PollerAnswered, ListDefinitions,
       NextDefinition, EndPass, ClaimAnswered, ClaimRefused, ClaimGivenUp, CorrectImage,
       PatchImage, HasCredential, IssueAgentCertificate, EnsureCreate,
       EnsureAlreadyExists, EnsureGet, EnsureStatus, CallFails, WriteGivenUp, clusterVars
  <2> QED
    BY <2>1, <2>2
<1>2. CASE ClusterStep
  <2>0. UNCHANGED <<epoch, heldAt, latch>>
    BY <1>2 DEF ClusterStep, garamVars
  <2>1. ASSUME NEW n \in SecretNames, CollectSecret(n)  PROVE Removed(n) /\ UNCHANGED agents
    BY <2>1 DEF CollectSecret, Removed
  <2>2. CASE UserAct
    <3>1. ASSUME NEW n \in SecretNames, UserCreatesSecret(n)
          PROVE  Supplied(n) /\ UNCHANGED agents
      BY <3>1 DEF UserCreatesSecret, Supplied
    <3>2. ASSUME NEW n \in SecretNames, UserDeletesSecret(n)
          PROVE  Removed(n) /\ UNCHANGED agents
      BY <3>2 DEF UserDeletesSecret, Removed
    <3> QED
      BY <2>0, <2>2, <3>1, <3>2 DEF UserAct, UserCreatesAgent, UserDeletesAgent,
                                    UserEditsImage, UserEditsSecretName
  <2>3. ASSUME NEW w \in lateWrites, LandWrite(w), ~UNCHANGED secrets
        PROVE  Placed(w.name) /\ w.name \in SecretNames /\ UNCHANGED agents
    <3>1. /\ w.kind = "secret" /\ ~secrets[w.name].exists /\ UNCHANGED agents
          /\ secrets' = PutSecret(w.name, w.owner, w.cert)
      BY <2>3 DEF LandWrite
    <3>2. w.owner \in Nat /\ w.cert \in Nat
      BY <3>1 DEF ClusterTypeOK, Write
    <3>3. w.owner # 0 /\ w.name \in SecretNames /\ Issued(w.cert)
      BY <3>1 DEF AInv, LateSecrets
    <3> QED
      BY <3>1, <3>2, <3>3 DEF Placed
  <2> QED
    BY <1>2, <2>0, <2>1, <2>2, <2>3 DEF ClusterStep, ClusterNext, Sync, SyncAgent,
       SyncSecret, Collect, CollectWorkload, PodChanges, LoseWrites
<1>3. CASE ReporterStep
  BY <1>3 DEF ReporterStep, ReporterNext, ListObservations, SkipUnobserved, ReportAnswered,
              ReportGivenUp, clusterVars
<1>4. CASE (\E a \in Agents : Reconcile(a)) \/ GaramStep \/ Restart \/ UNCHANGED vars
  BY <1>4 DEF Reconcile, GaramStep, Restart, PollerRestart, vars, clusterVars
<1> QED
  BY <1>1, <1>2, <1>3, <1>4 DEF Next

\* An epoch held was held, whatever the agent is assigned to later.
LEMMA HeldStays ==
  ASSUME TypeOK, NeverHeld, [Next]_vars
  PROVE  /\ \A a \in Agents : heldAt[a] \subseteq heldAt'[a]
         /\ \A c : Issued(c) => Issued(c)'
         /\ NeverHeld'
<1>1. epoch \in [Agents -> Nat] /\ heldAt \in [Agents -> SUBSET Nat]
  BY DEF TypeOK, GaramTypeOK
<1>2. ASSUME NEW a \in Agents, Moved(a)
      PROVE  (\A b \in Agents : heldAt[b] \subseteq heldAt'[b]) /\ NeverHeld'
  <2>1. \A b \in Agents : heldAt[b] \subseteq heldAt'[b]
    BY <1>1, <1>2 DEF Moved
  <2>2. epoch'[a] # 0
    BY <1>1, <1>2 DEF Moved
  <2>3. \A b \in Agents : b # a => epoch'[b] = epoch[b] /\ heldAt'[b] = heldAt[b]
    BY <1>1, <1>2 DEF Moved
  <2> QED
    BY <2>1, <2>2, <2>3 DEF NeverHeld
<1>3. (\A a \in Agents : heldAt[a] \subseteq heldAt'[a]) /\ NeverHeld'
  BY <1>2, AssignmentStep DEF NeverHeld
<1> QED
  BY <1>3 DEF Issued

\* A pass comes by its certificate only from the certificate route, and creates
\* the Secret of the Agent it constructed or found.
LEMMA InHandKept ==
  ASSUME TypeOK, AInv, [Next]_vars
  PROVE  CertInHand' /\ Addressed'
<1>t. current \in Agents
  BY DEF TypeOK, PollerTypeOK
<1>h. heldAt[current] \subseteq heldAt'[current]
  BY <1>t, HeldStays DEF AInv
<1>1. CASE PollerStep
  <2>1. CASE IssueAgentCertificate
    BY <2>1 DEF IssueAgentCertificate, Leave, Holds, CertInHand, Addressed, passVars, garamVars
  <2>2. CASE EnsureCreate
    BY <1>h, <2>2 DEF EnsureCreate, Leave, AInv, CertInHand, Addressed, passVars
  <2>3. CASE EnsureGet
    <3>1. Exists(cachedAgents[current]) => cachedAgents[current].secretName \in SecretNames
      BY <1>t DEF AInv, Named
    <3> QED
      <4>1. CASE ~Exists(cachedAgents[current])
        BY <2>3, <4>1 DEF EnsureGet, Leave, CertInHand, Addressed
      <4>2. CASE Exists(cachedAgents[current])
        <5>1. /\ pc = "get" /\ cert' = cert /\ current' = current
              /\ constructed' = Ref(cachedAgents[current])
          BY <2>3, <4>2 DEF EnsureGet, passVars
        <5>2. cert' \in heldAt'[current']
          BY <1>h, <5>1 DEF AInv, CertInHand
        <5>3. constructed'.uid # 0 /\ constructed'.secretName \in SecretNames
          BY <3>1, <4>2, <5>1 DEF Ref, Exists
        <5> QED
          BY <5>2, <5>3 DEF CertInHand, Addressed, SecretNames
      <4> QED
        BY <4>1, <4>2
  <2>4. CASE EnsureStatus
    <3>1. Exists(agents[current]) => agents[current].secretName \in SecretNames
      BY <1>t DEF AInv, Named
    <3> QED
      <4>1. CASE Leave
        BY <4>1 DEF Leave, CertInHand, Addressed
      <4>2. CASE ~Leave
        <5>1. /\ pc = "status" /\ cert' = cert /\ current' = current
              /\ Exists(agents[current]) /\ constructed' = Ref(agents[current])
          BY <2>4, <4>2 DEF EnsureStatus, passVars
        <5>2. cert' \in heldAt'[current']
          BY <1>h, <5>1 DEF AInv, CertInHand
        <5>3. constructed'.uid # 0 /\ constructed'.secretName \in SecretNames
          BY <3>1, <5>1 DEF Ref, Exists
        <5> QED
          BY <5>2, <5>3 DEF CertInHand, Addressed, SecretNames
      <4> QED
        BY <4>1, <4>2
  <2>5. CASE EnsureAlreadyExists
    BY <1>h, <2>5 DEF EnsureAlreadyExists, Proceed, AInv, CertInHand, Addressed, passVars
  <2>6. CASE ListDefinitions \/ NextDefinition \/ EndPass \/ ClaimAnswered \/ ClaimRefused
             \/ ClaimGivenUp \/ CorrectImage \/ PatchImage \/ HasCredential
             \/ PlaceCredential \/ CallFails \/ WriteGivenUp
    <3>1. pc' \notin {"create", "get", "status", "place"}
      BY <2>6 DEF ListDefinitions, NextDefinition, EndPass, Idle, ClaimAnswered,
         ClaimRefused, ClaimGivenUp, CorrectImage, PatchImage, HasCredential,
         PlaceCredential, CallFails, WriteGivenUp, Proceed, Leave
    <3> QED
      BY <3>1 DEF CertInHand, Addressed
  <2> QED
    BY <1>1, <2>1, <2>2, <2>3, <2>4, <2>5, <2>6 DEF PollerStep, PollerNext, PollerAnswered
<1>2. CASE Restart
  BY <1>2 DEF Restart, PollerRestart, Idle, CertInHand, Addressed
<1>3. CASE UNCHANGED pollerVars
  BY <1>h, <1>3 DEF pollerVars, AInv, CertInHand, Addressed, SecretNames
<1> QED
  BY <1>1, <1>2, <1>3 DEF Next, ReporterStep, Reconcile, GaramStep, ClusterStep, vars

\* The create of a Secret the pass gave up on is the one it was about to make.
LEMMA LateSecretsKept ==
  ASSUME TypeOK, AInv, [Next]_vars
  PROVE  LateSecrets'
<1> SUFFICES ASSUME NEW w \in lateWrites', w.kind = "secret"
             PROVE  w.owner # 0 /\ w.name \in SecretNames /\ Issued(w.cert)'
  BY DEF LateSecrets, SecretNames
<1>0. \A c : Issued(c) => Issued(c)'
  BY HeldStays DEF AInv
<1>1. CASE w \in lateWrites
  BY <1>0, <1>1 DEF AInv, LateSecrets
<1>2. CASE w \notin lateWrites
  <2>1. WriteGivenUp
    BY <1>2, Zenon DEF Next, PollerStep, PollerNext, PollerAnswered, ListDefinitions,
       NextDefinition, EndPass, ClaimAnswered, ClaimRefused, ClaimGivenUp, CorrectImage,
       PatchImage, HasCredential, IssueAgentCertificate, EnsureCreate,
       EnsureAlreadyExists, EnsureGet, EnsureStatus, PlaceCredential, CallFails,
       ReporterStep, ReporterNext, ListObservations, SkipUnobserved, ReportAnswered,
       ReportGivenUp, Reconcile, GaramStep, ClusterStep, ClusterNext, Sync, SyncAgent,
       SyncSecret, Collect, CollectSecret, CollectWorkload, PodChanges, UserAct,
       LandWrite, LoseWrites, Restart, PollerRestart, vars, clusterVars
  <2>2. w = PendingWrite /\ pc \in {"patch", "create", "status", "place"}
    BY <1>2, <2>1 DEF WriteGivenUp
  <2>3. pc = "place"
    BY <2>2 DEF PendingWrite
  <2>4. w.owner = constructed.uid /\ w.name = constructed.secretName /\ w.cert = cert
    BY <2>2, <2>3 DEF PendingWrite
  <2>5. Issued(cert)
    BY <2>3 DEF AInv, CertInHand, Issued, TypeOK, PollerTypeOK
  <2> QED
    BY <1>0, <2>3, <2>4, <2>5 DEF AInv, Addressed
<1> QED
  BY <1>1, <1>2

\* An Agent names a Secret as long as it exists, and so does the cached one.
LEMMA NamedKept ==
  ASSUME IInv, AInv, [Next]_vars
  PROVE  Named'
<1>0. TypeOK /\ Named
  BY DEF IInv, AInv
<1>1. \A a \in Agents : Exists(agents'[a]) => agents'[a].secretName \in SecretNames
  BY <1>0, RecordStep DEF Named, Written
<1>2. ASSUME NEW a \in Agents, Exists(cachedAgents'[a])
      PROVE  cachedAgents'[a].secretName \in SecretNames
  BY <1>0, <1>2, CacheStep DEF Named
<1> QED
  BY <1>1, <1>2 DEF Named, Exists, SecretNames

\* A Secret that was removed leaves no owner behind.
LEMMA UnownedKept ==
  ASSUME TypeOK, AInv, [Next]_vars
  PROVE  Unowned'
<1>0. secrets \in [SecretNames -> SecretObject] /\ Unowned
  BY DEF TypeOK, ClusterTypeOK, AInv
<1> SUFFICES ASSUME NEW m \in SecretNames  PROVE ~secrets'[m].exists => secrets'[m].owner = 0
  BY DEF Unowned, SecretNames
<1>1. ASSUME NEW n \in SecretNames, Placed(n)
      PROVE  ~secrets'[m].exists => secrets'[m].owner = 0
  BY <1>0, <1>1 DEF Placed, PutSecret, Unowned
<1>2. ASSUME NEW n \in SecretNames, Supplied(n)
      PROVE  ~secrets'[m].exists => secrets'[m].owner = 0
  BY <1>0, <1>2 DEF Supplied, Unowned, SecretObject
<1>3. ASSUME NEW n \in SecretNames, Removed(n)
      PROVE  ~secrets'[m].exists => secrets'[m].owner = 0
  BY <1>0, <1>3 DEF Removed, NoSecret, Unowned
<1> QED
  BY <1>0, <1>1, <1>2, <1>3, SecretStep DEF Unowned

\* AInv, with the invariant the fence rests on, is inductive.
LEMMA AInvHolds == Spec => [](IInv /\ AInv)
<1>1. Init => AInv
  <2>1. Init => NeverHeld
    BY DEF Init, GaramInit, NeverHeld
  <2>2. Init => CertInHand /\ Addressed
    BY DEF Init, PollerInit, CertInHand, Addressed
  <2>3. Init => LateSecrets
    BY DEF Init, ClusterInit, LateSecrets
  <2>4. Init => Named
    BY DEF Init, ClusterInit, NoAgent, Exists, Named
  <2>5. Init => Unowned
    BY DEF Init, ClusterInit, NoSecret, Unowned
  <2> QED
    BY <2>1, <2>2, <2>3, <2>4, <2>5 DEF AInv
<1>2. IInv /\ AInv /\ [Next]_vars => AInv'
  BY HeldStays, InHandKept, LateSecretsKept, NamedKept, UnownedKept DEF IInv, AInv
<1> QED
  BY <1>1, <1>2, IInvariant, PTL DEF Spec

\* What stands at a name, as Assignment counts it.
Standing(s) ==
  IF ~s.exists THEN 0 ELSE IF s.owner = 0 THEN 1 ELSE 2 + s.cert

\* The three things that can stand there.
LEMMA StandingIs ==
  ASSUME NEW s \in SecretObject
  PROVE  /\ ~s.exists => Standing(s) = 0
         /\ s.exists /\ s.owner = 0 => Standing(s) = 1
         /\ s.exists /\ s.owner # 0 => Standing(s) = 2 + s.cert
<1>1. ASSUME ~s.exists  PROVE Standing(s) = 0
  BY <1>1 DEF Standing
<1>2. ASSUME s.exists, s.owner = 0  PROVE Standing(s) = 1
  BY <1>2 DEF Standing
<1>3. ASSUME s.exists, s.owner # 0  PROVE Standing(s) = 2 + s.cert
  <2>1. s.exists = TRUE /\ ~(s.owner = 0)
    BY <1>3 DEF SecretObject
  <2> QED
    BY <2>1 DEF Standing
<1> QED
  BY <1>1, <1>2, <1>3

\* The four kinds of change are the steps of Assignment.  An assignment that
\* moved:
LEMMA AssignmentMaps ==
  ASSUME TypeOK, NEW a \in Agents, Moved(a)
  PROVE  Promise!Next
<1>1. Promise!Assign(a)
  BY DEF Moved, Promise!Assign
<1> QED
  BY <1>1 DEF Promise!Next

\* A report garam took:
LEMMA LatchMaps ==
  ASSUME TypeOK, NEW a \in Agents, NEW s \in ProvisioningState, Taken(a, s)
  PROVE  Promise!Next
<1>1. Promise!Latch(a, s)
  BY DEF Taken, Holds, Promise!Latch, Promise!Held
<1> QED
  BY <1>1 DEF Promise!Next

\* An Agent that was written, which may leave its record as it was:
LEMMA RecordMaps ==
  ASSUME TypeOK, NEW a \in Agents, Written(a)
  PROVE  [Promise!Next]_(Promise!vars)
<1> DEFINE rec == [b \in Agents |-> agents[b].epoch]
           new == [b \in Agents |-> agents'[b].epoch]
<1>0. UNCHANGED <<epoch, heldAt, secrets, latch>> /\ epoch \in [Agents -> Nat]
  BY DEF Written, TypeOK, GaramTypeOK
<1>1. new = [rec EXCEPT ![a] = agents'[a].epoch]
  BY Zenon DEF Written
<1>2. CASE agents'[a].epoch = agents[a].epoch
  <2>1. new = rec
    BY <1>1, <1>2, Zenon
  <2> QED
    BY <1>0, <2>1 DEF Promise!vars
<1>3. CASE agents'[a].epoch = 0
  <2>1. Promise!Forget(a)
    BY <1>0, <1>1, <1>3 DEF Promise!Forget
  <2> QED
    BY <2>1 DEF Promise!Next
<1>4. CASE agents'[a].epoch \in Nat \ {0} /\ Proved(a, agents'[a].epoch)
  <2>0. PICK e : e = agents'[a].epoch
    OBVIOUS
  <2>1. e \in 1..epoch[a] /\ (e = epoch[a] => epoch[a] \in heldAt[a])
    BY <1>0, <1>4, <2>0 DEF Proved, Fenced, Holds
  <2>2. Promise!Record(a, e)
    BY <1>0, <1>1, <2>0, <2>1 DEF Promise!Record, Promise!Held
  <2> QED
    BY <2>1, <2>2 DEF Promise!Next
<1> QED
  BY <1>2, <1>3, <1>4 DEF Written

\* A Secret placed, supplied or removed:
LEMMA SecretMaps ==
  ASSUME TypeOK, Unowned, UNCHANGED <<epoch, heldAt, agents, latch>>,
         NEW n \in SecretNames, Placed(n) \/ Supplied(n) \/ Removed(n)
  PROVE  Promise!Next
<1> DEFINE old == [m \in SecretNames |-> Standing(secrets[m])]
           new == [m \in SecretNames |-> Standing(secrets'[m])]
           put == [m \in SecretNames |->
                     IF ~secrets[m].exists THEN 0
                     ELSE IF secrets[m].owner = 0 THEN 1 ELSE 2 + secrets[m].cert]
<1>p. put = old /\ put' = new
  BY DEF Standing
<1>0. secrets \in [SecretNames -> SecretObject]
  BY DEF TypeOK, ClusterTypeOK
<1>1. \A m \in SecretNames : m # n => secrets'[m] = secrets[m]
  BY <1>0 DEF Placed, Supplied, Removed, PutSecret
<1>2. new = [old EXCEPT ![n] = Standing(secrets'[n])]
  BY <1>1, Zenon
<1>3. CASE Placed(n)
  <2>1. PICK u \in Nat \ {0}, c \in Nat : Issued(c) /\ secrets' = PutSecret(n, u, c)
    BY <1>3 DEF Placed
  <2>2. Standing(secrets'[n]) = 2 + c /\ old[n] = 0
    <3>1. /\ secrets'[n] \in SecretObject /\ secrets'[n].exists
          /\ secrets'[n].owner = u /\ secrets'[n].cert = c
      BY <1>0, <2>1 DEF PutSecret, SecretObject
    <3>2. secrets[n] \in SecretObject /\ ~secrets[n].exists
      BY <1>0, <1>3 DEF Placed
    <3> QED
      BY <3>1, <3>2, StandingIs
  <2>3. PICK a \in Agents : c \in heldAt[a]
    BY <2>1 DEF Issued
  <2>4. put[n] = 0 /\ put' = [put EXCEPT ![n] = 2 + c]
    BY <1>p, <1>2, <2>2, Zenon
  <2>5. Promise!Place(n)
    BY <2>3, <2>4, Zenon DEF Promise!Place
  <2> QED
    BY <2>5 DEF Promise!Next
<1>4. CASE Supplied(n)
  <2>1. secrets'[n] \in SecretObject /\ secrets'[n].exists /\ secrets'[n].owner = 0
    BY <1>0, <1>4, Zenon DEF Supplied, Unowned, SecretObject
  <2>2. Standing(secrets'[n]) = 1 /\ old[n] = 0
    BY <1>0, <1>4, <2>1, StandingIs, Zenon DEF Supplied
  <2>3. put[n] = 0 /\ put' = [put EXCEPT ![n] = 1]
    BY <1>p, <1>2, <2>2, Zenon
  <2>4. Promise!Supply(n)
    BY <2>3, Zenon DEF Promise!Supply
  <2> QED
    BY <2>4 DEF Promise!Next
<1>5. CASE Removed(n)
  <2>1. Standing(secrets'[n]) = 0
    <3>1. secrets'[n] \in SecretObject /\ ~secrets'[n].exists
      BY <1>0, <1>5 DEF Removed, NoSecret, SecretObject
    <3> QED
      BY <3>1, StandingIs
  <2>2. put' = [put EXCEPT ![n] = 0]
    BY <1>p, <1>2, <2>1, Zenon
  <2>3. Promise!Remove(n)
    BY <2>2, Zenon DEF Promise!Remove
  <2> QED
    BY <2>3 DEF Promise!Next
<1> QED
  BY <1>3, <1>4, <1>5

\* Operator implements Assignment: whatever calls are late, writes are lost or
\* passes stop halfway, an epoch is recorded only as garam's assignments allow,
\* a credential is placed only where nothing stands and only one issued to this
\* operator while it held an agent, and garam's state is set only by the holder.
THEOREM AssignmentsKept == Spec => ImplementsAssignment
<1>1. Init => Promise!Init
  <2> SUFFICES ASSUME Init  PROVE Promise!Init
    OBVIOUS
  <2>1. \A a \in Agents : agents[a].epoch = 0
    BY DEF Init, ClusterInit, NoAgent
  <2>2. ASSUME NEW n \in SecretNames
        PROVE  (IF ~secrets[n].exists THEN 0
                ELSE IF secrets[n].owner = 0 THEN 1 ELSE 2 + secrets[n].cert) = 0
    BY DEF Init, ClusterInit, NoSecret
  <2> QED
    BY <2>1, <2>2 DEF Init, GaramInit, Promise!Init
<1>2. IInv /\ AInv /\ [Next]_vars => [Promise!Next]_(Promise!vars)
  <2> SUFFICES ASSUME IInv, AInv, [Next]_vars
               PROVE  [Promise!Next]_(Promise!vars)
    OBVIOUS
  <2>0. TypeOK /\ NeverHeld /\ Named /\ Unowned
    BY DEF IInv, AInv
  <2>1. CASE UNCHANGED <<epoch, heldAt, agents, secrets, latch>>
    BY <2>1 DEF Promise!vars
  <2>2. CASE ~UNCHANGED <<epoch, heldAt>>
    BY <2>0, <2>2, AssignmentStep, AssignmentMaps
  <2>3. CASE ~UNCHANGED latch
    BY <2>0, <2>3, LatchStep, LatchMaps
  <2>4. CASE ~UNCHANGED agents
    BY <2>0, <2>4, RecordStep, RecordMaps
  <2>5. CASE ~UNCHANGED secrets
    BY <2>0, <2>5, SecretStep, SecretMaps
  <2> QED
    BY <2>1, <2>2, <2>3, <2>4, <2>5
<1> QED
  BY <1>1, <1>2, AInvHolds, PTL DEF Spec, ImplementsAssignment, Promise!Spec
=============================================================================
