-------------------------- MODULE ReconcilerProofs --------------------------
(***************************************************************************)
(* What TLAPS proves of Reconciler for any specs, any number of acts and     *)
(* restarts and caches of any age: types, that a pass keeps the identity of  *)
(* a StatefulSet that lives, and that no status is torn between generations. *)
(***************************************************************************)
EXTENDS Reconciler, TLAPS

\* The steps that leave the pass and what it reads and writes as they are.
LEMMA Handlers ==
  ASSUME \/ \E n \in SecretNames : agentsNamingSecret(n)
         \/ \E n \in {"agent", "workload"} : DeliverOwn(n)
  PROVE  /\ UNCHANGED <<objects, caches, pass, acts, restarts>>
         /\ notices' \subseteq notices
         /\ queued \in BOOLEAN => queued' \in BOOLEAN
  BY Zenon DEF agentsNamingSecret, DeliverOwn

\* What is decided from a StatefulSet, or from a Secret that is missing, is a
\* status of the generation held.
LEMMA Decided ==
  ASSUME held \in Agent
  PROVE  /\ Decide("CredentialsSecretMissing", "Unknown") => decided' \in Status
         /\ \A w : DecideFrom(w) => decided' \in Status
  BY DEF Decide, DecideFrom, Status, Conditions, Agent

\* A merge of two statuses into a third takes each field whole from one of them.
LEMMA Merged ==
  ASSUME NEW base \in Status, NEW new \in Status, NEW status \in Status
  PROVE  LET m == MergeFrom(base, new, status) IN
           /\ m \in Status
           /\ m.conditions = IF new.conditions = base.conditions
                               THEN status.conditions ELSE new.conditions
           /\ m.observedGeneration = IF new.observedGeneration = base.observedGeneration
                                       THEN status.observedGeneration
                                       ELSE new.observedGeneration
<1>1. DOMAIN status = {"conditions", "observedGeneration"}
  BY DEF Status
<1>2. MergeFrom(base, new, status) =
        [conditions |-> IF new.conditions = base.conditions
                          THEN status.conditions ELSE new.conditions,
         observedGeneration |-> IF new.observedGeneration = base.observedGeneration
                                  THEN status.observedGeneration
                                  ELSE new.observedGeneration]
  BY <1>1 DEF MergeFrom
<1> QED
  BY <1>2 DEF Status

\* Applying the Agent to a StatefulSet leaves its claim and its readiness.
LEMMA Applied ==
  ASSUME held \in Agent, NEW w \in Workload
  PROVE  /\ applyAgent(w) \in Workload
         /\ applyAgent(w).owner = held.uid
         /\ applyAgent(w).size = w.size /\ applyAgent(w).class = w.class
  BY Zenon DEF applyAgent, Agent, Spec, Workload, Template

\* What Return leaves of a pass.
LEMMA Returned ==
  ASSUME NEW failed \in BOOLEAN, Return(failed), queued \in BOOLEAN
  PROVE  /\ pc' = "idle" /\ held' = NoAgent /\ found' = NoWorkload
         /\ decided' \in Status /\ queued' \in BOOLEAN
  BY DEF Return, NoStatus, Status, Conditions
-----------------------------------------------------------------------------
\* The status of an Agent nothing was said of is one.
LEMMA NoStatusType == NoStatus \in Status
  BY DEF NoStatus, Status, Conditions

\* So it is at the start.
LEMMA InitType == Init => TypeOK
<1> SUFFICES ASSUME Init PROVE TypeOK
  OBVIOUS
<1>1. decided \in Status
  BY NoStatusType DEF Init
<1>2. acts \in 0 .. MaxActs /\ restarts \in 0 .. MaxRestarts /\ uids \in Nat
  BY ReconcilerAssumption DEF Init
<1> QED
  BY <1>1, <1>2, Zenon DEF Init, TypeOK

\* Every step keeps the types.
LEMMA TypeKept ==
  ASSUME TypeOK, [Next]_vars
  PROVE  TypeOK'
<1> USE ReconcilerAssumption
<1>1. CASE Dequeue
  <2>1. /\ queued' = FALSE
        /\ UNCHANGED <<agent, secrets, workload, unheard, uids, caches, notices, found, decided,
                       acts, restarts>>
    BY <1>1 DEF Dequeue, objects
  <2>2. /\ pc = "idle" /\ pc' \in {"idle", "secret"}
        /\ held' \in IF pc' = "idle" THEN {NoAgent} ELSE Agent
    <3>1. Exists(cachedAgent) => cachedAgent \in Agent
      BY DEF TypeOK, Exists, NoAgent
    <3> QED
      BY <1>1, <3>1 DEF Dequeue, TypeOK
  <2> QED
    BY <2>1, <2>2, Zenon DEF TypeOK, caches
<1>2. CASE ReadSecret
  <2>1. held \in Agent
    BY <1>2 DEF ReadSecret, TypeOK
  <2>2. decided' \in Status
    BY <1>2, <2>1, Decided DEF ReadSecret, TypeOK
  <2> QED
    BY <1>2, <2>1, <2>2 DEF ReadSecret, Proceed, TypeOK, objects, caches
<1>3. CASE GetWorkload
  <2>1. held \in Agent /\ found = NoWorkload
    BY <1>3 DEF GetWorkload, TypeOK
  <2>2. /\ UNCHANGED <<objects, caches, notices, acts, restarts>>
        /\ pc' \in {"idle", "create", "update", "status"} /\ queued' \in BOOLEAN
        /\ held' = IF pc' = "idle" THEN NoAgent ELSE held
        /\ found' = IF pc' = "update" THEN cachedWorkload ELSE NoWorkload
        /\ decided' \in Status
        /\ pc' = "update" => Built(cachedWorkload)
    <3>1. CASE ~Built(cachedWorkload)
      BY <1>3, <2>1, <3>1 DEF GetWorkload, Proceed, TypeOK
    <3>2. CASE Built(cachedWorkload) /\ cachedWorkload.owner # held.uid
      BY <1>3, <2>1, <3>2, Returned, Zenon DEF GetWorkload, TypeOK
    <3>3. CASE Built(cachedWorkload) /\ cachedWorkload.owner = held.uid
      BY <1>3, <2>1, <3>3, Decided DEF GetWorkload, Proceed, TypeOK
    <3> QED
      BY <3>1, <3>2, <3>3
  <2> QED
    BY <2>1, <2>2 DEF TypeOK, objects, caches, Built, NoWorkload
<1>4. CASE CreateWorkload \/ UpdateWorkload
  <2>1. held \in Agent
    BY <1>4, Zenon DEF CreateWorkload, UpdateWorkload, TypeOK
  <2>2. /\ UNCHANGED <<agent, secrets, uids, caches, notices, acts, restarts>>
        /\ unheard' = unheard \/ Written("workload")
        /\ workload' \in Workload \cup {NoWorkload}
        /\ Return(TRUE) \/ WorkloadWritten
    <3>1. CASE CreateWorkload
      <4>1. [owner |-> held.uid,
             template |-> [image |-> held.spec.image, secretName |-> held.spec.secretName],
             size |-> held.spec.size, class |-> held.spec.class, ready |-> FALSE] \in Workload
        BY <2>1 DEF Workload, Template, Agent, Spec
      <4> QED
        BY <3>1, <4>1, Zenon DEF CreateWorkload, TypeOK, objects
    <3>2. CASE UpdateWorkload
      BY <2>1, <3>2, Applied, Zenon DEF UpdateWorkload, TypeOK, objects
    <3> QED
      BY <1>4, <3>1, <3>2, Zenon
  <2>3. /\ pc' \in {"idle", "status"} /\ queued' \in BOOLEAN
        /\ held' = IF pc' = "idle" THEN NoAgent ELSE held
        /\ found' = NoWorkload /\ decided' \in Status
    BY <2>1, <2>2, Returned, Decided, Zenon DEF WorkloadWritten, Proceed, TypeOK
  <2> QED
    BY <2>1, <2>2, <2>3 DEF TypeOK, caches, Written
<1>5. CASE writeStatus
  <2>1. held \in Agent
    BY <1>5 DEF writeStatus, TypeOK
  <2>2. /\ UNCHANGED <<secrets, workload, uids, caches, notices, acts, restarts>>
        /\ unheard' = unheard \/ Written("agent")
        /\ \E failed \in BOOLEAN : Return(failed)
    BY <1>5, Zenon DEF writeStatus
  <2>3. agent' \in Agent \cup {NoAgent}
    <3>1. CASE UNCHANGED agent
      BY <3>1 DEF TypeOK
    <3>2. CASE Exists(agent)
               /\ agent' = [agent EXCEPT !.status = MergeFrom(held.status, decided, @)]
      <4>1. agent \in Agent /\ agent.status \in Status /\ held.status \in Status
        BY <2>1, <3>2 DEF TypeOK, Exists, NoAgent, Agent
      <4>2. MergeFrom(held.status, decided, agent.status) \in Status
        BY <4>1, Merged DEF TypeOK
      <4> QED
        BY <3>2, <4>1, <4>2 DEF Agent
    <3> QED
      BY <1>5, <3>1, <3>2, Zenon DEF writeStatus
  <2>4. /\ pc' = "idle" /\ held' = NoAgent /\ found' = NoWorkload
        /\ decided' \in Status /\ queued' \in BOOLEAN
    BY <2>2, Returned DEF TypeOK
  <2> QED
    BY <2>2, <2>3, <2>4 DEF TypeOK, caches, Written
<1>6. CASE CallFails
  BY <1>6, Returned, Zenon DEF CallFails, TypeOK, objects, caches
<1>7. CASE SyncAgent \/ SyncWorkload
  BY <1>7 DEF SyncAgent, SyncWorkload, TypeOK, pass
<1>8. CASE \E n \in SecretNames : SyncSecret(n)
  BY <1>8 DEF SyncSecret, TypeOK, pass
<1>9. CASE \/ \E n \in SecretNames : agentsNamingSecret(n)
           \/ \E n \in {"agent", "workload"} : DeliverOwn(n)
  BY <1>9, Handlers DEF TypeOK, objects, caches, pass
<1>10. CASE Collect
  BY <1>10 DEF Collect, TypeOK, caches, pass, Written
<1>11. CASE Act
  <2>1. /\ UNCHANGED <<caches, notices, queued, pass, restarts>> /\ acts' \in 0 .. MaxActs
    BY <1>11 DEF Act, TypeOK
  <2>2. CASE AgentCreated
    <3>1. PICK s \in Spec : agent' = [uid |-> uids + 1, generation |-> 1, spec |-> s,
                                      status |-> NoStatus]
      BY <2>2 DEF AgentCreated
    <3>2. uids + 1 \in Nat \ {0}
      BY DEF TypeOK
    <3>3. agent' \in Agent
      BY <3>1, <3>2, NoStatusType DEF Agent
    <3>4. UNCHANGED <<secrets, workload>> /\ uids' \in Nat /\ Written("agent")
      BY <2>2, <3>2 DEF AgentCreated
    <3> QED
      BY <2>1, <3>3, <3>4 DEF TypeOK, Written, caches, pass
  <2>3. CASE AgentEdited
    <3>1. agent \in Agent
      BY <2>3 DEF AgentEdited, TypeOK, Exists, NoAgent
    <3>2. PICK s \in Spec : agent' = [agent EXCEPT !.spec = s, !.generation = @ + 1]
      BY <2>3, Zenon DEF AgentEdited
    <3>3. agent' \in Agent
      <4>1. /\ agent' = [uid |-> agent.uid, generation |-> agent.generation + 1,
                         spec |-> s, status |-> agent.status]
        BY <3>1, <3>2, Zenon DEF Agent
      <4> QED
        BY <3>1, <4>1 DEF Agent
    <3> QED
      BY <2>1, <2>3, <3>3 DEF AgentEdited, TypeOK, Written, caches, pass
  <2>4. CASE AgentDeleted
    BY <2>1, <2>4 DEF AgentDeleted, TypeOK, Written, caches, pass
  <2>5. CASE SecretChanged
    BY <2>1, <2>5 DEF SecretChanged, TypeOK, Written, caches, pass
  <2>6. CASE WorkloadDeleted
    BY <2>1, <2>6 DEF WorkloadDeleted, TypeOK, Written, caches, pass
  <2>7. CASE WorkloadDrifted \/ PodChanged
    <3>1. workload \in Workload
      BY <2>7 DEF WorkloadDrifted, PodChanged, TypeOK, Built, NoWorkload
    <3>2. workload' \in Workload
      BY <2>7, <3>1, Zenon DEF WorkloadDrifted, PodChanged, Workload
    <3> QED
      BY <2>1, <2>7, <3>2 DEF WorkloadDrifted, PodChanged, TypeOK, Written, caches, pass
  <2> QED
    BY <1>11, <2>2, <2>3, <2>4, <2>5, <2>6, <2>7 DEF Act
<1>12. CASE Restart
  <2>1. restarts' \in 0 .. MaxRestarts /\ decided' \in Status
    BY <1>12, NoStatusType DEF Restart, TypeOK
  <2> QED
    BY <1>12, <2>1, Zenon DEF Restart, TypeOK
<1>13. CASE UNCHANGED vars
  BY <1>13 DEF vars, objects, caches, pass, TypeOK
<1> QED
  BY <1>1, <1>2, <1>3, <1>4, <1>5, <1>6, <1>7, <1>8, <1>9, <1>10, <1>11, <1>12, <1>13
     DEF Next, Reconcile

\* Every state a reconciler can reach is well typed: in particular a pass holds
\* an Agent that existed when it read it, and an update a StatefulSet.
THEOREM TypeCorrect == ReconcilerSpec => []TypeOK
<1>1. Init => TypeOK
  BY InitType
<1> QED
  BY <1>1, TypeKept, PTL DEF ReconcilerSpec
-----------------------------------------------------------------------------
\* The update a pass is about to make is of a StatefulSet its Agent controls.
OwnUpdate == pc = "update" => found.owner = held.uid

\* The steps of everyone but the reconciler, a restart excepted, leave the pass.
LEMMA Outside ==
  ASSUME \/ SyncAgent \/ SyncWorkload \/ Collect \/ Act \/ UNCHANGED vars
         \/ \E n \in SecretNames : SyncSecret(n) \/ agentsNamingSecret(n)
         \/ \E n \in {"agent", "workload"} : DeliverOwn(n)
  PROVE  UNCHANGED pass
  BY DEF SyncAgent, SyncWorkload, Collect, Act, vars, SyncSecret, agentsNamingSecret, DeliverOwn

\* Every step keeps it: GetWorkload stops at a StatefulSet of another Agent.
LEMMA OwnUpdateKept ==
  ASSUME TypeOK, OwnUpdate, [Next]_vars
  PROVE  OwnUpdate'
<1> USE DEF OwnUpdate
<1>1. CASE Dequeue \/ ReadSecret \/ CallFails \/ writeStatus
  BY <1>1 DEF Dequeue, ReadSecret, CallFails, writeStatus, Proceed, Return
<1>2. CASE GetWorkload
  BY <1>2 DEF GetWorkload, Proceed, Return
<1>3. CASE CreateWorkload \/ UpdateWorkload
  BY <1>3 DEF CreateWorkload, UpdateWorkload, WorkloadWritten, Proceed, Return
<1>4. CASE UNCHANGED pass
  BY <1>4 DEF pass
<1>5. CASE Restart
  BY <1>5 DEF Restart
<1> QED
  BY <1>1, <1>2, <1>3, <1>4, <1>5, Outside DEF Next, Reconcile

\* A step that leaves a StatefulSet built leaves its controller and its claim.
LEMMA IdentityStep ==
  ASSUME TypeOK, OwnUpdate, [Next]_vars, Built(workload), Built(workload')
  PROVE  /\ workload'.owner = workload.owner
         /\ workload'.size = workload.size /\ workload'.class = workload.class
<1>1. CASE UNCHANGED workload
  BY <1>1
<1>2. CASE UpdateWorkload
  <2>1. held \in Agent /\ found \in Workload
    BY <1>2 DEF UpdateWorkload, TypeOK
  <2>2. workload' = workload \/ (workload = found /\ workload' = applyAgent(found))
    BY <1>2, Zenon DEF UpdateWorkload, objects
  <2> QED
    BY <1>2, <2>1, <2>2, Applied DEF UpdateWorkload, OwnUpdate
<1>3. CASE CreateWorkload
  BY <1>3 DEF CreateWorkload, objects
<1>4. CASE Act
  <2>1. CASE WorkloadDrifted \/ PodChanged
    <3>1. workload \in Workload
      BY DEF TypeOK, Built, NoWorkload
    <3> QED
      BY <2>1, <3>1 DEF WorkloadDrifted, PodChanged, Workload
  <2>2. CASE AgentCreated \/ AgentEdited \/ AgentDeleted \/ SecretChanged
    BY <2>2, Zenon DEF AgentCreated, AgentEdited, AgentDeleted, SecretChanged
  <2>3. ~WorkloadDeleted
    BY DEF WorkloadDeleted, Built, NoWorkload
  <2> QED
    BY <1>4, <2>1, <2>2, <2>3 DEF Act
<1>5. CASE Collect
  BY <1>5 DEF Collect, Built, NoWorkload
<1>6. \/ Dequeue \/ ReadSecret \/ GetWorkload \/ writeStatus \/ CallFails
      \/ SyncAgent \/ SyncWorkload \/ Restart \/ UNCHANGED vars
      => UNCHANGED workload
  BY Zenon DEF Dequeue, ReadSecret, GetWorkload, writeStatus, CallFails, SyncAgent, SyncWorkload,
         Restart, vars, objects
<1>7. (\E n \in SecretNames : SyncSecret(n) \/ agentsNamingSecret(n)) => UNCHANGED workload
  BY DEF SyncSecret, agentsNamingSecret, objects
<1>8. (\E n \in {"agent", "workload"} : DeliverOwn(n)) => UNCHANGED workload
  BY DEF DeliverOwn, objects
<1> QED
  BY <1>1, <1>2, <1>3, <1>4, <1>5, <1>6, <1>7, <1>8 DEF Next, Reconcile

\* Whatever Agents come and go under a name and however old what a pass read is,
\* applyAgent takes no StatefulSet over from the Agent that controls it and
\* changes no volume claim: the update is refused at any version but the one
\* that was read, and that one was the Agent's own.
THEOREM IdentityNeverChanged == ReconcilerSpec => IdentityKept
<1>1. Init => TypeOK /\ OwnUpdate
  BY InitType DEF Init, OwnUpdate
<1>2. TypeOK /\ OwnUpdate /\ [Next]_vars => (TypeOK /\ OwnUpdate)'
  BY TypeKept, OwnUpdateKept
<1>3. TypeOK /\ OwnUpdate /\ [Next]_vars
        => [Built(workload) /\ Built(workload')
              => /\ workload'.owner = workload.owner
                 /\ workload'.size = workload.size /\ workload'.class = workload.class]_vars
  BY IdentityStep
<1> QED
  BY <1>1, <1>2, <1>3, PTL DEF ReconcilerSpec, IdentityKept
-----------------------------------------------------------------------------
Whole(status) == status.conditions.at = status.observedGeneration

\* What a pass will write is whole, and of the generation it holds.
DecidedWhole ==
  pc = "status" => /\ Whole(decided)
                   /\ decided.observedGeneration = held.generation

\* The inductive invariant of the first Agent under the name.  The three copies
\* of it, the API server's, the informer's and the pass's, carry whole statuses
\* and are ordered: what a pass read is no newer than the cache, the cache no
\* newer than the object, and no generation was observed that is newer than the
\* one the pass holds, for there is one worker.
Ordered ==
  /\ Exists(agent) => /\ Whole(agent.status)
                      /\ agent.status.observedGeneration <= agent.generation
  /\ Exists(cachedAgent) => Whole(cachedAgent.status)
  /\ Exists(held) => Whole(held.status)
  /\ Exists(agent) /\ Exists(cachedAgent) =>
       /\ cachedAgent.status.observedGeneration <= agent.status.observedGeneration
       /\ agent.status.observedGeneration <= cachedAgent.generation
       /\ cachedAgent.generation <= agent.generation
  /\ Exists(agent) /\ Exists(held) =>
       /\ Exists(cachedAgent)
       /\ held.status.observedGeneration <= agent.status.observedGeneration
       /\ agent.status.observedGeneration <= held.generation
       /\ held.generation <= cachedAgent.generation

SInv ==
  /\ DecidedWhole
  /\ uids = 0 => agent = NoAgent /\ cachedAgent = NoAgent /\ held = NoAgent
  /\ uids = 1 => Ordered

\* A patch computed against what the pass read leaves a whole status: where it
\* names one of the two fields alone, the other is the one the pass decided.
LEMMA PatchWhole ==
  ASSUME NEW base \in Status, NEW new \in Status, NEW status \in Status,
         Whole(base), Whole(new), Whole(status),
         base.observedGeneration <= status.observedGeneration,
         status.observedGeneration <= new.observedGeneration
  PROVE  LET m == MergeFrom(base, new, status) IN
           /\ Whole(m)
           /\ m.observedGeneration = new.observedGeneration
<1> DEFINE m == MergeFrom(base, new, status)
<1>1. /\ m.conditions = IF new.conditions = base.conditions
                          THEN status.conditions ELSE new.conditions
      /\ m.observedGeneration = IF new.observedGeneration = base.observedGeneration
                                  THEN status.observedGeneration
                                  ELSE new.observedGeneration
  BY Merged
<1>2. /\ base.observedGeneration \in Nat /\ new.observedGeneration \in Nat
      /\ status.observedGeneration \in Nat
  BY DEF Status
<1> HIDE DEF m
<1>3. m.observedGeneration = new.observedGeneration
  BY <1>1, <1>2
<1>4. Whole(m)
  BY <1>1, <1>2, <1>3 DEF Whole
<1> QED
  BY <1>3, <1>4 DEF m

\* What a pass decides is whole, and of the generation it holds.
LEMMA DecidesWhole ==
  ASSUME NEW w, DecideFrom(w)
  PROVE  Whole(decided') /\ decided'.observedGeneration = held.generation
  BY DEF DecideFrom, Decide, Whole

\* Every step keeps the status a pass will write whole.
LEMMA DecidedWholeKept ==
  ASSUME TypeOK, DecidedWhole, [Next]_vars
  PROVE  DecidedWhole'
<1> USE DEF DecidedWhole
<1>1. CASE Dequeue \/ CallFails \/ writeStatus
  BY <1>1 DEF Dequeue, CallFails, writeStatus, Return
<1>2. CASE ReadSecret
  BY <1>2 DEF ReadSecret, Proceed, Decide, Whole
<1>3. CASE GetWorkload
  <2>1. \/ pc' # "status"
        \/ held' = held /\ DecideFrom(cachedWorkload)
    BY <1>3 DEF GetWorkload, Proceed, Return
  <2> QED
    BY <2>1, DecidesWhole DEF Whole
<1>4. CASE CreateWorkload \/ UpdateWorkload
  <2>1. Return(TRUE) \/ WorkloadWritten
    BY <1>4, Zenon DEF CreateWorkload, UpdateWorkload
  <2>2. \/ pc' # "status"
        \/ held' = held /\ DecideFrom(workload')
    BY <2>1 DEF WorkloadWritten, Proceed, Return
  <2> QED
    BY <2>2, DecidesWhole DEF Whole
<1>5. CASE UNCHANGED pass
  BY <1>5 DEF pass, Whole
<1>6. CASE Restart
  BY <1>6 DEF Restart
<1> QED
  BY <1>1, <1>2, <1>3, <1>4, <1>5, <1>6, Outside DEF Next, Reconcile

\* What a step may do to the three copies of the Agent.
Patched ==
  /\ pc = "status" /\ Exists(agent)
  /\ agent' = [agent EXCEPT !.status = MergeFrom(held.status, decided, @)]
  /\ held' = NoAgent /\ UNCHANGED <<cachedAgent, uids>>

LEMMA CopiesStep ==
  ASSUME TypeOK, [Next]_vars
  PROVE  \/ held' \in {held, NoAgent} /\ UNCHANGED <<agent, cachedAgent, uids>>
         \/ held = NoAgent /\ held' = cachedAgent /\ UNCHANGED <<agent, cachedAgent, uids>>
         \/ cachedAgent' = agent /\ held' \in {held, NoAgent} /\ UNCHANGED <<agent, uids>>
         \/ Patched
         \/ AgentCreated /\ UNCHANGED <<cachedAgent, held>>
         \/ AgentEdited /\ UNCHANGED <<cachedAgent, held>>
         \/ AgentDeleted /\ UNCHANGED <<cachedAgent, held>>
<1>1. CASE Dequeue
  BY <1>1 DEF Dequeue, TypeOK, objects, caches
<1>2. CASE ReadSecret \/ GetWorkload \/ CallFails
  BY <1>2 DEF ReadSecret, GetWorkload, CallFails, Proceed, Return, objects, caches
<1>3. CASE CreateWorkload \/ UpdateWorkload
  BY <1>3 DEF CreateWorkload, UpdateWorkload, WorkloadWritten, Proceed, Return, objects, caches
<1>4. CASE writeStatus
  BY <1>4 DEF writeStatus, Patched, Return, caches
<1>5. CASE SyncAgent \/ Restart
  BY <1>5 DEF SyncAgent, Restart, pass
<1>6. CASE Act
  BY <1>6 DEF Act, SecretChanged, WorkloadDeleted, WorkloadDrifted, PodChanged, caches, pass
<1>7. CASE SyncWorkload \/ Collect \/ UNCHANGED vars
  BY <1>7 DEF SyncWorkload, Collect, vars, objects, caches, pass
<1>8. CASE \E n \in SecretNames : SyncSecret(n) \/ agentsNamingSecret(n)
  BY <1>8 DEF SyncSecret, agentsNamingSecret, objects, caches, pass
<1>9. CASE \E n \in {"agent", "workload"} : DeliverOwn(n)
  BY <1>9 DEF DeliverOwn, objects, caches, pass
<1> QED
  BY <1>1, <1>2, <1>3, <1>4, <1>5, <1>6, <1>7, <1>8, <1>9 DEF Next, Reconcile

\* A status patch keeps the copies of the first Agent in order.
LEMMA PatchKeepsOrder ==
  ASSUME TypeOK, Ordered, DecidedWhole, Patched
  PROVE  Ordered'
<1>1. held \in Agent /\ agent \in Agent /\ decided \in Status
  BY DEF Patched, TypeOK, Exists, NoAgent
<1>2. Exists(held) /\ held.status \in Status /\ agent.status \in Status
  BY <1>1 DEF Agent, Exists
<1> DEFINE m == MergeFrom(held.status, decided, agent.status)
<1>3. Whole(m) /\ m.observedGeneration = held.generation
  BY <1>1, <1>2, PatchWhole DEF Ordered, DecidedWhole, Patched
<1>4. agent'.status = m /\ agent'.generation = agent.generation /\ agent'.uid = agent.uid
  BY <1>1 DEF Patched, Agent
<1>5. Exists(cachedAgent) /\ cachedAgent \in Agent
  BY <1>2 DEF Ordered, Patched, TypeOK, Exists, NoAgent
<1>6. /\ held.generation \in Nat /\ cachedAgent.generation \in Nat /\ agent.generation \in Nat
      /\ agent.status.observedGeneration \in Nat
      /\ cachedAgent.status.observedGeneration \in Nat
  BY <1>1, <1>2, <1>5 DEF Agent, Status
<1>7. ~Exists(held') /\ cachedAgent' = cachedAgent
  BY DEF Patched, Exists, NoAgent
<1> HIDE DEF m
<1> QED
  BY <1>2, <1>3, <1>4, <1>5, <1>6, <1>7 DEF Ordered, Patched, Exists

\* Every step keeps the copies of the first Agent in order.
LEMMA SInvKept ==
  ASSUME TypeOK, SInv, [Next]_vars
  PROVE  SInv'
<1>1. DecidedWhole'
  BY DecidedWholeKept DEF SInv
<1>2. uids \in Nat /\ ~Exists(NoAgent)
  BY DEF TypeOK, Exists, NoAgent
<1>3. /\ Exists(agent) => agent \in Agent
      /\ Exists(cachedAgent) => cachedAgent \in Agent
      /\ Exists(held) => held \in Agent
  BY DEF TypeOK, Exists, NoAgent
<1>4. /\ Exists(agent) => agent.generation \in Nat /\ agent.status.observedGeneration \in Nat
      /\ Exists(cachedAgent) => /\ cachedAgent.generation \in Nat
                                /\ cachedAgent.status.observedGeneration \in Nat
      /\ Exists(held) => held.generation \in Nat /\ held.status.observedGeneration \in Nat
  BY <1>3 DEF Agent, Status
<1>5. CASE held' \in {held, NoAgent} /\ UNCHANGED <<agent, cachedAgent, uids>>
  <2>1. uids = 1 => Ordered'
    BY <1>2, <1>5 DEF SInv, Ordered, Whole, Exists
  <2> QED
    BY <1>1, <1>5, <2>1 DEF SInv
<1>6. CASE held = NoAgent /\ held' = cachedAgent /\ UNCHANGED <<agent, cachedAgent, uids>>
  <2>1. ASSUME uids = 1  PROVE Ordered'
    <3>1. Ordered
      BY <2>1 DEF SInv
    <3>2. (Exists(agent) => Whole(agent.status)'
                              /\ (agent.status.observedGeneration <= agent.generation)')
          /\ (Exists(cachedAgent)' => Whole(cachedAgent.status)')
          /\ (Exists(held)' => Whole(held.status)')
      BY <1>2, <1>6, <3>1 DEF Ordered, Whole, Exists
    <3> QED
      BY <1>2, <1>4, <1>6, <3>1, <3>2 DEF Ordered, Exists
  <2> QED
    BY <1>1, <1>6, <2>1 DEF SInv
<1>7. CASE cachedAgent' = agent /\ held' \in {held, NoAgent} /\ UNCHANGED <<agent, uids>>
  <2>1. ASSUME uids = 1  PROVE Ordered'
    <3>1. Ordered
      BY <2>1 DEF SInv
    <3>2. (Exists(agent) => Whole(agent.status)'
                              /\ (agent.status.observedGeneration <= agent.generation)')
          /\ (Exists(cachedAgent)' => Whole(cachedAgent.status)')
          /\ (Exists(held)' => Whole(held.status)')
      BY <1>2, <1>7, <3>1 DEF Ordered, Whole, Exists
    <3> QED
      BY <1>2, <1>4, <1>7, <3>1, <3>2 DEF Ordered, Exists
  <2> QED
    BY <1>1, <1>7, <2>1 DEF SInv
<1>8. CASE Patched
  <2>1. uids # 0
    BY <1>2, <1>8 DEF SInv, Patched
  <2> QED
    BY <1>1, <1>8, <2>1, PatchKeepsOrder DEF SInv, Patched
<1>9. CASE AgentCreated /\ UNCHANGED <<cachedAgent, held>>
  <2>1. CASE uids = 0
    <3>1. /\ ~Exists(cachedAgent') /\ ~Exists(held') /\ uids' = 1
          /\ agent'.status = NoStatus /\ agent'.generation = 1
      BY <1>2, <1>9, <2>1 DEF SInv, AgentCreated
    <3>2. Whole(agent'.status) /\ agent'.status.observedGeneration <= agent'.generation
      <4>1. NoStatus.conditions.at = 0 /\ NoStatus.observedGeneration = 0
        BY DEF NoStatus
      <4> QED
        BY <3>1, <4>1 DEF Whole
    <3>3. Ordered'
      BY <3>1, <3>2 DEF Ordered, Whole, Exists
    <3> QED
      BY <1>1, <3>1, <3>3 DEF SInv
  <2>2. CASE uids # 0
    <3>1. uids' # 0 /\ uids' # 1
      BY <1>2, <1>9, <2>2 DEF AgentCreated
    <3> QED
      BY <1>1, <3>1 DEF SInv
  <2> QED
    BY <2>1, <2>2
<1>10. CASE AgentEdited /\ UNCHANGED <<cachedAgent, held>>
  <2>1. Exists(agent) /\ agent \in Agent /\ uids # 0
    BY <1>2, <1>3, <1>10 DEF AgentEdited, SInv
  <2>2. /\ agent'.generation = agent.generation + 1
        /\ agent'.status = agent.status /\ agent'.uid = agent.uid
    BY <1>10, <2>1 DEF AgentEdited, Agent
  <2>3. ASSUME uids = 1  PROVE Ordered'
    <3>1. Ordered
      BY <2>3 DEF SInv
    <3>2. /\ UNCHANGED <<cachedAgent, held>>
          /\ agent.generation \in Nat /\ agent.status.observedGeneration \in Nat
      BY <1>4, <1>10, <2>1
    <3> QED
      BY <1>4, <2>1, <2>2, <3>1, <3>2 DEF Ordered, Whole, Exists
  <2> QED
    BY <1>1, <1>10, <2>1, <2>3 DEF SInv, AgentEdited
<1>11. CASE AgentDeleted /\ UNCHANGED <<cachedAgent, held>>
  <2>1. ~Exists(agent') /\ UNCHANGED <<cachedAgent, held, uids>>
    BY <1>2, <1>11 DEF AgentDeleted
  <2>2. uids = 1 => Ordered'
    BY <2>1 DEF SInv, Ordered, Whole, Exists
  <2> QED
    BY <1>1, <1>11, <2>1, <2>2 DEF SInv, AgentDeleted
<1> QED
  BY <1>5, <1>6, <1>7, <1>8, <1>9, <1>10, <1>11, CopiesStep

\* The status of the first Agent under its name is never torn: writeStatus,
\* though its patch is computed against a status that may be stale and names
\* only what differs, leaves the conditions of one generation beside the
\* observedGeneration of the same.
THEOREM StatusNeverTorn == ReconcilerSpec => []StatusWhole
<1>1. Init => TypeOK /\ SInv
  BY InitType DEF Init, SInv, DecidedWhole
<1>2. TypeOK /\ SInv /\ [Next]_vars => (TypeOK /\ SInv)'
  BY TypeKept, SInvKept
<1>3. TypeOK /\ SInv => StatusWhole
  BY DEF SInv, Ordered, StatusWhole, Whole
<1> QED
  BY <1>1, <1>2, <1>3, PTL DEF ReconcilerSpec
=============================================================================
