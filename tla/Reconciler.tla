----------------------------- MODULE Reconciler -----------------------------
(***************************************************************************)
(* The AgentReconciler (src/internal/controller), call by call, for one     *)
(* Agent name: the work queue that wakes it, the three informer caches it   *)
(* reads, and its two writes, to the StatefulSet and to the Agent's status. *)
(*                                                                          *)
(* uid 0 is an Agent that does not exist and owner 0 such a StatefulSet.  A *)
(* StatefulSet that equals the one read in every field below stands for one *)
(* at the same version.                                                     *)
(***************************************************************************)
EXTENDS Naturals

CONSTANTS Images, Sizes, Classes, SecretNames,  \* what a spec may ask for
          Acts,         \* what happens to the objects in this instance
          MaxActs,      \* bound: how often it happens
          MaxRestarts   \* bound: how often the process is stopped

ASSUME ReconcilerAssumption == MaxActs \in Nat /\ MaxRestarts \in Nat

VARIABLES agent, secrets, workload,                   \* the API server's objects
          cachedAgent, cachedSecrets, cachedWorkload, \* the informers' copies
          unheard,   \* objects changed since their informer last heard of them
          notices,   \* changes the informers stored and no handler saw yet
          queued,    \* the work queue holds the Agent's name
          pc,        \* the call the pass makes next
          held,      \* the Agent as the pass read it
          found,     \* the StatefulSet as the pass read it
          decided,   \* the status the pass will write
          uids, acts, restarts

objects == <<agent, secrets, workload, unheard, uids>>
caches  == <<cachedAgent, cachedSecrets, cachedWorkload>>
pass    == <<pc, held, found, decided>>
vars    == <<objects, caches, notices, queued, pass, acts, restarts>>

Spec == [image: Images, size: Sizes, class: Classes, secretName: SecretNames]

\* The two conditions carry the generation they were computed from, and so
\* does the status beside them.  Synced is its reason.
Conditions ==
  [synced: {"absent", "WorkloadReconciled", "CredentialsSecretMissing", "StorageSizeImmutable"},
   available: {"absent", "True", "False", "Unknown"}, at: Nat]

Status == [conditions: Conditions, observedGeneration: Nat]

NoStatus == [conditions |-> [synced |-> "absent", available |-> "absent", at |-> 0],
             observedGeneration |-> 0]

NoAgent == [uid |-> 0]
Agent == [uid: Nat \ {0}, generation: Nat, spec: Spec, status: Status]

\* What applyAgent writes into the template on every pass, and what it writes
\* at creation only: the volume claim.
Template == [image: Images, secretName: SecretNames]

NoWorkload == [owner |-> 0]
Workload == [owner: Nat \ {0}, template: Template, size: Sizes, class: Classes,
             ready: BOOLEAN]

Exists(object) == object.uid # 0

Built(w) == w.owner # 0

TypeOK ==
  /\ agent \in Agent \cup {NoAgent} /\ cachedAgent \in Agent \cup {NoAgent}
  /\ workload \in Workload \cup {NoWorkload} /\ cachedWorkload \in Workload \cup {NoWorkload}
  /\ secrets \subseteq SecretNames /\ cachedSecrets \subseteq SecretNames
  /\ unheard \cup notices \subseteq {"agent", "workload"} \cup SecretNames
  /\ queued \in BOOLEAN
  /\ pc \in {"idle", "secret", "get", "create", "update", "status"}
  /\ held \in IF pc = "idle" THEN {NoAgent} ELSE Agent
  /\ found \in IF pc = "update" THEN Workload ELSE {NoWorkload}
  /\ decided \in Status
  /\ uids \in Nat /\ acts \in 0 .. MaxActs /\ restarts \in 0 .. MaxRestarts

\* A process that started where there are Secrets, and no Agent yet.
Init ==
  /\ agent = NoAgent /\ secrets \in SUBSET SecretNames /\ workload = NoWorkload
  /\ cachedAgent = NoAgent /\ cachedSecrets = secrets /\ cachedWorkload = NoWorkload
  /\ unheard = {} /\ notices = secrets /\ queued = FALSE
  /\ pc = "idle" /\ held = NoAgent /\ found = NoWorkload /\ decided = NoStatus
  /\ uids = 0 /\ acts = 0 /\ restarts = 0
-----------------------------------------------------------------------------
\* A write gives the object a version the informer has yet to hear of.
Written(n) == unheard' = unheard \cup {n}

\* Reconcile returns.  What it failed at puts the name back on the queue.
Return(failed) ==
  /\ pc' = "idle" /\ held' = NoAgent /\ found' = NoWorkload /\ decided' = NoStatus
  /\ queued' = (queued \/ failed)

Proceed(call) == pc' = call /\ UNCHANGED <<held, queued>>

\* Mutant: an Agent that is gone is reconciled like any other.
DequeueMissing ==
  /\ pc = "idle" /\ queued
  /\ queued' = FALSE
  /\ pc' = "secret" /\ held' = cachedAgent
  /\ UNCHANGED <<objects, caches, notices, found, decided, acts, restarts>>

\* Reconcile takes the name off the queue and reads the Agent.  One that is
\* gone is left to the garbage collector.
Dequeue ==
  /\ pc = "idle" /\ queued
  /\ queued' = FALSE
  /\ IF Exists(cachedAgent) THEN pc' = "secret" /\ held' = cachedAgent
                            ELSE UNCHANGED <<pc, held>>
  /\ UNCHANGED <<objects, caches, notices, found, decided, acts, restarts>>

\* Mutant: the generation is recorded only where a workload was reconciled.
DecideBuiltOnly(synced, available) ==
  decided' = [conditions |-> [synced |-> synced, available |-> available,
                              at |-> held.generation],
              observedGeneration |-> IF available = "Unknown"
                                       THEN held.status.observedGeneration
                                       ELSE held.generation]

\* setSynced, setAvailable and the generation they were computed from.
Decide(synced, available) ==
  decided' = [conditions |-> [synced |-> synced, available |-> available,
                              at |-> held.generation],
              observedGeneration |-> held.generation]

\* The conditions a pass reads off the StatefulSet it holds.
DecideFrom(w) ==
  Decide(IF w.size = held.spec.size THEN "WorkloadReconciled" ELSE "StorageSizeImmutable",
         IF w.ready THEN "True" ELSE "False")

\* credentialsExist, and the early return where the Secret does not.
ReadSecret ==
  /\ pc = "secret"
  /\ IF held.spec.secretName \in cachedSecrets
       THEN Proceed("get") /\ UNCHANGED decided
       ELSE Proceed("status") /\ Decide("CredentialsSecretMissing", "Unknown")
  /\ UNCHANGED <<objects, caches, notices, found, acts, restarts>>

\* applyAgent on a StatefulSet that exists: the template follows the spec, the
\* claim stays, and the Agent is its controller.
applyAgent(w) ==
  [w EXCEPT !.template = [image |-> held.spec.image, secretName |-> held.spec.secretName],
            !.owner = held.uid]

\* Mutant: a StatefulSet another Agent owns is taken over.
GetWorkloadAnyOwner ==
  /\ pc = "get"
  /\ IF ~Built(cachedWorkload)
       THEN Proceed("create") /\ UNCHANGED <<found, decided>>
     ELSE IF applyAgent(cachedWorkload) = cachedWorkload
       THEN Proceed("status") /\ DecideFrom(cachedWorkload) /\ UNCHANGED found
     ELSE Proceed("update") /\ found' = cachedWorkload /\ UNCHANGED decided
  /\ UNCHANGED <<objects, caches, notices, acts, restarts>>

\* CreateOrUpdate reads the StatefulSet and applies the Agent to it: one that
\* another Agent controls fails the pass, one that is unchanged is not written.
GetWorkload ==
  /\ pc = "get"
  /\ IF ~Built(cachedWorkload)
       THEN Proceed("create") /\ UNCHANGED <<found, decided>>
     ELSE IF cachedWorkload.owner # held.uid
       THEN Return(TRUE)
     ELSE IF applyAgent(cachedWorkload) = cachedWorkload
       THEN Proceed("status") /\ DecideFrom(cachedWorkload) /\ UNCHANGED found
     ELSE Proceed("update") /\ found' = cachedWorkload /\ UNCHANGED decided
  /\ UNCHANGED <<objects, caches, notices, acts, restarts>>

\* A write that was made, and whose answer is what the status is read off, or
\* did not arrive.
WorkloadWritten ==
  \/ Proceed("status") /\ found' = NoWorkload /\ DecideFrom(workload')
  \/ Return(TRUE)

CreateWorkload ==
  /\ pc = "create"
  /\ IF Built(workload)
       THEN Return(TRUE) /\ UNCHANGED objects
       ELSE /\ workload' = [owner |-> held.uid,
                            template |-> [image |-> held.spec.image,
                                          secretName |-> held.spec.secretName],
                            size |-> held.spec.size, class |-> held.spec.class,
                            ready |-> FALSE]
            /\ Written("workload") /\ WorkloadWritten
            /\ UNCHANGED <<agent, secrets, uids>>
  /\ UNCHANGED <<caches, notices, acts, restarts>>

\* The update carries the version that was read, and is refused at any other.
UpdateWorkload ==
  /\ pc = "update"
  /\ IF workload # found
       THEN Return(TRUE) /\ UNCHANGED objects
       ELSE /\ workload' = applyAgent(found)
            /\ Written("workload") /\ WorkloadWritten
            /\ UNCHANGED <<agent, secrets, uids>>
  /\ UNCHANGED <<caches, notices, acts, restarts>>

\* A merge patch names the fields that differ from what was read.
MergeFrom(base, new, status) ==
  [f \in DOMAIN status |-> IF new[f] = base[f] THEN status[f] ELSE new[f]]

\* writeStatus writes nothing where the pass decided what it read.  The patch
\* carries no version and no uid: it lands on whatever Agent has the name.
writeStatus ==
  /\ pc = "status"
  /\ IF decided = held.status
       THEN Return(FALSE) /\ UNCHANGED <<agent, unheard>>
     ELSE IF ~Exists(agent)
       THEN Return(TRUE) /\ UNCHANGED <<agent, unheard>>
     ELSE /\ agent' = [agent EXCEPT !.status = MergeFrom(held.status, decided, @)]
          /\ IF agent' = agent THEN UNCHANGED unheard ELSE Written("agent")
          /\ \E lost \in BOOLEAN : Return(lost)
  /\ UNCHANGED <<secrets, workload, uids, caches, notices, acts, restarts>>

\* A write that fails without having had an effect.
CallFails ==
  /\ pc \in {"create", "update"} \/ (pc = "status" /\ decided # held.status)
  /\ Return(TRUE)
  /\ UNCHANGED <<objects, caches, notices, acts, restarts>>

Reconcile == Dequeue \/ ReadSecret \/ GetWorkload \/ CreateWorkload
             \/ UpdateWorkload \/ writeStatus \/ CallFails
-----------------------------------------------------------------------------
\* Mutant: only a change of an Agent's spec is watched.
SyncAgentGeneration ==
  /\ "agent" \in unheard /\ unheard' = unheard \ {"agent"}
  /\ cachedAgent' = agent
  /\ notices' = IF /\ Exists(agent) /\ cachedAgent.uid = agent.uid
                   /\ cachedAgent.generation = agent.generation
                  THEN notices ELSE notices \cup {"agent"}
  /\ UNCHANGED <<agent, secrets, workload, uids, cachedSecrets, cachedWorkload, queued, pass, acts, restarts>>

\* The informers of the three kinds hear of changes independently, in any
\* order and late; SetupWithManager watches all three, status changes included.
SyncAgent ==
  /\ "agent" \in unheard /\ unheard' = unheard \ {"agent"}
  /\ cachedAgent' = agent
  /\ notices' = notices \cup {"agent"}
  /\ UNCHANGED <<agent, secrets, workload, uids, cachedSecrets, cachedWorkload, queued, pass, acts, restarts>>

SyncWorkload ==
  /\ "workload" \in unheard /\ unheard' = unheard \ {"workload"}
  /\ cachedWorkload' = workload
  /\ notices' = notices \cup {"workload"}
  /\ UNCHANGED <<agent, secrets, workload, uids, cachedAgent, cachedSecrets, queued, pass, acts, restarts>>

SyncSecret(n) ==
  /\ n \in unheard /\ unheard' = unheard \ {n}
  /\ cachedSecrets' = IF n \in secrets THEN cachedSecrets \cup {n} ELSE cachedSecrets \ {n}
  /\ notices' = notices \cup {n}
  /\ UNCHANGED <<agent, secrets, workload, uids, cachedAgent, cachedWorkload, queued, pass, acts, restarts>>

\* A handler puts the Agent's name on the queue.
DeliverOwn(n) ==
  /\ n \in notices \cap {"agent", "workload"}
  /\ notices' = notices \ {n}
  /\ queued' = TRUE
  /\ UNCHANGED <<objects, caches, pass, acts, restarts>>

\* agentsNamingSecret: a Secret wakes the Agents whose spec, as cached when
\* the handler runs, names it.
agentsNamingSecret(n) ==
  /\ n \in notices \cap SecretNames
  /\ notices' = notices \ {n}
  /\ queued' = (queued \/ (Exists(cachedAgent) /\ cachedAgent.spec.secretName = n))
  /\ UNCHANGED <<objects, caches, pass, acts, restarts>>

\* The garbage collector takes the StatefulSet of an Agent that is gone.
Collect ==
  /\ Built(workload) /\ workload.owner # agent.uid
  /\ workload' = NoWorkload /\ Written("workload")
  /\ UNCHANGED <<agent, secrets, uids, caches, notices, queued, pass, acts, restarts>>

\* What users and the cluster do to the objects.
AgentCreated ==
  /\ ~Exists(agent)
  /\ \E s \in Spec : agent' = [uid |-> uids + 1, generation |-> 1, spec |-> s,
                               status |-> NoStatus]
  /\ uids' = uids + 1 /\ Written("agent")
  /\ UNCHANGED <<secrets, workload>>

AgentEdited ==
  /\ Exists(agent)
  /\ \E s \in Spec \ {agent.spec} :
       agent' = [agent EXCEPT !.spec = s, !.generation = @ + 1]
  /\ Written("agent")
  /\ UNCHANGED <<secrets, workload, uids>>

AgentDeleted ==
  /\ Exists(agent)
  /\ agent' = NoAgent /\ Written("agent")
  /\ UNCHANGED <<secrets, workload, uids>>

SecretChanged ==
  /\ \E n \in SecretNames :
       /\ secrets' = IF n \in secrets THEN secrets \ {n} ELSE secrets \cup {n}
       /\ Written(n)
  /\ UNCHANGED <<agent, workload, uids>>

WorkloadDeleted ==
  /\ Built(workload)
  /\ workload' = NoWorkload /\ Written("workload")
  /\ UNCHANGED <<agent, secrets, uids>>

\* A hand edits the template of the StatefulSet.
WorkloadDrifted ==
  /\ Built(workload)
  /\ \E t \in Template \ {workload.template} : workload' = [workload EXCEPT !.template = t]
  /\ Written("workload")
  /\ UNCHANGED <<agent, secrets, uids>>

PodChanged ==
  /\ Built(workload)
  /\ workload' = [workload EXCEPT !.ready = ~@]
  /\ Written("workload")
  /\ UNCHANGED <<agent, secrets, uids>>

Act ==
  /\ acts < MaxActs /\ acts' = acts + 1
  /\ \/ "createAgent" \in Acts /\ AgentCreated
     \/ "editAgent" \in Acts /\ AgentEdited
     \/ "deleteAgent" \in Acts /\ AgentDeleted
     \/ "changeSecret" \in Acts /\ SecretChanged
     \/ "deleteWorkload" \in Acts /\ WorkloadDeleted
     \/ "driftWorkload" \in Acts /\ WorkloadDrifted
     \/ "changePod" \in Acts /\ PodChanged
  /\ UNCHANGED <<caches, notices, queued, pass, restarts>>

\* The process stops wherever it is.  One that starts lists the objects and is
\* handed each as new.
Restart ==
  /\ restarts < MaxRestarts /\ restarts' = restarts + 1
  /\ cachedAgent' = agent /\ cachedSecrets' = secrets /\ cachedWorkload' = workload
  /\ unheard' = {} /\ notices' = {"agent", "workload"} \cup secrets
  /\ pc' = "idle" /\ held' = NoAgent /\ found' = NoWorkload /\ decided' = NoStatus
  /\ queued' = FALSE
  /\ UNCHANGED <<agent, secrets, workload, uids, acts>>

Next ==
  \/ Reconcile \/ SyncAgent \/ SyncWorkload \/ Collect \/ Act \/ Restart
  \/ \E n \in SecretNames : SyncSecret(n) \/ agentsNamingSecret(n)
  \/ \E n \in {"agent", "workload"} : DeliverOwn(n)

ReconcilerSpec == Init /\ [][Next]_vars

\* The worker runs while a name is queued, the informers and their handlers do
\* not stop, and a write that is tried again and again is made in the end.
Fairness ==
  /\ WF_vars(Reconcile)
  /\ SF_vars(CreateWorkload) /\ SF_vars(UpdateWorkload) /\ SF_vars(writeStatus)
  /\ WF_vars(SyncAgent) /\ WF_vars(SyncWorkload) /\ WF_vars(Collect)
  /\ \A n \in SecretNames : WF_vars(SyncSecret(n)) /\ WF_vars(agentsNamingSecret(n))
  /\ \A n \in {"agent", "workload"} : WF_vars(DeliverOwn(n))

FairReconcilerSpec == ReconcilerSpec /\ Fairness
-----------------------------------------------------------------------------
\* The status describes the cluster: the StatefulSet carries the spec, and the
\* conditions say what is so at the generation that stands.
Reflects ==
  LET spec == agent.spec
      conditions == agent.status.conditions
  IN IF ~Exists(agent) THEN ~Built(workload)
     ELSE /\ agent.status.observedGeneration = agent.generation
          /\ conditions.at = agent.generation
          /\ IF spec.secretName \notin secrets
               THEN conditions.synced = "CredentialsSecretMissing"
                    /\ conditions.available = "Unknown"
               ELSE /\ Built(workload) /\ workload.owner = agent.uid
                    /\ workload.template = [image |-> spec.image, secretName |-> spec.secretName]
                    /\ conditions.synced = IF workload.size = spec.size
                                             THEN "WorkloadReconciled" ELSE "StorageSizeImmutable"
                    /\ conditions.available = IF workload.ready THEN "True" ELSE "False"

\* Whatever users do, and however late and in whatever order the informers hear
\* of it, the workload and the status come to describe the Agent once things
\* are quiet: no wake-up is lost, though writeStatus compares with a status
\* read from a cache that lags.
StatusSettles == <>[]Reflects

\* applyAgent changes neither the controller nor the volume claim of a
\* StatefulSet that lives, whichever Agent the pass read and however old.
IdentityKept ==
  [][Built(workload) /\ Built(workload')
       => /\ workload'.owner = workload.owner
          /\ workload'.size = workload.size /\ workload'.class = workload.class]_vars

\* The status is one a pass decided as a whole: the merge patch of writeStatus,
\* computed against a stale status, does not leave the conditions of one
\* generation beside the observedGeneration of another.  It is said of the
\* first Agent under its name: a patch meant for it lands on a later one.
StatusWhole ==
  Exists(agent) /\ uids = 1
    => agent.status.conditions.at = agent.status.observedGeneration

\* AgentStatus: Synced is "False when the spec was edited in a way the running
\* workload cannot take" (agent_types.go:83-84).  A storage class is such an
\* edit.
SyncedMeansCarried ==
  <>[](Exists(agent) /\ Built(workload)
         /\ agent.status.conditions.synced = "WorkloadReconciled"
         => workload.class = agent.spec.class)
=============================================================================
