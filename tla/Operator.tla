------------------------------ MODULE Operator ------------------------------
(***************************************************************************)
(* One operator process: the Poller, the Reporter and the reconciler beside *)
(* each other over one cluster and one garam, stopped and started at any    *)
(* point.  Leader election keeps it to one process at a time                *)
(* (src/cmd/main.go, config/manager/manager.yaml).                          *)
(*                                                                          *)
(* Reconcile is one pass of the AgentReconciler seen from here: what it     *)
(* reads, the StatefulSet it ensures and the one condition the Reporter     *)
(* reads.                                                                   *)
(***************************************************************************)
EXTENDS Poller, Reporter

vars == <<garamVars, clusterVars, pollerVars, observations>>

TypeOK ==
  GaramTypeOK /\ ClusterTypeOK /\ PollerTypeOK /\ ReporterTypeOK

Init ==
  GaramInit /\ ClusterInit /\ PollerInit /\ ReporterInit

\* The condition a reconcile computes from the Secret and the StatefulSet.
Available(a, seen) ==
  IF ~cachedSecrets[seen.secretName] THEN "Unknown"
  ELSE IF workloads[a].ready THEN "True" ELSE "False"

\* Mutant: the status is written back whole, as the cache had it.
ReconcileWholeStatus(a) ==
  LET seen  == cachedAgents[a]
      built == cachedSecrets[seen.secretName]
  IN /\ Exists(seen)
     /\ workloads' = IF built THEN [workloads EXCEPT ![a].owner = seen.uid] ELSE workloads
     /\ agents' = IF Exists(agents[a]) /\ Available(a, seen) # seen.available
                    THEN [agents EXCEPT ![a].available = Available(a, seen),
                                        ![a].grn = seen.grn, ![a].epoch = seen.epoch]
                    ELSE agents
     /\ UNCHANGED <<secrets, cachedAgents, cachedSecrets, uids, userActs, lateWrites,
                    garamVars, pollerVars, observations>>

\* A pass over one Agent as the cache has it.  A StatefulSet another Agent owns
\* fails it; a status equal to the one read is not written; the patch names
\* the condition and neither the GRN nor the epoch.
Reconcile(a) ==
  LET seen  == cachedAgents[a]
      built == cachedSecrets[seen.secretName]
  IN /\ Exists(seen)
     /\ built => workloads[a].owner \in {0, seen.uid}
     /\ workloads' = IF built THEN [workloads EXCEPT ![a].owner = seen.uid] ELSE workloads
     /\ agents' = IF Exists(agents[a]) /\ Available(a, seen) # seen.available
                    THEN [agents EXCEPT ![a].available = Available(a, seen)]
                    ELSE agents
     /\ UNCHANGED <<secrets, cachedAgents, cachedSecrets, uids, userActs, lateWrites,
                    garamVars, pollerVars, observations>>

PollerStep   == PollerNext /\ UNCHANGED observations
ReporterStep == ReporterNext /\ UNCHANGED pollerVars
GaramStep    == GaramNext /\ UNCHANGED <<clusterVars, pollerVars, observations>>
ClusterStep  == ClusterNext /\ UNCHANGED <<garamVars, pollerVars, observations>>
Restart      == PollerRestart /\ observations' = {}

Next ==
  \/ PollerStep
  \/ ReporterStep
  \/ \E a \in Agents : Reconcile(a)
  \/ GaramStep
  \/ ClusterStep
  \/ Restart

Spec == Init /\ [][Next]_vars

\* Passes follow each other in all three loops, a report that is sent again and
\* again is answered in the end, and the informers do not stop.  The cluster
\* wakes the reconciler at every change of what it reads.
Fairness ==
  /\ \A a \in Agents :
       /\ WF_vars(SyncAgent(a) /\ UNCHANGED <<garamVars, pollerVars, observations>>)
       /\ WF_vars(Reconcile(a))
       /\ SF_vars(UNCHANGED pollerVars
                    /\ \E o \in observations : o.agent = a /\ ReportAnswered(o))
  /\ \A n \in SecretNames :
       WF_vars(SyncSecret(n) /\ UNCHANGED <<garamVars, pollerVars, observations>>)
  /\ WF_vars(ReporterStep)

FairSpec == Spec /\ Fairness
-----------------------------------------------------------------------------
\* The fence: an epoch recorded on an Agent that is the one garam holds the
\* agent at is an epoch this operator holds it at.  construct writes the epoch
\* it listed only once the certificate route answered, so an epoch that reads
\* current was proved: a report garam would find current is never one from an
\* operator that was replaced.  It covers every copy of the epoch: on the
\* Agent, in the cache, in a pass of the Reporter and in a report under way.
Fenced(a, e) == e = epoch[a] /\ e # 0 => Holds(a)

EpochFences ==
  /\ \A a \in Agents : Fenced(a, agents[a].epoch) /\ Fenced(a, cachedAgents[a].epoch)
  /\ \A r \in observations \cup lateReports : Fenced(r.agent, r.epoch)

\* No writer of an Agent's status takes the recorded epoch back while the Agent
\* lives: neither a pass of the Poller that read the definitions long ago, nor
\* the reconciler writing the status it read from a stale cache.  Only a patch
\* its writer gave up on, landing late, can; EpochFences still holds then.
EpochOnlyRises ==
  [][\A a \in Agents : agents'[a].uid = agents[a].uid /\ lateWrites \subseteq lateWrites'
                         => agents'[a].epoch >= agents[a].epoch]_vars

\* An agent's first credential is placed and none is replaced: a Secret that
\* stands keeps what it holds until it is deleted, though a pass reads whether
\* it exists from a cache, long before it writes.
CredentialNeverReplaced ==
  [][\A n \in SecretNames : secrets[n].exists /\ secrets'[n].exists
                              => secrets'[n] = secrets[n]]_vars

\* What garam holds settles on what the pod is: where an agent this operator
\* holds at the epoch it recorded keeps its Secret and its workload stays
\* ready, or stays not ready, garam comes to hold that state and keeps it,
\* whatever was reported before, lost, or arrived late.
Settled(a, ready) ==
  LET object == agents[a] IN
    /\ Exists(object) /\ object.grn = a
    /\ Holds(a) /\ object.epoch = epoch[a]
    /\ secrets[object.secretName].exists
    /\ workloads[a] = [owner |-> object.uid, ready |-> ready]

LatchFollowsPod ==
  \A a \in Agents, ready \in BOOLEAN :
    <>[]Settled(a, ready) => <>[](latch[a] = IF ready THEN "ready" ELSE "provisioned")

\* The operator does what Assignment promises: at every step of every loop, of
\* a late call or write, of a user and of a restart, the epoch recorded, the
\* Secrets and the state garam holds change as the assignments allow.  A Secret
\* without an owner is a user's.
Promise ==
  INSTANCE Assignment WITH
    Names    <- SecretNames,
    States   <- ProvisioningState,
    recorded <- [a \in Agents |-> agents[a].epoch],
    placed   <- [n \in SecretNames |->
                   IF ~secrets[n].exists THEN 0
                   ELSE IF secrets[n].owner = 0 THEN 1 ELSE 2 + secrets[n].cert]

ImplementsAssignment == Promise!Spec
=============================================================================
