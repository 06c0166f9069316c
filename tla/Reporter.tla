------------------------------ MODULE Reporter ------------------------------
(***************************************************************************)
(* The Reporter (src/internal/garam/reporter.go) and the observations it    *)
(* sends (src/internal/garam/constructor/observation.go).  A pass lists the *)
(* Agents once, from the cache, and reports each that carries a GRN and an  *)
(* epoch: observations is what is left of the pass.                         *)
(***************************************************************************)
EXTENDS Garam, Cluster

VARIABLE observations

ReporterTypeOK == observations \subseteq Observation

ReporterInit == observations = {}

readiness(available) ==
  CASE available = "True"  -> "replicaReady"
    [] available = "False" -> "noReplica"
    [] OTHER               -> "unobserved"

\* Observations: an Agent with no GRN or no epoch is left out.
Observe(object) ==
  [agent |-> object.grn, epoch |-> object.epoch,
   readiness |-> readiness(object.available)]

\* Mutant: an Agent a user wrote is observed like any other.
ObservableAny(object) == Exists(object)

Observable(object) == Exists(object) /\ object.grn # "none" /\ object.epoch # 0

ListObservations ==
  /\ observations = {}
  /\ observations' = {Observe(cachedAgents[a]) :
                        a \in {b \in Agents : Observable(cachedAgents[b])}}
  /\ UNCHANGED <<garamVars, clusterVars>>

\* Mutant: only a ready replica is reported.
reportableReady(o) == o.readiness = "replicaReady"

reportable(o) == o.readiness # "unobserved"

provisioningState(o) == IF o.readiness = "replicaReady" THEN "ready" ELSE "provisioned"

ReportOf(o) ==
  [agent |-> o.agent, epoch |-> o.epoch, state |-> provisioningState(o)]

SkipUnobserved(o) ==
  /\ ~reportable(o)
  /\ observations' = observations \ {o}
  /\ UNCHANGED <<garamVars, clusterVars>>

\* garam answers: it took the report, or found it stale or the agent not held,
\* and either way the loop goes on.
ReportAnswered(o) ==
  /\ reportable(o)
  /\ RecordReport(ReportOf(o))
  /\ observations' = observations \ {o}
  /\ UNCHANGED <<epoch, heldAt, lateClaims, lateReports, clusterVars>>

\* No answer came, and the report may still arrive.
ReportGivenUp(o) ==
  /\ reportable(o)
  /\ Late < MaxLate
  /\ lateReports' = lateReports \cup {ReportOf(o)}
  /\ observations' = observations \ {o}
  /\ UNCHANGED <<epoch, heldAt, latch, lateClaims, clusterVars>>

ReporterNext ==
  \/ ListObservations
  \/ \E o \in observations : SkipUnobserved(o) \/ ReportAnswered(o) \/ ReportGivenUp(o)
=============================================================================
