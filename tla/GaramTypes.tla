----------------------------- MODULE GaramTypes -----------------------------
(***************************************************************************)
(* The vocabulary of src/internal/garam/garam.go that the other modules     *)
(* share.  A GRN is carried and never read inside, so Agents is any set.    *)
(***************************************************************************)
EXTENDS Naturals, FiniteSets

CONSTANT Agents   \* the agents garam holds a definition of, by GRN

\* The two of garam's four states this operator sends.
ProvisioningState == {"provisioned", "ready"}

Readiness == {"unobserved", "noReplica", "replicaReady"}

\* What a construction recorded on an Agent and a reconcile observed of it.
Observation == [agent: Agents, epoch: Nat, readiness: Readiness]

\* A call of ReportProvisioningState.
Report == [agent: Agents, epoch: Nat, state: ProvisioningState]
=============================================================================
