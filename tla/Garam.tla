------------------------------- MODULE Garam -------------------------------
(***************************************************************************)
(* The part of garam this operator calls for its agents, as the client in   *)
(* src/internal/garam uses it.  garam is not in this repository: what it    *)
(* answers is read off the client's own documentation of each route.        *)
(*                                                                          *)
(* An assignment binds an agent to one operator and carries an epoch that   *)
(* rises with every assignment.  epoch[a] is the one that stands (0: the    *)
(* definition is unclaimed) and heldAt[a] the epochs at which the agent was *)
(* this operator's.  A call its caller gave up on may still arrive: it      *)
(* waits in lateClaims or lateReports until it is delivered or lost.        *)
(***************************************************************************)
EXTENDS GaramTypes

CONSTANTS MaxEpoch,   \* bound: reassignments stop at this epoch
          MaxLate     \* bound: calls given up on and still under way

ASSUME GaramAssumption == MaxEpoch \in Nat /\ MaxLate \in Nat

VARIABLES epoch, heldAt, latch, lateClaims, lateReports

garamVars == <<epoch, heldAt, latch, lateClaims, lateReports>>

GaramTypeOK ==
  /\ epoch \in [Agents -> Nat]
  /\ heldAt \in [Agents -> SUBSET Nat]
  /\ latch \in [Agents -> ProvisioningState \cup {"pending"}]
  /\ lateClaims \subseteq Agents
  /\ lateReports \subseteq Report

GaramInit ==
  /\ epoch = [a \in Agents |-> 0]
  /\ heldAt = [a \in Agents |-> {}]
  /\ latch = [a \in Agents |-> "pending"]
  /\ lateClaims = {}
  /\ lateReports = {}

Late == Cardinality(lateClaims) + Cardinality(lateReports)

\* Whether this operator holds the agent at the epoch that stands.
Holds(a) == epoch[a] \in heldAt[a]

Claimed(a) == epoch[a] # 0

\* A definition is claimed once, and by the operator it names: this one.
AdmitClaim(a) ==
  /\ ~Claimed(a)
  /\ epoch' = [epoch EXCEPT ![a] = 1]
  /\ heldAt' = [heldAt EXCEPT ![a] = {1}]

\* A report is taken from the operator holding the agent, at the epoch that
\* stands, and replaces the one before it.
Admits(r) == Holds(r.agent) /\ r.epoch = epoch[r.agent]

RecordReport(r) ==
  latch' = IF Admits(r) THEN [latch EXCEPT ![r.agent] = r.state] ELSE latch

\* The agent is assigned again: to this operator or to another.
Reassign(a, mine) ==
  /\ Claimed(a) /\ epoch[a] < MaxEpoch
  /\ epoch' = [epoch EXCEPT ![a] = @ + 1]
  /\ heldAt' = IF mine THEN [heldAt EXCEPT ![a] = @ \cup {epoch[a] + 1}]
                       ELSE heldAt
  /\ UNCHANGED <<latch, lateClaims, lateReports>>

\* A claim arrives after its caller gave up on it.
DeliverLateClaim(a) ==
  /\ a \in lateClaims
  /\ AdmitClaim(a)
  /\ lateClaims' = lateClaims \ {a}
  /\ UNCHANGED <<latch, lateReports>>

DeliverLateReport(r) ==
  /\ r \in lateReports
  /\ RecordReport(r)
  /\ lateReports' = lateReports \ {r}
  /\ UNCHANGED <<epoch, heldAt, lateClaims>>

\* Whatever is still under way is lost, or refused with nobody listening.
LoseLateCalls ==
  /\ Late > 0
  /\ lateClaims' = {} /\ lateReports' = {}
  /\ UNCHANGED <<epoch, heldAt, latch>>

GaramNext ==
  \/ \E a \in Agents, mine \in BOOLEAN : Reassign(a, mine)
  \/ \E a \in Agents : DeliverLateClaim(a)
  \/ \E r \in lateReports : DeliverLateReport(r)
  \/ LoseLateCalls
=============================================================================
