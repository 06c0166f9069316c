------------------------------ MODULE MCPoller ------------------------------
(***************************************************************************)
(* Poller for TLC.                                                          *)
(***************************************************************************)
EXTENDS Poller

\* A behaviour has a restart, an act of a user, or two acts while the agent is
\* assigned once, and one call or one write under way that nobody waits for:
\* after a restart, one of the former leader's.  A call to garam meets no act of
\* a user, for neither touches what the other does; a write under way meets one,
\* and no second assignment.  None of these is a step fairness is assumed of.
Disturbances ==
  LET once == \A a \in Agents : epoch'[a] <= 1
  IN /\ userActs' + restarts' > 1 => restarts' = 0 /\ once /\ lateWrites' = {}
     /\ Late' + Cardinality(lateWrites') <= 1
     /\ Late' > 0 => userActs' = 0
     /\ lateWrites' # {} => once

\* The first image configured is one of them: nothing tells images apart, and a
\* restart configures either.
DisturbedSpec ==
  /\ PollerSystemInit
  /\ image = CHOOSE i \in Images : TRUE
  /\ [][PollerSystemNext /\ Disturbances]_PollerSystemVars
  /\ PollerFairness
=============================================================================
