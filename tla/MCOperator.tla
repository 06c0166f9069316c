---------------------------- MODULE MCOperator ----------------------------
(***************************************************************************)
(* Operator for TLC.                                                        *)
(***************************************************************************)
EXTENDS Operator

EpochsUpTo(e) == \A a \in Agents : epoch[a] <= e

\* What TLC can search: one call or one write is under way at a time, and a
\* behaviour has an act of a user, or it has late calls and a restart, or an agent
\* assigned away and back.  A late write goes with either, while the agent has
\* been assigned once (with a user's act) or twice.  Pods become ready where
\* neither a user acted nor a write is late.
UsersOrFaults ==
  /\ Late + Cardinality(lateWrites) <= 1
  /\ userActs > 0 => Late = 0 /\ restarts = 0
  /\ userActs > 0 \/ restarts > 0 => EpochsUpTo(2)
  /\ lateWrites # {} => EpochsUpTo(IF userActs > 0 THEN 1 ELSE 2)
  /\ userActs > 0 \/ lateWrites # {} => \A a \in Agents : ~workloads[a].ready
=============================================================================
