----------------------------- MODULE MCStartup -----------------------------
(***************************************************************************)
(* Startup for TLC.                                                         *)
(***************************************************************************)
EXTENDS Startup

\* A definition of each kind: unclaimed, claimed, claimed at no epoch, and one
\* that names no agent.
MCPayloads ==
  {[agent |-> "a", claim |-> {}, keys |-> {"pin", "prefix", "other"}],
   [agent |-> "a", claim |-> {1}, keys |-> {"pin"}],
   [agent |-> "a", claim |-> {0}, keys |-> {}],
   [agent |-> "none", claim |-> {}, keys |-> {"other"}]}
=============================================================================
