---------------------------- MODULE MCReconciler ----------------------------
(***************************************************************************)
(* Reconciler for TLC.  A restart takes the place of one act.  Images, sizes *)
(* and names are interchangeable, so the first Agent asks for one of each; the *)
(* Secret it names is there, and the others are not.                        *)
(***************************************************************************)
EXTENDS Reconciler

FirstSpec == CHOOSE s \in Spec : TRUE

Instance ==
  /\ acts' + restarts' <= MaxActs
  /\ (uids = 0 /\ uids' = 1 => agent'.spec = FirstSpec)

MCInit == Init /\ secrets = {FirstSpec.secretName}

MCSpec == MCInit /\ [][Next /\ Instance]_vars /\ Fairness
=============================================================================
