----------------------------- MODULE MCWorkload -----------------------------
(***************************************************************************)
(* Workload for TLC.  The marks of hands are bounded: the containers whose  *)
(* undecided fields a hand set, which no pass undoes, the volumes a hand    *)
(* put in, and a second replica.                                            *)
(***************************************************************************)
EXTENDS Workload, FiniteSets

CONSTANT MaxMarks  \* bound: the marks of hands at a time

Marks(s) ==
  LET marked(f) == Cardinality({n \in DOMAIN f : f[n].other = "hand"})
      swapped == {n \in DOMAIN s.volumes \ {"config"} : s.volumes[n].source = "disk"}
  IN marked(s.containers) + marked(s.initContainers) + Cardinality(swapped)
     + (IF s.replicas = 2 THEN 1 ELSE 0)

BoundedSpec == Init /\ [][Next /\ Marks(stored') <= MaxMarks]_vars
=============================================================================
