----------------------------- MODULE Assignment -----------------------------
(***************************************************************************)
(* What the operator promises of the agents garam assigns, with nothing of  *)
(* how: no passes, no caches, no calls under way.  An assignment moves on   *)
(* at garam; the epoch recorded for an agent, the credentials placed and    *)
(* the state garam holds change only as the assignments allow.  Operator    *)
(* implements it.                                                           *)
(***************************************************************************)
EXTENDS Naturals

CONSTANTS Agents, Names, States

VARIABLES epoch,     \* the epoch each agent is assigned at, 0 before the first
          heldAt,    \* the epochs at which it was this operator's
          recorded,  \* the epoch this operator has recorded for it, 0: none
          placed,    \* what stands at each name: 0 nothing, 1 a user's Secret,
                     \* 2 + e a credential issued at epoch e
          latch      \* the state garam holds of it

vars == <<epoch, heldAt, recorded, placed, latch>>

Init ==
  /\ epoch = [a \in Agents |-> 0]
  /\ heldAt = [a \in Agents |-> {}]
  /\ recorded = [a \in Agents |-> 0]
  /\ placed = [n \in Names |-> 0]
  /\ latch = [a \in Agents |-> "pending"]

Held(a) == epoch[a] \in heldAt[a]

\* An agent is assigned, for the first time to the operator that claims it.
Assign(a) ==
  /\ epoch' = [epoch EXCEPT ![a] = @ + 1]
  /\ \/ heldAt' = [heldAt EXCEPT ![a] = @ \cup {epoch[a] + 1}]
     \/ epoch[a] # 0 /\ UNCHANGED heldAt
  /\ UNCHANGED <<recorded, placed, latch>>

\* An epoch is recorded that the agent has, or had: never one garam has not
\* reached, and the one that stands only while it is this operator's.
Record(a, e) ==
  /\ e \in 1..epoch[a]
  /\ e = epoch[a] => Held(a)
  /\ recorded' = [recorded EXCEPT ![a] = e]
  /\ UNCHANGED <<epoch, heldAt, placed, latch>>

\* The record goes with the Agent that carried it.
Forget(a) ==
  /\ recorded' = [recorded EXCEPT ![a] = 0]
  /\ UNCHANGED <<epoch, heldAt, placed, latch>>

\* A credential is placed where nothing stands, and only one garam issued to
\* this operator while it held the agent.
Place(n) ==
  /\ placed[n] = 0
  /\ \E a \in Agents : \E e \in heldAt[a] : placed' = [placed EXCEPT ![n] = 2 + e]
  /\ UNCHANGED <<epoch, heldAt, recorded, latch>>

\* What users do: a Secret of their own where nothing stands, or one removed,
\* which the garbage collector does too.
Supply(n) ==
  /\ placed[n] = 0
  /\ placed' = [placed EXCEPT ![n] = 1]
  /\ UNCHANGED <<epoch, heldAt, recorded, latch>>

Remove(n) ==
  /\ placed' = [placed EXCEPT ![n] = 0]
  /\ UNCHANGED <<epoch, heldAt, recorded, latch>>

\* garam takes a state from the operator that holds the agent.
Latch(a, s) ==
  /\ Held(a)
  /\ latch' = [latch EXCEPT ![a] = s]
  /\ UNCHANGED <<epoch, heldAt, recorded, placed>>

Next ==
  \/ \E a \in Agents : Assign(a) \/ Forget(a) \/ \E e \in 1..epoch[a] : Record(a, e)
  \/ \E a \in Agents, s \in States : Latch(a, s)
  \/ \E n \in Names : Place(n) \/ Supply(n) \/ Remove(n)

Spec == Init /\ [][Next]_vars
=============================================================================
