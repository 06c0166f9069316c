-------------------------------- MODULE Call --------------------------------
(***************************************************************************)
(* What a call to garam promises the loop that makes it, and all that Poller, *)
(* Reporter and Credential take of it: success was taken by garam, a refusal *)
(* was not, and a failure says nothing, for garam may take it even later.    *)
(***************************************************************************)
VARIABLES asked,   \* a call is under way
          taken,   \* garam did what the latest call asks
          owed,    \* garam may still do what a call that failed asked
          outcome  \* of the latest call: "none" while it is under way

vars == <<asked, taken, owed, outcome>>

Init == asked = FALSE /\ taken = FALSE /\ owed = FALSE /\ outcome = "none"

Ask ==
  /\ ~asked /\ asked' = TRUE
  /\ taken' = FALSE /\ outcome' = "none"
  /\ UNCHANGED owed

Take == asked /\ ~taken /\ taken' = TRUE /\ UNCHANGED <<asked, owed, outcome>>

TakeLate == owed /\ owed' = FALSE /\ UNCHANGED <<asked, taken, outcome>>

Return(o) == asked /\ asked' = FALSE /\ outcome' = o /\ UNCHANGED taken

Succeed == taken /\ Return("ok") /\ UNCHANGED owed

Refuse == ~taken /\ Return("refused") /\ UNCHANGED owed

Fail == Return("failed") /\ (owed' = owed \/ (~taken /\ owed' = TRUE))

Next == Ask \/ Take \/ TakeLate \/ Succeed \/ Refuse \/ Fail

Spec == Init /\ [][Next]_vars
=============================================================================
