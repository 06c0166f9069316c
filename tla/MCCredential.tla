---------------------------- MODULE MCCredential ----------------------------
(***************************************************************************)
(* Credential for TLC.                                                      *)
(***************************************************************************)
EXTENDS Credential

CONSTANTS MaxWork,         \* bound: certificates issued and under way
          MaxTroubledWork  \* the same once something went wrong

\* A clock moves unseen until it is read: garam's for the certificate a renewal
\* presents or may come to present, this operator's while the Enroller looks at
\* a pair, and a token's while a call presents it.
ClocksAreRead ==
  /\ \A c \in 1 .. MaxCerts :
       phase'[c] # phase[c] =>
         c \in {files.cert, renewing} \cup {l.cert : l \in late}
  /\ passed' # passed =>
       enroller \in {"look", "key"} /\ passed' \ passed \subseteq {files.cert, enrolling.seen}
  /\ \A t \in Tokens :
       tokens[t] = "live" /\ tokens'[t] # "live" =>
         t \in {enrolling.token} \cup {l.token : l \in late}

\* The certificates issued, and those a live token or an open window stands for.
Work == issued + Cardinality({t \in Tokens : tokens[t] = "live"})
        + (IF issued > 0 /\ phase[issued] = "due" THEN 1 ELSE 0)

Troubled == restarts > 0 \/ lost \/ late # {}

\* What a person, the clocks and failures add is bounded; no step that fairness
\* is assumed of is held back.
Bounded ==
  \/ Work' <= Work /\ (Troubled' => Troubled)
  \/ Work' <= IF Troubled' THEN MaxTroubledWork ELSE MaxWork

BoundedSpec == Init /\ [][Next /\ ClocksAreRead /\ Bounded]_vars /\ Fairness
=============================================================================
