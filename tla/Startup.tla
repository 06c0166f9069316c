------------------------------- MODULE Startup -------------------------------
(***************************************************************************)
(* The process (src/cmd/main.go): what it reads of its flags and files before *)
(* it starts, which loops it adds to the manager for them, when it exits and  *)
(* is started again, and the calls those loops then make.                     *)
(***************************************************************************)
EXTENDS Client

CONSTANTS MaxTrustChanges, \* bound: how often the trust file comes or goes
          MaxStops         \* bound: how often a running process is stopped

ASSUME StartupAssumption == MaxTrustChanges \in Nat /\ MaxStops \in Nat

VARIABLES flags,    \* which flags, and the namespace variable, were given a value
          trust,    \* the trust file holds a root
          process,  \* how far main has come
          added,    \* the loops the manager will run
          trustChanges, stops

fileVars == <<trust, trustChanges>>
vars == <<clientVars, flags, fileVars, process, added, stops>>

\* storageSize is given a value where what was given parses.
Flags == [{"address", "credentialSecret", "tokenFile", "copyImage", "agentImage",
           "namespace", "storageSize"} -> BOOLEAN]

Loops == {"reconciler", "poller", "reporter", "renewer", "enroller"}

TypeOK ==
  /\ ClientTypeOK
  /\ flags \in Flags /\ trust \in BOOLEAN
  /\ process \in {"boot", "tls", "flags", "enrollment", "start", "running", "down"}
  /\ added \subseteq Loops
  /\ trustChanges \in 0 .. MaxTrustChanges /\ stops \in 0 .. MaxStops

Init ==
  /\ ClientInit
  /\ flags \in Flags /\ trust \in BOOLEAN
  /\ process = "boot" /\ added = {}
  /\ trustChanges = 0 /\ stops = 0

Exit == process' = "down" /\ added' = {}

ProceedTo(step) == process' = step /\ UNCHANGED added

\* A deployment with a token to spend and a Secret to write what it buys.
Enrolling == flags["tokenFile"] /\ flags["credentialSecret"]

\* The reconciler is set up where there is an image to copy the credential with.
Boot ==
  /\ process = "boot"
  /\ IF flags["copyImage"]
       THEN /\ process' = IF flags["address"] THEN "tls" ELSE "start"
            /\ added' = {"reconciler"}
       ELSE Exit
  /\ UNCHANGED <<clientVars, flags, fileVars, stops>>

\* Mutant: the pair is read at startup by an operator that has yet to enroll.
ConfigureTLSAlwaysReading ==
  /\ process = "tls"
  /\ IF trust /\ pair # 0 THEN ProceedTo("flags") ELSE Exit
  /\ UNCHANGED <<clientVars, flags, fileVars, stops>>

\* Mutant: nothing reads the pair at startup.
ConfigureTLSNeverReading ==
  /\ process = "tls"
  /\ IF trust THEN ProceedTo("flags") ELSE Exit
  /\ UNCHANGED <<clientVars, flags, fileVars, stops>>

\* MutualTLS reads the root and the pair, EnrollingMutualTLS the root alone.
ConfigureTLS ==
  /\ process = "tls"
  /\ IF trust /\ (Enrolling \/ pair # 0) THEN ProceedTo("flags") ELSE Exit
  /\ UNCHANGED <<clientVars, flags, fileVars, stops>>

\* Mutant: the renewer is added whether or not there is a Secret to write.
AddLoopsRenewing ==
  /\ process = "flags"
  /\ IF flags["namespace"] /\ flags["agentImage"] /\ flags["storageSize"]
       THEN /\ added' = added \cup {"poller", "reporter", "renewer"}
            /\ process' = IF Enrolling THEN "enrollment" ELSE "start"
       ELSE Exit
  /\ UNCHANGED <<clientVars, flags, fileVars, stops>>

\* The two loops for agents, and the Renewer where there is a Secret to write.
AddLoops ==
  /\ process = "flags"
  /\ IF flags["namespace"] /\ flags["agentImage"] /\ flags["storageSize"]
       THEN /\ added' = added \cup {"poller", "reporter"}
                        \cup (IF flags["credentialSecret"] THEN {"renewer"} ELSE {})
            /\ process' = IF Enrolling THEN "enrollment" ELSE "start"
       ELSE Exit
  /\ UNCHANGED <<clientVars, flags, fileVars, stops>>

\* EnrollmentTLS reads the root once more, and the Enroller is added.
AddEnroller ==
  /\ process = "enrollment"
  /\ IF trust THEN process' = "start" /\ added' = added \cup {"enroller"} ELSE Exit
  /\ UNCHANGED <<clientVars, flags, fileVars, stops>>

\* The manager runs what was added once it holds the lease.
Start ==
  /\ process = "start"
  /\ ProceedTo("running")
  /\ UNCHANGED <<clientVars, flags, fileVars, stops>>

Main == Boot \/ ConfigureTLS \/ AddLoops \/ AddEnroller \/ Start

\* The process is stopped, or loses the lease and exits, in the middle of a call.
Stop ==
  /\ process = "running" /\ stops < MaxStops /\ stops' = stops + 1
  /\ Exit
  /\ IF Asked THEN Fail /\ MayBeOwed ELSE UNCHANGED clientVars
  /\ UNCHANGED <<flags, fileVars>>

\* The kubelet starts a container that exited again.
Restarted ==
  /\ process = "down" /\ process' = "boot"
  /\ UNCHANGED <<clientVars, flags, fileVars, added, stops>>

\* The deployment supplies the trust file, or takes it away.
TrustChanged ==
  /\ trustChanges < MaxTrustChanges /\ trustChanges' = trustChanges + 1
  /\ trust' = ~trust
  /\ UNCHANGED <<clientVars, flags, process, added, stops>>

RoutesOf ==
  [reconciler |-> {}, poller |-> {"list", "claim", "certificate"}, reporter |-> {"report"},
   renewer |-> {"renew"}, enroller |-> {"enroll"}]

\* A loop that runs makes a call.
Called ==
  /\ process = "running"
  /\ \E l \in added : \E r \in RoutesOf[l] : Begin(r)
  /\ UNCHANGED <<flags, fileVars, process, added, stops>>

Calling == ClientStep /\ UNCHANGED <<flags, fileVars, process, added, stops>>

Outside == GaramStep /\ UNCHANGED <<flags, fileVars, process, added, stops>>

Next == Main \/ Stop \/ Restarted \/ TrustChanged \/ Called \/ Calling \/ Outside

\* main does not wait for anything but the lease, the kubelet restarts what
\* exits, and a call's timeout fires.  Nothing is assumed of garam.
Fairness == WF_vars(Main) /\ WF_vars(Restarted) /\ WF_vars(Calling)

Spec == Init /\ [][Next]_vars /\ Fairness
-----------------------------------------------------------------------------
\* What garam answers once and never again is asked for only by a process that
\* has somewhere to put it: the Secret for its own pair, and for an agent's a
\* namespace and what an Agent is made of.
NowhereToPutIsNotAsked ==
  /\ call.route \in {"renew", "enroll"} => flags["credentialSecret"]
  /\ call.route = "certificate"
       => flags["namespace"] /\ flags["agentImage"] /\ flags["storageSize"]

\* A process that calls garam holds a pair or is about to obtain one: one whose
\* pair cannot be read fails at startup rather than at every poll after it,
\* unless it enrolls.
CallersCanAuthenticate == process = "running" /\ "poller" \in added
                            => pair # 0 \/ "enroller" \in added

\* An operator deployed to enroll comes to run its Enroller once the root is
\* there, though it has no pair: startup does not wait for what enrollment is
\* to bring.
EnrollerComesUp ==
  ((\A f \in DOMAIN flags : flags[f]) /\ <>[]trust)
    => <>[](process = "running" /\ "enroller" \in added)
=============================================================================
