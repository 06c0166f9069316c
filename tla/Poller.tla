------------------------------- MODULE Poller -------------------------------
(***************************************************************************)
(* The Poller (src/internal/garam/poller.go) and the constructor it builds  *)
(* agents through (src/internal/garam/constructor/agent.go): one pass reads *)
(* the definitions, claims the unclaimed ones, and for each it holds a      *)
(* claim on corrects the image, asks for a certificate where no credential  *)
(* is placed, creates the Agent, records on it the GRN and the epoch, and   *)
(* creates the Secret.                                                      *)
(*                                                                          *)
(* pc is the call the pass makes next; every call is a step of its own, so  *)
(* garam, the informers, users and the garbage collector act between any    *)
(* two.  A read is answered from the informer cache, a write by the API     *)
(* server.                                                                  *)
(***************************************************************************)
EXTENDS Garam, Cluster

CONSTANTS StorageSizes,  \* sizes --agent-storage-size is given: "positive", "zero"
          MaxRestarts    \* bound: how often the process is stopped

ASSUME PollerAssumption == MaxRestarts \in Nat

VARIABLES image,        \* the agent image this process is configured with
          storageSize,  \* and the storage size
          pc,           \* the call the pass makes next
          todo,         \* definitions of this pass not looked at yet
          listed,       \* the claim epoch each definition was listed with
          current,      \* the definition being looked at
          inHand,       \* claim.Epoch of that definition
          cert,         \* the epoch its certificate was issued at (0: none)
          constructed,  \* the Agent construction holds: uid and secret name
          restarts      \* how often the process was stopped

\* What a call within a pass leaves alone.
processVars == <<image, storageSize, restarts>>

passVars == <<todo, listed, current>>

pollerVars ==
  <<image, storageSize, pc, todo, listed, current, inHand, cert, constructed, restarts>>

NoRef == [uid |-> 0, secretName |-> "none"]

Ref(object) == [uid |-> object.uid, secretName |-> object.secretName]

PollerPCs == {"idle", "next", "claim", "correct", "patch", "has", "issue",
              "create", "get", "status", "place"}

PollerTypeOK ==
  /\ image \in Images
  /\ storageSize \in StorageSizes
  /\ pc \in PollerPCs
  /\ todo \subseteq Agents
  /\ listed \in [Agents -> Nat]
  /\ current \in Agents
  /\ inHand \in Nat
  /\ cert \in Nat
  /\ constructed \in [uid: Nat, secretName: SecretNames \cup {"none"}]
  /\ restarts \in Nat

\* Between passes: nothing of a pass outlives it.
Idle ==
  /\ pc' = "idle"
  /\ todo' = {}
  /\ listed' = [a \in Agents |-> 0]
  /\ inHand' = 0 /\ cert' = 0 /\ constructed' = NoRef

PollerInit ==
  /\ image \in Images
  /\ storageSize \in StorageSizes
  /\ pc = "idle"
  /\ todo = {}
  /\ listed = [a \in Agents |-> 0]
  /\ current \in Agents
  /\ inHand = 0 /\ cert = 0 /\ constructed = NoRef
  /\ restarts = 0

\* The pass goes on to the next definition: every return of claim, of
\* construct and of what they call, successful or not.
Leave ==
  /\ pc' = "next"
  /\ inHand' = 0 /\ cert' = 0 /\ constructed' = NoRef

Proceed(call) == pc' = call /\ UNCHANGED <<inHand, cert, constructed>>

\* A call of the constructor that fails without having had an effect, or that
\* the API server refuses.  What correct fails at is logged and construct runs
\* all the same; what construct fails at ends it, and a certificate in hand is
\* lost.
CallFails ==
  /\ \/ pc \in {"correct", "patch"} /\ Proceed("has")
     \/ pc \in {"has", "issue", "create", "get", "status", "place"} /\ Leave
  /\ UNCHANGED <<processVars, passVars, garamVars, clusterVars>>

\* poll, up to the loop.  A list that fails ends the pass where it began.
ListDefinitions ==
  /\ pc = "idle"
  /\ pc' = "next"
  /\ todo' = Agents
  /\ listed' = epoch
  /\ UNCHANGED <<processVars, current, inHand, cert, constructed, garamVars, clusterVars>>

\* Mutant: an agent that was claimed before is constructed and not corrected.
NextUncorrected ==
  /\ pc = "next"
  /\ \E a \in todo :
       /\ current' = a
       /\ todo' = todo \ {a}
       /\ inHand' = listed[a]
       /\ pc' = IF listed[a] = 0 THEN "claim" ELSE "has"
  /\ UNCHANGED <<processVars, listed, cert, constructed, garamVars, clusterVars>>

\* The loop of poll takes the next definition, in the order garam listed them.
NextDefinition ==
  /\ pc = "next"
  /\ \E a \in todo :
       /\ current' = a
       /\ todo' = todo \ {a}
       /\ inHand' = listed[a]
       /\ pc' = IF listed[a] = 0 THEN "claim" ELSE "correct"
  /\ UNCHANGED <<processVars, listed, cert, constructed, garamVars, clusterVars>>

EndPass ==
  /\ pc = "next" /\ todo = {}
  /\ Idle
  /\ UNCHANGED <<processVars, current, garamVars, clusterVars>>

\* The assignment garam answers with carries the first epoch, or none: the
\* client takes an answer without one, and the epoch in hand is then 0.
ClaimAnswered ==
  /\ pc = "claim"
  /\ AdmitClaim(current)
  /\ inHand' \in {0, 1}
  /\ pc' = "correct"
  /\ UNCHANGED <<processVars, passVars, cert, constructed, latch,
                 lateClaims, lateReports, clusterVars>>

\* ErrClaimConflict: somebody's claim, this operator's own lost one included,
\* came first.
ClaimRefused ==
  /\ pc = "claim"
  /\ Claimed(current)
  /\ Leave
  /\ UNCHANGED <<processVars, passVars, garamVars, clusterVars>>

\* No answer came, and the claim may still arrive.
ClaimGivenUp ==
  /\ pc = "claim"
  /\ Late < MaxLate
  /\ lateClaims' = lateClaims \cup {current}
  /\ Leave
  /\ UNCHANGED <<processVars, passVars, epoch, heldAt, latch,
                 lateReports, clusterVars>>

\* CorrectImage, up to its patch.
CorrectImage ==
  /\ pc = "correct"
  /\ LET seen == cachedAgents[current] IN
       Proceed(IF seen.grn = current /\ seen.image # image THEN "patch" ELSE "has")
  /\ UNCHANGED <<processVars, passVars, garamVars, clusterVars>>

\* The patch names the one field, and whatever Agent has the name by now.
PatchImage ==
  /\ pc = "patch"
  /\ agents' = IF Exists(agents[current]) THEN SetImage(current, image) ELSE agents
  /\ Proceed("has")
  /\ UNCHANGED <<processVars, passVars, garamVars, secrets, workloads,
                 cachedAgents, cachedSecrets, uids, userActs, lateWrites>>

\* Mutant: the Secret is not looked at.
HasNoCredential ==
  /\ pc = "has"
  /\ Proceed("issue")
  /\ UNCHANGED <<processVars, passVars, garamVars, clusterVars>>

\* Mutant: no certificate is asked for.
HasCredentialUnissued ==
  /\ pc = "has"
  /\ IF cachedSecrets[credentialsKey(current)] THEN Leave ELSE Proceed("create")
  /\ UNCHANGED <<processVars, passVars, garamVars, clusterVars>>

\* HasCredential reads whether the Secret of the agent's own name exists.
HasCredential ==
  /\ pc = "has"
  /\ IF cachedSecrets[credentialsKey(current)] THEN Leave ELSE Proceed("issue")
  /\ UNCHANGED <<processVars, passVars, garamVars, clusterVars>>

\* Mutant: the certificate route's refusal is not heeded.
IssueUnproved ==
  /\ pc = "issue"
  /\ pc' = "create" /\ cert' = epoch[current] /\ UNCHANGED <<inHand, constructed>>
  /\ UNCHANGED <<processVars, passVars, garamVars, clusterVars>>

\* garam answers the operator holding the agent at the epoch that stands, and
\* ErrAgentNotHeld to every other.
IssueAgentCertificate ==
  /\ pc = "issue"
  /\ IF Holds(current)
       THEN pc' = "create" /\ cert' = epoch[current] /\ UNCHANGED <<inHand, constructed>>
       ELSE Leave
  /\ UNCHANGED <<processVars, passVars, garamVars, clusterVars>>

\* The CRD's rule for a storage size.  A create that breaks it is refused before
\* the name is looked at: CallFails.
Admissible(size) == size # "zero"

\* ensureAgent creates the Agent with an empty status.  A reply that is lost
\* leaves the Agent behind and loses the certificate.
EnsureCreate ==
  /\ pc = "create" /\ Admissible(storageSize)
  /\ CreateAgent(current, "operator", image, credentialsKey(current))
  /\ \/ /\ pc' = "status"
        /\ constructed' = Ref(agents'[current])
        /\ UNCHANGED <<inHand, cert>>
     \/ Leave
  /\ UNCHANGED <<processVars, passVars, garamVars, secrets, workloads,
                 cachedAgents, cachedSecrets, userActs, lateWrites>>

\* Mutant: an Agent that exists is an error like any other.
EnsureAlreadyExistsFails ==
  /\ pc = "create" /\ Admissible(storageSize)
  /\ Exists(agents[current])
  /\ Leave
  /\ UNCHANGED <<processVars, passVars, garamVars, clusterVars>>

\* An Agent that exists already is read instead.
EnsureAlreadyExists ==
  /\ pc = "create" /\ Admissible(storageSize)
  /\ Exists(agents[current])
  /\ Proceed("get")
  /\ UNCHANGED <<processVars, passVars, garamVars, clusterVars>>

\* The Agent that stands at the name, as the cache has it.
EnsureGet ==
  /\ pc = "get"
  /\ LET seen == cachedAgents[current] IN
       IF ~Exists(seen)
         THEN Leave
         ELSE /\ constructed' = Ref(seen)
              /\ pc' = IF seen.grn = current /\ seen.epoch = inHand
                         THEN "place" ELSE "status"
              /\ UNCHANGED <<inHand, cert>>
  /\ UNCHANGED <<processVars, passVars, garamVars, clusterVars>>

\* ensureAgent records the GRN and the epoch in hand, by a merge patch that
\* names the two fields and no version; what it answers is the Agent patched.
\* The CRD refuses an epoch below 1.
EnsureStatus ==
  /\ pc = "status"
  /\ Exists(agents[current]) /\ inHand # 0
  /\ agents' = SetStatus(current, inHand)
  /\ \/ /\ pc' = "place"
        /\ constructed' = Ref(agents[current])
        /\ UNCHANGED <<inHand, cert>>
     \/ Leave
  /\ UNCHANGED <<processVars, passVars, garamVars, secrets, workloads,
                 cachedAgents, cachedSecrets, uids, userActs, lateWrites>>

\* Mutant: the Secret is written whether or not it exists.
PlaceReplacing ==
  /\ pc = "place"
  /\ secrets' = PutSecret(constructed.secretName, constructed.uid, cert)
  /\ Leave
  /\ UNCHANGED <<processVars, passVars, garamVars, agents, workloads,
                 cachedAgents, cachedSecrets, uids, userActs, lateWrites>>

\* placeCredential creates the Secret and leaves alone one that exists.
PlaceCredential ==
  /\ pc = "place"
  /\ LET n == constructed.secretName IN
       secrets' = IF secrets[n].exists THEN secrets
                  ELSE PutSecret(n, constructed.uid, cert)
  /\ Leave
  /\ UNCHANGED <<processVars, passVars, garamVars, agents, workloads,
                 cachedAgents, cachedSecrets, uids, userActs, lateWrites>>

\* The write the pass makes next, as it is sent.
PendingWrite ==
  CASE pc = "create" -> [kind |-> "create", agent |-> current, image |-> image]
    [] pc = "patch"  -> [kind |-> "image", agent |-> current, image |-> image]
    [] pc = "status" -> [kind |-> "status", agent |-> current, epoch |-> inHand]
    [] OTHER         -> [kind |-> "secret", name |-> constructed.secretName,
                         owner |-> constructed.uid, cert |-> cert]

\* No answer to a write came, and the write may still arrive: after later passes
\* wrote, and, where the process stops next, after another became the leader.
WriteGivenUp ==
  /\ pc \in {"patch", "create", "status", "place"}
  /\ Cardinality(lateWrites) < MaxLateWrites
  /\ pc = "create" => Admissible(storageSize)
  /\ lateWrites' = lateWrites \cup {PendingWrite}
  /\ IF pc = "patch" THEN Proceed("has") ELSE Leave
  /\ UNCHANGED <<processVars, passVars, garamVars, agents, secrets, workloads,
                 cachedAgents, cachedSecrets, uids, userActs>>

\* The calls garam answers and the calls the cluster answers, and what comes
\* between them.
PollerAnswered ==
  \/ ClaimAnswered \/ ClaimRefused \/ CorrectImage \/ PatchImage
  \/ HasCredential \/ IssueAgentCertificate
  \/ EnsureCreate \/ EnsureAlreadyExists \/ EnsureGet \/ EnsureStatus
  \/ PlaceCredential

PollerNext ==
  ListDefinitions \/ NextDefinition \/ EndPass \/ PollerAnswered
  \/ ClaimGivenUp \/ WriteGivenUp \/ CallFails

\* The process stops wherever it is and another starts, configured anew.  What
\* it had in memory is gone; calls it had under way may still arrive.
PollerRestart ==
  /\ restarts < MaxRestarts
  /\ restarts' = restarts + 1
  /\ image' \in Images /\ storageSize' \in StorageSizes
  /\ Idle
  /\ CachesInSync
  /\ UNCHANGED <<current, garamVars, agents, secrets, workloads, uids, userActs, lateWrites>>

\* The Poller alone, over garam and the cluster.
PollerSystemVars == <<garamVars, clusterVars, pollerVars>>

PollerSystemInit == GaramInit /\ ClusterInit /\ PollerInit

PollerSystemNext ==
  \/ PollerNext
  \/ PollerRestart
  \/ GaramNext /\ UNCHANGED <<clusterVars, pollerVars>>
  \/ ClusterNext /\ UNCHANGED <<garamVars, pollerVars>>

PollerSpec == PollerSystemInit /\ [][PollerSystemNext]_PollerSystemVars

\* wait.UntilWithContext runs pass after pass, and a call that is made again
\* and again is answered in the end; informers and the garbage collector do not
\* stop.  Nothing is asked of users, of reassignments or of late calls.
Calls == {"claim", "correct", "patch", "has", "issue", "create", "get", "status", "place"}

PollerFairness ==
  /\ WF_PollerSystemVars(PollerNext)
  /\ \A a \in Agents :
       /\ \A call \in Calls :
            SF_PollerSystemVars(pc = call /\ current = a /\ PollerAnswered)
       /\ WF_PollerSystemVars(SyncAgent(a) /\ UNCHANGED <<garamVars, pollerVars>>)
  /\ \A n \in SecretNames :
       /\ WF_PollerSystemVars(SyncSecret(n) /\ UNCHANGED <<garamVars, pollerVars>>)
       /\ WF_PollerSystemVars(CollectSecret(n) /\ UNCHANGED <<garamVars, pollerVars>>)

FairPollerSpec == PollerSpec /\ PollerFairness
-----------------------------------------------------------------------------
\* What construction leaves: an Agent that names its agent and an epoch, and
\* the Secret its spec names.
Constructed(a) ==
  LET object == agents[a] IN
    /\ Exists(object) /\ object.grn = a /\ object.epoch # 0
    /\ secrets[object.secretName].exists

\* The two ways a Secret of the agent's own name stands there and is not the one
\* construct is to place: a user put it there, or the Agent's spec names another
\* by now.  HasCredential reads either as the agent's credential.
UserSecretAt(a) == LET s == secrets[credentialsKey(a)] IN s.exists /\ s.cert = 0

NamesAnother(a) == Exists(agents[a]) /\ agents[a].secretName # credentialsKey(a)

\* Every definition is claimed in the end and every agent this operator then
\* holds is constructed and stays so, whatever calls are lost or land late,
\* wherever the process stops and whatever users did on the way.  Three things
\* keep construct from it: a user's Secret at the agent's name; a Secret placed
\* there before the Agent's spec named another; and a storage size the CRD
\* refuses, until the operator is started with another.
EveryAgentConstructed ==
  \A a \in Agents :
    <>[](/\ Claimed(a)
         /\ (Holds(a) /\ Admissible(storageSize)) =>
              \/ Constructed(a)
              \/ UserSecretAt(a)
              \/ NamesAnother(a) /\ secrets[credentialsKey(a)].exists)

\* A certificate is asked for where there is somewhere to put it: once things
\* are quiet the passes stop obtaining certificates.  They do not where the
\* storage size is one the CRD refuses, or an Agent names another Secret than
\* the one HasCredential looks for: every pass obtains one then and drops it.
CertificatesEnd ==
  <>[](Admissible(storageSize) /\ (\A a \in Agents : ~NamesAnother(a)) => pc # "create")

\* ADR 0009: "Nothing asks for a certificate it has somewhere to put already: the
\* poller reads whether the Secret exists and stops there when it does".  Once
\* things are quiet no pass holds a certificate for an agent that is constructed,
\* its Secret in place.
PlacedIsNotAskedFor ==
  \A a \in Agents : <>[](Constructed(a) /\ current = a => pc # "create")

\* Every agent constructed runs the configured image in the end, whoever holds
\* it and whether or not its credential is placed.
ImageCorrected ==
  \A a \in Agents : <>[](agents[a].grn = a => agents[a].image = image)

\* construct: "an answer here means the epoch in hand is the one this operator
\* holds the agent at" (poller.go:128-130).  The epoch in hand was read with the
\* definitions, and the agent may have been assigned again since.
EpochProved ==
  pc \in {"create", "get", "status", "place"} /\ inHand # 0 => inHand = cert

\* CorrectImage: "An Agent this operator did not construct is left alone: its
\* spec is its author's" (internal/garam/constructor.go:41-42).  Only a user
\* changes the image of an Agent a user wrote.
UserImageKept ==
  [][\A a \in Agents :
       /\ agents[a].author = "user" /\ agents'[a].uid = agents[a].uid
       /\ userActs' = userActs
       => agents'[a].image = agents[a].image]_PollerSystemVars
=============================================================================
