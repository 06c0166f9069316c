# A TLA+ model of gagent-operator

gagent-operator runs agents in a Kubernetes cluster on behalf of garam, a
service it calls over mutual TLS. This directory holds TLA+ modules that model
the operator from its source, the TLC configurations that check them on small
instances, and TLAPS proofs about them. `PROJECT.json` lists the components,
the runs with their properties, a mutant for each property, the source lines
every definition stands for, the disagreements between code and documentation
the runs show, the hazards, and the theorems.

To check a run: `tlc -config OperatorSafety.cfg MCOperator`. To check the
proofs of a module: `tlapm OperatorProofs.tla`, and so on for `AssignmentProofs`,
`CredentialProofs`, `ReconcilerProofs`, `StartupProofs` and `WorkloadProofs`.

## The system

One process (`cmd/main.go`), one leader at a time, reads its flags and files and
then runs these beside each other, the ones its flags ask for:

| part | source | what it does |
|---|---|---|
| Poller | `internal/garam/poller.go` | lists the definitions garam holds for the operator, claims them, and constructs each: certificate, Agent, Secret; corrects the image of those constructed |
| Constructor | `internal/garam/constructor/agent.go` | the Kubernetes half of the Poller: reads from informer caches, writes at the API server |
| Reporter, Observer | `internal/garam/reporter.go`, `constructor/observation.go` | tells garam whether each constructed agent's workload is ready, at the epoch it was constructed at |
| Enroller | `internal/garam/enroller.go` | spends a one-time token on the operator's first certificate |
| Renewer | `internal/garam/renewer.go` | replaces that certificate before it expires |
| Credential store, mutual TLS | `credentialstore/secret.go`, `mutual_tls.go` | write the pair into a Secret; read the projected pair at each handshake |
| garam client | `internal/garam/client.go` | the six calls the loops above make |
| Agent reconciler | `internal/controller/agent_controller.go`, `agent_status.go` | turns an Agent into a StatefulSet and reports two conditions |
| Workload builder | `internal/controller/agent_statefulset.go` | what that StatefulSet carries |

They share no memory. They meet in the API server's objects (the Agent's status
has two writers: Poller and reconciler), in the informer caches, in the one
credential Secret (two writers: Enroller and Renewer) and in garam. Outside the
process are garam, the API server, the informers, the garbage collector, the
kubelet and users; they are modelled from how the code uses them and marked
external in the map.

## The modules

| module | models | composes |
|---|---|---|
| `GaramTypes` | what travels between operator and garam | |
| `Garam` | assignments and their epochs, the certificate and report routes, calls that arrive after their caller gave up | `GaramTypes` |
| `Cluster` | Agents, Secrets, StatefulSets, two informer caches that lag, writes that arrive after their writer gave up, garbage collection, Pods, users | `GaramTypes` |
| `Poller` | a pass of the Poller with the Constructor, call by call | `Garam`, `Cluster` |
| `Reporter` | a pass of the Reporter with the Observer | `Garam`, `Cluster` |
| `Operator` | the three loops in one process, stopped and started | `Poller`, `Reporter` |
| `Assignment` | abstract: what may happen to the epoch recorded for an agent, to its credential and to garam's record of it | |
| `Credential` | Enroller, Renewer, store, kubelet, handshake reads, tokens, certificates | |
| `Call` | abstract: what a call to garam promises the loop that makes it | |
| `Client` | one call of the client: handshake, timeout, decoding, classification of refusals | |
| `Startup` | `main`: flags, files, the loops added, exits and restarts, and the calls of what runs | `Client` |
| `Reconciler` | the reconciler for one Agent name, call by call: work queue, three watches, three caches, two writes | |
| `Workload` | `applyAgent` and its helpers over any history of one StatefulSet, and the API server's defaults and validation | |
| `OperatorProofs`, `CredentialProofs`, `ReconcilerProofs`, `StartupProofs`, `WorkloadProofs` | theorems and proofs | the module named |
| `AssignmentProofs` | the proof that `Operator` implements `Assignment` | `OperatorProofs` |
| `MCOperator`, `MCPoller`, `MCCredential`, `MCReconciler`, `MCWorkload`, `MCStartup` | the root modules of the runs | |

How state and actions correspond to the code:

- **Poller.** `pc` is the call the pass makes next, `todo` the definitions it
  still has to look at, `current` and `inHand` the definition and the epoch it
  carries. Every call of `Poll`, `construct`, `Construct`, `ensureAgent`,
  `placeCredential` and `CorrectImage` is an action, with the answer, a refusal,
  a failure and a lost answer as alternatives. Between two calls anything else
  may happen, a restart included. A write that was given up on, or that a former
  leader had under way, waits in `lateWrites` and lands on whatever has the name
  when it arrives: none of the constructor's writes names a version or a uid. A
  claim may be answered without an epoch, which `assignment()` takes, and the
  storage size of the process may be one the CRD refuses.
- **Reporter.** `observations` is what the pass listed when it began and has not
  sent yet.
- **Operator.** Its `Reconcile` is one pass of the reconciler in one step, for
  the other loops to run beside, and reads the StatefulSet directly. `Reconciler`
  is where that pass is taken apart.
  `ImplementsAssignment` shows that every step of the three loops, garam, the
  cluster and its users is one `Assignment` allows: an epoch is recorded only if
  garam reached it, the standing one only while it is this operator's; a credential
  is placed only where nothing stands and only one issued to this operator; garam's
  record changes only while the operator holds the agent.
- **Client.** One call at a time: `call.since` is the pair the files held when it
  began and `call.shown` the one its handshake presented. `reply` is what is on its
  way back, `taken` whether garam did what was asked, and `owed` a request nobody
  waits for. `result` remembers beside the outcome why garam refused and what it
  listed, which no code reads and the properties speak of. `Poller`, `Reporter` and
  `Credential` model a call as an answer, a refusal, or a failure after which garam
  may take it even later; `ImplementsCall` shows that `Client` is such a call.
- **Startup.** `process` is how far `main` has come, `added` the loops it added. All
  flags are given a value or not independently of each other; the pair and the root
  come, and the root also goes, while it starts.
- **Credential.** Certificates are numbered in the order garam issues them. A key
  is named by what made it, the request of a process for a token or garam's answer
  to a renewal, and `signed` says which key each certificate was signed for: a pair
  loads when the two belong together. `secret` is the object, `files` what the
  kubelet projected. A handshake is two reads, one per file; a look of the Enroller
  is three, with the token's. Two clocks run at no fixed distance: `phase` is what
  garam makes of a certificate, `passed` what this operator's clock does. A call or
  a patch that was cut off by a deadline waits in `late`, arrives at any time, and
  is then answered to nobody. `lost`, `crossed` and `superseded` are history.
- **Reconciler.** `held`, `found` and `decided` are the Agent and StatefulSet the
  pass read and the status it will write; `notices` are changes an informer has
  stored whose handler has not run. An update carries the StatefulSet that was
  read and is refused at any other. `unheard` holds the objects written since the
  informer last looked, so that an object deleted and created again is an event
  even where it looks the same. The status patch is a merge patch: it names
  the fields that differ from `held` and lands on whatever Agent has the name.
- **Workload.** A container keeps, beside what `applyAgent` decides, the fields
  the API server defaulted. A write through the pointer `containerNamed` returned
  is lost where the slice has grown since, which is what the order of the calls
  in `applyAgent` is for. The API server refuses a template with a mount of a
  volume it does not have, and the pass then leaves what was stored. Hands edit the
  StatefulSet between passes (`HandEdited`): they change every field of any
  container or init container, take one out, add one that mounts any volume there
  is, the operator's tool tree and config file included, put another volume in the
  place of any or beside them, and scale it.

## The runs

Passing runs:

| run | properties | what it shows |
|---|---|---|
| `operator_safety` | TypeOK, EpochFences, EpochOnlyRises, CredentialNeverReplaced, ImplementsAssignment | an agent assigned away and back under passes, late calls, late writes and a restart; and users who write, delete and edit the Agents and Secrets the loops work on |
| `operator_reports` | LatchFollowsPod | garam's record settles on what the Pod is, with reports lost, late and reordered |
| `poller` | EveryAgentConstructed, CertificatesEnd, ImageCorrected | construction ends, and once, across lost and late calls and writes, reassignment, and a restart with another configuration or acts of users |
| `credential` | TypeOK, PairsMatch, PresentedOnce, LineageKept, TokenNotBurned, DueIsRenewed, BrokenLineageIsTold, TokenPresented | Enroller, Renewer, kubelet, people, two clocks, late calls and restarts over one Secret |
| `reconciler` | TypeOK, StatusWhole, IdentityKept, StatusSettles | no pass, however stale what it read, takes over another Agent's StatefulSet, changes a claim, or tears a status between generations; and no wake-up is lost: workload and status come to describe the Agent |
| `workload` | TypeOK, OnlyHandsAreRefused, BuiltAsFromNothing, UnchangedIsNotWritten, PointersResolve, OthersKept | what a pass leaves depends on the present spec and configuration alone, is written once, leaves the rest as it was, and is refused only for what a container added by hand mounts |
| `startup` | TypeOK, RefusalsToldApart, ListWhole, PresentsCurrent, NowhereToPutIsNotAsked, CallersCanAuthenticate, ImplementsCall, CallsReturn, EnrollerComesUp | a process starts the loops its flags ask for or exits, and every call they make returns what the models of the loops take a call to return |

Runs that end in a counterexample, each against a sentence of the repository
(quoted in `PROJECT.json` under findings):

| run | what the code does |
|---|---|
| `poller_epoch` | records the epoch it listed, which may be older than the one the certificate was issued at |
| `poller_image` | adopts an Agent a user wrote at a constructed name, and then overwrites its image |
| `poller_secret_name` | asks for a certificate on every pass where the Agent's spec names another Secret, which stands |
| `credential_expiry` | an Enroller that returned does not wait for a token when the certificate later expires |
| `reconciler_class` | reports an edit of the storage class as synced |

What `poller` shows has exceptions, which the properties name. A Secret a user put at
the agent's name ends every pass at `HasCredential`, and so does one that was placed
there before the Agent's spec named another: `EveryAgentConstructed` excepts both. An
Agent whose spec names another Secret, with none at the agent's own name, is what
`poller_secret_name` is about, so `CertificatesEnd` in `poller` is stated for Agents
that name their own. A storage size that parses and that the CRD refuses, zero, has a
consequence of the same kind: every pass obtains a certificate and drops it, for the
create is refused afterwards. `main.go` leaves the value to the API server on purpose,
so both properties are stated for a process whose size is admitted, and `poller` checks
them across a restart that puts it right.

What `LineageKept` shows is when the two writers of the credential Secret, whose patches
carry no version, leave the older certificate in it. There are two cases. A certificate
did not reach the Secret under the eyes of its writer (`lost`): its answer or its patch
was lost, came late, or the process stopped first. Or garam answered a token while a
renewal was being stored (`crossed`), which takes an Enroller that could read no
unexpired pair although garam still renews the certificate: this operator's clock is
ahead, the risk ADR 0022 names, or it looked before the kubelet had brought the pair, or
while it did. Either may leave a certificate garam no longer renews in the Secret, and
`BrokenLineageIsTold` shows that the Renewer then comes to be refused as superseded,
which is what asks for a mint out of band, unless the certificate expires first.

What `OnlyHandsAreRefused` shows is that no template the operator built itself, under
any earlier spec or configuration, makes a later pass fail. A container added by hand
can, in two ways: it mounts a volume that was added by hand too, or the tool tree or
config file of a spec or configuration that has none any more. Every pass is then
refused until the container goes. `BuiltAsFromNothing` leaves out what `applyAgent` does
not write: the fields kept in `other` and the environment of the init container that
copies the credential, which `OthersKept` shows stay.

Four behaviours are in the model without a run of their own, because what follows
them puts them right. A handshake may read a certificate and the key of its
successor across the kubelet's swap, and fails once. A process restarted between
a renewal's store and its projection is refused as superseded until it is projected.
`writeStatus` compares with a cached status and may leave an older one standing,
and a status patch, which names no uid, may land on an Agent created again under
the name; `StatusSettles` shows that a later pass corrects both.

### Bounds

Every bound is a constant in a `.cfg`.

- `Agents` has one member in the runs of `Poller` and `Operator`. The loops treat
  agents one after another and no state but the pass itself is shared between
  two; the theorems about `Operator` are for any number.
- `MaxEpoch` 3 lets an agent be claimed, assigned away and assigned back; 2 is
  enough where a property is about one reassignment.
- `MaxLate` and `MaxLateWrites` are how many calls and writes may be under way after
  their caller gave up. One is enough to overtake a later one.
- `StorageSizes` are what the process may be configured with: `"zero"` stands for
  every size the CRD refuses.
- `MaxUserActs`, `UserActs`, `MaxActs`, `Acts`: how many and which things users
  do. `Reconciler` has three, a restart counted as one: create, edit and delete;
  create, delete and create; create, a change and a restart. Its first Agent asks for
  one spec, whose Secret is there (`MCReconciler`), the later ones for any.
- In `operator_safety` a behaviour has an act of a user, or late calls, a late write,
  a restart and a third epoch (`UsersOrFaults`, a state constraint); in `poller` it
  has a restart, an act of a user, or two where the agent is assigned once, with a call
  or a write under way beside it (`Disturbances`, part of the specification that is
  checked, since a constraint would cut behaviours liveness speaks of; it holds back
  no step fairness is assumed of). `OtherSecrets` has one name an Agent may be made to
  name. The combinations are beyond TLC's reach; the theorems about `Operator` cover
  them.
- `MaxPairs` 2 replaces the pair under a call once, or has none at first and then two;
  `MaxTrustChanges` 2 takes the root away and brings it back; `MaxStops` 1.
  `MCPayloads` has one definition of each kind `definition()` tells apart.
- `MaxCerts` 3 is an enrollment and two renewals, or two enrollments and one.
  Two tokens let one be lost and another placed. A certificate minted out of band may
  be there from the start.
- In `credential` a clock moves only where something may come to read it
  (`ClocksAreRead`): for any other certificate or token the move could as well come
  later. `MaxWork` 3 bounds the certificates issued together with the live tokens and
  the open window that may lead to more, and `MaxTroubledWork` 2 does so once there
  was a restart, a loss or a late call. They hold back people, clocks and failures, and
  none of the steps fairness is assumed of. The proofs have none of these bounds.
- `MaxRestarts` 1: the process keeps no state over a restart, so a second one
  finds nothing the first did not.
- `MaxMarks` 2 bounds what hands leave in a StatefulSet at a time: containers whose
  undecided fields they set, volumes they put in, a second replica. Two are a volume
  and the container that mounts it. Nothing else in `Workload` is bounded, and the
  proofs do without it.

### Fairness

Passes of the Poller, the Reporter and the Renewer follow each other because
`wait.UntilWithContext` calls them again (weak fairness of their steps). A call
made again and again is answered in the end (strong fairness of the answer):
nothing in the operator promises this and nothing it does could succeed without
it. Informers and the garbage collector do not stop. The reconciler's worker runs
while a name is queued, and a pass that failed is queued again. The Enroller's look
is weakly fair, and an attempt that can be made again and again is made in the end
(a key is generated at some look). A refusal of a renewal as superseded is strongly
fair like the renewal: it is garam's answer to a call that reaches it. In `Startup` nothing is assumed of garam: `main`
goes on, the kubelet starts what exited, and a call's own timeout fires. Users, garam's
reassignments, Pods and restarts are not fair: they may happen or not. Each of
them is bounded, so that behaviours become quiet, which is what the `<>[]`
properties speak of.

`CHECK_DEADLOCK FALSE` stands in the configurations of `Reconciler`, for a reconciler
with nothing queued, in a cluster where nothing more happens, waits; and in that of
`Startup`, where a process without `--garam-address` makes no calls.

### Assumptions of Credential

- A renewal is attempted after the last one was projected, unless the process was
  restarted in between (`lagging`). The Renewer's interval is chosen so: see the
  comment at `NewRenewer`.
- A person mints a certificate out of band only where one of the two loops asks for
  it: a certificate was lost, or the last renewal was refused as superseded.
- Nothing is assumed of when a certificate falls due or expires, nor of how far the
  clocks of garam and of the operator are apart.

## The proofs

`OperatorProofs`, about `Operator` for every set of agents, Secret names and
images and every bound:

- `TypeCorrect`: `Spec => []TypeOK`, one lemma per component.
- `FenceHolds`: `Spec => []EpochFences`. The property is not inductive: it says
  nothing of an epoch a pass still carries. The invariant `IInv` adds that no
  recorded epoch is ahead of garam's (`Recorded`), that the epoch in hand is
  proved once the certificate route answered (`InHandProved`), and that a pass
  never carries an epoch below the recorded one (`NotAhead`). Two facts carry the
  induction: an assignment stays or moves to a later epoch (`EpochStep`), so an
  epoch that is proved stays proved (`ProvedStays`); and an Agent keeps its epoch,
  is replaced, or is given the one in hand (`AgentStep`).
- `EpochNeverTakenBack`: `Spec => EpochOnlyRises`, from `NotAhead`.
- `CredentialKept`: `Spec => CredentialNeverReplaced`.

`AssignmentProofs`: `AssignmentsKept`, `Spec => ImplementsAssignment`. Four lemmas
say how one step changes the assignments (`AssignmentStep`), the state garam holds
(`LatchStep`), the Agents (`RecordStep`) and the Secrets (`SecretStep`), and that
it changes only one of the four; four more map each kind of change to a step of
`Assignment`. That an epoch recorded is one `Assignment` allows comes from `IInv`.
Placing needs a second invariant, `AInv`: a certificate in hand from its issue to
the create of the Secret, or in a create that lands late, was issued at an epoch
held; such a create has a name and an owner; and an agent nobody claimed was never
held.

`CredentialProofs`, for any tokens, number of certificates, restarts and late calls:

- `TypeCorrect`: `Spec => []TypeOK`.
- `TokenPresentedOnce`: `Spec => []PresentedOnce`. The invariant `OInv` says that a
  token that was presented is remembered, and that the one about to be presented
  is remembered and was not presented yet: `enroll` records before it calls.
- `PairsAlwaysMatch`: `Spec => []PairsMatch`. It says nothing of a pair on its way, so
  `PInv` adds what a loop is about to store and what a patch given up on may still
  store, and that none of it is beyond what garam issued: what was signed for one key
  is never signed for another (`GoodKept`).
- `NoTokenBurned`: `Spec => TokenNotBurned`. `BInv` is what a look knows on its way
  through the three files: unless the volume was swapped under it, the certificate it
  read is the one there, and where it goes on to the token that one is not unexpired.
  It rests on `PairsMatch`, without which a pair in place might not load.
- `LineageNeverBroken`: `Spec => []LineageKept`. Two loops write one Secret, and
  neither looks at it before it does, so the property has to be strengthened by why
  they do not meet. `LInv` says so: where nothing was lost and nothing crossed, no patch
  is under way that nobody waits for, one loop at most is storing, what it stores is
  what garam last issued, and otherwise the Secret holds that. That a renewal cannot
  begin while the Enroller is about to store needs `UInv`: a certificate it holds is
  nowhere else yet, so none that is read is the last issued. That a token answered
  across a renewal is counted as crossed needs `SInv`: one is presented only where the
  look found no unexpired pair.

`ReconcilerProofs`, for any specs and any number of acts and restarts:

- `TypeCorrect`: `ReconcilerSpec => []TypeOK`.
- `IdentityNeverChanged`: `ReconcilerSpec => IdentityKept`. What is needed of a
  pass is `OwnUpdate`: one about to update holds a StatefulSet its Agent owns.
- `StatusNeverTorn`: `ReconcilerSpec => []StatusWhole`. A merge patch takes each
  field from the status decided or leaves the one that stands, so the statuses of
  the Agent, of the cache and of the pass have to be related. `SInv` does it: each
  is whole, and they are ordered by age (`Ordered`). It holds until an Agent of the
  name is created anew, which is why the property speaks of the first.

`StartupProofs`, for any definitions garam may answer, any flags and number of stops:

- `TypeCorrect`: `Spec => []TypeOK`.
- `CallKept`: `Spec => ImplementsCall`; `RefusalsAreTold`, `ListsAreWhole` and
  `CurrentPairPresented`: the invariants `RefusalsToldApart`, `ListWhole` and
  `PresentsCurrent`. They rest on `CInv`, which ties an answer that is on its way
  to what garam did: a 200 to a call it took, a refusal to one it did not and to
  the reason it had.
- `AsksForWhatItKeeps` and `PollersAuthenticate`: `NowhereToPutIsNotAsked` and
  `CallersCanAuthenticate`, from `MInv`, which says at each point of `main` what
  the checks before it have established of the flags and of the loops added.

`WorkloadProofs`, for any images, Secret names, sizes and sets of pins, and any
history of specs, configurations, passes and edits by hand:

- `applyAgent` edits what it was given in place, helper after helper. A chain of
  lemmas that ends in `ApplyAgentIs` shows that it is one function of the spec, the
  configuration, the claim and the containers it found: `InitsOf`, `ContainersOf`
  and `VolumesOf` say what of each is decided and what is kept.
- None of the properties is inductive: they speak of what a pass makes of what is
  stored and do not say what may be stored. `WInv` does: what is stored has a shape
  that creation, defaulting, passes and hands lead to (`Shape`: which containers, init
  containers and volumes there may be, each written in full), and after a pass,
  until something changes, it is what the present spec and configuration decide
  (`Built`). `Applied` shows that a pass establishes `Built` from any `Shape`,
  `BuiltStays` that `applyAgent` is the identity on it once defaulted, and
  `Admission` that a refused pass met a container added by hand with a mount of a
  volume the pass does not write.
- From it `TypeCorrect`, `RefusedForHandsOnly`, `PassesSettle`, `HistoryForgotten`
  and `PointersNeverDangle`: `WorkloadSpec => []P` for the invariants `TypeOK`,
  `OnlyHandsAreRefused`, `UnchangedIsNotWritten`, `BuiltAsFromNothing` and
  `PointersResolve`; and `OthersLeftAlone`: `WorkloadSpec => OthersKept`.

The constants are assumed to be what the `ASSUME` of each module says, which TLC
evaluates in the runs. Only model-checked: the liveness properties
(`LatchFollowsPod`, those of `poller`, `DueIsRenewed`, `BrokenLineageIsTold`,
`TokenPresented`, `StatusSettles`, `CallsReturn`, `EnrollerComesUp`), since fairness is
out of the prover's reach. Every invariant, every action property and both
refinements of the passing runs are also proved.

## What is left out

- The comparison of the server root an enrollment answers, which is logged.
- The tool pins in what the Poller constructs; `Client` has how they are read and
  `Workload` what they lead to.
- Two processes that both go on. What a former leader had under way, calls and
  writes, arrives late; a second leader making passes of its own is left to leader
  election, and a deployment without `--leader-elect` runs one replica.
- In `Reconciler`, a write that takes effect after the pass that made it ended. A
  former leader's status patch that lands late could stand beside an
  observedGeneration of another pass until the next pass compares.
- In `Client`, a 2xx answer that garam did not give: what stands in front of it
  holds a certificate the operator trusts and answers only errors of its own.
- In `Workload`, the order of containers.
- Name lengths and label limits (`Name` digests the GRN), log lines, intervals.
- Generated deep copies, scaffolding for metrics, webhooks and probes, and the
  helpers of the end-to-end tests.
