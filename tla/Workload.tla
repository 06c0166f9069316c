------------------------------ MODULE Workload ------------------------------
(***************************************************************************)
(* What applyAgent (src/internal/controller/agent_statefulset.go) makes of  *)
(* a StatefulSet, over any history of Agent specs, operator configurations  *)
(* and the edits by hand HandEdited lists.                                  *)
(*                                                                          *)
(* A container's image stands for its image and, of the agent's, resources; *)
(* fixed for its pull policy, its security context and, of an init          *)
(* container, its command, which are constants; other for the fields the    *)
(* operator never writes of it and the API server defaults.  The order of   *)
(* containers is left out: they are kept by name.                           *)
(***************************************************************************)
EXTENDS Naturals

CONSTANTS Images, SecretNames, Sizes, PinSets, NoPins,  \* what a spec may ask for
          CopyImages, ToolsImages, WorkspaceImages,     \* what a deployer may name
          NoImage                                       \* the empty string

ASSUME WorkloadAssumption == NoPins \in PinSets /\ NoImage \notin Images \cup CopyImages

VARIABLES spec,      \* the Agent's spec
          config,    \* the images the reconciler was started with
          stored,    \* the StatefulSet the API server holds, or Nothing
          settled    \* nothing changed since the last pass

vars == <<spec, config, stored, settled>>

AgentSpec == [image: Images, secretName: SecretNames, size: Sizes, pins: PinSets]

AgentReconciler ==
  [CopyImage: CopyImages, ToolsImage: ToolsImages \cup {NoImage},
   WorkspaceImage: WorkspaceImages \cup {NoImage}]

\* The file an agent resolves its settings from.
renderAgentConfig(pins) == [tools |-> [pins |-> pins]]

EnvVar ==
  ({"GAGENT_TOOLS_DIR", "XDG_CONFIG_HOME", "GAGENT_WORKSPACE_ADDR", "GAGENT_ADDR",
    "GAGENT_WORKSPACE", "GAGENT_EXEC_UID", "HAND"}
     \X {"tools", "config", "loopback", "state", "user", "hand"})
  \cup ({"AGENT_CONFIG_CONTENT"} \X {renderAgentConfig(pins) : pins \in PinSets})

Volumes == {"credentials-secret", "credentials", "tools", "config", "scratch"}

\* The state volume comes from the claim and is no volume of the template.
Claimed == {"state"}

\* The container and the init container a hand may add.
Added == {"sidecar", "setup"}

Names == {"credentials", "config", "agent", "workspace"} \cup Added

IsContainer(c) ==
  /\ c.image \in Images \cup CopyImages \cup WorkspaceImages \cup {"hand"}
  /\ c.env \subseteq EnvVar /\ c.mounts \subseteq Volumes \cup Claimed
  /\ c.fixed \in {"written", "hand"} /\ c.other \in {"defaulted", "hand"}

\* A volume's source is what it is filled from.  mode is the field of it the
\* API server fills in where a template leaves it out.
IsVolume(v) == v.source \in SecretNames \cup ToolsImages \cup {"memory", "disk"}
               /\ v.mode \in {"named", "none"}

\* A string that was never written is "unset".
NewContainer == [image |-> NoImage, env |-> {}, mounts |-> {}, fixed |-> "unset", other |-> "unset"]

NoneYet == [n \in {} |-> NewContainer]

Nothing == [created |-> FALSE, claim |-> "unset", replicas |-> 0, volumes |-> NoneYet,
            initContainers |-> NoneYet, containers |-> NoneYet]

TypeOK ==
  /\ spec \in AgentSpec /\ config \in AgentReconciler /\ settled \in BOOLEAN
  /\ stored.created \in BOOLEAN
  /\ stored.created =>
       /\ stored.claim \in Sizes /\ stored.replicas \in Nat \ {0}
       /\ DOMAIN stored.volumes \subseteq Volumes
       /\ DOMAIN stored.initContainers \cup DOMAIN stored.containers \subseteq Names
       /\ \A n \in DOMAIN stored.volumes : IsVolume(stored.volumes[n])
       /\ \A n \in DOMAIN stored.initContainers : IsContainer(stored.initContainers[n])
       /\ \A n \in DOMAIN stored.containers : IsContainer(stored.containers[n])

Init == spec \in AgentSpec /\ config \in AgentReconciler /\ stored = Nothing /\ settled = FALSE
-----------------------------------------------------------------------------
Put(f, n, e) == [x \in DOMAIN f \cup {n} |-> IF x = n THEN e ELSE f[x]]

Without(f, n) == [x \in DOMAIN f \ {n} |-> f[x]]

\* containerNamed: the container that is there, so that what is not written
\* stays, or an empty one.
containerNamed(containers, name) ==
  IF name \in DOMAIN containers THEN containers[name] ELSE NewContainer

\* A write through the pointer containerNamed returned when the slice held
\* the containers in taken.  One appended since may have moved the slice, and
\* the write is then lost.
Through(taken, containers, name, c) ==
  IF DOMAIN containers \subseteq taken THEN Put(containers, name, c) ELSE containers

\* Mutant: the claim is written to a StatefulSet that exists.
applyClaimLate(a, s) ==
  [s EXCEPT !.created = TRUE, !.replicas = 1,
            !.claim = IF s.created THEN a.size ELSE s.claim]

\* What is written at creation only, and the replica count.
applyClaim(a, s) ==
  [s EXCEPT !.created = TRUE, !.replicas = 1,
            !.claim = IF s.created THEN s.claim ELSE a.size]

\* The volumes are written whole, so each names what would be defaulted.
credentialsVolumes(a) ==
  [n \in {"credentials-secret", "credentials"} |->
     IF n = "credentials" THEN [source |-> "memory", mode |-> "none"]
                          ELSE [source |-> a.secretName, mode |-> "named"]]

applyCredentials(a, r, s) ==
  LET c == [containerNamed(s.initContainers, "credentials") EXCEPT
              !.image = r.CopyImage, !.fixed = "written",
              !.mounts = {"credentials-secret", "credentials"}]
  IN [s EXCEPT !.volumes = credentialsVolumes(a),
               !.initContainers = Put(@, "credentials", c)]

\* Mutant: the agent is told where to dial whether or not anything listens.
agentEnvAlways(r) ==
  (IF r.ToolsImage = NoImage THEN {} ELSE {<<"GAGENT_TOOLS_DIR", "tools">>})
  \cup {<<"GAGENT_WORKSPACE_ADDR", "loopback">>}

\* The variables of the agent's container, which are written from nothing.
agentEnv(r) ==
  (IF r.ToolsImage = NoImage THEN {} ELSE {<<"GAGENT_TOOLS_DIR", "tools">>})
  \cup (IF r.WorkspaceImage = NoImage THEN {} ELSE {<<"GAGENT_WORKSPACE_ADDR", "loopback">>})

\* The agent's own container and the tool tree mounted into it.
applyContainer(a, r, s) ==
  LET tools == r.ToolsImage # NoImage
      c == [containerNamed(s.containers, "agent") EXCEPT
              !.image = a.image, !.fixed = "written", !.env = agentEnv(r),
              !.mounts = {"credentials", "state"} \cup (IF tools THEN {"tools"} ELSE {})]
  IN [s EXCEPT !.containers = Put(@, "agent", c),
               !.volumes = IF tools THEN Put(@, "tools", [source |-> r.ToolsImage, mode |-> "named"])
                                    ELSE @]

\* Mutant: the init container of an Agent that declares no pins any more stays.
applyToolPinsKept(a, r, s, taken) ==
  IF a.pins = NoPins THEN s
  ELSE LET writer == [containerNamed(s.initContainers, "config") EXCEPT
             !.image = r.CopyImage, !.fixed = "written",
             !.env = {<<"AGENT_CONFIG_CONTENT", renderAgentConfig(a.pins)>>}, !.mounts = {"config"}]
           agent == [s.containers["agent"] EXCEPT
             !.mounts = @ \cup {"config"}, !.env = @ \cup {<<"XDG_CONFIG_HOME", "config">>}]
       IN [s EXCEPT !.volumes = Put(@, "config", [source |-> "disk", mode |-> "none"]),
                    !.initContainers = Put(@, "config", writer),
                    !.containers = Through(taken, @, "agent", agent)]

\* The config file, the init container that writes it, and the agent's way to
\* it; all three are taken out again where no pins are declared.
applyToolPins(a, r, s, taken) ==
  IF a.pins = NoPins THEN [s EXCEPT !.initContainers = Without(@, "config")]
  ELSE LET writer == [containerNamed(s.initContainers, "config") EXCEPT
             !.image = r.CopyImage, !.fixed = "written",
             !.env = {<<"AGENT_CONFIG_CONTENT", renderAgentConfig(a.pins)>>}, !.mounts = {"config"}]
           agent == [s.containers["agent"] EXCEPT
             !.mounts = @ \cup {"config"}, !.env = @ \cup {<<"XDG_CONFIG_HOME", "config">>}]
       IN [s EXCEPT !.volumes = Put(@, "config", [source |-> "disk", mode |-> "none"]),
                    !.initContainers = Put(@, "config", writer),
                    !.containers = Through(taken, @, "agent", agent)]

\* Mutant: the container of an operator that names no workspace any more stays.
applyWorkspaceKept(r, s) ==
  IF r.WorkspaceImage = NoImage THEN s
  ELSE [s EXCEPT !.containers = Put(@, "workspace",
         [containerNamed(@, "workspace") EXCEPT !.image = r.WorkspaceImage, !.fixed = "written",
            !.env = {<<"GAGENT_ADDR", "loopback">>, <<"GAGENT_WORKSPACE", "state">>,
                     <<"GAGENT_EXEC_UID", "user">>},
            !.mounts = {"state"}])]

\* Mutant: the test of what is taken out is the wrong way round.
applyWorkspaceAgentOnly(r, s) ==
  IF r.WorkspaceImage = NoImage
    THEN [s EXCEPT !.containers = [n \in {"agent"} |-> s.containers[n]]]
  ELSE [s EXCEPT !.containers = Put(@, "workspace",
         [containerNamed(@, "workspace") EXCEPT !.image = r.WorkspaceImage, !.fixed = "written",
            !.env = {<<"GAGENT_ADDR", "loopback">>, <<"GAGENT_WORKSPACE", "state">>,
                     <<"GAGENT_EXEC_UID", "user">>},
            !.mounts = {"state"}])]

\* The workspace container, taken out again where no image is named.
applyWorkspace(r, s) ==
  IF r.WorkspaceImage = NoImage THEN [s EXCEPT !.containers = Without(@, "workspace")]
  ELSE [s EXCEPT !.containers = Put(@, "workspace",
         [containerNamed(@, "workspace") EXCEPT !.image = r.WorkspaceImage, !.fixed = "written",
            !.env = {<<"GAGENT_ADDR", "loopback">>, <<"GAGENT_WORKSPACE", "state">>,
                     <<"GAGENT_EXEC_UID", "user">>},
            !.mounts = {"state"}])]

\* Mutant: the workspace is built before the pins are written.
applyAgentWorkspaceFirst(a, r, s) ==
  LET built == applyContainer(a, r, applyCredentials(a, r, applyClaim(a, s)))
  IN applyToolPins(a, r, applyWorkspace(r, built), DOMAIN built.containers)

applyAgent(a, r, s) ==
  LET built == applyContainer(a, r, applyCredentials(a, r, applyClaim(a, s)))
  IN applyWorkspace(r, applyToolPins(a, r, built, DOMAIN built.containers))
-----------------------------------------------------------------------------
\* The API server fills in what a template leaves out.
Defaulted(s) ==
  LET filled(f) == [n \in DOMAIN f |-> [f[n] EXCEPT !.other = IF @ = "unset" THEN "defaulted" ELSE @]]
      moded(f) == [n \in DOMAIN f |-> [f[n] EXCEPT !.mode = IF @ = "unset" THEN "defaulted" ELSE @]]
  IN [s EXCEPT !.initContainers = filled(@), !.containers = filled(@), !.volumes = moded(@)]

\* ... and refuses one where a container mounts what the Pod does not carry.
Admitted(s) ==
  \A f \in {s.containers, s.initContainers} : \A n \in DOMAIN f :
    f[n].mounts \subseteq DOMAIN s.volumes \cup Claimed

\* reconcileStatefulSet: CreateOrUpdate writes what applyAgent changed.  What the
\* API server refuses fails the pass.
reconcileStatefulSet ==
  LET applied == applyAgent(spec, config, stored)
  IN /\ stored' = IF applied = stored \/ ~Admitted(applied) THEN stored ELSE Defaulted(applied)
     /\ settled' = Admitted(applied)
     /\ UNCHANGED <<spec, config>>

Edit ==
  /\ spec' \in AgentSpec \ {spec}
  /\ settled' = FALSE
  /\ UNCHANGED <<config, stored>>

\* The operator is deployed again with other images.
Reconfigure ==
  /\ config' \in AgentReconciler \ {config}
  /\ settled' = FALSE
  /\ UNCHANGED <<spec, stored>>

Touched(c) ==
  [c EXCEPT !.image = "hand", !.env = c.env \cup {<<"HAND", "hand">>},
            !.mounts = c.mounts \cup {"state"}, !.fixed = "hand", !.other = "hand"]

AddedByHand(v) ==
  [image |-> "hand", env |-> {}, mounts |-> {v}, fixed |-> "hand", other |-> "hand"]

\* What a hand may make of a list of containers: one is touched, taken out, or
\* added with a mount of one of the volumes there are.
HandListed(f, name, volumes) ==
  {Put(f, n, Touched(f[n])) : n \in DOMAIN f}
  \cup {Without(f, n) : n \in DOMAIN f}
  \cup {Put(f, name, AddedByHand(v)) : v \in volumes}

\* What a hand may make of the StatefulSet and the API server still accept: it
\* edits a list of containers, puts another volume in the place of one or
\* beside them, or asks for a second replica.
HandEdited(s) ==
  LET there == DOMAIN s.volumes \cup Claimed
  IN {[s EXCEPT !.replicas = 2]}
     \cup {[s EXCEPT !.volumes = Put(s.volumes, n, [source |-> "disk", mode |-> "none"])] :
             n \in DOMAIN s.volumes \cup {"scratch"}}
     \cup {[s EXCEPT !.initContainers = f] : f \in HandListed(s.initContainers, "setup", there)}
     \cup {[s EXCEPT !.containers = f] :
             f \in {g \in HandListed(s.containers, "sidecar", there) : DOMAIN g # {}}}

Drift ==
  /\ stored.created
  /\ stored' \in HandEdited(stored)
  /\ settled' = FALSE
  /\ UNCHANGED <<spec, config>>

Next == reconcileStatefulSet \/ Edit \/ Reconfigure \/ Drift

WorkloadSpec == Init /\ [][Next]_vars
-----------------------------------------------------------------------------
Owned == Names \ Added

\* What the operator decides of the containers it builds.  Of the one that copies
\* the credential it writes no environment, so a variable added there stays.
Decided(f) ==
  [n \in DOMAIN f \cap Owned |->
     [f[n] EXCEPT !.other = "unset", !.env = IF n = "credentials" THEN {} ELSE f[n].env]]

\* applyAgent forgets: whatever specs, configurations and hands the StatefulSet
\* went through, a pass leaves in it what the spec and the configuration that
\* stand would build from nothing.  A tool tree, a pin set or a workspace that is
\* named no longer is gone, what a hand did to a field the operator writes is
\* undone, and every write through the container's pointer arrived.
BuiltAsFromNothing ==
  settled =>
    LET fresh == applyAgent(spec, config, Nothing)
    IN /\ Decided(stored.containers) = Decided(fresh.containers)
       /\ Decided(stored.initContainers) = Decided(fresh.initContainers)
       /\ stored.volumes = fresh.volumes /\ stored.replicas = 1

\* applyAgent: "an unchanged Agent produces an unchanged object": a pass finds
\* nothing to write in what the last one wrote and the API server defaulted,
\* or every write would be followed by another.
UnchangedIsNotWritten == settled => applyAgent(spec, config, stored) = stored

\* The volumes a template may have carried and a pass does not write.
NotCarried(a, r) ==
  {"scratch"} \cup (IF r.ToolsImage = NoImage THEN {"tools"} ELSE {})
              \cup (IF a.pins = NoPins THEN {"config"} ELSE {})

\* A pass is refused only where a container or an init container added by hand
\* mounts a volume added by hand, or the tool tree or the config file of an
\* operator or an Agent that names none any more.  applyAgent writes the volumes
\* anew and keeps what it does not build; what it builds goes with the volumes
\* it writes, whatever the StatefulSet went through.
OnlyHandsAreRefused ==
  ~Admitted(applyAgent(spec, config, stored)) =>
    \E f \in {stored.containers, stored.initContainers} : \E n \in DOMAIN f \cap Added :
      f[n].mounts \cap NotCarried(spec, config) # {}

\* The agent is pointed at nothing the Pod does not carry: a workspace that
\* runs, a tool tree that is mounted, and a config file an init container
\* wrote, whose text no other container is handed.
PointersResolve ==
  settled =>
    LET env(n) == {v[1] : v \in stored.containers[n].env}
        agent == stored.containers["agent"]
    IN /\ "GAGENT_WORKSPACE_ADDR" \in env("agent") <=> "workspace" \in DOMAIN stored.containers
       /\ "GAGENT_TOOLS_DIR" \in env("agent") <=> "tools" \in agent.mounts
       /\ "XDG_CONFIG_HOME" \in env("agent")
            <=> "config" \in agent.mounts /\ "config" \in DOMAIN stored.initContainers
       /\ \A n \in DOMAIN stored.containers : "AGENT_CONFIG_CONTENT" \notin env(n)

\* What a pass leaves of a list of containers: every one it did not build, and
\* of those it keeps the fields it does not decide.
Kept(f, g) ==
  /\ \A n \in DOMAIN f \cap DOMAIN g : g[n].other = f[n].other
  /\ \A n \in DOMAIN f \cap Added : n \in DOMAIN g /\ g[n] = f[n]
  /\ "credentials" \in DOMAIN f =>
       "credentials" \in DOMAIN g /\ g["credentials"].env = f["credentials"].env

\* applyAgent "leaves every other field as it found it": a pass removes no
\* container and no init container it did not build, and changes no field it
\* does not decide of one it keeps, the environment of the init container that
\* copies the credential included, nor the volume claim.
OthersKept ==
  [][reconcileStatefulSet /\ stored.created =>
       /\ stored'.claim = stored.claim
       /\ Kept(stored.containers, stored'.containers)
       /\ Kept(stored.initContainers, stored'.initContainers)]_vars
=============================================================================
