--------------------------- MODULE WorkloadProofs ---------------------------
(***************************************************************************)
(* What TLAPS proves of Workload for any images, names, sizes and pin sets: *)
(* applyAgent, written as the code is, as a chain of edits in place, is one *)
(* function of the spec, the configuration and the little it keeps; and     *)
(* with it the invariant WInv, from which Workload's properties follow.     *)
(***************************************************************************)
EXTENDS Workload, TLAPS

\* A container, its fields written or not.
Container ==
  [image: Images \cup CopyImages \cup WorkspaceImages \cup {"hand", NoImage},
   env: SUBSET EnvVar, mounts: SUBSET (Volumes \cup Claimed),
   fixed: {"written", "hand", "unset"}, other: {"defaulted", "hand", "unset"}]

Written(image, env, mounts, other) ==
  [image |-> image, env |-> env, mounts |-> mounts, fixed |-> "written", other |-> other]

Volume == [source: SecretNames \cup ToolsImages \cup {"memory", "disk"}, mode: {"named", "none"}]

StatefulSet(created, claim, replicas, volumes, initContainers, containers) ==
  [created |-> created, claim |-> claim, replicas |-> replicas, volumes |-> volumes,
   initContainers |-> initContainers, containers |-> containers]

\* A container is what its fields are.
LEMMA WrittenIs ==
  ASSUME NEW image, NEW env, NEW mounts, NEW other,
         NEW c \in [image: {image}, env: {env}, mounts: {mounts}, fixed: {"written"},
                    other: {other}]
  PROVE  c = Written(image, env, mounts, other)
BY DEF Written

\* The fields decided of a container replace what it held, and the rest stays.
LEMMA WrittenOver ==
  ASSUME NEW c \in Container, NEW image, NEW env, NEW mounts
  PROVE  [c EXCEPT !.image = image, !.fixed = "written", !.env = env, !.mounts = mounts]
           = Written(image, env, mounts, c.other)
<1>1. [c EXCEPT !.image = image, !.fixed = "written", !.env = env, !.mounts = mounts]
        \in [image: {image}, env: {env}, mounts: {mounts}, fixed: {"written"}, other: {c.other}]
  BY Zenon DEF Container
<1>2. PICK x, other : /\ other = c.other
                      /\ x = [c EXCEPT !.image = image, !.fixed = "written", !.env = env,
                                       !.mounts = mounts]
  BY Zenon
<1>3. x \in [image: {image}, env: {env}, mounts: {mounts}, fixed: {"written"}, other: {other}]
  BY <1>1, <1>2, Zenon
<1>4. x = Written(image, env, mounts, other)
  BY <1>3, WrittenIs
<1> QED
  BY <1>2, <1>4, Zenon

\* ... the environment included, where it is not decided.
LEMMA WrittenAround ==
  ASSUME NEW c \in Container, NEW image, NEW mounts
  PROVE  [c EXCEPT !.image = image, !.fixed = "written", !.mounts = mounts]
           = Written(image, c.env, mounts, c.other)
<1>1. [c EXCEPT !.image = image, !.fixed = "written", !.mounts = mounts]
        \in [image: {image}, env: {c.env}, mounts: {mounts}, fixed: {"written"}, other: {c.other}]
  BY Zenon DEF Container
<1> QED
  BY <1>1, WrittenIs, Zenon

\* So is a StatefulSet, a record with these fields.
Whole(s) ==
  s \in [created: {s.created}, claim: {s.claim}, replicas: {s.replicas}, volumes: {s.volumes},
         initContainers: {s.initContainers}, containers: {s.containers}]

LEMMA StatefulSetIs ==
  ASSUME NEW created, NEW claim, NEW replicas, NEW volumes, NEW inits, NEW containers,
         NEW s \in [created: {created}, claim: {claim}, replicas: {replicas},
                    volumes: {volumes}, initContainers: {inits}, containers: {containers}]
  PROVE  s = StatefulSet(created, claim, replicas, volumes, inits, containers)
BY DEF StatefulSet

LEMMA StatefulSetHas ==
  ASSUME NEW created, NEW claim, NEW replicas, NEW volumes, NEW inits, NEW containers, NEW s,
         s = StatefulSet(created, claim, replicas, volumes, inits, containers)
  PROVE  /\ Whole(s)
         /\ s.created = created /\ s.claim = claim /\ s.replicas = replicas
         /\ s.volumes = volumes /\ s.initContainers = inits /\ s.containers = containers
BY DEF StatefulSet, Whole

LEMMA SameParts ==
  ASSUME NEW s, NEW p, Whole(s), Whole(p), p.created = s.created, p.claim = s.claim,
         p.replicas = s.replicas, p.volumes = s.volumes, p.initContainers = s.initContainers,
         p.containers = s.containers
  PROVE  p = s
BY DEF Whole

\* What is in a container that is found, or made, is typed.
LEMMA Named ==
  ASSUME NEW f, NEW n, f \in [DOMAIN f -> Container]
  PROVE  /\ containerNamed(f, n) \in Container
         /\ n \notin DOMAIN f => /\ containerNamed(f, n).other = "unset"
                                 /\ containerNamed(f, n).env = {}
         /\ n \in DOMAIN f => containerNamed(f, n) = f[n]
<1>1. NewContainer \in Container /\ NewContainer.other = "unset" /\ NewContainer.env = {}
  BY DEF NewContainer, Container
<1> QED
  BY <1>1 DEF containerNamed

-----------------------------------------------------------------------------
\* What applyAgent does in its first step ...
LEMMA ClaimApplied ==
  ASSUME NEW a, NEW s, Whole(s)
  PROVE  applyClaim(a, s)
           = StatefulSet(TRUE, IF s.created THEN s.claim ELSE a.size, 1, s.volumes,
                         s.initContainers, s.containers)
<1>1. ASSUME NEW created, NEW claim, NEW replicas
      PROVE  [s EXCEPT !.created = created, !.replicas = replicas, !.claim = claim]
               = StatefulSet(created, claim, replicas, s.volumes, s.initContainers, s.containers)
  <2>1. [s EXCEPT !.created = created, !.replicas = replicas, !.claim = claim]
          \in [created: {created}, claim: {claim}, replicas: {replicas}, volumes: {s.volumes},
               initContainers: {s.initContainers}, containers: {s.containers}]
    BY Zenon DEF Whole
  <2> QED
    BY <2>1, StatefulSetIs, Zenon
<1>2. CASE s.created
  BY <1>1, <1>2, Zenon DEF applyClaim
<1>3. CASE ~s.created
  BY <1>1, <1>3, Zenon DEF applyClaim
<1> QED
  BY <1>2, <1>3, Zenon

\* ... in the second ...
LEMMA CredentialsApplied ==
  ASSUME NEW a, NEW r, NEW s, Whole(s), NEW inits,
         s.initContainers = inits, inits \in [DOMAIN inits -> Container]
  PROVE  LET found == containerNamed(inits, "credentials")
         IN applyCredentials(a, r, s)
              = StatefulSet(s.created, s.claim, s.replicas, credentialsVolumes(a),
                  Put(inits, "credentials",
                      Written(r.CopyImage, found.env, {"credentials-secret", "credentials"},
                              found.other)),
                  s.containers)
<1>1. PICK found \in Container : found = containerNamed(inits, "credentials")
  BY Named
<1>2. PICK c : c = Written(r.CopyImage, found.env, {"credentials-secret", "credentials"},
                           found.other)
  OBVIOUS
<1>3. c = [found EXCEPT !.image = r.CopyImage, !.fixed = "written",
                        !.mounts = {"credentials-secret", "credentials"}]
  BY <1>2, WrittenAround, Zenon
<1>4. PICK put, volumes : put = Put(inits, "credentials", c) /\ volumes = credentialsVolumes(a)
  OBVIOUS
<1>5. applyCredentials(a, r, s) = [s EXCEPT !.volumes = volumes, !.initContainers = put]
  BY <1>1, <1>3, <1>4, Zenon DEF applyCredentials
<1>6. [s EXCEPT !.volumes = volumes, !.initContainers = put]
        \in [created: {s.created}, claim: {s.claim}, replicas: {s.replicas}, volumes: {volumes},
             initContainers: {put}, containers: {s.containers}]
  BY Zenon DEF Whole
<1> QED
  BY <1>1, <1>2, <1>4, <1>5, <1>6, StatefulSetIs, Zenon

AgentMounts(r) == {"credentials", "state"} \cup (IF r.ToolsImage = NoImage THEN {} ELSE {"tools"})

Tooled(r, volumes) ==
  IF r.ToolsImage = NoImage THEN volumes
  ELSE Put(volumes, "tools", [source |-> r.ToolsImage, mode |-> "named"])

\* ... in the third ...
LEMMA ContainerApplied ==
  ASSUME NEW a, NEW r, NEW s, Whole(s), NEW containers,
         s.containers = containers, containers \in [DOMAIN containers -> Container]
  PROVE  applyContainer(a, r, s)
           = StatefulSet(s.created, s.claim, s.replicas,
               Tooled(r, s.volumes), s.initContainers,
               Put(containers, "agent",
                   Written(a.image, agentEnv(r), AgentMounts(r),
                           containerNamed(containers, "agent").other)))
<1>1. PICK found \in Container : found = containerNamed(containers, "agent")
  BY Named
<1>2. ASSUME NEW mounts
      PROVE  [found EXCEPT !.image = a.image, !.fixed = "written", !.env = agentEnv(r),
                           !.mounts = mounts]
               = Written(a.image, agentEnv(r), mounts, found.other)
  BY WrittenOver, Zenon
<1>3. ASSUME NEW put, NEW volumes
      PROVE  [s EXCEPT !.containers = put, !.volumes = volumes]
               = StatefulSet(s.created, s.claim, s.replicas, volumes, s.initContainers, put)
  <2>1. [s EXCEPT !.containers = put, !.volumes = volumes]
          \in [created: {s.created}, claim: {s.claim}, replicas: {s.replicas},
               volumes: {volumes}, initContainers: {s.initContainers}, containers: {put}]
    BY Zenon DEF Whole
  <2> QED
    BY <2>1, StatefulSetIs, Zenon
<1>v. ASSUME NEW put  PROVE [s EXCEPT !.containers = put].volumes = s.volumes
  BY Zenon DEF Whole
<1>4. CASE r.ToolsImage = NoImage
  <2>1. AgentMounts(r) = {"credentials", "state"} \cup {}
    BY <1>4, Zenon DEF AgentMounts
  <2>2. PICK put : put = Put(containers, "agent",
                            [found EXCEPT !.image = a.image, !.fixed = "written",
                               !.env = agentEnv(r), !.mounts = {"credentials", "state"} \cup {}])
    OBVIOUS
  <2>3. applyContainer(a, r, s)
          = [s EXCEPT !.containers = put, !.volumes = [s EXCEPT !.containers = put].volumes]
    BY <1>1, <1>4, <2>2, Zenon DEF applyContainer
  <2>4. put = Put(containers, "agent",
                  Written(a.image, agentEnv(r), AgentMounts(r),
                          containerNamed(containers, "agent").other))
    BY <1>1, <1>2, <2>1, <2>2, Zenon
  <2>5. applyContainer(a, r, s)
          = StatefulSet(s.created, s.claim, s.replicas, Tooled(r, s.volumes),
                        s.initContainers, put)
    BY <1>3, <1>v, <1>4, <2>3, Zenon DEF Tooled
  <2> QED
    BY <2>4, <2>5, Zenon
<1>5. CASE r.ToolsImage # NoImage
  <2>1. AgentMounts(r) = {"credentials", "state"} \cup {"tools"}
    BY <1>5, Zenon DEF AgentMounts
  <2>2. PICK put : put = Put(containers, "agent",
                            [found EXCEPT !.image = a.image, !.fixed = "written",
                               !.env = agentEnv(r),
                               !.mounts = {"credentials", "state"} \cup {"tools"}])
    OBVIOUS
  <2>3. applyContainer(a, r, s)
          = [s EXCEPT !.containers = put,
                      !.volumes = Put([s EXCEPT !.containers = put].volumes, "tools",
                                      [source |-> r.ToolsImage, mode |-> "named"])]
    BY <1>1, <1>5, <2>2, Zenon DEF applyContainer
  <2>4. put = Put(containers, "agent",
                  Written(a.image, agentEnv(r), AgentMounts(r),
                          containerNamed(containers, "agent").other))
    BY <1>1, <1>2, <2>1, <2>2, Zenon
  <2>5. applyContainer(a, r, s)
          = StatefulSet(s.created, s.claim, s.replicas, Tooled(r, s.volumes),
                        s.initContainers, put)
    BY <1>3, <1>v, <1>5, <2>3, Zenon DEF Tooled
  <2> QED
    BY <2>4, <2>5, Zenon
<1> QED
  BY <1>4, <1>5

Configured(a, volumes) ==
  IF a.pins = NoPins THEN volumes
  ELSE Put(volumes, "config", [source |-> "disk", mode |-> "none"])

ConfigContainer(a, r, other) ==
  Written(r.CopyImage, {<<"AGENT_CONFIG_CONTENT", renderAgentConfig(a.pins)>>}, {"config"}, other)

\* The init containers with the one that writes the file, or without it, and
\* the containers with the agent's way to it.
ConfigAdded(a, r, f) ==
  IF a.pins = NoPins THEN Without(f, "config")
  ELSE Put(f, "config", ConfigContainer(a, r, containerNamed(f, "config").other))

HomeAdded(a, r, f, other) ==
  IF a.pins = NoPins THEN f
  ELSE Put(f, "agent", Written(a.image, agentEnv(r) \cup {<<"XDG_CONFIG_HOME", "config">>},
                               AgentMounts(r) \cup {"config"}, other))

\* ... in the fourth, whose write through the pointer to the agent's container
\* arrives, for no container was appended since ...
LEMMA ToolPinsApplied ==
  ASSUME NEW a, NEW r, NEW s, Whole(s), NEW other,
         s.initContainers \in [DOMAIN s.initContainers -> Container],
         s.containers["agent"] = Written(a.image, agentEnv(r), AgentMounts(r), other)
  PROVE  applyToolPins(a, r, s, DOMAIN s.containers)
           = StatefulSet(s.created, s.claim, s.replicas, Configured(a, s.volumes),
                         ConfigAdded(a, r, s.initContainers), HomeAdded(a, r, s.containers, other))
<1>i. PICK inits, containers : inits = s.initContainers /\ containers = s.containers
  OBVIOUS
<1>e. PICK image, env, mounts : image = a.image /\ env = agentEnv(r) /\ mounts = AgentMounts(r)
  OBVIOUS
<1>t. /\ inits \in [DOMAIN inits -> Container]
      /\ containers["agent"] = Written(image, env, mounts, other)
  BY <1>i, <1>e
<1>r. SUFFICES applyToolPins(a, r, s, DOMAIN containers)
           = StatefulSet(s.created, s.claim, s.replicas, Configured(a, s.volumes),
               IF a.pins = NoPins THEN Without(inits, "config")
               ELSE Put(inits, "config",
                        ConfigContainer(a, r, containerNamed(inits, "config").other)),
               IF a.pins = NoPins THEN containers
               ELSE Put(containers, "agent",
                        Written(image, env \cup {<<"XDG_CONFIG_HOME", "config">>},
                                mounts \cup {"config"}, other)))
  BY <1>i, <1>e, Zenon DEF ConfigAdded, HomeAdded
<1>1. CASE a.pins = NoPins
  <2>1. ASSUME NEW put
        PROVE  [s EXCEPT !.initContainers = put]
                 = StatefulSet(s.created, s.claim, s.replicas, s.volumes, put, s.containers)
    <3>1. [s EXCEPT !.initContainers = put]
            \in [created: {s.created}, claim: {s.claim}, replicas: {s.replicas},
                 volumes: {s.volumes}, initContainers: {put}, containers: {s.containers}]
      BY Zenon DEF Whole
    <3> QED
      BY <3>1, StatefulSetIs, Zenon
  <2>2. applyToolPins(a, r, s, DOMAIN containers)
          = [s EXCEPT !.initContainers = Without(inits, "config")]
    BY <1>i, <1>1, Zenon DEF applyToolPins
  <2> QED
    BY <1>i, <1>1, <2>1, <2>2, Zenon DEF Configured
<1>2. CASE a.pins # NoPins
  <2>1. ASSUME NEW v, NEW i, NEW c
        PROVE  /\ [s EXCEPT !.volumes = v, !.initContainers = i, !.containers = c]
                    = StatefulSet(s.created, s.claim, s.replicas, v, i, c)
               /\ [s EXCEPT !.volumes = v].initContainers = inits
               /\ [s EXCEPT !.volumes = v, !.initContainers = i].containers = containers
    <3>1. [s EXCEPT !.volumes = v, !.initContainers = i, !.containers = c]
            \in [created: {s.created}, claim: {s.claim}, replicas: {s.replicas},
                 volumes: {v}, initContainers: {i}, containers: {c}]
      BY Zenon DEF Whole
    <3>2. [s EXCEPT !.volumes = v].initContainers = inits
      BY <1>i, Zenon DEF Whole
    <3>3. [s EXCEPT !.volumes = v, !.initContainers = i].containers = containers
      BY <1>i, Zenon DEF Whole
    <3>4. [s EXCEPT !.volumes = v, !.initContainers = i, !.containers = c]
            = StatefulSet(s.created, s.claim, s.replicas, v, i, c)
      <4>1. PICK x : x = [s EXCEPT !.volumes = v, !.initContainers = i, !.containers = c]
        BY Zenon
      <4>2. x \in [created: {s.created}, claim: {s.claim}, replicas: {s.replicas},
                   volumes: {v}, initContainers: {i}, containers: {c}]
        BY <3>1, <4>1, Zenon
      <4>3. x = StatefulSet(s.created, s.claim, s.replicas, v, i, c)
        BY <4>2, StatefulSetIs, Zenon
      <4> QED
        BY <4>1, <4>3, Zenon
    <3> QED
      BY <3>2, <3>3, <3>4, Zenon
  <2>2. PICK found \in Container : found = containerNamed(inits, "config")
    BY <1>t, Named
  <2>3. PICK text, home : /\ text = {<<"AGENT_CONFIG_CONTENT", renderAgentConfig(a.pins)>>}
                          /\ home = {<<"XDG_CONFIG_HOME", "config">>}
    BY Zenon
  <2>m. PICK mount : mount = {"config"}
    BY Zenon
  <2>4. PICK writer : writer = ConfigContainer(a, r, found.other)
    OBVIOUS
  <2>4a. writer = [found EXCEPT !.image = r.CopyImage, !.fixed = "written", !.env = text,
                                !.mounts = mount]
    BY <2>3, <2>4, <2>m, WrittenOver, Zenon DEF ConfigContainer
  <2>5. PICK agent : agent = Written(image, env \cup home, mounts \cup mount, other)
    OBVIOUS
  <2>o. PICK old \in [image: {image}, env: {env}, mounts: {mounts}, fixed: {"written"},
                      other: {other}] : old = containers["agent"]
    BY <1>t DEF Written
  <2>5a. agent = [old EXCEPT !.mounts = @ \cup mount, !.env = @ \cup home]
    <3>1. [old EXCEPT !.mounts = @ \cup mount, !.env = @ \cup home]
            \in [image: {image}, env: {env \cup home}, mounts: {mounts \cup mount},
                 fixed: {"written"}, other: {other}]
      BY Zenon
    <3>2. PICK x, e, m : /\ x = [old EXCEPT !.mounts = @ \cup mount, !.env = @ \cup home]
                         /\ e = env \cup home /\ m = mounts \cup mount
      BY Zenon
    <3>3. x \in [image: {image}, env: {e}, mounts: {m}, fixed: {"written"}, other: {other}]
      BY <3>1, <3>2, Zenon
    <3>4. x = Written(image, e, m, other)
      BY <3>3, WrittenIs
    <3> QED
      BY <2>5, <3>2, <3>4, Zenon
  <2>6. PICK v, i, c : /\ v = Put(s.volumes, "config", [source |-> "disk", mode |-> "none"])
                       /\ i = Put(inits, "config", writer)
                       /\ c = Put(containers, "agent", agent)
    OBVIOUS
  <2>7. Through(DOMAIN containers, containers, "agent", agent) = c
    BY <2>6 DEF Through
  <2>8. applyToolPins(a, r, s, DOMAIN containers)
          = [s EXCEPT !.volumes = v, !.initContainers = i, !.containers = c]
    BY <1>i, <1>2, <2>2, <2>3, <2>m, <2>4a, <2>o, <2>5a, <2>6, <2>7, Zenon DEF applyToolPins
  <2>9. v = Configured(a, s.volumes)
    BY <1>2, <2>6 DEF Configured
  <2>10. i = Put(inits, "config", ConfigContainer(a, r, containerNamed(inits, "config").other))
    BY <2>2, <2>4, <2>6
  <2>11. c = Put(containers, "agent", Written(image, env \cup {<<"XDG_CONFIG_HOME", "config">>},
                                             mounts \cup {"config"}, other))
    BY <2>3, <2>m, <2>5, <2>6
  <2>12. applyToolPins(a, r, s, DOMAIN containers)
           = StatefulSet(s.created, s.claim, s.replicas, v, i, c)
    BY <2>1, <2>8, Zenon
  <2> QED
    BY <1>2, <2>9, <2>10, <2>11, <2>12, Zenon
<1> QED
  BY <1>1, <1>2

WorkspaceContainer(r, other) ==
  Written(r.WorkspaceImage,
          {<<"GAGENT_ADDR", "loopback">>, <<"GAGENT_WORKSPACE", "state">>,
           <<"GAGENT_EXEC_UID", "user">>},
          {"state"}, other)

\* ... and in the last.
LEMMA WorkspaceApplied ==
  ASSUME NEW r, NEW s, Whole(s), NEW containers,
         s.containers = containers, containers \in [DOMAIN containers -> Container]
  PROVE  applyWorkspace(r, s)
           = StatefulSet(s.created, s.claim, s.replicas, s.volumes, s.initContainers,
               IF r.WorkspaceImage = NoImage THEN Without(containers, "workspace")
               ELSE Put(containers, "workspace",
                        WorkspaceContainer(r, containerNamed(containers, "workspace").other)))
<1>1. ASSUME NEW put
      PROVE  [s EXCEPT !.containers = put]
               = StatefulSet(s.created, s.claim, s.replicas, s.volumes, s.initContainers, put)
  <2>1. [s EXCEPT !.containers = put]
          \in [created: {s.created}, claim: {s.claim}, replicas: {s.replicas},
               volumes: {s.volumes}, initContainers: {s.initContainers}, containers: {put}]
    BY Zenon DEF Whole
  <2> QED
    BY <2>1, StatefulSetIs, Zenon
<1>2. CASE r.WorkspaceImage = NoImage
  BY <1>1, <1>2, Zenon DEF applyWorkspace
<1>3. CASE r.WorkspaceImage # NoImage
  <2>1. PICK found \in Container : found = containerNamed(containers, "workspace")
    BY Named
  <2>2. PICK env : env = {<<"GAGENT_ADDR", "loopback">>, <<"GAGENT_WORKSPACE", "state">>,
                          <<"GAGENT_EXEC_UID", "user">>}
    BY Zenon
  <2>3. PICK c : c = [found EXCEPT !.image = r.WorkspaceImage, !.fixed = "written",
                                   !.env = env, !.mounts = {"state"}]
    OBVIOUS
  <2>4. applyWorkspace(r, s) = [s EXCEPT !.containers = Put(containers, "workspace", c)]
    BY <1>3, <2>1, <2>2, <2>3, Zenon DEF applyWorkspace
  <2>5. c = WorkspaceContainer(r, found.other)
    BY <2>2, <2>3, WrittenOver, Zenon DEF WorkspaceContainer
  <2> QED
    BY <1>1, <1>3, <2>1, <2>4, <2>5, Zenon
<1> QED
  BY <1>2, <1>3

-----------------------------------------------------------------------------
LEMMA PutTyped ==
  ASSUME NEW S, NEW f, f \in [DOMAIN f -> S], NEW n, NEW e \in S
  PROVE  Put(f, n, e) \in [DOMAIN Put(f, n, e) -> S]
BY DEF Put

LEMMA WrittenTyped ==
  ASSUME NEW image \in Images \cup CopyImages \cup WorkspaceImages \cup {"hand", NoImage},
         NEW env \in SUBSET EnvVar, NEW mounts \in SUBSET (Volumes \cup Claimed),
         NEW other \in {"defaulted", "hand", "unset"}
  PROVE  /\ Written(image, env, mounts, other) \in Container
         /\ Written(image, env, mounts, other).image = image
         /\ Written(image, env, mounts, other).env = env
         /\ Written(image, env, mounts, other).mounts = mounts
         /\ Written(image, env, mounts, other).fixed = "written"
         /\ Written(image, env, mounts, other).other = other
BY DEF Written, Container

\* The containers the operator builds.
CredentialsContainer(r, found) ==
  Written(r.CopyImage, found.env, {"credentials-secret", "credentials"}, found.other)

FullEnv(a, r) ==
  agentEnv(r) \cup (IF a.pins = NoPins THEN {} ELSE {<<"XDG_CONFIG_HOME", "config">>})

FullMounts(a, r) == AgentMounts(r) \cup (IF a.pins = NoPins THEN {} ELSE {"config"})

AgentContainer(a, r, other) == Written(a.image, FullEnv(a, r), FullMounts(a, r), other)

LEMMA EnvTyped ==
  ASSUME NEW a \in AgentSpec, NEW r \in AgentReconciler
  PROVE  /\ agentEnv(r) \in SUBSET EnvVar
         /\ FullEnv(a, r) \in SUBSET EnvVar
         /\ {<<"AGENT_CONFIG_CONTENT", renderAgentConfig(a.pins)>>} \in SUBSET EnvVar
         /\ {<<"GAGENT_ADDR", "loopback">>, <<"GAGENT_WORKSPACE", "state">>,
             <<"GAGENT_EXEC_UID", "user">>} \in SUBSET EnvVar
         /\ {<<"HAND", "hand">>} \in SUBSET EnvVar
         /\ {} \in SUBSET EnvVar
<1>1. /\ <<"GAGENT_TOOLS_DIR", "tools">> \in EnvVar
      /\ <<"GAGENT_WORKSPACE_ADDR", "loopback">> \in EnvVar
      /\ <<"XDG_CONFIG_HOME", "config">> \in EnvVar
      /\ <<"HAND", "hand">> \in EnvVar
      /\ <<"GAGENT_ADDR", "loopback">> \in EnvVar
      /\ <<"GAGENT_WORKSPACE", "state">> \in EnvVar
      /\ <<"GAGENT_EXEC_UID", "user">> \in EnvVar
  BY DEF EnvVar
<1>2. a.pins \in PinSets
  BY DEF AgentSpec
<1>3. <<"AGENT_CONFIG_CONTENT", renderAgentConfig(a.pins)>> \in EnvVar
  BY <1>2, Zenon DEF EnvVar
<1>4. agentEnv(r) \in SUBSET EnvVar
  BY <1>1 DEF agentEnv
<1>5. FullEnv(a, r) \in SUBSET EnvVar
  BY <1>1, <1>4 DEF FullEnv
<1> QED
  BY <1>1, <1>3, <1>4, <1>5

LEMMA BuiltTyped ==
  ASSUME NEW a \in AgentSpec, NEW r \in AgentReconciler,
         NEW other \in {"defaulted", "hand", "unset"}, NEW found \in Container
  PROVE  /\ CredentialsContainer(r, found) \in Container
         /\ Written(a.image, agentEnv(r), AgentMounts(r), other) \in Container
         /\ AgentContainer(a, r, other) \in Container
         /\ ConfigContainer(a, r, other) \in Container
         /\ r.WorkspaceImage # NoImage => WorkspaceContainer(r, other) \in Container
<1>1. /\ r.CopyImage \in CopyImages /\ a.image \in Images
      /\ r.WorkspaceImage # NoImage => r.WorkspaceImage \in WorkspaceImages
  BY DEF AgentSpec, AgentReconciler
<1>2. found.env \in SUBSET EnvVar /\ found.other \in {"defaulted", "hand", "unset"}
  BY DEF Container
<1>3. /\ {"credentials-secret", "credentials"} \in SUBSET (Volumes \cup Claimed)
      /\ AgentMounts(r) \in SUBSET (Volumes \cup Claimed)
      /\ FullMounts(a, r) \in SUBSET (Volumes \cup Claimed)
      /\ {"config"} \in SUBSET (Volumes \cup Claimed)
      /\ {"state"} \in SUBSET (Volumes \cup Claimed)
  BY DEF Volumes, Claimed, AgentMounts, FullMounts
<1>4. CredentialsContainer(r, found) \in Container
  BY <1>1, <1>2, <1>3, WrittenTyped DEF CredentialsContainer
<1>5. Written(a.image, agentEnv(r), AgentMounts(r), other) \in Container
  <2>1. PICK env \in SUBSET EnvVar : env = agentEnv(r)
    BY EnvTyped, Zenon
  <2>2. PICK mounts \in SUBSET (Volumes \cup Claimed) : mounts = AgentMounts(r)
    BY <1>3, Zenon
  <2>3. Written(a.image, env, mounts, other) \in Container
    BY <1>1, WrittenTyped
  <2> QED
    BY <2>1, <2>2, <2>3, Zenon
<1>6. AgentContainer(a, r, other) \in Container
  <2>1. PICK env \in SUBSET EnvVar : env = FullEnv(a, r)
    BY EnvTyped, Zenon
  <2>2. PICK mounts \in SUBSET (Volumes \cup Claimed) : mounts = FullMounts(a, r)
    BY <1>3, Zenon
  <2>3. Written(a.image, env, mounts, other) \in Container
    BY <1>1, WrittenTyped
  <2> QED
    BY <2>1, <2>2, <2>3, Zenon DEF AgentContainer
<1>7. ConfigContainer(a, r, other) \in Container
  BY <1>1, <1>3, EnvTyped, WrittenTyped DEF ConfigContainer
<1>8. ASSUME r.WorkspaceImage # NoImage  PROVE WorkspaceContainer(r, other) \in Container
  <2>1. PICK env \in SUBSET EnvVar : env = {<<"GAGENT_ADDR", "loopback">>,
                                            <<"GAGENT_WORKSPACE", "state">>,
                                            <<"GAGENT_EXEC_UID", "user">>}
    BY EnvTyped, Zenon
  <2>2. r.WorkspaceImage \in WorkspaceImages
    BY <1>1, <1>8
  <2>3. Written(r.WorkspaceImage, env, {"state"}, other) \in Container
    BY <1>3, <2>2, WrittenTyped
  <2> QED
    BY <2>1, <2>3, Zenon DEF WorkspaceContainer
<1> QED
  BY <1>4, <1>5, <1>6, <1>7, <1>8

-----------------------------------------------------------------------------
\* What the whole of applyAgent makes of the volumes, of the init containers it
\* finds and of the containers it finds.
VolumesOf(a, r) == Configured(a, Tooled(r, credentialsVolumes(a)))

Credentialed(r, f) ==
  Put(f, "credentials", CredentialsContainer(r, containerNamed(f, "credentials")))

InitsOf(a, r, f) == ConfigAdded(a, r, Credentialed(r, f))

Contained(a, r, f) ==
  Put(f, "agent", Written(a.image, agentEnv(r), AgentMounts(r), containerNamed(f, "agent").other))

Pinned(a, r, f) == HomeAdded(a, r, Contained(a, r, f), containerNamed(f, "agent").other)

ContainersOf(a, r, f) ==
  IF r.WorkspaceImage = NoImage THEN Without(Pinned(a, r, f), "workspace")
  ELSE Put(Pinned(a, r, f), "workspace",
           WorkspaceContainer(r, containerNamed(Pinned(a, r, f), "workspace").other))

\* Functions of containers stay functions of containers.
LEMMA MadeTyped ==
  ASSUME NEW a \in AgentSpec, NEW r \in AgentReconciler, NEW f, f \in [DOMAIN f -> Container]
  PROVE  /\ Credentialed(r, f) \in [DOMAIN Credentialed(r, f) -> Container]
         /\ Contained(a, r, f) \in [DOMAIN Contained(a, r, f) -> Container]
         /\ Contained(a, r, f)["agent"]
              = Written(a.image, agentEnv(r), AgentMounts(r), containerNamed(f, "agent").other)
<1>1. PICK other \in {"defaulted", "hand", "unset"} : other = containerNamed(f, "agent").other
  BY Named DEF Container
<1>2. PICK found \in Container : found = containerNamed(f, "credentials")
  BY Named
<1>3. Credentialed(r, f) \in [DOMAIN Credentialed(r, f) -> Container]
  BY <1>2, BuiltTyped, PutTyped DEF Credentialed
<1>4. PICK e \in Container : e = Written(a.image, agentEnv(r), AgentMounts(r), other)
  BY <1>2, BuiltTyped
<1>5. Contained(a, r, f) = Put(f, "agent", e)
  BY <1>1, <1>4, Zenon DEF Contained
<1>6. /\ Put(f, "agent", e) \in [DOMAIN Put(f, "agent", e) -> Container]
      /\ Put(f, "agent", e)["agent"] = e
  BY DEF Put
<1> QED
  BY <1>1, <1>3, <1>4, <1>5, <1>6, Zenon

\* The agent's container is the same whether it is written once or twice.
LEMMA PinnedIs ==
  ASSUME NEW a \in AgentSpec, NEW r \in AgentReconciler, NEW f, f \in [DOMAIN f -> Container]
  PROVE  \E e \in Container :
           /\ e = AgentContainer(a, r, containerNamed(f, "agent").other)
           /\ Pinned(a, r, f) = Put(f, "agent", e)
<1>1. PICK other \in {"defaulted", "hand", "unset"} : other = containerNamed(f, "agent").other
  BY Named DEF Container
<1>2. NewContainer \in Container
  BY DEF NewContainer, Container
<1>3. PICK e \in Container : e = AgentContainer(a, r, other)
  BY <1>2, BuiltTyped
<1>4. CASE a.pins = NoPins
  <2>1. FullEnv(a, r) = agentEnv(r) /\ FullMounts(a, r) = AgentMounts(r)
    BY <1>4 DEF FullEnv, FullMounts
  <2>2. Pinned(a, r, f) = Put(f, "agent", e)
    BY <1>1, <1>3, <1>4, <2>1, Zenon DEF Pinned, HomeAdded, Contained, AgentContainer
  <2> QED
    BY <1>1, <1>3, <2>2
<1>5. CASE a.pins # NoPins
  <2>1. /\ FullEnv(a, r) = agentEnv(r) \cup {<<"XDG_CONFIG_HOME", "config">>}
        /\ FullMounts(a, r) = AgentMounts(r) \cup {"config"}
    BY <1>5, Zenon DEF FullEnv, FullMounts
  <2>2. PICK c : c = Written(a.image, agentEnv(r), AgentMounts(r), other)
    BY Zenon
  <2>3. Pinned(a, r, f) = Put(Put(f, "agent", c), "agent", e)
    BY <1>1, <1>3, <1>5, <2>1, <2>2, Zenon DEF Pinned, HomeAdded, Contained, AgentContainer
  <2>4. Put(Put(f, "agent", c), "agent", e) = Put(f, "agent", e)
    BY DEF Put
  <2> QED
    BY <1>1, <1>3, <2>3, <2>4
<1> QED
  BY <1>4, <1>5

LEMMA PinnedTyped ==
  ASSUME NEW a \in AgentSpec, NEW r \in AgentReconciler, NEW f, f \in [DOMAIN f -> Container]
  PROVE  Pinned(a, r, f) \in [DOMAIN Pinned(a, r, f) -> Container]
<1>1. PICK e \in Container : Pinned(a, r, f) = Put(f, "agent", e)
  BY PinnedIs, Zenon
<1> QED
  BY <1>1, PutTyped

\* applyAgent is a function of the spec, the configuration, the claim of a
\* StatefulSet that exists, and the containers it finds.
LEMMA ApplyAgentIs ==
  ASSUME NEW a \in AgentSpec, NEW r \in AgentReconciler, NEW s, Whole(s),
         s.initContainers \in [DOMAIN s.initContainers -> Container],
         s.containers \in [DOMAIN s.containers -> Container]
  PROVE  applyAgent(a, r, s)
           = StatefulSet(TRUE, IF s.created THEN s.claim ELSE a.size, 1, VolumesOf(a, r),
                         InitsOf(a, r, s.initContainers), ContainersOf(a, r, s.containers))
<1>1. PICK claim : claim = IF s.created THEN s.claim ELSE a.size
  OBVIOUS
<1>2. PICK created : created = TRUE
  OBVIOUS
<1>i. PICK inits, containers : inits = s.initContainers /\ containers = s.containers
  OBVIOUS
<1>3. PICK s1 : s1 = applyClaim(a, s)
  OBVIOUS
<1>4. s1 = StatefulSet(created, claim, 1, s.volumes, inits, containers)
  BY <1>1, <1>2, <1>3, <1>i, ClaimApplied, Zenon
<1>5. /\ Whole(s1) /\ s1.created = created /\ s1.claim = claim /\ s1.replicas = 1
      /\ s1.initContainers = inits /\ s1.containers = containers
  BY <1>4, StatefulSetHas
<1>6. PICK s2, inits2 : s2 = applyCredentials(a, r, s1) /\ inits2 = Credentialed(r, inits)
  OBVIOUS
<1>7. s2 = StatefulSet(created, claim, 1, credentialsVolumes(a), inits2, containers)
  BY <1>5, <1>6, <1>i, CredentialsApplied, Zenon DEF Credentialed, CredentialsContainer
<1>8. /\ Whole(s2) /\ s2.created = created /\ s2.claim = claim /\ s2.replicas = 1
      /\ s2.volumes = credentialsVolumes(a)
      /\ s2.initContainers = inits2 /\ s2.containers = containers
  BY <1>7, StatefulSetHas
<1>9. PICK built, containers3 : /\ built = applyContainer(a, r, s2)
                                /\ containers3 = Contained(a, r, containers)
  OBVIOUS
<1>10. built = StatefulSet(created, claim, 1, Tooled(r, credentialsVolumes(a)), inits2,
                           containers3)
  BY <1>8, <1>9, <1>i, ContainerApplied, Zenon DEF Contained
<1>11. /\ Whole(built) /\ built.created = created /\ built.claim = claim /\ built.replicas = 1
       /\ built.volumes = Tooled(r, credentialsVolumes(a))
       /\ built.initContainers = inits2 /\ built.containers = containers3
  BY <1>10, StatefulSetHas
<1>12. PICK s4, containers4 : /\ s4 = applyToolPins(a, r, built, DOMAIN containers3)
                              /\ containers4 = Pinned(a, r, containers)
  OBVIOUS
<1>13. PICK other : other = containerNamed(containers, "agent").other
  OBVIOUS
<1>t. inits \in [DOMAIN inits -> Container] /\ containers \in [DOMAIN containers -> Container]
  BY <1>i
<1>14. /\ inits2 \in [DOMAIN inits2 -> Container]
       /\ containers3["agent"] = Written(a.image, agentEnv(r), AgentMounts(r), other)
       /\ containers4 \in [DOMAIN containers4 -> Container]
  <2>1. inits2 \in [DOMAIN inits2 -> Container]
    BY <1>t, <1>6, MadeTyped, Zenon
  <2>2. containers3["agent"] = Written(a.image, agentEnv(r), AgentMounts(r), other)
    BY <1>t, <1>9, <1>13, MadeTyped, Zenon
  <2>3. containers4 \in [DOMAIN containers4 -> Container]
    BY <1>t, <1>12, PinnedTyped, Zenon
  <2> QED
    BY <2>1, <2>2, <2>3
<1>15. s4 = StatefulSet(created, claim, 1, VolumesOf(a, r), InitsOf(a, r, inits), containers4)
  <2>1. built.containers["agent"] = Written(a.image, agentEnv(r), AgentMounts(r), other)
    BY <1>11, <1>14
  <2>2. built.initContainers \in [DOMAIN built.initContainers -> Container]
    BY <1>11, <1>14
  <2>3. s4 = StatefulSet(created, claim, 1, Configured(a, built.volumes),
               ConfigAdded(a, r, inits2), HomeAdded(a, r, containers3, other))
    BY <1>11, <1>12, <2>1, <2>2, ToolPinsApplied, Zenon
  <2> QED
    BY <1>6, <1>9, <1>11, <1>12, <1>13, <2>3, Zenon DEF VolumesOf, InitsOf, Pinned
<1>16. /\ Whole(s4) /\ s4.created = created /\ s4.claim = claim /\ s4.replicas = 1
       /\ s4.volumes = VolumesOf(a, r)
       /\ s4.initContainers = InitsOf(a, r, inits) /\ s4.containers = containers4
  BY <1>15, StatefulSetHas
<1>17. applyWorkspace(r, s4)
         = StatefulSet(created, claim, 1, VolumesOf(a, r), InitsOf(a, r, inits),
                       ContainersOf(a, r, containers))
  <2>1. PICK v, i : v = VolumesOf(a, r) /\ i = InitsOf(a, r, inits)
    BY Zenon
  <2>2. applyWorkspace(r, s4)
          = StatefulSet(s4.created, s4.claim, s4.replicas, s4.volumes, s4.initContainers,
               IF r.WorkspaceImage = NoImage THEN Without(containers4, "workspace")
               ELSE Put(containers4, "workspace",
                        WorkspaceContainer(r, containerNamed(containers4, "workspace").other)))
    BY <1>14, <1>16, WorkspaceApplied, Zenon
  <2>3. applyWorkspace(r, s4)
          = StatefulSet(created, claim, 1, v, i, ContainersOf(a, r, containers))
    BY <1>12, <1>16, <2>1, <2>2, Zenon DEF ContainersOf
  <2> QED
    BY <2>1, <2>3, Zenon
<1>18. applyAgent(a, r, s) = applyWorkspace(r, s4)
  BY <1>3, <1>6, <1>9, <1>11, <1>12, Zenon DEF applyAgent
<1> QED
  BY <1>1, <1>2, <1>i, <1>17, <1>18, Zenon

-----------------------------------------------------------------------------
(***************************************************************************)
(* The inductive invariant.  Of what the API server holds it says which     *)
(* containers there may be, that each is finished, and which variables a    *)
(* sidecar may have.  Of a StatefulSet a pass left and nothing touched      *)
(* since it says that it is built: its parts are what applyAgent makes of   *)
(* them.                                                                    *)
(***************************************************************************)
Held(f, names) ==
  /\ f \in [DOMAIN f -> Container] /\ DOMAIN f \subseteq names
  /\ \A n \in DOMAIN f : IsContainer(f[n])

HeldVolumes(f) == f \in [DOMAIN f -> Volume] /\ DOMAIN f \subseteq Volumes

HeldInits(f) == Held(f, {"credentials", "config", "setup"})

HeldContainers(f) ==
  /\ Held(f, {"agent", "workspace", "sidecar"})
  /\ "sidecar" \in DOMAIN f => f["sidecar"].env \subseteq {<<"HAND", "hand">>}

Shape(s) ==
  /\ Whole(s)
  /\ s.created \in BOOLEAN
  /\ s.created => s.claim \in Sizes /\ s.replicas \in Nat \ {0}
  /\ HeldVolumes(s.volumes) /\ HeldInits(s.initContainers) /\ HeldContainers(s.containers)

BuiltInits(a, r, f) ==
  /\ f \in [DOMAIN f -> Container]
  /\ DOMAIN f \subseteq {"credentials", "config", "setup"}
  /\ "credentials" \in DOMAIN f /\ f["credentials"] = CredentialsContainer(r, f["credentials"])
  /\ "config" \in DOMAIN f <=> a.pins # NoPins
  /\ "config" \in DOMAIN f => f["config"] = ConfigContainer(a, r, f["config"].other)

BuiltContainers(a, r, f) ==
  /\ f \in [DOMAIN f -> Container]
  /\ DOMAIN f \subseteq {"agent", "workspace", "sidecar"}
  /\ "agent" \in DOMAIN f /\ f["agent"] = AgentContainer(a, r, f["agent"].other)
  /\ "workspace" \in DOMAIN f <=> r.WorkspaceImage # NoImage
  /\ "workspace" \in DOMAIN f => f["workspace"] = WorkspaceContainer(r, f["workspace"].other)

Built(a, r, s) ==
  /\ s.created = TRUE /\ s.replicas = 1 /\ s.volumes = VolumesOf(a, r)
  /\ BuiltInits(a, r, s.initContainers) /\ BuiltContainers(a, r, s.containers)

WInv ==
  /\ spec \in AgentSpec /\ config \in AgentReconciler /\ settled \in BOOLEAN
  /\ Shape(stored)
  /\ settled => Built(spec, config, stored)

\* Where each container of what applyAgent makes comes from.
LEMMA InitsAre ==
  ASSUME NEW a \in AgentSpec, NEW r \in AgentReconciler, NEW f, f \in [DOMAIN f -> Container]
  PROVE  /\ InitsOf(a, r, f) \in [DOMAIN InitsOf(a, r, f) -> Container]
         /\ DOMAIN InitsOf(a, r, f)
              = (DOMAIN f \ {"config"}) \cup {"credentials"}
                \cup (IF a.pins = NoPins THEN {} ELSE {"config"})
         /\ InitsOf(a, r, f)["credentials"]
              = CredentialsContainer(r, containerNamed(f, "credentials"))
         /\ a.pins # NoPins => InitsOf(a, r, f)["config"]
                                 = ConfigContainer(a, r, containerNamed(f, "config").other)
         /\ \A n \in DOMAIN f : n \notin {"credentials", "config"} => InitsOf(a, r, f)[n] = f[n]
<1>1. PICK found \in Container : found = containerNamed(f, "credentials")
  BY Named
<1>2. PICK c \in Container : c = CredentialsContainer(r, found)
  BY <1>1, BuiltTyped DEF Container
<1>3. PICK g : g = Credentialed(r, f)
  OBVIOUS
<1>4. g = Put(f, "credentials", c)
  BY <1>1, <1>2, <1>3 DEF Credentialed
<1>5. /\ g \in [DOMAIN g -> Container] /\ DOMAIN g = DOMAIN f \cup {"credentials"}
      /\ g["credentials"] = c
      /\ \A n \in DOMAIN f : n # "credentials" => g[n] = f[n]
  BY <1>4 DEF Put
<1>6. containerNamed(g, "config") = containerNamed(f, "config")
  BY <1>5 DEF containerNamed
<1>7. PICK other \in {"defaulted", "hand", "unset"} : other = containerNamed(f, "config").other
  BY Named DEF Container
<1>8. PICK e \in Container : e = ConfigContainer(a, r, other)
  BY <1>1, BuiltTyped
<1>9. CASE a.pins = NoPins
  <2>1. InitsOf(a, r, f) = Without(g, "config")
    BY <1>3, <1>9 DEF InitsOf, ConfigAdded
  <2>2. /\ Without(g, "config") \in [DOMAIN Without(g, "config") -> Container]
        /\ DOMAIN Without(g, "config") = (DOMAIN f \ {"config"}) \cup {"credentials"} \cup {}
        /\ Without(g, "config")["credentials"] = c
        /\ \A n \in DOMAIN f : n \notin {"credentials", "config"} => Without(g, "config")[n] = f[n]
    BY <1>5 DEF Without
  <2> QED
    BY <1>1, <1>2, <1>9, <2>1, <2>2
<1>10. CASE a.pins # NoPins
  <2>1. InitsOf(a, r, f) = Put(g, "config", e)
    BY <1>3, <1>6, <1>7, <1>8, <1>10 DEF InitsOf, ConfigAdded
  <2>2. /\ Put(g, "config", e) \in [DOMAIN Put(g, "config", e) -> Container]
        /\ DOMAIN Put(g, "config", e)
             = (DOMAIN f \ {"config"}) \cup {"credentials"} \cup {"config"}
        /\ Put(g, "config", e)["credentials"] = c
        /\ Put(g, "config", e)["config"] = e
        /\ \A n \in DOMAIN f : n \notin {"credentials", "config"} => Put(g, "config", e)[n] = f[n]
    BY <1>5 DEF Put
  <2> QED
    BY <1>1, <1>2, <1>7, <1>8, <1>10, <2>1, <2>2
<1> QED
  BY <1>9, <1>10

LEMMA ContainersAre ==
  ASSUME NEW a \in AgentSpec, NEW r \in AgentReconciler, NEW f, f \in [DOMAIN f -> Container]
  PROVE  /\ ContainersOf(a, r, f) \in [DOMAIN ContainersOf(a, r, f) -> Container]
         /\ DOMAIN ContainersOf(a, r, f)
              = (DOMAIN f \ {"workspace"}) \cup {"agent"}
                \cup (IF r.WorkspaceImage = NoImage THEN {} ELSE {"workspace"})
         /\ ContainersOf(a, r, f)["agent"]
              = AgentContainer(a, r, containerNamed(f, "agent").other)
         /\ r.WorkspaceImage # NoImage =>
              ContainersOf(a, r, f)["workspace"]
                = WorkspaceContainer(r, containerNamed(f, "workspace").other)
         /\ \A n \in DOMAIN f : n \notin {"agent", "workspace"} => ContainersOf(a, r, f)[n] = f[n]
<1>1. PICK agent \in Container : /\ agent = AgentContainer(a, r, containerNamed(f, "agent").other)
                                 /\ Pinned(a, r, f) = Put(f, "agent", agent)
  BY PinnedIs, Zenon
<1>g. PICK g : g = Pinned(a, r, f)
  BY Zenon
<1>2. /\ g \in [DOMAIN g -> Container] /\ DOMAIN g = DOMAIN f \cup {"agent"}
      /\ g["agent"] = agent
      /\ \A n \in DOMAIN f : n # "agent" => g[n] = f[n]
  BY <1>1, <1>g DEF Put
<1>3. containerNamed(g, "workspace") = containerNamed(f, "workspace")
  BY <1>2 DEF containerNamed
<1>4. PICK other \in {"defaulted", "hand", "unset"} : other = containerNamed(f, "workspace").other
  BY Named DEF Container
<1>5. CASE r.WorkspaceImage = NoImage
  <2>1. ContainersOf(a, r, f) = Without(g, "workspace")
    BY <1>g, <1>5 DEF ContainersOf
  <2>2. /\ Without(g, "workspace") \in [DOMAIN Without(g, "workspace") -> Container]
        /\ DOMAIN Without(g, "workspace") = (DOMAIN f \ {"workspace"}) \cup {"agent"} \cup {}
        /\ Without(g, "workspace")["agent"] = agent
        /\ \A n \in DOMAIN f : n \notin {"agent", "workspace"} => Without(g, "workspace")[n] = f[n]
    BY <1>2 DEF Without
  <2> QED
    BY <1>1, <1>5, <2>1, <2>2
<1>6. CASE r.WorkspaceImage # NoImage
  <2>0. NewContainer \in Container
    BY DEF NewContainer, Container
  <2>1. PICK e \in Container : e = WorkspaceContainer(r, other)
    BY <1>6, <2>0, BuiltTyped
  <2>2. ContainersOf(a, r, f) = Put(g, "workspace", e)
    BY <1>g, <1>3, <1>4, <1>6, <2>1 DEF ContainersOf
  <2>3. /\ Put(g, "workspace", e) \in [DOMAIN Put(g, "workspace", e) -> Container]
        /\ DOMAIN Put(g, "workspace", e)
             = (DOMAIN f \ {"workspace"}) \cup {"agent"} \cup {"workspace"}
        /\ Put(g, "workspace", e)["agent"] = agent
        /\ Put(g, "workspace", e)["workspace"] = e
        /\ \A n \in DOMAIN f : n \notin {"agent", "workspace"}
             => Put(g, "workspace", e)[n] = f[n]
    BY <1>2 DEF Put
  <2> QED
    BY <1>1, <1>4, <1>6, <2>1, <2>2, <2>3
<1> QED
  BY <1>5, <1>6

LEMMA ContainersKept ==
  ASSUME NEW a \in AgentSpec, NEW r \in AgentReconciler, NEW f, f \in [DOMAIN f -> Container],
         NEW n \in DOMAIN f, n # "agent", n # "workspace"
  PROVE  ContainersOf(a, r, f)[n] = f[n]
<1>1. PICK g : g = ContainersOf(a, r, f)
  OBVIOUS
<1>2. /\ g \in [DOMAIN g -> Container]
      /\ DOMAIN g = (DOMAIN f \ {"workspace"}) \cup {"agent"}
                    \cup (IF r.WorkspaceImage = NoImage THEN {} ELSE {"workspace"})
      /\ \A x \in DOMAIN f : x \notin {"agent", "workspace"} => g[x] = f[x]
  BY <1>1, ContainersAre
<1> QED
  BY <1>1, <1>2

LEMMA SidecarKept ==
  ASSUME NEW a \in AgentSpec, NEW r \in AgentReconciler, NEW f, f \in [DOMAIN f -> Container]
  PROVE  "sidecar" \in DOMAIN ContainersOf(a, r, f) <=> "sidecar" \in DOMAIN f
<1>1. PICK g : g = ContainersOf(a, r, f)
  OBVIOUS
<1>2. /\ g \in [DOMAIN g -> Container]
      /\ DOMAIN g = (DOMAIN f \ {"workspace"}) \cup {"agent"}
                    \cup (IF r.WorkspaceImage = NoImage THEN {} ELSE {"workspace"})
  BY <1>1, ContainersAre
<1> QED
  BY <1>1, <1>2

LEMMA InitsKept ==
  ASSUME NEW a \in AgentSpec, NEW r \in AgentReconciler, NEW f, f \in [DOMAIN f -> Container],
         NEW n \in DOMAIN f, n # "credentials", n # "config"
  PROVE  InitsOf(a, r, f)[n] = f[n]
<1>1. PICK g : g = InitsOf(a, r, f)
  OBVIOUS
<1>2. /\ g \in [DOMAIN g -> Container]
      /\ DOMAIN g = (DOMAIN f \ {"config"}) \cup {"credentials"}
                    \cup (IF a.pins = NoPins THEN {} ELSE {"config"})
      /\ \A x \in DOMAIN f : x \notin {"credentials", "config"} => g[x] = f[x]
  BY <1>1, InitsAre
<1> QED
  BY <1>1, <1>2

LEMMA SetupKept ==
  ASSUME NEW a \in AgentSpec, NEW r \in AgentReconciler, NEW f, f \in [DOMAIN f -> Container]
  PROVE  "setup" \in DOMAIN InitsOf(a, r, f) <=> "setup" \in DOMAIN f
<1>1. PICK g : g = InitsOf(a, r, f)
  OBVIOUS
<1>2. /\ g \in [DOMAIN g -> Container]
      /\ DOMAIN g = (DOMAIN f \ {"config"}) \cup {"credentials"}
                    \cup (IF a.pins = NoPins THEN {} ELSE {"config"})
  BY <1>1, InitsAre
<1> QED
  BY <1>1, <1>2

-----------------------------------------------------------------------------
\* The field the API server defaults, and the containers with it.
Default(other) == IF other = "unset" THEN "defaulted" ELSE other

Filled(f) == [n \in DOMAIN f |-> [f[n] EXCEPT !.other = Default(f[n].other)]]

LEMMA FilledIs ==
  ASSUME NEW f, f \in [DOMAIN f -> Container], NEW n \in DOMAIN f
  PROVE  /\ Filled(f)[n] \in Container
         /\ Filled(f)[n] = [f[n] EXCEPT !.other = Default(f[n].other)]
         /\ Filled(f)[n].env = f[n].env
         /\ Filled(f)[n].other \in {"defaulted", "hand"}
         /\ f[n].other # "unset" => Filled(f)[n] = f[n]
<1>1. PICK c \in Container : c = f[n]
  OBVIOUS
<1>2. PICK other \in {"defaulted", "hand"} : other = Default(c.other)
  BY DEF Default, Container
<1>3. c.other # "unset" => other = c.other
  BY <1>2 DEF Default
<1>4. Filled(f)[n] = [c EXCEPT !.other = other]
  BY <1>1, <1>2, Zenon DEF Filled
<1>5. PICK x : x = [c EXCEPT !.other = other]
  BY Zenon
<1>6. x \in Container /\ x.env = c.env /\ x.other = other /\ (other = c.other => x = c)
  BY <1>5 DEF Container
<1> QED
  BY <1>1, <1>2, <1>3, <1>4, <1>5, <1>6

LEMMA FilledTyped ==
  ASSUME NEW f, f \in [DOMAIN f -> Container]
  PROVE  Filled(f) \in [DOMAIN Filled(f) -> Container] /\ DOMAIN Filled(f) = DOMAIN f
<1>1. DOMAIN Filled(f) = DOMAIN f
  BY DEF Filled
<1>2. \A n \in DOMAIN f : Filled(f)[n] \in Container
  BY FilledIs, Zenon
<1>3. Filled(f) = [n \in DOMAIN f |-> Filled(f)[n]]
  BY DEF Filled
<1> QED
  BY <1>1, <1>2, <1>3

\* The API server touches nothing of a StatefulSet but that field: a volume
\* names its mode.
LEMMA DefaultedIs ==
  ASSUME NEW s, Whole(s), s.volumes \in [DOMAIN s.volumes -> Volume]
  PROVE  Defaulted(s) = StatefulSet(s.created, s.claim, s.replicas, s.volumes,
                                    Filled(s.initContainers), Filled(s.containers))
<1>1. PICK volumes : volumes = s.volumes
  OBVIOUS
<1>2. ASSUME NEW v \in Volume
      PROVE  [v EXCEPT !.mode = IF v.mode = "unset" THEN "defaulted" ELSE v.mode] = v
  <2>1. v.mode # "unset"
    BY DEF Volume
  <2>2. [v EXCEPT !.mode = v.mode] = v
    BY DEF Volume
  <2> QED
    BY <2>1, <2>2, Zenon
<1>3. [n \in DOMAIN volumes |->
         [volumes[n] EXCEPT !.mode = IF volumes[n].mode = "unset" THEN "defaulted"
                                                                  ELSE volumes[n].mode]] = volumes
  <2>1. \A n \in DOMAIN volumes :
          [volumes[n] EXCEPT !.mode = IF volumes[n].mode = "unset" THEN "defaulted"
                                                                   ELSE volumes[n].mode]
            = volumes[n]
    BY <1>1, <1>2
  <2>2. volumes = [n \in DOMAIN volumes |-> volumes[n]]
    BY <1>1
  <2> QED
    BY <2>1, <2>2, Zenon
<1>4. ASSUME NEW i, NEW c
      PROVE  /\ [s EXCEPT !.initContainers = i, !.containers = c, !.volumes = s.volumes]
                  = StatefulSet(s.created, s.claim, s.replicas, s.volumes, i, c)
             /\ [s EXCEPT !.initContainers = i, !.containers = c].volumes = s.volumes
             /\ [s EXCEPT !.initContainers = i].containers = s.containers
  <2>1. [s EXCEPT !.initContainers = i, !.containers = c, !.volumes = s.volumes]
          \in [created: {s.created}, claim: {s.claim}, replicas: {s.replicas},
               volumes: {s.volumes}, initContainers: {i}, containers: {c}]
    BY Zenon DEF Whole
  <2>2. [s EXCEPT !.initContainers = i, !.containers = c].volumes = s.volumes
    BY Zenon DEF Whole
  <2>3. [s EXCEPT !.initContainers = i].containers = s.containers
    BY Zenon DEF Whole
  <2>4. [s EXCEPT !.initContainers = i, !.containers = c, !.volumes = s.volumes]
          = StatefulSet(s.created, s.claim, s.replicas, s.volumes, i, c)
    <3>1. PICK x : x = [s EXCEPT !.initContainers = i, !.containers = c, !.volumes = s.volumes]
      BY Zenon
    <3>2. x \in [created: {s.created}, claim: {s.claim}, replicas: {s.replicas},
                 volumes: {s.volumes}, initContainers: {i}, containers: {c}]
      BY <2>1, <3>1, Zenon
    <3>3. x = StatefulSet(s.created, s.claim, s.replicas, s.volumes, i, c)
      BY <3>2, StatefulSetIs, Zenon
    <3> QED
      BY <3>1, <3>3, Zenon
  <2> QED
    BY <2>2, <2>3, <2>4, Zenon
<1>5. PICK i, c : i = Filled(s.initContainers) /\ c = Filled(s.containers)
  OBVIOUS
<1>6. Defaulted(s) = [s EXCEPT !.initContainers = i, !.containers = c, !.volumes = s.volumes]
  BY <1>1, <1>3, <1>5, Zenon DEF Defaulted, Filled, Default
<1> QED
  BY <1>4, <1>5, <1>6, Zenon

-----------------------------------------------------------------------------
LEMMA WrittenHas ==
  ASSUME NEW image, NEW env, NEW mounts, NEW other
  PROVE  /\ Written(image, env, mounts, other).image = image
         /\ Written(image, env, mounts, other).env = env
         /\ Written(image, env, mounts, other).mounts = mounts
         /\ Written(image, env, mounts, other).fixed = "written"
         /\ Written(image, env, mounts, other).other = other
BY DEF Written

\* What applyAgent makes of init containers is built ...
LEMMA InitsBuilt ==
  ASSUME NEW a \in AgentSpec, NEW r \in AgentReconciler, NEW f, f \in [DOMAIN f -> Container],
         DOMAIN f \subseteq {"credentials", "config", "setup"}
  PROVE  BuiltInits(a, r, InitsOf(a, r, f))
<1>1. PICK g, found : g = InitsOf(a, r, f) /\ found = containerNamed(f, "credentials")
  OBVIOUS
<1>2. PICK other : other = containerNamed(f, "config").other
  OBVIOUS
<1>3. /\ g \in [DOMAIN g -> Container]
      /\ DOMAIN g = (DOMAIN f \ {"config"}) \cup {"credentials"}
                    \cup (IF a.pins = NoPins THEN {} ELSE {"config"})
      /\ g["credentials"] = CredentialsContainer(r, found)
      /\ a.pins # NoPins => g["config"] = ConfigContainer(a, r, other)
  BY <1>1, <1>2, InitsAre
<1>4. /\ DOMAIN g \subseteq {"credentials", "config", "setup"} /\ "credentials" \in DOMAIN g
      /\ "config" \in DOMAIN g <=> a.pins # NoPins
  BY <1>3
<1>5. /\ CredentialsContainer(r, found).env = found.env
      /\ CredentialsContainer(r, found).other = found.other
  BY WrittenHas DEF CredentialsContainer
<1>6. g["credentials"] = CredentialsContainer(r, g["credentials"])
  BY <1>3, <1>5, Zenon DEF CredentialsContainer
<1>7. ConfigContainer(a, r, other).other = other
  BY WrittenHas DEF ConfigContainer
<1>8. "config" \in DOMAIN g => g["config"] = ConfigContainer(a, r, g["config"].other)
  BY <1>3, <1>4, <1>7
<1> QED
  BY <1>1, <1>3, <1>4, <1>6, <1>8 DEF BuiltInits

\* ... and so is what it makes of containers.
LEMMA ContainersBuilt ==
  ASSUME NEW a \in AgentSpec, NEW r \in AgentReconciler, NEW f, f \in [DOMAIN f -> Container],
         DOMAIN f \subseteq {"agent", "workspace", "sidecar"}
  PROVE  BuiltContainers(a, r, ContainersOf(a, r, f))
<1>1. PICK g, other : g = ContainersOf(a, r, f) /\ other = containerNamed(f, "agent").other
  OBVIOUS
<1>2. PICK wother : wother = containerNamed(f, "workspace").other
  OBVIOUS
<1>3. /\ g \in [DOMAIN g -> Container]
      /\ DOMAIN g = (DOMAIN f \ {"workspace"}) \cup {"agent"}
                    \cup (IF r.WorkspaceImage = NoImage THEN {} ELSE {"workspace"})
      /\ g["agent"] = AgentContainer(a, r, other)
      /\ r.WorkspaceImage # NoImage => g["workspace"] = WorkspaceContainer(r, wother)
  BY <1>1, <1>2, ContainersAre
<1>4. /\ DOMAIN g \subseteq {"agent", "workspace", "sidecar"} /\ "agent" \in DOMAIN g
      /\ "workspace" \in DOMAIN g <=> r.WorkspaceImage # NoImage
  BY <1>3
<1>5. AgentContainer(a, r, other).other = other
  BY WrittenHas DEF AgentContainer
<1>6. WorkspaceContainer(r, wother).other = wother
  BY WrittenHas DEF WorkspaceContainer
<1> QED
  BY <1>1, <1>3, <1>4, <1>5, <1>6 DEF BuiltContainers

\* What is built stays built when the API server has filled it in.
LEMMA FilledBuilt ==
  ASSUME NEW a, NEW r, NEW i, NEW c, BuiltInits(a, r, i), BuiltContainers(a, r, c)
  PROVE  BuiltInits(a, r, Filled(i)) /\ BuiltContainers(a, r, Filled(c))
<1>1. ASSUME NEW f, NEW n, f \in [DOMAIN f -> Container], n \in DOMAIN f,
             NEW image, NEW env, NEW mounts, NEW other, f[n] = Written(image, env, mounts, other)
      PROVE  Filled(f)[n] = Written(image, env, mounts, Filled(f)[n].other)
  <2>1. PICK o : o = Default(f[n].other)
    OBVIOUS
  <2>2. Filled(f)[n] = [f[n] EXCEPT !.other = o]
    BY <1>1, <2>1, FilledIs
  <2>3. Filled(f)[n] = Written(image, env, mounts, o)
    <3>1. [Written(image, env, mounts, other) EXCEPT !.other = o] = Written(image, env, mounts, o)
      BY DEF Written
    <3> QED
      BY <1>1, <2>2, <3>1, Zenon
  <2> QED
    BY <2>3, WrittenHas
<1>2. BuiltInits(a, r, Filled(i))
  <2>1. /\ i \in [DOMAIN i -> Container]
        /\ DOMAIN i \subseteq {"credentials", "config", "setup"}
        /\ "credentials" \in DOMAIN i
        /\ i["credentials"] = CredentialsContainer(r, i["credentials"])
        /\ "config" \in DOMAIN i <=> a.pins # NoPins
        /\ "config" \in DOMAIN i => i["config"] = ConfigContainer(a, r, i["config"].other)
    BY DEF BuiltInits
  <2>0. i \in [DOMAIN i -> Container]
    BY DEF BuiltInits
  <2>2. Filled(i) \in [DOMAIN Filled(i) -> Container] /\ DOMAIN Filled(i) = DOMAIN i
    BY <2>0, FilledTyped
  <2>3. Filled(i)["credentials"].env = i["credentials"].env
    <3>1. "credentials" \in DOMAIN i
      BY <2>1
    <3> QED
      BY <2>0, <3>1, FilledIs, Zenon
  <2>4. Filled(i)["credentials"] = CredentialsContainer(r, Filled(i)["credentials"])
    <3>1. PICK env : env = i["credentials"].env
      OBVIOUS
    <3>2. i["credentials"] = Written(r.CopyImage, env, {"credentials-secret", "credentials"},
                                     i["credentials"].other)
      BY <2>1, <3>1, Zenon DEF CredentialsContainer
    <3>3. Filled(i)["credentials"]
            = Written(r.CopyImage, env, {"credentials-secret", "credentials"},
                      Filled(i)["credentials"].other)
      BY <1>1, <2>0, <2>1, <3>2
    <3> QED
      BY <2>3, <3>1, <3>3, Zenon DEF CredentialsContainer
  <2>5. ASSUME "config" \in DOMAIN i
        PROVE  Filled(i)["config"] = ConfigContainer(a, r, Filled(i)["config"].other)
    <3>1. PICK env : env = {<<"AGENT_CONFIG_CONTENT", renderAgentConfig(a.pins)>>}
      BY Zenon
    <3>2. i["config"] = Written(r.CopyImage, env, {"config"}, i["config"].other)
      BY <2>1, <2>5, <3>1, Zenon DEF ConfigContainer
    <3>3. Filled(i)["config"] = Written(r.CopyImage, env, {"config"}, Filled(i)["config"].other)
      BY <1>1, <2>0, <2>5, <3>2
    <3> QED
      BY <3>1, <3>3, Zenon DEF ConfigContainer
  <2> QED
    BY <2>1, <2>2, <2>4, <2>5 DEF BuiltInits
<1>3. BuiltContainers(a, r, Filled(c))
  <2>1. /\ c \in [DOMAIN c -> Container]
        /\ DOMAIN c \subseteq {"agent", "workspace", "sidecar"}
        /\ "agent" \in DOMAIN c /\ c["agent"] = AgentContainer(a, r, c["agent"].other)
        /\ "workspace" \in DOMAIN c <=> r.WorkspaceImage # NoImage
        /\ "workspace" \in DOMAIN c => c["workspace"] = WorkspaceContainer(r, c["workspace"].other)
    BY DEF BuiltContainers
  <2>0. c \in [DOMAIN c -> Container]
    BY DEF BuiltContainers
  <2>2. Filled(c) \in [DOMAIN Filled(c) -> Container] /\ DOMAIN Filled(c) = DOMAIN c
    BY <2>0, FilledTyped
  <2>3. Filled(c)["agent"] = AgentContainer(a, r, Filled(c)["agent"].other)
    <3>1. PICK env, mounts : env = FullEnv(a, r) /\ mounts = FullMounts(a, r)
      OBVIOUS
    <3>2. "agent" \in DOMAIN c /\ c["agent"] = Written(a.image, env, mounts, c["agent"].other)
      BY <2>1, <3>1, Zenon DEF AgentContainer
    <3>3. Filled(c)["agent"] = Written(a.image, env, mounts, Filled(c)["agent"].other)
      BY <1>1, <2>0, <3>2
    <3> QED
      BY <3>1, <3>3, Zenon DEF AgentContainer
  <2>4. ASSUME "workspace" \in DOMAIN c
        PROVE  Filled(c)["workspace"] = WorkspaceContainer(r, Filled(c)["workspace"].other)
    <3>1. PICK env : env = {<<"GAGENT_ADDR", "loopback">>, <<"GAGENT_WORKSPACE", "state">>,
                            <<"GAGENT_EXEC_UID", "user">>}
      BY Zenon
    <3>2. c["workspace"] = Written(r.WorkspaceImage, env, {"state"}, c["workspace"].other)
      BY <2>1, <2>4, <3>1, Zenon DEF WorkspaceContainer
    <3>3. Filled(c)["workspace"]
            = Written(r.WorkspaceImage, env, {"state"}, Filled(c)["workspace"].other)
      BY <1>1, <2>0, <2>4, <3>2
    <3> QED
      BY <3>1, <3>3, Zenon DEF WorkspaceContainer
  <2> QED
    BY <2>1, <2>2, <2>3, <2>4 DEF BuiltContainers
<1> QED
  BY <1>2, <1>3

-----------------------------------------------------------------------------
LEMMA VolumesAre ==
  ASSUME NEW a \in AgentSpec, NEW r \in AgentReconciler
  PROVE  /\ VolumesOf(a, r) \in [DOMAIN VolumesOf(a, r) -> Volume]
         /\ DOMAIN VolumesOf(a, r)
              = {"credentials-secret", "credentials"}
                \cup (IF r.ToolsImage = NoImage THEN {} ELSE {"tools"})
                \cup (IF a.pins = NoPins THEN {} ELSE {"config"})
<1>1. a.secretName \in SecretNames
  BY DEF AgentSpec
<1>2. r.ToolsImage # NoImage => r.ToolsImage \in ToolsImages
  BY DEF AgentReconciler
<1>3. PICK f : f = credentialsVolumes(a)
  OBVIOUS
<1>4. DOMAIN f = {"credentials-secret", "credentials"} /\ f \in [DOMAIN f -> Volume]
  <2>1. /\ [source |-> "memory", mode |-> "none"] \in Volume
        /\ [source |-> a.secretName, mode |-> "named"] \in Volume
    BY <1>1 DEF Volume
  <2>2. PICK v, w \in Volume : /\ v = [source |-> "memory", mode |-> "none"]
                               /\ w = [source |-> a.secretName, mode |-> "named"]
    BY <2>1
  <2>3. f = [n \in {"credentials-secret", "credentials"} |-> IF n = "credentials" THEN v ELSE w]
    BY <1>3, <2>2, Zenon DEF credentialsVolumes
  <2> QED
    BY <2>3
<1>5. PICK g : g = Tooled(r, f)
  OBVIOUS
<1>6. /\ DOMAIN g = {"credentials-secret", "credentials"}
                    \cup (IF r.ToolsImage = NoImage THEN {} ELSE {"tools"})
      /\ g \in [DOMAIN g -> Volume]
  <2>1. CASE r.ToolsImage = NoImage
    BY <1>4, <1>5, <2>1 DEF Tooled
  <2>2. CASE r.ToolsImage # NoImage
    <3>1. PICK v \in Volume : v = [source |-> r.ToolsImage, mode |-> "named"]
      BY <1>2, <2>2, Zenon DEF Volume
    <3>2. g = Put(f, "tools", v)
      BY <1>5, <2>2, <3>1 DEF Tooled
    <3> QED
      BY <1>4, <2>2, <3>2 DEF Put
  <2> QED
    BY <2>1, <2>2
<1>7. PICK v \in Volume : v = [source |-> "disk", mode |-> "none"]
  BY Zenon DEF Volume
<1>8. VolumesOf(a, r) = IF a.pins = NoPins THEN g ELSE Put(g, "config", v)
  BY <1>3, <1>5, <1>7, Zenon DEF VolumesOf, Configured
<1>9. CASE a.pins = NoPins
  BY <1>6, <1>8, <1>9
<1>10. CASE a.pins # NoPins
  <2>1. /\ DOMAIN Put(g, "config", v) = DOMAIN g \cup {"config"}
        /\ Put(g, "config", v) \in [DOMAIN Put(g, "config", v) -> Volume]
    BY <1>6 DEF Put
  <2> QED
    BY <1>6, <1>8, <1>10, <2>1
<1> QED
  BY <1>9, <1>10

ClaimOf(a, s) == IF s.created THEN s.claim ELSE a.size

\* What a pass makes of a StatefulSet of the right shape.
LEMMA Applied ==
  ASSUME NEW a \in AgentSpec, NEW r \in AgentReconciler, NEW s, Shape(s), NEW p,
         p = applyAgent(a, r, s)
  PROVE  /\ Whole(p) /\ p.created = TRUE /\ p.claim \in Sizes /\ p.replicas = 1
         /\ p.claim = ClaimOf(a, s)
         /\ p.volumes = VolumesOf(a, r)
         /\ p.initContainers = InitsOf(a, r, s.initContainers)
         /\ p.containers = ContainersOf(a, r, s.containers)
         /\ Built(a, r, p)
<1>1. /\ Whole(s)
      /\ s.initContainers \in [DOMAIN s.initContainers -> Container]
      /\ s.containers \in [DOMAIN s.containers -> Container]
  BY DEF Shape, HeldInits, HeldContainers, Held
<1>2. PICK claim, created : claim = ClaimOf(a, s) /\ created = TRUE
  OBVIOUS
<1>3. claim \in Sizes
  BY <1>2 DEF Shape, AgentSpec, ClaimOf
<1>4. PICK v, i, c : /\ v = VolumesOf(a, r) /\ i = InitsOf(a, r, s.initContainers)
                     /\ c = ContainersOf(a, r, s.containers)
  OBVIOUS
<1>5. p = StatefulSet(created, claim, 1, v, i, c)
  BY <1>1, <1>2, <1>4, ApplyAgentIs, Zenon DEF ClaimOf
<1>6. /\ Whole(p) /\ p.created = created /\ p.claim = claim /\ p.replicas = 1
      /\ p.volumes = v /\ p.initContainers = i /\ p.containers = c
  BY <1>5, StatefulSetHas
<1>7. BuiltInits(a, r, i)
  <2>1. DOMAIN s.initContainers \subseteq {"credentials", "config", "setup"}
    BY DEF Shape, HeldInits, HeldContainers, Held
  <2> QED
    BY <1>1, <1>4, <2>1, InitsBuilt, Zenon
<1>8. BuiltContainers(a, r, c)
  <2>1. DOMAIN s.containers \subseteq {"agent", "workspace", "sidecar"}
    BY DEF Shape, HeldInits, HeldContainers, Held
  <2> QED
    BY <1>1, <1>4, <2>1, ContainersBuilt, Zenon
<1>9. Built(a, r, p)
  BY <1>2, <1>4, <1>6, <1>7, <1>8 DEF Built
<1> QED
  BY <1>2, <1>3, <1>4, <1>6, <1>9

LEMMA AppliedContainers ==
  ASSUME NEW a \in AgentSpec, NEW r \in AgentReconciler, NEW s, Shape(s)
  PROVE  applyAgent(a, r, s).containers = ContainersOf(a, r, s.containers)
<1>1. /\ Whole(s)
      /\ s.initContainers \in [DOMAIN s.initContainers -> Container]
      /\ s.containers \in [DOMAIN s.containers -> Container]
  BY DEF Shape, HeldInits, HeldContainers, Held
<1>2. PICK claim, created : claim = (IF s.created THEN s.claim ELSE a.size) /\ created = TRUE
  OBVIOUS
<1>3. PICK v, i, c : /\ v = VolumesOf(a, r) /\ i = InitsOf(a, r, s.initContainers)
                     /\ c = ContainersOf(a, r, s.containers)
  OBVIOUS
<1>4. applyAgent(a, r, s) = StatefulSet(created, claim, 1, v, i, c)
  BY <1>1, <1>2, <1>3, ApplyAgentIs, Zenon
<1> QED
  BY <1>3, <1>4 DEF StatefulSet

LEMMA AppliedInits ==
  ASSUME NEW a \in AgentSpec, NEW r \in AgentReconciler, NEW s, Shape(s)
  PROVE  applyAgent(a, r, s).initContainers = InitsOf(a, r, s.initContainers)
<1>1. /\ Whole(s)
      /\ s.initContainers \in [DOMAIN s.initContainers -> Container]
      /\ s.containers \in [DOMAIN s.containers -> Container]
  BY DEF Shape, HeldInits, HeldContainers, Held
<1>2. PICK claim, created : claim = (IF s.created THEN s.claim ELSE a.size) /\ created = TRUE
  OBVIOUS
<1>3. PICK v, i, c : /\ v = VolumesOf(a, r) /\ i = InitsOf(a, r, s.initContainers)
                     /\ c = ContainersOf(a, r, s.containers)
  OBVIOUS
<1>4. applyAgent(a, r, s) = StatefulSet(created, claim, 1, v, i, c)
  BY <1>1, <1>2, <1>3, ApplyAgentIs, Zenon
<1> QED
  BY <1>3, <1>4 DEF StatefulSet

\* A pass over what is built changes nothing.
LEMMA BuiltStays ==
  ASSUME NEW a \in AgentSpec, NEW r \in AgentReconciler, NEW s, Shape(s), Built(a, r, s)
  PROVE  applyAgent(a, r, s) = s
<1>1. /\ Whole(s) /\ s.created = TRUE /\ s.replicas = 1 /\ s.volumes = VolumesOf(a, r)
      /\ BuiltInits(a, r, s.initContainers) /\ BuiltContainers(a, r, s.containers)
  BY DEF Shape, Built
<1>2. InitsOf(a, r, s.initContainers) = s.initContainers
  <2>1. PICK f, g : f = s.initContainers /\ g = InitsOf(a, r, f)
    OBVIOUS
  <2>2. /\ f \in [DOMAIN f -> Container]
        /\ "credentials" \in DOMAIN f
        /\ f["credentials"] = CredentialsContainer(r, f["credentials"])
        /\ "config" \in DOMAIN f <=> a.pins # NoPins
        /\ "config" \in DOMAIN f => f["config"] = ConfigContainer(a, r, f["config"].other)
    BY <1>1, <2>1 DEF BuiltInits
  <2>3. /\ g \in [DOMAIN g -> Container]
        /\ DOMAIN g = (DOMAIN f \ {"config"}) \cup {"credentials"}
                      \cup (IF a.pins = NoPins THEN {} ELSE {"config"})
        /\ g["credentials"] = CredentialsContainer(r, containerNamed(f, "credentials"))
        /\ a.pins # NoPins => g["config"] = ConfigContainer(a, r, containerNamed(f, "config").other)
        /\ \A n \in DOMAIN f : n \notin {"credentials", "config"} => g[n] = f[n]
    BY <2>1, <2>2, InitsAre
  <2>4. DOMAIN g = DOMAIN f
    BY <2>2, <2>3
  <2>5. g["credentials"] = f["credentials"]
    BY <2>2, <2>3 DEF containerNamed
  <2>6. "config" \in DOMAIN f => g["config"] = f["config"]
    BY <2>2, <2>3, <2>4 DEF containerNamed
  <2>7. \A n \in DOMAIN f : g[n] = f[n]
    BY <2>3, <2>5, <2>6
  <2>8. g = f
    BY <2>2, <2>3, <2>4, <2>7
  <2> QED
    BY <2>1, <2>8
<1>3. ContainersOf(a, r, s.containers) = s.containers
  <2>1. PICK f, g : f = s.containers /\ g = ContainersOf(a, r, f)
    OBVIOUS
  <2>2. /\ f \in [DOMAIN f -> Container] /\ "agent" \in DOMAIN f
        /\ f["agent"] = AgentContainer(a, r, f["agent"].other)
        /\ "workspace" \in DOMAIN f <=> r.WorkspaceImage # NoImage
        /\ "workspace" \in DOMAIN f => f["workspace"] = WorkspaceContainer(r, f["workspace"].other)
    BY <1>1, <2>1 DEF BuiltContainers
  <2>3. /\ g \in [DOMAIN g -> Container]
        /\ DOMAIN g = (DOMAIN f \ {"workspace"}) \cup {"agent"}
                      \cup (IF r.WorkspaceImage = NoImage THEN {} ELSE {"workspace"})
        /\ g["agent"] = AgentContainer(a, r, containerNamed(f, "agent").other)
        /\ r.WorkspaceImage # NoImage =>
             g["workspace"] = WorkspaceContainer(r, containerNamed(f, "workspace").other)
        /\ \A n \in DOMAIN f : n \notin {"agent", "workspace"} => g[n] = f[n]
    BY <2>1, <2>2, ContainersAre
  <2>4. DOMAIN g = DOMAIN f
    BY <2>2, <2>3
  <2>5. g["agent"] = f["agent"]
    BY <2>2, <2>3 DEF containerNamed
  <2>6. "workspace" \in DOMAIN f => g["workspace"] = f["workspace"]
    BY <2>2, <2>3 DEF containerNamed
  <2>7. \A n \in DOMAIN f : g[n] = f[n]
    BY <2>3, <2>5, <2>6
  <2>8. g = f
    BY <2>2, <2>3, <2>4, <2>7
  <2> QED
    BY <2>1, <2>8
<1>4. PICK p : p = applyAgent(a, r, s)
  OBVIOUS
<1>5. /\ Whole(p) /\ p.created = s.created /\ p.claim = s.claim /\ p.replicas = s.replicas
      /\ p.volumes = s.volumes /\ p.initContainers = s.initContainers
      /\ p.containers = s.containers
  <2>1. Whole(p) /\ p.created = s.created
    BY <1>1, <1>4, Applied, Zenon
  <2>1a. p.claim = ClaimOf(a, s)
    BY <1>4, Applied, Zenon
  <2>1b. ClaimOf(a, s) = s.claim
    BY <1>1, Zenon DEF ClaimOf
  <2>2. p.replicas = s.replicas /\ p.volumes = s.volumes
    BY <1>1, <1>4, Applied, Zenon
  <2>3. p.initContainers = s.initContainers /\ p.containers = s.containers
    BY <1>2, <1>3, <1>4, AppliedContainers, AppliedInits, Zenon
  <2> QED
    BY <2>1, <2>1a, <2>1b, <2>2, <2>3
<1> QED
  BY <1>1, <1>4, <1>5, SameParts

-----------------------------------------------------------------------------
\* A container added by hand mounts what a pass writes no volume for.
HandMounts(a, r, f) == \E n \in DOMAIN f \cap Added : f[n].mounts \cap NotCarried(a, r) # {}

\* What applyAgent makes is admitted, but for what a hand may have added: each
\* container it builds mounts what it writes volumes for.
LEMMA Admission ==
  ASSUME NEW a \in AgentSpec, NEW r \in AgentReconciler, NEW s, Shape(s), NEW p,
         p = applyAgent(a, r, s),
         ~HandMounts(a, r, s.containers), ~HandMounts(a, r, s.initContainers)
  PROVE  Admitted(p)
<1>1. PICK i, c, f, g : /\ i = p.initContainers /\ c = p.containers
                        /\ f = s.containers /\ g = s.initContainers
  OBVIOUS
<1>2. /\ p.volumes = VolumesOf(a, r) /\ Built(a, r, p)
      /\ c = ContainersOf(a, r, f) /\ i = InitsOf(a, r, g)
  <2>1. p.volumes = VolumesOf(a, r)
    BY Applied, Zenon
  <2>2. Built(a, r, p)
    BY Applied, Zenon
  <2>3. p.containers = ContainersOf(a, r, s.containers)
    BY AppliedContainers, Zenon
  <2>4. p.initContainers = InitsOf(a, r, s.initContainers)
    BY AppliedInits, Zenon
  <2> QED
    BY <1>1, <2>1, <2>2, <2>3, <2>4
<1>3. BuiltInits(a, r, i) /\ BuiltContainers(a, r, c)
  BY <1>1, <1>2 DEF Built
<1>h. /\ f \in [DOMAIN f -> Container] /\ g \in [DOMAIN g -> Container]
      /\ ~HandMounts(a, r, f) /\ ~HandMounts(a, r, g)
  BY <1>1 DEF Shape, HeldContainers, HeldInits, Held
<1>4. PICK carried : carried = DOMAIN p.volumes \cup Claimed
  BY Zenon
<1>5. carried = {"credentials-secret", "credentials", "state"}
                \cup (IF r.ToolsImage = NoImage THEN {} ELSE {"tools"})
                \cup (IF a.pins = NoPins THEN {} ELSE {"config"})
  <2>1. PICK tools, file : /\ tools = (IF r.ToolsImage = NoImage THEN {} ELSE {"tools"})
                           /\ file = (IF a.pins = NoPins THEN {} ELSE {"config"})
    BY Zenon
  <2>2. DOMAIN p.volumes = {"credentials-secret", "credentials"} \cup tools \cup file
    BY <1>2, <2>1, VolumesAre
  <2>3. carried = {"credentials-secret", "credentials", "state"} \cup tools \cup file
    BY <1>4, <2>2 DEF Claimed
  <2> QED
    BY <2>1, <2>3
<1>b. \A v \in Volumes \cup Claimed : v \in carried \/ v \in NotCarried(a, r)
  BY <1>5 DEF Volumes, Claimed, NotCarried
<1>a. ASSUME NEW h, h \in [DOMAIN h -> Container], ~HandMounts(a, r, h),
             NEW n \in DOMAIN h \cap Added
      PROVE  h[n].mounts \subseteq carried
  <2>1. h[n].mounts \in SUBSET (Volumes \cup Claimed)
    BY <1>a DEF Container
  <2>2. h[n].mounts \cap NotCarried(a, r) = {}
    BY <1>a DEF HandMounts
  <2> QED
    BY <1>b, <2>1, <2>2
<1>6. ASSUME NEW n \in DOMAIN i  PROVE i[n].mounts \subseteq carried
  <2>1. CASE n = "credentials"
    <3>1. i[n].mounts = {"credentials-secret", "credentials"}
      BY <1>3, <2>1, WrittenHas DEF BuiltInits, CredentialsContainer
    <3> QED
      BY <1>5, <3>1
  <2>2. CASE n = "config"
    <3>1. i[n].mounts = {"config"}
      BY <1>3, <1>6, <2>2, WrittenHas DEF BuiltInits, ConfigContainer
    <3>2. a.pins # NoPins
      BY <1>3, <1>6, <2>2 DEF BuiltInits
    <3> QED
      BY <1>5, <3>1, <3>2
  <2>3. CASE n = "setup"
    <3>1. "setup" \in DOMAIN g
      BY <1>2, <1>6, <1>h, <2>3, SetupKept
    <3>2. InitsOf(a, r, g)["setup"] = g["setup"]
      BY <1>h, <3>1, InitsKept
    <3>3. g["setup"].mounts \subseteq carried
      BY <1>a, <1>h, <3>1 DEF Added
    <3> QED
      BY <1>2, <2>3, <3>2, <3>3
  <2> QED
    BY <1>3, <1>6, <2>1, <2>2, <2>3 DEF BuiltInits
<1>7. ASSUME NEW n \in DOMAIN c  PROVE c[n].mounts \subseteq carried
  <2>1. CASE n = "agent"
    <3>1. c[n].mounts = FullMounts(a, r)
      BY <1>3, <2>1, WrittenHas DEF BuiltContainers, AgentContainer
    <3> QED
      BY <1>5, <3>1 DEF FullMounts, AgentMounts
  <2>2. CASE n = "workspace"
    <3>1. c[n].mounts = {"state"}
      BY <1>3, <1>7, <2>2, WrittenHas DEF BuiltContainers, WorkspaceContainer
    <3> QED
      BY <1>5, <3>1
  <2>3. CASE n = "sidecar"
    <3>1. "sidecar" \in DOMAIN f
      BY <1>2, <1>7, <1>h, <2>3, SidecarKept
    <3>2. ContainersOf(a, r, f)["sidecar"] = f["sidecar"]
      BY <1>h, <3>1, ContainersKept
    <3>3. f["sidecar"].mounts \subseteq carried
      BY <1>a, <1>h, <3>1 DEF Added
    <3> QED
      BY <1>2, <2>3, <3>2, <3>3
  <2> QED
    BY <1>3, <1>7, <2>1, <2>2, <2>3 DEF BuiltContainers
<1> QED
  BY <1>1, <1>4, <1>6, <1>7 DEF Admitted

\* A StatefulSet has the shape when its parts have it.
LEMMA ShapeOf ==
  ASSUME NEW created \in BOOLEAN, NEW claim, NEW replicas, NEW v, NEW i, NEW c, NEW q,
         q = StatefulSet(created, claim, replicas, v, i, c),
         created => claim \in Sizes /\ replicas \in Nat \ {0},
         HeldVolumes(v), HeldInits(i), HeldContainers(c)
  PROVE  Shape(q)
<1>1. /\ Whole(q) /\ q.created = created /\ q.claim = claim /\ q.replicas = replicas
      /\ q.volumes = v /\ q.initContainers = i /\ q.containers = c
  BY StatefulSetHas
<1> QED
  BY <1>1 DEF Shape

LEMMA Finished ==
  ASSUME NEW c \in Container, c.image # NoImage, c.fixed # "unset", c.other # "unset"
  PROVE  IsContainer(c)
BY DEF Container, IsContainer

\* What applyAgent made and the API server filled in has the shape, and is built.
LEMMA DefaultedShape ==
  ASSUME NEW a \in AgentSpec, NEW r \in AgentReconciler, NEW s, Shape(s), NEW p,
         p = applyAgent(a, r, s)
  PROVE  Shape(Defaulted(p)) /\ Built(a, r, Defaulted(p))
<1>1. Whole(p) /\ p.created = TRUE /\ p.claim \in Sizes /\ p.replicas = 1
  BY Applied, Zenon
<1>2. p.volumes = VolumesOf(a, r)
  BY Applied, Zenon
<1>3. Built(a, r, p)
  BY Applied, Zenon
<1>4. PICK i, c, f, g, v, claim, created :
        /\ i = p.initContainers /\ c = p.containers /\ f = s.containers
        /\ g = s.initContainers /\ v = p.volumes /\ claim = p.claim /\ created = p.created
  OBVIOUS
<1>5. v \in [DOMAIN v -> Volume] /\ HeldVolumes(v)
  <2>1. v = VolumesOf(a, r)
    BY <1>2, <1>4
  <2>2. /\ v \in [DOMAIN v -> Volume]
        /\ DOMAIN v = {"credentials-secret", "credentials"}
                      \cup (IF r.ToolsImage = NoImage THEN {} ELSE {"tools"})
                      \cup (IF a.pins = NoPins THEN {} ELSE {"config"})
    BY <2>1, VolumesAre
  <2> QED
    BY <2>2 DEF HeldVolumes, Volumes
<1>6. Defaulted(p) = StatefulSet(created, claim, 1, v, Filled(i), Filled(c))
  BY <1>1, <1>4, <1>5, DefaultedIs, Zenon
<1>7. BuiltInits(a, r, i) /\ BuiltContainers(a, r, c)
  BY <1>3, <1>4 DEF Built
<1>8. BuiltInits(a, r, Filled(i)) /\ BuiltContainers(a, r, Filled(c))
  BY <1>7, FilledBuilt, Zenon
<1>9. PICK x, y : x = Filled(i) /\ y = Filled(c)
  OBVIOUS
<1>10. i \in [DOMAIN i -> Container] /\ c \in [DOMAIN c -> Container]
  BY <1>7 DEF BuiltInits, BuiltContainers
<1>11. /\ x \in [DOMAIN x -> Container] /\ DOMAIN x = DOMAIN i
       /\ y \in [DOMAIN y -> Container] /\ DOMAIN y = DOMAIN c
  BY <1>9, <1>10, FilledTyped
<1>12. /\ a.image \in Images /\ a.image # NoImage
       /\ r.CopyImage \in CopyImages /\ r.CopyImage # NoImage
  BY WorkloadAssumption DEF AgentSpec, AgentReconciler
<1>13. HeldInits(x)
  <2>0. g \in [DOMAIN g -> Container]
    BY <1>4 DEF Shape, HeldInits, Held
  <2>g. g \in [DOMAIN g -> Container] /\ \A n \in DOMAIN g : IsContainer(g[n])
    BY <1>4 DEF Shape, HeldInits, Held
  <2>k. ASSUME "setup" \in DOMAIN x  PROVE "setup" \in DOMAIN g /\ x["setup"] = g["setup"]
    <3>1. i = InitsOf(a, r, g)
      BY <1>4, AppliedInits
    <3>3. "setup" \in DOMAIN g
      BY <1>11, <2>0, <2>k, <3>1, SetupKept
    <3>4. i["setup"] = g["setup"]
      BY <2>g, <3>1, <3>3, InitsKept
    <3>5. i["setup"].other # "unset"
      BY <2>g, <3>3, <3>4 DEF IsContainer
    <3>6. x["setup"] = i["setup"]
      BY <1>9, <1>10, <1>11, <2>k, <3>5, FilledIs, Zenon
    <3> QED
      BY <3>3, <3>4, <3>6
  <2>1. ASSUME NEW n \in DOMAIN x  PROVE IsContainer(x[n])
    <3>1. x[n] \in Container /\ n \in DOMAIN i
      BY <1>11, <2>1
    <3>2. x[n].other \in {"defaulted", "hand"}
      BY <1>9, <1>10, <3>1, FilledIs, Zenon
    <3>3. CASE n = "credentials"
      <4>1. x[n].image = r.CopyImage /\ x[n].fixed = "written"
        BY <1>8, <1>9, <3>3, WrittenHas DEF BuiltInits, CredentialsContainer
      <4> QED
        BY <1>12, <3>1, <3>2, <4>1, Finished
    <3>4. CASE n = "config"
      <4>1. x[n].image = r.CopyImage /\ x[n].fixed = "written"
        BY <1>8, <1>9, <2>1, <3>4, WrittenHas DEF BuiltInits, ConfigContainer
      <4> QED
        BY <1>12, <3>1, <3>2, <4>1, Finished
    <3>5. CASE n = "setup"
      BY <2>g, <2>k, <2>1, <3>5
    <3> QED
      BY <1>8, <1>9, <2>1, <3>3, <3>4, <3>5 DEF BuiltInits
  <2>2. DOMAIN x \subseteq {"credentials", "config", "setup"}
    BY <1>8, <1>9 DEF BuiltInits
  <2> QED
    BY <1>11, <2>1, <2>2 DEF HeldInits, Held
<1>14. HeldContainers(y)
  <2>0. f \in [DOMAIN f -> Container]
    BY <1>4 DEF Shape, HeldContainers, Held
  <2>1. f \in [DOMAIN f -> Container] /\ \A n \in DOMAIN f : IsContainer(f[n])
    BY <1>4 DEF Shape, HeldContainers, Held
  <2>2. ASSUME "sidecar" \in DOMAIN y  PROVE "sidecar" \in DOMAIN f /\ y["sidecar"] = f["sidecar"]
    <3>1. c = ContainersOf(a, r, f)
      BY <1>4, AppliedContainers
    <3>3. "sidecar" \in DOMAIN f
      BY <1>11, <2>0, <2>2, <3>1, SidecarKept
    <3>4. c["sidecar"] = f["sidecar"]
      BY <2>1, <3>1, <3>3, ContainersKept
    <3>5. c["sidecar"].other # "unset"
      BY <2>1, <3>3, <3>4 DEF IsContainer
    <3>6. y["sidecar"] = c["sidecar"]
      BY <1>9, <1>10, <1>11, <2>2, <3>5, FilledIs, Zenon
    <3> QED
      BY <3>3, <3>4, <3>6
  <2>3. ASSUME NEW n \in DOMAIN y  PROVE IsContainer(y[n])
    <3>1. y[n] \in Container /\ n \in DOMAIN c
      BY <1>11, <2>3
    <3>2. y[n].other \in {"defaulted", "hand"}
      BY <1>9, <1>10, <3>1, FilledIs, Zenon
    <3>3. CASE n = "agent"
      <4>1. y[n].image = a.image /\ y[n].fixed = "written"
        BY <1>8, <1>9, <3>3, WrittenHas DEF BuiltContainers, AgentContainer
      <4> QED
        BY <1>12, <3>1, <3>2, <4>1, Finished
    <3>4. CASE n = "workspace"
      <4>1. y[n].image = r.WorkspaceImage /\ y[n].fixed = "written"
        BY <1>8, <1>9, <2>3, <3>4, WrittenHas DEF BuiltContainers, WorkspaceContainer
      <4>2. r.WorkspaceImage # NoImage
        BY <1>8, <1>9, <2>3, <3>4 DEF BuiltContainers
      <4> QED
        BY <3>1, <3>2, <4>1, <4>2, Finished
    <3>5. CASE n = "sidecar"
      BY <2>1, <2>2, <2>3, <3>5
    <3> QED
      BY <1>8, <1>9, <2>3, <3>3, <3>4, <3>5 DEF BuiltContainers
  <2>4. DOMAIN y \subseteq {"agent", "workspace", "sidecar"}
    BY <1>8, <1>9 DEF BuiltContainers
  <2>5. "sidecar" \in DOMAIN y => y["sidecar"].env \subseteq {<<"HAND", "hand">>}
    BY <1>4, <2>2 DEF Shape, HeldContainers
  <2> QED
    BY <1>11, <2>3, <2>4, <2>5 DEF HeldContainers, Held
<1>15. Defaulted(p) = StatefulSet(created, claim, 1, v, x, y)
  BY <1>6, <1>9
<1>16. created \in BOOLEAN /\ claim \in Sizes
  BY <1>1, <1>4, Zenon
<1>17. Shape(Defaulted(p))
  BY <1>5, <1>13, <1>14, <1>15, <1>16, ShapeOf
<1>18. Built(a, r, Defaulted(p))
  <2>1. PICK q : q = Defaulted(p)
    OBVIOUS
  <2>2. q.created = TRUE /\ q.replicas = 1 /\ q.volumes = v /\ q.initContainers = x /\ q.containers = y
    BY <1>1, <1>4, <1>15, <2>1, StatefulSetHas
  <2> QED
    BY <1>2, <1>4, <1>8, <1>9, <2>1, <2>2 DEF Built
<1> QED
  BY <1>17, <1>18

-----------------------------------------------------------------------------
\* A container a hand touched, and the one a hand adds.
LEMMA TouchedIs ==
  ASSUME NEW c \in Container, IsContainer(c)
  PROVE  /\ Touched(c) \in Container /\ IsContainer(Touched(c))
         /\ Touched(c).env = c.env \cup {<<"HAND", "hand">>}
<1>1. PICK env, mounts : env = c.env \cup {<<"HAND", "hand">>} /\ mounts = c.mounts \cup {"state"}
  BY Zenon
<1>2. env \in SUBSET EnvVar
  BY <1>1 DEF Container, EnvVar
<1>m. mounts \in SUBSET (Volumes \cup Claimed)
  BY <1>1 DEF Container, Claimed
<1>3. Touched(c) \in [image: {"hand"}, env: {env}, mounts: {mounts}, fixed: {"hand"},
                      other: {"hand"}]
  BY <1>1, Zenon DEF Container, Touched
<1>4. PICK t : t = Touched(c)
  OBVIOUS
<1>5. t \in Container /\ IsContainer(t) /\ t.env = env
  BY <1>2, <1>m, <1>3, <1>4 DEF Container, IsContainer
<1> QED
  BY <1>1, <1>4, <1>5

LEMMA AddedIs ==
  ASSUME NEW v \in Volumes \cup Claimed
  PROVE  /\ AddedByHand(v) \in Container /\ IsContainer(AddedByHand(v))
         /\ AddedByHand(v).env = {}
<1>1. {v} \in SUBSET (Volumes \cup Claimed)
  OBVIOUS
<1> QED
  BY <1>1 DEF Container, IsContainer, AddedByHand

\* What a hand makes of a list of finished containers is one: each is one that
\* was there, one it touched, or the one it added.
LEMMA HandListedIs ==
  ASSUME NEW f, NEW names, Held(f, names), NEW name \in names,
         NEW volumes \in SUBSET (Volumes \cup Claimed), NEW g \in HandListed(f, name, volumes)
  PROVE  /\ Held(g, names)
         /\ \A n \in DOMAIN g :
              \/ n = name /\ g[n].env = {}
              \/ n \in DOMAIN f /\ g[n].env = f[n].env
              \/ n \in DOMAIN f /\ g[n].env = f[n].env \cup {<<"HAND", "hand">>}
<1>1. f \in [DOMAIN f -> Container] /\ DOMAIN f \subseteq names /\ \A n \in DOMAIN f : IsContainer(f[n])
  BY DEF Held
<1>2. CASE \E n \in DOMAIN f : g = Put(f, n, Touched(f[n]))
  <2>1. PICK n \in DOMAIN f : g = Put(f, n, Touched(f[n]))
    BY <1>2
  <2>2. f[n] \in Container /\ IsContainer(f[n])
    BY <1>1, <2>1
  <2>3. PICK e : e = Touched(f[n])
    OBVIOUS
  <2>4. e \in Container /\ IsContainer(e) /\ e.env = f[n].env \cup {<<"HAND", "hand">>}
    BY <2>2, <2>3, TouchedIs
  <2>5. /\ g \in [DOMAIN g -> Container] /\ DOMAIN g = DOMAIN f /\ g[n] = e
        /\ \A x \in DOMAIN f : x # n => g[x] = f[x]
    BY <1>1, <2>1, <2>3, <2>4 DEF Put
  <2>6. Held(g, names)
    BY <1>1, <2>4, <2>5 DEF Held
  <2>7. \A x \in DOMAIN g : x \in DOMAIN f /\ (x = n \/ g[x] = f[x])
    BY <2>5
  <2> QED
    BY <2>4, <2>5, <2>6, <2>7, Zenon
<1>3. CASE \E n \in DOMAIN f : g = Without(f, n)
  <2>1. PICK n \in DOMAIN f : g = Without(f, n)
    BY <1>3
  <2>2. /\ g \in [DOMAIN g -> Container] /\ DOMAIN g \subseteq DOMAIN f
        /\ \A x \in DOMAIN g : g[x] = f[x]
    BY <1>1, <2>1 DEF Without
  <2>3. Held(g, names)
    BY <1>1, <2>2 DEF Held
  <2>4. \A x \in DOMAIN g : x \in DOMAIN f /\ g[x] = f[x]
    BY <2>2
  <2> QED
    BY <2>3, <2>4, Zenon
<1>4. CASE \E v \in volumes : g = Put(f, name, AddedByHand(v))
  <2>1. PICK v \in volumes : g = Put(f, name, AddedByHand(v))
    BY <1>4
  <2>2. PICK e : e = AddedByHand(v)
    OBVIOUS
  <2>3. e \in Container /\ IsContainer(e) /\ e.env = {}
    BY <2>1, <2>2, AddedIs
  <2>4. /\ g \in [DOMAIN g -> Container] /\ DOMAIN g = DOMAIN f \cup {name} /\ g[name] = e
        /\ \A x \in DOMAIN f : x # name => g[x] = f[x]
    BY <1>1, <2>1, <2>2, <2>3 DEF Put
  <2>5. Held(g, names)
    BY <1>1, <2>3, <2>4 DEF Held
  <2>6. \A x \in DOMAIN g : x = name \/ (x \in DOMAIN f /\ g[x] = f[x])
    BY <2>4
  <2> QED
    BY <2>3, <2>4, <2>5, <2>6, Zenon
<1> QED
  BY <1>2, <1>3, <1>4, Zenon DEF HandListed

\* A StatefulSet with one part replaced.
LEMMA Edited ==
  ASSUME NEW s, Whole(s), NEW x
  PROVE  /\ [s EXCEPT !.replicas = x]
              = StatefulSet(s.created, s.claim, x, s.volumes, s.initContainers, s.containers)
         /\ [s EXCEPT !.volumes = x]
              = StatefulSet(s.created, s.claim, s.replicas, x, s.initContainers, s.containers)
<1>1. [s EXCEPT !.replicas = x]
        \in [created: {s.created}, claim: {s.claim}, replicas: {x}, volumes: {s.volumes},
             initContainers: {s.initContainers}, containers: {s.containers}]
  BY Zenon DEF Whole
<1>2. [s EXCEPT !.volumes = x]
        \in [created: {s.created}, claim: {s.claim}, replicas: {s.replicas}, volumes: {x},
             initContainers: {s.initContainers}, containers: {s.containers}]
  BY Zenon DEF Whole
<1>3. [s EXCEPT !.replicas = x]
        = StatefulSet(s.created, s.claim, x, s.volumes, s.initContainers, s.containers)
  BY <1>1, StatefulSetIs, Zenon
<1>4. [s EXCEPT !.volumes = x]
        = StatefulSet(s.created, s.claim, s.replicas, x, s.initContainers, s.containers)
  BY <1>2, StatefulSetIs, Zenon
<1> QED
  BY <1>3, <1>4

LEMMA EditedLists ==
  ASSUME NEW s, Whole(s), NEW x
  PROVE  /\ [s EXCEPT !.initContainers = x]
              = StatefulSet(s.created, s.claim, s.replicas, s.volumes, x, s.containers)
         /\ [s EXCEPT !.containers = x]
              = StatefulSet(s.created, s.claim, s.replicas, s.volumes, s.initContainers, x)
<1>1. [s EXCEPT !.initContainers = x]
        \in [created: {s.created}, claim: {s.claim}, replicas: {s.replicas},
             volumes: {s.volumes}, initContainers: {x}, containers: {s.containers}]
  BY Zenon DEF Whole
<1>2. [s EXCEPT !.containers = x]
        \in [created: {s.created}, claim: {s.claim}, replicas: {s.replicas},
             volumes: {s.volumes}, initContainers: {s.initContainers}, containers: {x}]
  BY Zenon DEF Whole
<1>3. [s EXCEPT !.initContainers = x]
        = StatefulSet(s.created, s.claim, s.replicas, s.volumes, x, s.containers)
  BY <1>1, StatefulSetIs, Zenon
<1>4. [s EXCEPT !.containers = x]
        = StatefulSet(s.created, s.claim, s.replicas, s.volumes, s.initContainers, x)
  BY <1>2, StatefulSetIs, Zenon
<1> QED
  BY <1>3, <1>4

\* What a hand makes of a StatefulSet of the right shape has the shape.
LEMMA HandShape ==
  ASSUME NEW s, Shape(s), s.created, NEW q \in HandEdited(s)
  PROVE  Shape(q)
<1>1. PICK created, claim, replicas, v, i, c :
        /\ created = s.created /\ claim = s.claim /\ replicas = s.replicas
        /\ v = s.volumes /\ i = s.initContainers /\ c = s.containers
  BY Zenon
<1>2. /\ created \in BOOLEAN /\ claim \in Sizes /\ replicas \in Nat \ {0}
      /\ HeldVolumes(v) /\ HeldInits(i) /\ HeldContainers(c)
  BY <1>1 DEF Shape
<1>w. Whole(s)
  BY DEF Shape
<1>3. PICK there : there = DOMAIN v \cup Claimed
  BY Zenon
<1>4. there \in SUBSET (Volumes \cup Claimed)
  BY <1>2, <1>3 DEF HeldVolumes
<1>5. CASE q = [s EXCEPT !.replicas = 2]
  <2>1. q = StatefulSet(created, claim, 2, v, i, c)
    BY <1>1, <1>5, <1>w, Edited, Zenon
  <2> QED
    BY <1>2, <2>1, ShapeOf
<1>6. ASSUME NEW n \in DOMAIN v \cup {"scratch"},
             q = [s EXCEPT !.volumes = Put(s.volumes, n, [source |-> "disk", mode |-> "none"])]
      PROVE  Shape(q)
  <2>1. PICK d \in Volume : d = [source |-> "disk", mode |-> "none"]
    BY Zenon DEF Volume
  <2>2. PICK x : x = Put(v, n, d)
    OBVIOUS
  <2>3. q = StatefulSet(created, claim, replicas, x, i, c)
    BY <1>1, <1>6, <1>w, <2>1, <2>2, Edited, Zenon
  <2>4. n \in Volumes
    BY <1>2, <1>6 DEF HeldVolumes, Volumes
  <2>5. HeldVolumes(x)
    BY <1>2, <2>2, <2>4 DEF HeldVolumes, Put
  <2> QED
    BY <1>2, <2>3, <2>5, ShapeOf
<1>7. ASSUME NEW x \in HandListed(i, "setup", there), q = [s EXCEPT !.initContainers = x]
      PROVE  Shape(q)
  <2>1. q = StatefulSet(created, claim, replicas, v, x, c)
    BY <1>1, <1>7, <1>w, EditedLists, Zenon
  <2>2. HeldInits(x)
    BY <1>2, <1>4, <1>7, HandListedIs DEF HeldInits
  <2> QED
    BY <1>2, <2>1, <2>2, ShapeOf
<1>8. ASSUME NEW x \in HandListed(c, "sidecar", there), q = [s EXCEPT !.containers = x]
      PROVE  Shape(q)
  <2>1. q = StatefulSet(created, claim, replicas, v, i, x)
    BY <1>1, <1>8, <1>w, EditedLists, Zenon
  <2>2. /\ Held(x, {"agent", "workspace", "sidecar"})
        /\ \A n \in DOMAIN x :
             \/ n = "sidecar" /\ x[n].env = {}
             \/ n \in DOMAIN c /\ x[n].env = c[n].env
             \/ n \in DOMAIN c /\ x[n].env = c[n].env \cup {<<"HAND", "hand">>}
    <3>1. Held(c, {"agent", "workspace", "sidecar"})
      BY <1>2 DEF HeldContainers
    <3>2. PICK names : names = {"agent", "workspace", "sidecar"}
      OBVIOUS
    <3> QED
      BY <1>4, <1>8, <3>1, <3>2, HandListedIs
  <2>3. "sidecar" \in DOMAIN x => x["sidecar"].env \subseteq {<<"HAND", "hand">>}
    BY <1>2, <2>2 DEF HeldContainers
  <2>4. HeldContainers(x)
    BY <2>2, <2>3 DEF HeldContainers
  <2> QED
    BY <1>2, <2>1, <2>4, ShapeOf
<1>9. \/ q = [s EXCEPT !.replicas = 2]
      \/ \E n \in DOMAIN v \cup {"scratch"} :
           q = [s EXCEPT !.volumes = Put(s.volumes, n, [source |-> "disk", mode |-> "none"])]
      \/ \E x \in HandListed(i, "setup", there) : q = [s EXCEPT !.initContainers = x]
      \/ \E x \in HandListed(c, "sidecar", there) : q = [s EXCEPT !.containers = x]
  BY <1>1, <1>3, Zenon DEF HandEdited
<1> QED
  BY <1>5, <1>6, <1>7, <1>8, <1>9, Zenon

-----------------------------------------------------------------------------
LEMMA NothingShape == Shape(Nothing)
<1>1. PICK none : none = NoneYet
  OBVIOUS
<1>2. DOMAIN none = {}
  BY <1>1 DEF NoneYet
<1>3. none = [n \in DOMAIN none |-> none[n]]
  BY <1>1 DEF NoneYet
<1>4. HeldVolumes(none) /\ HeldInits(none) /\ HeldContainers(none)
  BY <1>2, <1>3 DEF HeldVolumes, HeldInits, HeldContainers, Held
<1>5. PICK created : created = FALSE
  BY Zenon
<1>6. Nothing = StatefulSet(created, "unset", 0, none, none, none)
  BY <1>1, <1>5, Zenon DEF Nothing, StatefulSet
<1> QED
  BY <1>4, <1>5, <1>6, ShapeOf, Zenon

\* A pass leaves the shape, and where it is not refused what it leaves is built.
LEMMA PassKeeps ==
  ASSUME WInv, reconcileStatefulSet
  PROVE  WInv'
<1>1. PICK p : p = applyAgent(spec, config, stored)
  OBVIOUS
<1>2. /\ stored' = (IF p = stored \/ ~Admitted(p) THEN stored ELSE Defaulted(p))
      /\ settled' = Admitted(p)
      /\ spec' = spec /\ config' = config
  BY <1>1, Zenon DEF reconcileStatefulSet
<1>3. spec \in AgentSpec /\ config \in AgentReconciler /\ Shape(stored)
  BY DEF WInv
<1>4. Shape(Defaulted(p)) /\ Built(spec, config, Defaulted(p)) /\ Built(spec, config, p)
  <2>1. Shape(Defaulted(p)) /\ Built(spec, config, Defaulted(p))
    BY <1>1, <1>3, DefaultedShape, Zenon
  <2>2. Built(spec, config, p)
    BY <1>1, <1>3, Applied, Zenon
  <2> QED
    BY <2>1, <2>2
<1>5. Admitted(p) \in BOOLEAN
  BY DEF Admitted
<1>6. CASE Admitted(p)
  <2>1. Shape(stored') /\ Built(spec, config, stored')
    BY <1>2, <1>3, <1>4, <1>6, Zenon
  <2> QED
    BY <1>2, <1>3, <1>5, <2>1, Zenon DEF WInv
<1>7. CASE ~Admitted(p)
  <2>1. stored' = stored
    BY <1>2, <1>7
  <2> QED
    BY <1>2, <1>3, <1>5, <1>7, <2>1, Zenon DEF WInv
<1> QED
  BY <1>6, <1>7

LEMMA WInvHolds == WorkloadSpec => []WInv
<1>1. Init => WInv
  BY NothingShape, Zenon DEF Init, WInv
<1>2. WInv /\ [Next]_vars => WInv'
  <2> SUFFICES ASSUME WInv, [Next]_vars  PROVE WInv'
    OBVIOUS
  <2>1. CASE reconcileStatefulSet
    BY <2>1, PassKeeps
  <2>2. CASE Edit
    BY <2>2, Zenon DEF Edit, WInv
  <2>3. CASE Reconfigure
    BY <2>3, Zenon DEF Reconfigure, WInv
  <2>4. CASE Drift
    <3>1. Shape(stored')
      BY <2>4, HandShape DEF Drift, WInv
    <3> QED
      BY <2>4, <3>1, Zenon DEF Drift, WInv
  <2>5. CASE UNCHANGED vars
    BY <2>5 DEF vars, WInv
  <2> QED
    BY <2>1, <2>2, <2>3, <2>4, <2>5 DEF Next
<1> QED
  BY <1>1, <1>2, PTL DEF WorkloadSpec

\* Every container and volume of the StatefulSet the API server holds is one a
\* template may carry, and none of its fields was left unwritten.
THEOREM TypeCorrect == WorkloadSpec => []TypeOK
<1>1. WInv => TypeOK
  <2> SUFFICES ASSUME WInv  PROVE TypeOK
    OBVIOUS
  <2>1. spec \in AgentSpec /\ config \in AgentReconciler /\ settled \in BOOLEAN
    BY DEF WInv
  <2>2. /\ stored.created \in BOOLEAN
        /\ stored.created => stored.claim \in Sizes /\ stored.replicas \in Nat \ {0}
    BY DEF WInv, Shape
  <2>3. /\ DOMAIN stored.volumes \subseteq Volumes
        /\ \A n \in DOMAIN stored.volumes : IsVolume(stored.volumes[n])
    <3>1. HeldVolumes(stored.volumes)
      BY DEF WInv, Shape
    <3>2. \A v \in Volume : IsVolume(v)
      BY DEF Volume, IsVolume
    <3> QED
      BY <3>1, <3>2 DEF HeldVolumes
  <2>4. /\ DOMAIN stored.initContainers \cup DOMAIN stored.containers \subseteq Names
        /\ \A n \in DOMAIN stored.initContainers : IsContainer(stored.initContainers[n])
        /\ \A n \in DOMAIN stored.containers : IsContainer(stored.containers[n])
    <3>1. HeldInits(stored.initContainers) /\ HeldContainers(stored.containers)
      BY DEF WInv, Shape
    <3> QED
      BY <3>1 DEF HeldInits, HeldContainers, Held, Names, Added
  <2> QED
    BY <2>1, <2>2, <2>3, <2>4 DEF TypeOK
<1> QED
  BY <1>1, WInvHolds, PTL

\* Whatever the spec, the configuration and a hand make of the StatefulSet, a
\* pass of reconcileStatefulSet is refused only where a container or an init
\* container added by hand mounts a volume added by hand, or the tool tree or
\* the config file that applyAgent no longer writes.
THEOREM RefusedForHandsOnly == WorkloadSpec => []OnlyHandsAreRefused
<1>1. WInv => OnlyHandsAreRefused
  <2> SUFFICES ASSUME WInv, ~HandMounts(spec, config, stored.containers),
                      ~HandMounts(spec, config, stored.initContainers)
               PROVE  Admitted(applyAgent(spec, config, stored))
    BY Zenon DEF OnlyHandsAreRefused, HandMounts
  <2>1. spec \in AgentSpec /\ config \in AgentReconciler /\ Shape(stored)
    BY DEF WInv
  <2> QED
    BY <2>1, Admission, Zenon
<1> QED
  BY <1>1, WInvHolds, PTL

\* applyAgent finds nothing to write in what it wrote and the API server
\* defaulted: CreateOrUpdate does not write an unchanged Agent's StatefulSet.
THEOREM PassesSettle == WorkloadSpec => []UnchangedIsNotWritten
<1>1. WInv => UnchangedIsNotWritten
  <2> SUFFICES ASSUME WInv, settled  PROVE applyAgent(spec, config, stored) = stored
    BY DEF UnchangedIsNotWritten
  <2>1. /\ spec \in AgentSpec /\ config \in AgentReconciler /\ Shape(stored)
        /\ Built(spec, config, stored)
    BY DEF WInv
  <2> QED
    BY <2>1, BuiltStays, Zenon
<1> QED
  BY <1>1, WInvHolds, PTL

-----------------------------------------------------------------------------
\* What is decided of a container.
DecidedOf(n, c) == [c EXCEPT !.other = "unset", !.env = IF n = "credentials" THEN {} ELSE c.env]

LEMMA DecidedWritten ==
  ASSUME NEW n, NEW image, NEW env, NEW mounts, NEW other, NEW c,
         c = Written(image, env, mounts, other)
  PROVE  /\ n = "credentials" => DecidedOf(n, c) = Written(image, {}, mounts, "unset")
         /\ n # "credentials" => DecidedOf(n, c) = Written(image, env, mounts, "unset")
<1>1. ASSUME NEW e
      PROVE  [c EXCEPT !.other = "unset", !.env = e] = Written(image, e, mounts, "unset")
  <2>1. c \in [image: {image}, env: {env}, mounts: {mounts}, fixed: {"written"}, other: {other}]
    BY DEF Written
  <2>2. [c EXCEPT !.other = "unset", !.env = e]
          \in [image: {image}, env: {e}, mounts: {mounts}, fixed: {"written"}, other: {"unset"}]
    BY <2>1, Zenon
  <2>3. PICK x, unset : x = [c EXCEPT !.other = "unset", !.env = e] /\ unset = "unset"
    BY Zenon
  <2>4. x = Written(image, e, mounts, unset)
    BY <2>2, <2>3, WrittenIs, Zenon
  <2> QED
    BY <2>3, <2>4, Zenon
<1>2. c.env = env
  BY WrittenHas
<1>3. n = "credentials" => DecidedOf(n, c) = Written(image, {}, mounts, "unset")
  BY <1>1, Zenon DEF DecidedOf
<1>4. n # "credentials" => DecidedOf(n, c) = Written(image, env, mounts, "unset")
  BY <1>1, <1>2, Zenon DEF DecidedOf
<1> QED
  BY <1>3, <1>4

LEMMA SameDecided ==
  ASSUME NEW f, NEW g, DOMAIN f \cap Owned = DOMAIN g \cap Owned,
         \A n \in DOMAIN f \cap Owned : DecidedOf(n, f[n]) = DecidedOf(n, g[n])
  PROVE  Decided(f) = Decided(g)
<1>1. /\ Decided(f) = [n \in DOMAIN f \cap Owned |-> DecidedOf(n, f[n])]
      /\ Decided(g) = [n \in DOMAIN g \cap Owned |-> DecidedOf(n, g[n])]
  BY Zenon DEF Decided, DecidedOf
<1> QED
  BY <1>1, Zenon

\* What is decided of built containers depends on the spec and the
\* configuration alone.
LEMMA DecidedInits ==
  ASSUME NEW a, NEW r, NEW i, NEW j, BuiltInits(a, r, i), BuiltInits(a, r, j)
  PROVE  Decided(i) = Decided(j)
<1>1. ASSUME NEW f, BuiltInits(a, r, f)
      PROVE  /\ DecidedOf("credentials", f["credentials"])
                  = Written(r.CopyImage, {}, {"credentials-secret", "credentials"}, "unset")
             /\ "config" \in DOMAIN f => DecidedOf("config", f["config"])
                                           = ConfigContainer(a, r, "unset")
  <2>1. f["credentials"] = Written(r.CopyImage, f["credentials"].env,
                                   {"credentials-secret", "credentials"}, f["credentials"].other)
    BY <1>1, Zenon DEF BuiltInits, CredentialsContainer
  <2>2. DecidedOf("credentials", f["credentials"])
          = Written(r.CopyImage, {}, {"credentials-secret", "credentials"}, "unset")
    BY <2>1, DecidedWritten
  <2>3. ASSUME "config" \in DOMAIN f
        PROVE  DecidedOf("config", f["config"]) = ConfigContainer(a, r, "unset")
    <3>1. f["config"] = ConfigContainer(a, r, f["config"].other)
      BY <1>1, <2>3 DEF BuiltInits
    <3>2. PICK env, other : /\ env = {<<"AGENT_CONFIG_CONTENT", renderAgentConfig(a.pins)>>}
                            /\ other = f["config"].other
      BY Zenon
    <3>3. f["config"] = Written(r.CopyImage, env, {"config"}, other)
      BY <3>1, <3>2, Zenon DEF ConfigContainer
    <3>4. "config" # "credentials"
      OBVIOUS
    <3>5. DecidedOf("config", f["config"]) = Written(r.CopyImage, env, {"config"}, "unset")
      BY <3>3, <3>4, DecidedWritten
    <3> QED
      BY <3>2, <3>5, Zenon DEF ConfigContainer
  <2> QED
    BY <2>2, <2>3
<1>2. DOMAIN i \cap Owned = DOMAIN j \cap Owned
  BY DEF BuiltInits, Owned, Names, Added
<1>3. ASSUME NEW n \in DOMAIN i \cap Owned  PROVE DecidedOf(n, i[n]) = DecidedOf(n, j[n])
  <2>1. CASE n = "credentials"
    BY <1>1, <2>1, Zenon
  <2>2. CASE n = "config"
    <3>1. "config" \in DOMAIN i /\ "config" \in DOMAIN j
      BY <1>2, <1>3, <2>2
    <3> QED
      BY <1>1, <2>2, <3>1, Zenon
  <2>3. n = "credentials" \/ n = "config"
    BY <1>3 DEF BuiltInits, Owned, Names, Added
  <2> QED
    BY <2>1, <2>2, <2>3
<1> QED
  BY <1>2, <1>3, SameDecided, Zenon

\* ... and likewise the containers.
LEMMA DecidedContainers ==
  ASSUME NEW a, NEW r, NEW c, NEW d, BuiltContainers(a, r, c), BuiltContainers(a, r, d)
  PROVE  Decided(c) = Decided(d)
<1>0. "agent" # "credentials" /\ "workspace" # "credentials"
  OBVIOUS
<1>1. ASSUME NEW f, BuiltContainers(a, r, f)
      PROVE  /\ DecidedOf("agent", f["agent"]) = AgentContainer(a, r, "unset")
             /\ "workspace" \in DOMAIN f => DecidedOf("workspace", f["workspace"])
                                              = WorkspaceContainer(r, "unset")
  <2>1. PICK env, mounts : env = FullEnv(a, r) /\ mounts = FullMounts(a, r)
    OBVIOUS
  <2>2. f["agent"] = AgentContainer(a, r, f["agent"].other)
    BY <1>1 DEF BuiltContainers
  <2>3. f["agent"] = Written(a.image, env, mounts, f["agent"].other)
    BY <2>1, <2>2, Zenon DEF AgentContainer
  <2>4. DecidedOf("agent", f["agent"]) = Written(a.image, env, mounts, "unset")
    BY <1>0, <2>3, DecidedWritten
  <2>5. DecidedOf("agent", f["agent"]) = AgentContainer(a, r, "unset")
    BY <2>1, <2>4, Zenon DEF AgentContainer
  <2>6. ASSUME "workspace" \in DOMAIN f
        PROVE  DecidedOf("workspace", f["workspace"]) = WorkspaceContainer(r, "unset")
    <3>1. PICK e : e = {<<"GAGENT_ADDR", "loopback">>, <<"GAGENT_WORKSPACE", "state">>,
                        <<"GAGENT_EXEC_UID", "user">>}
      BY Zenon
    <3>2. f["workspace"] = WorkspaceContainer(r, f["workspace"].other)
      BY <1>1, <2>6 DEF BuiltContainers
    <3>3. f["workspace"] = Written(r.WorkspaceImage, e, {"state"}, f["workspace"].other)
      BY <3>1, <3>2, Zenon DEF WorkspaceContainer
    <3>4. DecidedOf("workspace", f["workspace"]) = Written(r.WorkspaceImage, e, {"state"}, "unset")
      BY <1>0, <3>3, DecidedWritten
    <3> QED
      BY <3>1, <3>4, Zenon DEF WorkspaceContainer
  <2> QED
    BY <2>5, <2>6
<1>2. DOMAIN c \cap Owned = DOMAIN d \cap Owned
  BY DEF BuiltContainers, Owned, Names, Added
<1>3. ASSUME NEW n \in DOMAIN c \cap Owned  PROVE DecidedOf(n, c[n]) = DecidedOf(n, d[n])
  <2>1. CASE n = "agent"
    BY <1>1, <2>1, Zenon
  <2>2. CASE n = "workspace"
    <3>1. "workspace" \in DOMAIN c /\ "workspace" \in DOMAIN d
      BY <1>2, <1>3, <2>2
    <3> QED
      BY <1>1, <2>2, <3>1, Zenon
  <2>3. n = "agent" \/ n = "workspace"
    BY <1>3 DEF BuiltContainers, Owned, Names, Added
  <2> QED
    BY <2>1, <2>2, <2>3
<1> QED
  BY <1>2, <1>3, SameDecided, Zenon

\* applyAgent forgets: a StatefulSet a pass left holds, volume by volume and
\* container by container, what the spec and the configuration would build from
\* nothing, whatever passes and hands it went through before.  It keeps only the
\* fields it does not decide and the containers a hand added.
THEOREM HistoryForgotten == WorkloadSpec => []BuiltAsFromNothing
<1>1. WInv => BuiltAsFromNothing
  <2> SUFFICES ASSUME WInv, settled
               PROVE  LET fresh == applyAgent(spec, config, Nothing)
                      IN /\ Decided(stored.containers) = Decided(fresh.containers)
                         /\ Decided(stored.initContainers) = Decided(fresh.initContainers)
                         /\ stored.volumes = fresh.volumes /\ stored.replicas = 1
    BY DEF BuiltAsFromNothing
  <2>1. spec \in AgentSpec /\ config \in AgentReconciler /\ Built(spec, config, stored)
    BY DEF WInv
  <2>2. PICK fresh : fresh = applyAgent(spec, config, Nothing)
    OBVIOUS
  <2>3. Built(spec, config, fresh)
    BY <2>1, <2>2, NothingShape, Applied, Zenon
  <2>4. /\ BuiltInits(spec, config, stored.initContainers)
        /\ BuiltInits(spec, config, fresh.initContainers)
        /\ BuiltContainers(spec, config, stored.containers)
        /\ BuiltContainers(spec, config, fresh.containers)
        /\ stored.volumes = fresh.volumes /\ stored.replicas = 1
    BY <2>1, <2>3 DEF Built
  <2>5. Decided(stored.initContainers) = Decided(fresh.initContainers)
    BY <2>4, DecidedInits
  <2>6. Decided(stored.containers) = Decided(fresh.containers)
    BY <2>4, DecidedContainers
  <2> QED
    BY <2>2, <2>4, <2>5, <2>6
<1> QED
  BY <1>1, WInvHolds, PTL

-----------------------------------------------------------------------------
\* Which variables the agent's container has.
LEMMA AgentVariables ==
  ASSUME NEW a, NEW r, NEW names, names = {v[1] : v \in FullEnv(a, r)}
  PROVE  /\ "GAGENT_WORKSPACE_ADDR" \in names <=> r.WorkspaceImage # NoImage
         /\ "GAGENT_TOOLS_DIR" \in names <=> r.ToolsImage # NoImage
         /\ "XDG_CONFIG_HOME" \in names <=> a.pins # NoPins
         /\ "AGENT_CONFIG_CONTENT" \notin names
<1>1. \A v \in FullEnv(a, r) :
        \/ v = <<"GAGENT_TOOLS_DIR", "tools">> /\ r.ToolsImage # NoImage
        \/ v = <<"GAGENT_WORKSPACE_ADDR", "loopback">> /\ r.WorkspaceImage # NoImage
        \/ v = <<"XDG_CONFIG_HOME", "config">> /\ a.pins # NoPins
  BY DEF FullEnv, agentEnv
<1>2. /\ r.ToolsImage # NoImage => <<"GAGENT_TOOLS_DIR", "tools">> \in FullEnv(a, r)
      /\ r.WorkspaceImage # NoImage => <<"GAGENT_WORKSPACE_ADDR", "loopback">> \in FullEnv(a, r)
      /\ a.pins # NoPins => <<"XDG_CONFIG_HOME", "config">> \in FullEnv(a, r)
  BY DEF FullEnv, agentEnv
<1>3. \A n : n \in names <=> \E v \in FullEnv(a, r) : v[1] = n
  OBVIOUS
<1>4. \A n \in names : \/ n = "GAGENT_TOOLS_DIR" /\ r.ToolsImage # NoImage
                       \/ n = "GAGENT_WORKSPACE_ADDR" /\ r.WorkspaceImage # NoImage
                       \/ n = "XDG_CONFIG_HOME" /\ a.pins # NoPins
  BY <1>1, <1>3
<1>5. /\ r.ToolsImage # NoImage => "GAGENT_TOOLS_DIR" \in names
      /\ r.WorkspaceImage # NoImage => "GAGENT_WORKSPACE_ADDR" \in names
      /\ a.pins # NoPins => "XDG_CONFIG_HOME" \in names
  BY <1>2, <1>3
<1> QED
  BY <1>4, <1>5

\* The agent of a StatefulSet a pass left is pointed at a workspace, a tool
\* tree and a config file exactly where the Pod carries them, and the text of
\* the file is in no container of the Pod but the one that writes it.
THEOREM PointersNeverDangle == WorkloadSpec => []PointersResolve
<1>1. WInv => PointersResolve
  <2> SUFFICES ASSUME WInv, settled
               PROVE  LET env(n) == {v[1] : v \in stored.containers[n].env}
                          agent == stored.containers["agent"]
                      IN /\ "GAGENT_WORKSPACE_ADDR" \in env("agent")
                              <=> "workspace" \in DOMAIN stored.containers
                         /\ "GAGENT_TOOLS_DIR" \in env("agent") <=> "tools" \in agent.mounts
                         /\ "XDG_CONFIG_HOME" \in env("agent")
                              <=> /\ "config" \in agent.mounts
                                  /\ "config" \in DOMAIN stored.initContainers
                         /\ \A n \in DOMAIN stored.containers :
                              "AGENT_CONFIG_CONTENT" \notin env(n)
    BY DEF PointersResolve
  <2> DEFINE env(n) == {v[1] : v \in stored.containers[n].env}
  <2>1. PICK i, c : i = stored.initContainers /\ c = stored.containers
    OBVIOUS
  <2>2. BuiltInits(spec, config, i) /\ BuiltContainers(spec, config, c) /\ HeldContainers(c)
    BY <2>1 DEF WInv, Built, Shape
  <2>3. c["agent"].env = FullEnv(spec, config) /\ c["agent"].mounts = FullMounts(spec, config)
    BY <2>2, WrittenHas DEF BuiltContainers, AgentContainer
  <2>4. PICK names : names = env("agent")
    BY Zenon
  <2>5. /\ "GAGENT_WORKSPACE_ADDR" \in names <=> config.WorkspaceImage # NoImage
        /\ "GAGENT_TOOLS_DIR" \in names <=> config.ToolsImage # NoImage
        /\ "XDG_CONFIG_HOME" \in names <=> spec.pins # NoPins
        /\ "AGENT_CONFIG_CONTENT" \notin names
    <3>1. names = {v[1] : v \in FullEnv(spec, config)}
      BY <2>1, <2>3, <2>4
    <3> QED
      BY <3>1, AgentVariables, Zenon
  <2>6. /\ "workspace" \in DOMAIN c <=> config.WorkspaceImage # NoImage
        /\ "config" \in DOMAIN i <=> spec.pins # NoPins
    BY <2>2 DEF BuiltInits, BuiltContainers
  <2>7. /\ "tools" \in c["agent"].mounts <=> config.ToolsImage # NoImage
        /\ "config" \in c["agent"].mounts <=> spec.pins # NoPins
    BY <2>3 DEF FullMounts, AgentMounts
  <2>8. ASSUME NEW n \in DOMAIN c  PROVE "AGENT_CONFIG_CONTENT" \notin env(n)
    <3>1. CASE n = "agent"
      BY <2>4, <2>5, <3>1
    <3>2. CASE n = "workspace"
      <4>1. c[n].env = {<<"GAGENT_ADDR", "loopback">>, <<"GAGENT_WORKSPACE", "state">>,
                        <<"GAGENT_EXEC_UID", "user">>}
        BY <2>2, <2>8, <3>2, WrittenHas DEF BuiltContainers, WorkspaceContainer
      <4> QED
        BY <2>1, <4>1
    <3>3. CASE n = "sidecar"
      <4>1. c[n].env \subseteq {<<"HAND", "hand">>}
        BY <2>2, <2>8, <3>3 DEF HeldContainers
      <4> QED
        BY <2>1, <4>1
    <3> QED
      BY <2>2, <2>8, <3>1, <3>2, <3>3 DEF BuiltContainers
  <2> QED
    BY <2>1, <2>4, <2>5, <2>6, <2>7, <2>8
<1> QED
  BY <1>1, WInvHolds, PTL

\* A list of containers a pass made of another, once the API server filled it in,
\* where the pass kept the fields it does not decide.
LEMMA FilledKept ==
  ASSUME NEW f, NEW c, c \in [DOMAIN c -> Container], \A n \in DOMAIN f : IsContainer(f[n]),
         Kept(f, c)
  PROVE  Kept(f, Filled(c))
<1>1. DOMAIN Filled(c) = DOMAIN c
  BY FilledTyped
<1>2. ASSUME NEW n \in DOMAIN f \cap DOMAIN c  PROVE Filled(c)[n] = c[n]
  <2>1. f[n].other # "unset"
    BY <1>2 DEF IsContainer
  <2>2. c[n].other = f[n].other
    BY <1>2 DEF Kept
  <2> QED
    BY <1>2, <2>1, <2>2, FilledIs, Zenon
<1>3. ASSUME NEW n \in DOMAIN f \cap DOMAIN Filled(c)  PROVE Filled(c)[n].other = f[n].other
  BY <1>1, <1>2, <1>3 DEF Kept
<1>4. ASSUME NEW n \in DOMAIN f \cap Added
      PROVE  n \in DOMAIN Filled(c) /\ Filled(c)[n] = f[n]
  BY <1>1, <1>2, <1>4 DEF Kept
<1>5. ASSUME "credentials" \in DOMAIN f
      PROVE  "credentials" \in DOMAIN Filled(c)
             /\ Filled(c)["credentials"].env = f["credentials"].env
  BY <1>1, <1>2, <1>5 DEF Kept
<1> QED
  BY <1>3, <1>4, <1>5 DEF Kept

\* applyAgent keeps what it does not decide of the containers it finds ...
LEMMA ContainersLeft ==
  ASSUME NEW a \in AgentSpec, NEW r \in AgentReconciler, NEW f, HeldContainers(f)
  PROVE  /\ ContainersOf(a, r, f) \in [DOMAIN ContainersOf(a, r, f) -> Container]
         /\ Kept(f, ContainersOf(a, r, f))
<1>1. f \in [DOMAIN f -> Container] /\ DOMAIN f \subseteq {"agent", "workspace", "sidecar"}
  BY DEF HeldContainers, Held
<1>f. f \in [DOMAIN f -> Container]
  BY <1>1
<1>2. PICK c : c = ContainersOf(a, r, f)
  OBVIOUS
<1>3. /\ c \in [DOMAIN c -> Container]
      /\ DOMAIN c = (DOMAIN f \ {"workspace"}) \cup {"agent"}
                    \cup (IF r.WorkspaceImage = NoImage THEN {} ELSE {"workspace"})
      /\ c["agent"] = AgentContainer(a, r, containerNamed(f, "agent").other)
      /\ r.WorkspaceImage # NoImage =>
           c["workspace"] = WorkspaceContainer(r, containerNamed(f, "workspace").other)
      /\ \A n \in DOMAIN f : n \notin {"agent", "workspace"} => c[n] = f[n]
  BY <1>2, <1>f, ContainersAre
<1>4. ASSUME NEW n \in DOMAIN f \cap DOMAIN c  PROVE c[n].other = f[n].other
  <2>1. CASE n = "agent"
    <3>1. c[n].other = containerNamed(f, n).other
      BY <1>3, <2>1, WrittenHas DEF AgentContainer
    <3> QED
      BY <1>4, <3>1 DEF containerNamed
  <2>2. CASE n = "workspace"
    <3>1. r.WorkspaceImage # NoImage
      BY <1>3, <1>4, <2>2
    <3>2. c[n].other = containerNamed(f, n).other
      BY <1>3, <2>2, <3>1, WrittenHas DEF WorkspaceContainer
    <3> QED
      BY <1>4, <3>2 DEF containerNamed
  <2>3. CASE n \notin {"agent", "workspace"}
    BY <1>3, <1>4, <2>3
  <2> QED
    BY <2>1, <2>2, <2>3
<1>5. ASSUME NEW n \in DOMAIN f \cap Added  PROVE n \in DOMAIN c /\ c[n] = f[n]
  BY <1>3, <1>5 DEF Added
<1>6. "credentials" \notin DOMAIN f
  BY <1>1
<1> QED
  BY <1>2, <1>3, <1>4, <1>5, <1>6 DEF Kept

\* ... and of the init containers.
LEMMA InitsLeft ==
  ASSUME NEW a \in AgentSpec, NEW r \in AgentReconciler, NEW f, HeldInits(f)
  PROVE  /\ InitsOf(a, r, f) \in [DOMAIN InitsOf(a, r, f) -> Container]
         /\ Kept(f, InitsOf(a, r, f))
<1>f. f \in [DOMAIN f -> Container]
  BY DEF HeldInits, Held
<1>2. PICK c : c = InitsOf(a, r, f)
  OBVIOUS
<1>3. /\ c \in [DOMAIN c -> Container]
      /\ DOMAIN c = (DOMAIN f \ {"config"}) \cup {"credentials"}
                    \cup (IF a.pins = NoPins THEN {} ELSE {"config"})
      /\ c["credentials"] = CredentialsContainer(r, containerNamed(f, "credentials"))
      /\ a.pins # NoPins => c["config"] = ConfigContainer(a, r, containerNamed(f, "config").other)
      /\ \A n \in DOMAIN f : n \notin {"credentials", "config"} => c[n] = f[n]
  BY <1>2, <1>f, InitsAre
<1>e. /\ c["credentials"].other = containerNamed(f, "credentials").other
      /\ c["credentials"].env = containerNamed(f, "credentials").env
  <2>1. PICK found : found = containerNamed(f, "credentials")
    OBVIOUS
  <2>2. CredentialsContainer(r, found).other = found.other
    BY WrittenHas DEF CredentialsContainer
  <2>3. CredentialsContainer(r, found).env = found.env
    BY WrittenHas DEF CredentialsContainer
  <2> QED
    BY <1>3, <2>1, <2>2, <2>3, Zenon
<1>4. ASSUME NEW n \in DOMAIN f \cap DOMAIN c  PROVE c[n].other = f[n].other
  <2>1. CASE n = "credentials"
    BY <1>4, <1>e, <2>1 DEF containerNamed
  <2>2. CASE n = "config"
    <3>1. a.pins # NoPins
      BY <1>3, <1>4, <2>2
    <3>2. c[n].other = containerNamed(f, n).other
      BY <1>3, <2>2, <3>1, WrittenHas DEF ConfigContainer
    <3> QED
      BY <1>4, <3>2 DEF containerNamed
  <2>3. CASE n \notin {"credentials", "config"}
    BY <1>3, <1>4, <2>3
  <2> QED
    BY <2>1, <2>2, <2>3
<1>5. ASSUME NEW n \in DOMAIN f \cap Added  PROVE n \in DOMAIN c /\ c[n] = f[n]
  BY <1>3, <1>5 DEF Added
<1>6. ASSUME "credentials" \in DOMAIN f
      PROVE  "credentials" \in DOMAIN c /\ c["credentials"].env = f["credentials"].env
  BY <1>3, <1>6, <1>e DEF containerNamed
<1> QED
  BY <1>2, <1>3, <1>4, <1>5, <1>6 DEF Kept

\* A pass of reconcileStatefulSet over a StatefulSet that exists leaves its
\* claim, the fields applyAgent does not decide of the containers and the init
\* containers it keeps, and the ones added by hand as it found them.
THEOREM OthersLeftAlone == WorkloadSpec => OthersKept
<1> DEFINE Left == /\ stored'.claim = stored.claim
                   /\ Kept(stored.containers, stored'.containers)
                   /\ Kept(stored.initContainers, stored'.initContainers)
<1>1. ASSUME WInv, reconcileStatefulSet, stored.created  PROVE Left
  <2>1. PICK p : p = applyAgent(spec, config, stored)
    OBVIOUS
  <2>2. stored' = stored \/ stored' = Defaulted(p)
    BY <1>1, <2>1, Zenon DEF reconcileStatefulSet
  <2>3. spec \in AgentSpec /\ config \in AgentReconciler /\ Shape(stored)
    BY <1>1 DEF WInv
  <2>4. CASE stored' = stored
    <3>1. Kept(stored.containers, stored.containers)
      BY DEF Kept
    <3>2. Kept(stored.initContainers, stored.initContainers)
      BY DEF Kept
    <3> QED
      BY <2>4, <3>1, <3>2, Zenon
  <2>5. CASE stored' = Defaulted(p)
    <3>1. PICK f, c, g, i : /\ f = stored.containers /\ c = ContainersOf(spec, config, f)
                            /\ g = stored.initContainers /\ i = InitsOf(spec, config, g)
      OBVIOUS
    <3>2. HeldContainers(f) /\ HeldInits(g)
      BY <2>3, <3>1 DEF Shape
    <3>3. Whole(p) /\ p.volumes = VolumesOf(spec, config)
      BY <2>1, <2>3, Applied, Zenon
    <3>4. p.claim = ClaimOf(spec, stored)
      BY <2>1, <2>3, Applied, Zenon
    <3>5. p.containers = c /\ p.initContainers = i
      BY <2>1, <2>3, <3>1, AppliedContainers, AppliedInits, Zenon
    <3>6. p.volumes \in [DOMAIN p.volumes -> Volume]
      BY <2>3, <3>3, VolumesAre, Zenon
    <3>7. Defaulted(p) = StatefulSet(p.created, p.claim, p.replicas, p.volumes,
                                     Filled(p.initContainers), Filled(p.containers))
      BY <3>3, <3>6, DefaultedIs, Zenon
    <3>8. /\ stored'.claim = p.claim /\ stored'.containers = Filled(c)
          /\ stored'.initContainers = Filled(i)
      BY <2>5, <3>5, <3>7 DEF StatefulSet
    <3>9. stored'.claim = stored.claim
      BY <1>1, <3>4, <3>8 DEF ClaimOf
    <3>10. Kept(f, Filled(c))
      <4>1. c \in [DOMAIN c -> Container] /\ Kept(f, c)
        BY <2>3, <3>1, <3>2, ContainersLeft, Zenon
      <4>2. \A n \in DOMAIN f : IsContainer(f[n])
        BY <3>2 DEF HeldContainers, Held
      <4> QED
        BY <4>1, <4>2, FilledKept, Zenon
    <3>11. Kept(g, Filled(i))
      <4>1. i \in [DOMAIN i -> Container] /\ Kept(g, i)
        BY <2>3, <3>1, <3>2, InitsLeft, Zenon
      <4>2. \A n \in DOMAIN g : IsContainer(g[n])
        BY <3>2 DEF HeldInits, Held
      <4> QED
        BY <4>1, <4>2, FilledKept, Zenon
    <3> QED
      BY <3>1, <3>8, <3>9, <3>10, <3>11, Zenon
  <2> QED
    BY <2>2, <2>4, <2>5
<1>2. WInv /\ [Next]_vars => [reconcileStatefulSet /\ stored.created => Left]_vars
  BY <1>1
<1> QED
  BY <1>2, WInvHolds, PTL DEF WorkloadSpec, OthersKept
=============================================================================
