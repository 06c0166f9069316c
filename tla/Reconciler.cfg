SPECIFICATION MCSpec
CONSTANTS
  Images = {i1}
  Sizes = {z1, z2}
  Classes = {c1}
  SecretNames = {s1, s2}
  Acts = {"createAgent", "editAgent", "deleteAgent", "changeSecret", "deleteWorkload", "driftWorkload", "changePod"}
  MaxActs = 3
  MaxRestarts = 1
CHECK_DEADLOCK FALSE
INVARIANTS TypeOK StatusWhole
PROPERTIES IdentityKept StatusSettles
