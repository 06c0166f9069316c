SPECIFICATION FairReconcilerSpec
CONSTANTS
  Images = {i1}
  Sizes = {z1}
  Classes = {c1, c2}
  SecretNames = {s1}
  Acts = {"createAgent", "editAgent", "changeSecret"}
  MaxActs = 3
  MaxRestarts = 0
CHECK_DEADLOCK FALSE
PROPERTY SyncedMeansCarried
