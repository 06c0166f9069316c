SPECIFICATION FairSpec
CONSTANTS
  Agents = {a1}
  OtherSecrets = {}
  Images = {i1}
  UserActs = {"deleteSecret"}
  MaxUserActs = 1
  MaxEpoch = 2
  MaxLate = 1
  MaxLateWrites = 0
  StorageSizes = {"positive"}
  MaxRestarts = 0
PROPERTY LatchFollowsPod
