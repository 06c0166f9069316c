SPECIFICATION FairPollerSpec
CONSTANTS
  Agents = {a1}
  OtherSecrets = {s1}
  Images = {i1}
  UserActs = {"editSecretName"}
  MaxUserActs = 1
  MaxEpoch = 1
  MaxLate = 0
  MaxLateWrites = 0
  StorageSizes = {"positive"}
  MaxRestarts = 0
PROPERTY PlacedIsNotAskedFor
