SPECIFICATION PollerSpec
CONSTANTS
  Agents = {a1}
  OtherSecrets = {}
  Images = {i1, i2}
  UserActs = {"createAgent"}
  MaxUserActs = 1
  MaxEpoch = 1
  MaxLate = 0
  MaxLateWrites = 0
  StorageSizes = {"positive"}
  MaxRestarts = 0
PROPERTY UserImageKept
