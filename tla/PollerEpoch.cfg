SPECIFICATION PollerSpec
CONSTANTS
  Agents = {a1}
  OtherSecrets = {}
  Images = {i1}
  UserActs = {}
  MaxUserActs = 0
  MaxEpoch = 2
  MaxLate = 0
  MaxLateWrites = 0
  StorageSizes = {"positive"}
  MaxRestarts = 0
INVARIANT EpochProved
