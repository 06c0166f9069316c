SPECIFICATION DisturbedSpec
CONSTANTS
  Agents = {a1}
  OtherSecrets = {s1}
  Images = {i1, i2}
  UserActs = {"createAgent", "deleteAgent", "editImage", "editSecretName", "createSecret", "deleteSecret"}
  MaxUserActs = 2
  MaxEpoch = 2
  MaxLate = 1
  MaxLateWrites = 1
  StorageSizes = {"zero", "positive"}
  MaxRestarts = 1
PROPERTIES EveryAgentConstructed CertificatesEnd ImageCorrected
