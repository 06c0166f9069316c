SPECIFICATION Spec
CONSTANTS
  Agents = {a1}
  OtherSecrets = {s1}
  Images = {i1}
  UserActs = {"createAgent", "deleteAgent", "editSecretName", "createSecret", "deleteSecret"}
  MaxUserActs = 1
  MaxEpoch = 3
  MaxLate = 1
  MaxLateWrites = 1
  StorageSizes = {"positive"}
  MaxRestarts = 1
INVARIANTS TypeOK EpochFences
PROPERTIES EpochOnlyRises CredentialNeverReplaced ImplementsAssignment
CONSTRAINT UsersOrFaults
