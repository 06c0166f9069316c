SPECIFICATION FairSpec
CONSTANTS
  Tokens = {t1}
  NoToken = NoToken
  MaxCerts = 2
  MaxRestarts = 0
  MaxLate = 0
  MaxWork = 2
  MaxTroubledWork = 2
PROPERTY ExpiryReopensEnrollment
