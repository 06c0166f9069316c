SPECIFICATION BoundedSpec
CONSTANTS
  Tokens = {t1, t2}
  NoToken = NoToken
  MaxCerts = 3
  MaxRestarts = 1
  MaxLate = 1
  MaxWork = 3
  MaxTroubledWork = 2
INVARIANTS TypeOK PairsMatch PresentedOnce LineageKept
PROPERTIES TokenNotBurned DueIsRenewed BrokenLineageIsTold TokenPresented
