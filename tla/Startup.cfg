SPECIFICATION Spec
CONSTANTS
  Payloads <- MCPayloads
  MaxPairs = 2
  MaxTrustChanges = 2
  MaxStops = 1
CHECK_DEADLOCK FALSE
INVARIANTS TypeOK RefusalsToldApart ListWhole PresentsCurrent NowhereToPutIsNotAsked CallersCanAuthenticate
PROPERTIES ImplementsCall CallsReturn EnrollerComesUp
