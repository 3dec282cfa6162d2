SPECIFICATION FairSpec
CONSTANTS
  SourceIDs = {a, b, c}
  NoID = NoID
  MaxRefs = 2
INVARIANTS
  TypeOK
  EveryStreamClosedOnce
  NoCloseErrorSwallowed
  DiscoveryOrder
  ClosureComplete
PROPERTIES
  Termination
  LedgerSpec
CHECK_DEADLOCK FALSE
