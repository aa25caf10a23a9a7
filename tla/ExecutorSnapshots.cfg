SPECIFICATION Spec
CONSTANTS
  Symbols = {s1}
  PositionIds = {p1}
  BrokerIds <- MCBrokerIds
  PositionOf <- MCPositionOf
  MaxUnits = 2
  Prices = {1}
  MaxCost = 0
  StopPrices = {1}
  Protection = {TRUE, FALSE}
  MaxTime = 2
  Nil = Nil
  MaxPositions = 1
  MaxMoves = 2
  MaxCrashes = 0
INVARIANTS
  ExecutorTypeOK
  UnresolvedBlocksEntries
PROPERTIES
  CloseMatchesObservation
  StoreSpec
  OperationsTerminate
