SPECIFICATION Spec
CONSTANTS
  Symbols = {s1}
  PositionIds = {p1}
  BrokerIds <- MCBrokerIds
  PositionOf <- MCPositionOf
  MaxUnits = 2
  Prices = {1}
  MaxCost = 0
  StopPrices = {1}
  Protection = {TRUE, FALSE}
  MaxTime = 0
  Nil = Nil
  MaxPositions = 1
  MaxMoves = 2
  MaxCrashes = 1
INVARIANTS
  NeverSentTwice
  UnresolvedBlocksEntries
  ReconciledMeansAgreed
  ConfirmedFlatIsFlat
  UnprotectedIsClosed
PROPERTIES
  ReleasedOnlyWhenDead
