SPECIFICATION Spec
CONSTANTS
  Symbols = {s1}
  PositionIds = {p1}
  BrokerIds <- MCBrokerIds
  PositionOf <- MCPositionOf
  MaxUnits = 2
  Prices = {1}
  MaxCost = 0
  StopPrices = {1}
  Protection = {TRUE}
  MaxTime = 3
  Nil = Nil
  MaxPositions = 1
  MaxMoves = 3
  MaxCrashes = 0
PROPERTIES
  PendingUntilEvidence
