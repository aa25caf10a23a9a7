SPECIFICATION Spec
CONSTANTS
  Symbols = {s1}
  PositionIds = {p1}
  BrokerIds <- MCBrokerIds
  PositionOf <- MCPositionOf
  MaxUnits = 1
  Prices = {1}
  MaxCost = 0
  StopPrices = {1}
  Protection = {TRUE}
  MaxTime = 1
  Nil = Nil
  MaxPositions = 1
  MaxMoves = 2
  MaxCrashes = 0
INVARIANTS
  LateExposureIsNotFlat
