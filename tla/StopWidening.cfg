SPECIFICATION Spec
CONSTANTS
  Symbols = {s1}
  PositionIds = {p1}
  BrokerIds <- MCBrokerIds
  PositionOf <- MCPositionOf
  MaxUnits = 2
  Prices = {1}
  MaxCost = 0
  StopPrices = {1, 2}
  Protection = {TRUE}
  MaxTime = 0
  Nil = Nil
  MaxPositions = 1
  MaxMoves = 1
  MaxCrashes = 0
PROPERTIES
  StopsNeverWiden
