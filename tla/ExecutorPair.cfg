SPECIFICATION Spec
CONSTANTS
  Symbols = {s1, s2}
  PositionIds = {p1, p2}
  BrokerIds <- MCBrokerIds
  PositionOf <- MCPositionOf
  MaxUnits = 1
  Prices = {1}
  MaxCost = 0
  StopPrices = {1}
  Protection = {TRUE, FALSE}
  MaxTime = 0
  Nil = Nil
  MaxPositions = 1
  MaxMoves = 1
  MaxCrashes = 0
CONSTRAINT OneUnprotected
SYMMETRY Symmetry
INVARIANTS
  PositionLimit
  ReconciledMeansAgreed
