SPECIFICATION BookSpec
CONSTANTS
  Symbols = {s1}
  PositionIds = {p1}
  BrokerIds = {b1, b2}
  MaxUnits = 2
  Prices = {1, 3}
  MaxCost = 1
  StopPrices = {1}
  Protection = {TRUE}
  MaxTime = 0
  Nil = Nil
SYMMETRY Symmetry
INVARIANTS
  UnitsConserved
  FillsMatchCumulative
  CashConserved
  SessionPnlMatchesPositions
