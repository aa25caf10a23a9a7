SPECIFICATION BookSpec
CONSTANTS
  Symbols = {s1, s2}
  PositionIds = {p1}
  BrokerIds = {b1, b2}
  MaxUnits = 2
  Prices = {1}
  MaxCost = 0
  StopPrices = {1}
  Protection = {TRUE}
  MaxTime = 0
  Nil = Nil
SYMMETRY Symmetry
CONSTRAINT OneLargeEntry
INVARIANTS
  TypeOK
  ReservationsCoverActiveEntries
  NeverOversold
  FillsMatchState
