SPECIFICATION DatabaseSpec
CONSTANTS
  Symbols = {s1, s2}
  PositionIds = {p1, p2}
  BrokerIds <- MCBrokerIds
  PositionOf <- MCPositionOf
  MaxUnits = 1
  Prices = {1}
  MaxCost = 0
  StopPrices = {1}
  Protection = {TRUE}
  MaxTime = 0
  Nil = Nil
  MaxPositions = 2
  MaxMoves = 1
  MaxCrashes = 1
  Scenarios <- MCScenarios
  Fixture <- MCFixture
  CommandIds = {c1}
  QueueKinds = {"RECONCILE", "FLATTEN_OWNED"}
  Actions = {"fixture-start", "fixture-close", "backtest", "drain"}
INVARIANTS
  PassIsFlat
  ResultIsOfBinding
  PublishedReportIsWhole
PROPERTIES
  CompletedSendsNothing
  DoneMeansConfirmed
  CommandsSettle
  SessionRecovers
