SPECIFICATION PipelineSpec
CONSTANTS
  Symbols <- AllSymbols
  Benchmarks <- OneBenchmark
  BarTicks = 2
  SessionBars = 5
  DayTicks = 16
  OpeningBars = 1
  FlattenBars = 1
  SelectionWait = 1
  EntryWindow = 7
  WarmupSessions = 1
  MinClose = 10
  MinLiquidity = 100
  MinRvol = 1
  MaxSelected = 2
  RelativeStrength = TRUE
  SignalTTL = 2
  Datasets <- AllDatasets
  Days = 2
  Unset = Unset
  Allocated = 100000
  RiskBp = 10
  DailyLossBp = 12
  GrossBp = 800
  PositionBp = 500
  SpreadBp = 30
  DeviationBp = 50
  MaxOpen = 2
  RiskTTL = 2
  QuoteAge = 1
  MaximumUnits = 20
  MinimumNotional = 1
  MaximumNotional = 4100
  FixedPerSide = 1
  MinimumPerSide = 2
  PerUnitPerSide = 1
  SlippagePerUnit = 0
  HalfImpact = 0
  Friction = 1
  Latency = 1
  Captured <- TwoSymbols
  Archived <- SymbolsBefore
  Catalogues <- AllCatalogues
  Waits = {0, 2}
  DefaultWait = 3
  Pace = 1
  Attempts = 2
  PageLimit = 2
  MaxRuns = 2
  MaxFaults = 2
  Nothing = Nothing
CHECK_DEADLOCK FALSE
INVARIANTS
  FillsAreHonest
  BooksBalance
  SizedAsLargeAsAllowed
  WaitsHonoured
  LoadedIsWhole
PROPERTIES
  ReplayMatchesOneShot
