SPECIFICATION Spec
CONSTANTS
  Accounts = {demo, stranger}
  Owner = demo
  Unarmed = Unarmed
  Absent = Absent
  Malformed = Malformed
  Identities <- Answers
  EntrySeconds = 1
  ManagementSeconds = 2
  Freshness = 1
  Pools <- PoolNames
  All = "all"
  Quota <- QuotaValues
  Window = 2
  Reserve = 1
  Attempts = 2
  Delays <- TwoDelays
  ShortDelay = 1
  SignalAge = 1
  Operations <- CallKinds
  Horizon = 2
  MaxCalls = 2
  MaxFaults = 1
CHECK_DEADLOCK FALSE
INVARIANTS
  TransportTypeOK
  QuotaPerWindow
  RetryAfterHonoured
PROPERTIES
  RefusedOnlyWhenFull
  MutationsAreAuthorized
  ContractSpec
