SPECIFICATION HangSpec
CONSTANTS
  MaxMsg = 3
  MaxAttempts = 2
  LeaseDelays <- MCLeaseDelays
  LastLease = 1
  InboxCapacity = 1
  MaxConn = 1
  LinkCap = 1
  BusyDelay = 1
  RetryDelay = 1
  WriteErrorDelay = 1
  DeliveredDelay = 2
  MaxInject = 3
  MaxRestart = 0
  MaxHubRestart = 0
  Ageing = FALSE
  CliFaults = FALSE
  Replies = FALSE
  CleanClose = FALSE
  StableFrom = 1
INVARIANTS
  FifoUnlessDisturbed
PROPERTIES
  KeepsPromise
  EndsOrExhausted
  NeverStarved
CHECK_DEADLOCK FALSE
