SPECIFICATION Spec
CONSTANTS
  MaxMsg = 1
  MaxAttempts = 2
  LeaseDelays <- MCLeaseDelays
  LastLease = 1
  InboxCapacity = 2
  MaxConn = 2
  LinkCap = 1
  BusyDelay = 1
  RetryDelay = 1
  WriteErrorDelay = 1
  DeliveredDelay = 1
  MaxInject = 2
  MaxRestart = 1
  MaxHubRestart = 1
  Ageing = TRUE
  CliFaults = TRUE
  Replies = TRUE
  CleanClose = TRUE
  StableFrom = 2
VIEW MCView
INVARIANTS
  InjectedOncePerLife
  ProcessedWasHandled
CHECK_DEADLOCK FALSE
