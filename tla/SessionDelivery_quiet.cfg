SPECIFICATION FairSpec
CONSTANTS
  MaxMsg = 1
  MaxAttempts = 2
  LeaseDelays <- MCLeaseDelays
  LastLease = 1
  InboxCapacity = 2
  MaxConn = 2
  LinkCap = 1
  BusyDelay = 1
  RetryDelay = 1
  WriteErrorDelay = 1
  DeliveredDelay = 1
  MaxInject = 3
  MaxRestart = 0
  MaxHubRestart = 0
  Ageing = FALSE
  CliFaults = FALSE
  Replies = FALSE
  CleanClose = TRUE
  StableFrom = 2
PROPERTIES
  HelperReconnects
CHECK_DEADLOCK FALSE
