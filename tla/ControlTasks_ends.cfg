SPECIFICATION FairSpec
CONSTANTS
  Messages = {m1}
  Requests = {m1}
  FailLimit = 2
  MaxSubs = 2
  MaxAttempts = 2
  L2Workers = {w1}
  Readers = {r1}
  NoRequest = none
  Kinds = {"command", "natural"}
  MaxRestart = 1
  MaxTaken = 1
  StoreFaults = FALSE
PROPERTIES PendingEnds AggregationEnds
CHECK_DEADLOCK FALSE
