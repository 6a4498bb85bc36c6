SPECIFICATION Spec
CONSTANTS
  Messages = {m1, m2}
  Requests = {m1, m2}
  FailLimit = 2
  MaxSubs = 1
  MaxAttempts = 2
  L2Workers = {w1}
  Readers = {r1}
  NoRequest = none
  Kinds = {"chatter", "command"}
  MaxRestart = 0
  MaxTaken = 1
  StoreFaults = FALSE
INVARIANTS SilencedStaysSilent
CHECK_DEADLOCK FALSE
