SPECIFICATION Spec
CONSTANTS
  Messages = {m1}
  Requests = {m1}
  FailLimit = 2
  MaxSubs = 2
  MaxAttempts = 2
  L2Workers = {w1, w2}
  Readers = {r1}
  NoRequest = none
  Kinds = {"chatter", "command", "natural"}
  MaxRestart = 0
  MaxTaken = 2
  StoreFaults = TRUE
SYMMETRY Alike
INVARIANTS ExecutedOnce InstructedOncePerLife NoEarlyOverlap NoticeMatchesTable
CHECK_DEADLOCK FALSE
