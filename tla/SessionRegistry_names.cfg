SPECIFICATION FairSpec
CONSTANTS
  Keys = {k1, k2}
  k1 = k1
  k2 = k2
  d1 = d1
  d2 = d2
  Helpers <- MCHelpers
  MaxConn = 3
  MaxTry = 2
  MaxRestart = 1
  MaxCast = 2
  MaxFault = 1
INVARIANTS ServedIsReachable NamesUniqueUnlessOvertaken
PROPERTIES DeviceKeeps DirectoryCurrent
CHECK_DEADLOCK FALSE
