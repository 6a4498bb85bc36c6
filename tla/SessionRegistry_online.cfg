SPECIFICATION FairSpec
CONSTANTS
  Keys = {k1, k2}
  k1 = k1
  k2 = k2
  d1 = d1
  d2 = d2
  Helpers <- MCHelpers
  MaxConn = 2
  MaxTry = 2
  MaxRestart = 1
  MaxCast = 1
  MaxFault = 0
PROPERTY FalseOnlineEnds
CHECK_DEADLOCK FALSE
