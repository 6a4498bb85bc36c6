SPECIFICATION FairSpec
CONSTANTS
  Apps = {a1}
  a1 = a1
  a2 = a2
  o1 = o1
  o2 = o2
  Others = {o1}
  Messages <- MCMessages
  IdRank <- MCIdRank
  FailLimit = 3
  QueueSize = 2
  BatchSize = 2
  MaxSecret = 2
  MaxClock = 1
  MaxFault = 1
  MaxStop = 1
  MaxSaid = 3
INVARIANTS NothingVanishes SentOnceUnlessUnsure SecretWorks
PROPERTIES ApprovalTold
CHECK_DEADLOCK FALSE
