SPECIFICATION FairSpec
CONSTANTS
  Projects = {1, 2, 3, 4}
  Owned = {1, 2, 3}
  Aggregates = {2, 3}
  SourcesOf <- MCSourcesOf
  FirstDay = 5
  MaxDay = 8
  MaxRun = 1
  MaxSay = 1
  MaxText = 5
  MaxFault = 1
INVARIANTS SourcesIncluded
PROPERTIES SettledUntilRedrafted DuePublished
CHECK_DEADLOCK FALSE
