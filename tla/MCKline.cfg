SPECIFICATION FairSpec
CONSTANTS
  Callers = {c1, c2}
  Step = 2
  Day = 2
  DayCounts = {1, 3}
  PageSize = 2
  MaxTime = 6
  MaxCrashes = 1
INVARIANTS NoGaps ReachesNow
PROPERTIES CallsEnd
CHECK_DEADLOCK FALSE
