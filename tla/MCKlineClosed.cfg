SPECIFICATION Spec
CONSTANTS
  Callers = {c1}
  Step = 2
  Day = 2
  DayCounts = {1}
  PageSize = 2
  MaxTime = 6
  MaxCrashes = 0
INVARIANTS ClosedAreFinal
CHECK_DEADLOCK FALSE
