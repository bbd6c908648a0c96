CONSTANTS
  Callers = {c1, c2}
  NoCaller = NoCaller
  Res = 2
  Capacity = 2
  Attempts = 2
  Backoff <- MCBackoff
  Providers = 2
  MaxCalls = 5
  MaxIdle = 3
SPECIFICATION SourcesSpec
CHECK_DEADLOCK FALSE
INVARIANTS RateBound
PROPERTIES CallEnds
