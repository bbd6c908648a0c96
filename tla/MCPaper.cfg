CONSTANTS
  Deployments = {"grid", "lp"}
  Breaker = {"grid"}
  Scripts = {"run_grid", "run_paper_loops"}
  Served <- MCServed
  Nothing = Nothing  Empty = Empty  Torn = Torn
  MaxReceipts = 2
  MaxStarts = 3
SPECIFICATION PaperSpec
CHECK_DEADLOCK FALSE
INVARIANTS FileMatchesReceipts
PROPERTIES EndsOnBreaker EveryTurnComes
