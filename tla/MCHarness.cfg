CONSTANTS
  sentry = sentry  lp = lp  calm = calm  wild = wild  r1 = r1  r2 = r2  q1 = q1  q2 = q2
  Agents <- MCAgents
  Manifest <- MCManifest
  Opens = {lp}
  Data = {calm, wild}
  AgentValue <- MCAgentValue
  BaselineValue <- MCBaselineValue
  PricesGas = {lp}
  Missing = Missing
  Runners = {r1, r2}
  Requests = {q1, q2}
  MaxReceipts = 2
  MaxMoves = 2
  MaxHires = 2
SPECIFICATION HarnessSpec
SYMMETRY MCSymmetry
CHECK_DEADLOCK FALSE
INVARIANTS BothWays StatsOfReceipts OneVerdict
