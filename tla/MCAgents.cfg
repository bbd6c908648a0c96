CONSTANTS
  good = good  trap = trap  peg = peg  rug = rug  wbnb = wbnb
  a = a  b = b  c = c  d = d
  Tokens <- MCTokens
  Truth <- MCTruth
  NoToken = NoToken
  Pools <- MCPools
  Legs <- MCLegs
  Allowlist = {wbnb}
  Depth = 3
  MaxGated = 3
  NoPool = NoPool
  Capital = 500  Levels = 5  Lower = 400  Upper = 600  Spacing = 50
  Slippage = 5  FeeRate = 10  GasPerFill = 15  MaxLossPct = 50
  Candles <- MCCandles
  MaxCandles = 5
  Debts = {0, 60, 80, 95, 110}  Volatile = 100  Stable = 10  Buffers = {0, 5, 20, 60}
  Ratios = {100, 90, 85, 70, 50}  MaxSteps = 5
  AskedHf = 105  VolHf = {102, 120}  Pad = 5  RepayGas = 1  CloseFactor = 50  Incentive = 110
  Sub = 2  TickSpacing = 5  Prices <- MCPrices  Vols = {1, 3}  Reach = 4
  FeeScale = 24  MaxFee = 4  LossScale = 1  HorizonHours = 4  OpenGas = 1  CloseGas = 1
  CheckpointHours = 3  WarmUp = 2  MaxHours = 6
SPECIFICATION AgentSpec
CHECK_DEADLOCK FALSE
INVARIANTS AgentTypeOK CriticalNeverWins ScreenedFirst TopIsScreened BooksBalance CashFloor LiquidatedOnlyWhenSpent NeverHarms
PROPERTIES UnsellableIsCritical SoldBackIsNotCritical SmallestRepayment FreshRangeHoldsPrice HeldStaysHeld
