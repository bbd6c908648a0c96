SPECIFICATION FairSpec
CONSTANTS
  HireIds = {h1, h2}
  Panels = {}
  NoHire = NoHire
  NStages = 1
  PoolSize = 1
  MaxRestarts = 1
INVARIANTS ReceiptComplete DoneIsDurable EndIsLast
PROPERTIES ImplementsLifecycle HireEnds
CHECK_DEADLOCK FALSE
