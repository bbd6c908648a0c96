SPECIFICATION FairSpec
CONSTANTS
  HireIds = {h1}
  Panels = {p1, p2}
  NoHire = NoHire
  NStages = 1
  PoolSize = 1
  MaxRestarts = 1
INVARIANT SnapshotComplete
PROPERTY PanelSettles
CHECK_DEADLOCK FALSE
