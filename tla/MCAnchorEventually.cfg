SPECIFICATION FairSpec
CONSTANTS
  r1 = r1
  r2 = r2
  r3 = r3
  b1 = b1
  b2 = b2
  b3 = b3
  s1 = s1
  s2 = s2
  Receipts = {r1}
  Batches = {b1, b2}
  Accounts = {deployer, bot}
  Owner = deployer
  Anchorer = bot
  Scripts = {s1}
  NoBatch = NoBatch
  NoTx = NoTx
  MinSize = 1
  MaxFaults = 1
PROPERTIES EventuallyAnchored
CHECK_DEADLOCK FALSE
