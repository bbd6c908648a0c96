SPECIFICATION Spec
CONSTANTS
  r1 = r1
  r2 = r2
  r3 = r3
  b1 = b1
  b2 = b2
  b3 = b3
  s1 = s1
  s2 = s2
  Receipts = {r1, r2, r3}
  Batches = {b1, b2, b3}
  Accounts = {deployer, bot, other}
  Owner = deployer
  Anchorer = bot
  Scripts = {s1, s2}
  NoBatch = NoBatch
  NoTx = NoTx
  MinSize = 1
  MaxFaults = 2
SYMMETRY Symmetry
INVARIANTS TypeOK EventMatchesBatch OneEventPerBatch AnchoredIsOnChain PageMatchesChain
PROPERTIES BatchFrozen ImplementsLedger
CHECK_DEADLOCK FALSE
