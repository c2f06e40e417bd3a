SPECIFICATION NodeSpec
CONSTANTS
  d1 = d1
  d3 = d3
  t1 = t1
  t2 = t2
  x1 = x1
  x3 = x3
  b1 = b1
  b2 = b2
  Transactions = {d1, t1}
  Deposits = {d1}
  Failed = {}
  transferId <- Ids
  SplDeposits = {}
  requiredConfirmations = 1
  FarSlot = 4
  MaxSlot = 3
  MaxForks = 1
  Burns = {b1, b2}
  fields <- Fields
  requiredBlocks = 2
  ReorgDepth = 2
  StartHeight = 1
  MaxHeight = 5
  MaxReorgs = 1
  envKey = FALSE
  MaxFaults = 1
  MaxCrashes = 1
CHECK_DEADLOCK FALSE
CONSTRAINTS
  OneChain
  TwoTroubles
INVARIANT AttestsDeposits
