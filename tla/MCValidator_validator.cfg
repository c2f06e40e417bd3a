SPECIFICATION PartSpec
CONSTANTS
  n1 = n1
  n2 = n2
  n3 = n3
  transfer = transfer
  s1 = s1
  s2 = s2
  Nodes = {n1, n2, n3}
  Transfers = {transfer}
  Stamps = {s1, s2}
  minValidators = 2
  MaxEmits = 2
  MaxLost = 1
  MaxDuplicated = 1
  MaxRestarts = 1
  d1 = d1
  d3 = d3
  t1 = t1
  t2 = t2
  x1 = x1
  x3 = x3
  b1 = b1
  b2 = b2
  Transactions = {d1, d3, t1, t2}
  Deposits = {d1, d3}
  Failed = {t2}
  transferId <- Ids
  SplDeposits = {d3}
  requiredConfirmations = 1
  FarSlot = 4
  MaxSlot = 3
  MaxForks = 1
  Burns = {b1, b2}
  fields <- Fields
  requiredBlocks = 2
  ReorgDepth = 2
  StartHeight = 1
  MaxHeight = 4
  MaxReorgs = 1
  envKey = FALSE
  MaxFaults = 1
  MaxCrashes = 1
CHECK_DEADLOCK FALSE
SYMMETRY Symmetry
CONSTRAINTS
  OneChain
  TwoTroubles
INVARIANTS
  ResultsBacked
  ReachedOnce
  NoStandstill
  AttestsWhatStays
  DepositsTracked
  BurnsTracked
  IdentityKept
PROPERTIES
  ResolvedRoundsFrozen
