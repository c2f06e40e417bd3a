SPECIFICATION Spec
CONSTANTS
  u1 = u1
  sol = sol
  usdc = usdc
  p1 = p1
  p2 = p2
  Users = {u1}
  Tokens = {sol, usdc}
  NativeSol = sol
  Polls = {p1, p2}
  ScanLimit = 2
  MAX_RETRIES = 2
  Configurations <- Configured
  MaxDeposits = 3
  MaxFaults = 1
  MaxCrashes = 1
SYMMETRY Symmetry
CONSTRAINT OneTrouble
INVARIANTS
  RelayedOnce
  MintedOnce
  NobodyAbandonsARow
  NonePassedOver
