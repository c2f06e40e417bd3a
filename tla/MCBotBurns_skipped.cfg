SPECIFICATION FairSpec
CONSTANTS
  u1 = u1
  u2 = u2
  p1 = p1
  p2 = p2
  Users = {u1}
  Others = Others
  Polls = {p1}
  ScanLimit = 2
  MAX_RETRIES = 1
  MaxTransactions = 2
  MaxFaults = 0
  MaxCrashes = 0
PROPERTIES
  EveryBurnRelayed
