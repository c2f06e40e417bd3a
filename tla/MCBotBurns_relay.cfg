SPECIFICATION FairSpec
CONSTANTS
  u1 = u1
  u2 = u2
  p1 = p1
  p2 = p2
  Users = {u1, u2}
  Others = Others
  Polls = {p1, p2}
  ScanLimit = 2
  MAX_RETRIES = 2
  MaxTransactions = 3
  MaxFaults = 1
  MaxCrashes = 1
CONSTRAINT
  OneTrouble
INVARIANTS
  RelayedOnce
PROPERTIES
  BurnsSettle
