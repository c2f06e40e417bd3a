SPECIFICATION PartSpec
CONSTANTS
  a = a
  b = b
  None = None
  Nodes = {a, b}
  bootstrapPeers <- BothWays
  MaxConnections = 4
  MaxIncidents = 2
  Checks = {"first", "second"}
  Endpoints = 3
  minActiveValidators = 2
  Channels = {"slack", "telegram", "pagerduty"}
  Deposited = 4
  Divisor = 2
  Losses = {3}
  MaxDeposits = 2
  MaxResumes = 1
  MaxFailures = 2
CHECK_DEADLOCK FALSE
INVARIANTS
  NoGhosts
  QuietMeansCovered
PROPERTIES
  LinksRestored
  DangerPauses
