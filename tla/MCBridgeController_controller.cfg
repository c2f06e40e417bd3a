SPECIFICATION PartSpec
CONSTANTS
  admin = admin
  successor = successor
  alice = alice
  v1 = v1
  v2 = v2
  v3 = v3
  t1 = t1
  t2 = t2
  t3 = t3
  ann = ann
  ben = ben
  sol = sol
  usdc = usdc
  nativeSolMint = sol
  nativeDivisor = 10
  Users = {alice}
  Keys = {admin, successor}
  Validators = {v1, v2, v3}
  Recipients = {ann, ben}
  SplMints = {sol, usdc}
  TransferIds = {t1, t2, t3}
  MintRequests <- AllRequests
  LegacyRequests <- AllLegacy
  Registrations <- Usdc
  BurnAmounts = {2}
  NewLimits = {0, 30, 70}
  minValidators = 1
  maxDailyMint = 60
  maxSingleMint = 40
  minMintAmount = 1
  largeTxThreshold = 30
  largeTxDelayBlocks = 2
  rateLimitWindow = 2
  maxValidators = 2
  maxRegisteredTokens = 2
  adminTransferDelayBlocks = 2
  MaxHeight = 6
  MaxBurns = 2
  MaxAttestations = 1
CHECK_DEADLOCK FALSE
INVARIANTS
  TokenSupply
  CountersMatchRecords
  PendingMatchesAccepted
  DailyAccounting
  LargeMintsWait
PROPERTIES
  CreditsEachTransferOnce
  KeysAreTimelocked
