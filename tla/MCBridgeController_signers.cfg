SPECIFICATION WholeSpec
CONSTANTS
  admin = admin
  successor = successor
  alice = alice
  v1 = v1
  v2 = v2
  v3 = v3
  t1 = t1
  t2 = t2
  t3 = t3
  ann = ann
  ben = ben
  sol = sol
  usdc = usdc
  nativeSolMint = sol
  nativeDivisor = 10
  Users = {alice}
  Keys = {admin}
  Validators = {v1, v2}
  Recipients = {ann, ben}
  SplMints = {sol}
  TransferIds = {t1, t2}
  MintRequests <- SignerRequests
  LegacyRequests <- SignerLegacy
  Registrations <- None
  BurnAmounts = {2}
  NewLimits <- None
  minValidators = 2
  maxDailyMint = 60
  maxSingleMint = 40
  minMintAmount = 1
  largeTxThreshold = 30
  largeTxDelayBlocks = 1
  rateLimitWindow = 2
  maxValidators = 3
  maxRegisteredTokens = 2
  adminTransferDelayBlocks = 2
  MaxHeight = 2
  MaxBurns = 2
  MaxAttestations = 2
INVARIANTS
  QuorumOfDifferentSigners
