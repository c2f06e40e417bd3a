SPECIFICATION PartSpec
CONSTANTS
  admin = admin
  successor = successor
  alice = alice
  bob = bob
  v1 = v1
  v2 = v2
  v3 = v3
  b1 = b1
  b2 = b2
  b3 = b3
  b4 = b4
  ann = ann
  ben = ben
  usdc = usdc
  DccChainId = 2
  Keys = {admin, successor}
  Users = {alice, bob}
  Validators = {v1, v2, v3}
  Shown = {v3}
  Recipients = {ann, ben}
  SplMints = {usdc}
  BurnIds = {b1, b2, b3, b4}
  Messages <- AllMessages
  Amounts = {3}
  Gifts = {1, 2, 9}
  InitConfigs <- Configs
  ConfigInputs <- NewConfigs
  Proposals <- AllProposals
  Hour = 1
  Day = 2
  MaxTime = 7
  MaxNonce = 2
  MaxGifts = 9
  MaxAttestations = 2
CHECK_DEADLOCK FALSE
INVARIANTS
  VaultBalances
  BooksMatchRecords
  WindowAccounting
  TwoWindowsCap
  LargeWithdrawalsWait
  BackedByQuorum
  PendingStillValid
PROPERTIES
  PaysEachBurnOnce
  ChangesAreTimelocked
