SPECIFICATION PartSpec
CONSTANTS
  Texts <- CallTexts
  parseFloat <- Number
  AddressOf <- Address
  minAmountUsdc = 1
  maxAmountUsdc = 5
  NaN = NaN
  None = None
  MaxHandlers = 2
  MaxConversations = 2
  MaxOrders = 2
  Users = {u, v}
  windowMs = 3
  maxRequests = 2
  MaxTime = 7
  MaxUpdates = 5
  TransferIds = {i}
  Lookups = {q}
  Clients = {c, d}
  Amounts = {0, 1, 2, 3}
  Addresses = {"short", "long", "3D.."}
  LongEnough = {"long", "3D.."}
  ValidDccAddresses = {"3D.."}
  MaxAmount = 2
  Requests = {post, post2}
  MaxMounts = 3
  MaxHalts = 2
CHECK_DEADLOCK FALSE
INVARIANTS
  OrdersWellFormed
  WindowRespected
  StatusTrue
  StreamsHear
  ShownAsInstructed
PROPERTIES
  InstructionsMatchOrder
