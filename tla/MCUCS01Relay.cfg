CONSTANTS
  ChainA = ChainA
  ChainB = ChainB
  ch1 = ch1
  ch2 = ch2
  A1 = A1
  A2 = A2
  B1 = B1
  B2 = B2
  token = token
  Channel = {ch1, ch2}
  Endpoint <- MCEndpoint
  Hex = Hex
  Native <- MCNative
  Supply = 2
  User = User
  Relayer = Relayer
  Escrow = Escrow
  BadReceiver = BadReceiver
  FeeMax = 2
  Amount = {1, 2}
  Fee = {0, 1}
  MaxTokens = 1
  MaxSequence = 1
  NoAck = NoAck
  ACK_SUCCESS = ACK_SUCCESS
  ACK_FAILURE = ACK_FAILURE
  NoData = NoData
SPECIFICATION Spec
INVARIANTS
  EscrowIsBacked
  OutstandingCoversClaims
  TransfersSettle
CHECK_DEADLOCK FALSE
