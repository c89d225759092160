CONSTANTS
  ChainA = ChainA
  ChainB = ChainB
  Revision <- MCRevision
  RootLag <- MCRootLag
  TimeStep = {1}
  MaxHeight = 4
  Ordering = "ORDER_UNORDERED"
  Senders = {ChainA}
  Closable = {ChainB}
  TimeoutHeight <- MCTimeoutHeight
  TimeoutTimestamp = {0, 3}
  Acknowledgement = {ok, fail}
  EmptyAck = EmptyAck
  TimedOut = TimedOut
  MaxSequence = 1
SPECIFICATION FairSpec
INVARIANTS
  TypeOK
  ExactlyOnceDelivery
  TimedOutNeverDelivered
  ResolvedExactlyOnce
PROPERTIES
  ImplementsLifecycle
  EveryPacketResolved
CHECK_DEADLOCK FALSE
