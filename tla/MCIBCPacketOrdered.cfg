CONSTANTS
  ChainA = ChainA
  ChainB = ChainB
  Revision <- MCRevision
  RootLag <- MCRootLag
  TimeStep = {1}
  MaxHeight = 4
  Ordering = "ORDER_ORDERED"
  Senders = {ChainA}
  Closable = {ChainA, ChainB}
  TimeoutHeight <- MCNoHeight
  TimeoutTimestamp = {3}
  Acknowledgement = {ok}
  EmptyAck = EmptyAck
  TimedOut = TimedOut
  MaxSequence = 2
SPECIFICATION Spec
INVARIANTS
  OrderedDelivery
  ClosedIsProvableOrTimedOut
CHECK_DEADLOCK FALSE
