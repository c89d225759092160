CONSTANTS
  ChainA = ChainA
  ChainB = ChainB
  Revision <- MCRevision
  RootLag <- MCRootLag
  TimeStep = {1}
  MaxHeight = 4
  Ordering = "ORDER_ORDERED"
  Senders = {ChainA}
  Closable = {}
  TimeoutHeight <- MCNoHeight
  TimeoutTimestamp = {3}
  Acknowledgement = {ok}
  EmptyAck = EmptyAck
  TimedOut = TimedOut
  MaxSequence = 2
SPECIFICATION Spec
INVARIANTS
  TimedOutNeverDelivered
CHECK_DEADLOCK FALSE
