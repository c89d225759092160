CONSTANTS
  ChainA = ChainA
  ChainB = ChainB
  Revision <- MCRevision
  RootLag <- MCRootLag
  TimeStep = {2}
  MaxHeight = 3
  Ordering = "ORDER_UNORDERED"
  Senders = {ChainA}
  Closable = {}
  TimeoutHeight <- MCTimeoutHeight
  TimeoutTimestamp = {0, 3}
  Acknowledgement = {ok}
  EmptyAck = EmptyAck
  TimedOut = TimedOut
  MaxSequence = 1
  Second = 2
SPECIFICATION RelaySpec
INVARIANTS
  RelayedIsProvable
  GivesUpOnlyTooEarly
PROPERTIES
  EveryPacketRelayed
CHECK_DEADLOCK FALSE
