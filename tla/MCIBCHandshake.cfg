CONSTANTS
  ChainA = ChainA
  ChainB = ChainB
  ClientId = {"client-0","client-1"}
  Clients <- MCClients
  DelayPeriod = {0}
  Identifier = {"1","2"}
  Feature = {"ORDER_ORDERED", "ORDER_UNORDERED"}
  getCompatibleVersions <- MCCompatibleVersions
  ProposedVersion = {}
  MaxConnections = 3
  Port = {port1,port2}
  ChannelVersion = {version1,version2}
  MaxChannels = 3
SPECIFICATION Spec
SYMMETRY Symmetry
INVARIANTS
  ConnectionsAgree
  ConnectionsPairUp
  ChannelsAgree
  ChannelsPairUp
CHECK_DEADLOCK FALSE
