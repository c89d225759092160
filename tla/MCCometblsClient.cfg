CONSTANTS
  Signed <- MCForked
  Proves <- MCProves
  TrustingPeriod = 2
  MaxClockDrift = 1
  DelayTime = {0, 2}
  DelayBlocks = {0, 2}
  TimeStep = {1, 2}
  MaxBlock = 5
  NoClient = NoClient
  NoProof = NoProof
SPECIFICATION LightClientSpec
INVARIANTS
  DelayRespected
  CommittedIsCurrent
PROPERTIES
  RootsAreStable
CHECK_DEADLOCK FALSE
