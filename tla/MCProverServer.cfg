CONSTANTS
  c1 = c1 c2 = c2 c3 = c3 c4 = c4
  k1 = k1 k2 = k2 k3 = k3
  Clients <- MCClients
  Keys <- MCKeys
  request <- MCrequest
  Calls = {p1, p2, p3}
  maxJobs = 2
  MaxFaults = 1
SPECIFICATION Spec
INVARIANTS
  JobsAreCounted
  PendingHasOneOwner
PROPERTIES
  ResultsAreFinal
  ProofsArrive
CHECK_DEADLOCK FALSE
