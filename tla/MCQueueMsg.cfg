CONSTANTS
  Programs <- MCPrograms
  Id <- MCId
  Batching = {TRUE, FALSE}
  RetryCount = 2
  MaxBatchSize = 2
  MaxSetbacks = 3
  MaxTime = 0
SPECIFICATION FairSpec
INVARIANTS
  EffectsHappenAsWritten
  RetriesAreSpent
  ReceiverGetsItsData
PROPERTIES
  SequenceRespected
  RunsToCompletion
CHECK_DEADLOCK FALSE
