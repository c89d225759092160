CONSTANTS
  Msg = {m1, m2, m3}
  PrePass = "Normalize"
  Worker = {w1, w2}
  Enqueuer = enqueuer
  Optimizer = optimizer
  None = None
SPECIFICATION FairSpec
INVARIANTS
  HandledOnce
PROPERTIES
  LostOnlyBehindOptimizer
  ReadyIsHandled
CHECK_DEADLOCK FALSE
