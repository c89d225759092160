CONSTANTS
  Msg = {m1, m2, m3}
  PrePass = "Normalize"
  Worker = {w1, w2}
  MaxCrashes = 1
SPECIFICATION FairSpec
INVARIANTS
  EffectsRepeatOnlyByCrash
PROPERTIES
  ImplementsMessageQueue
  EveryMessageHandled
CHECK_DEADLOCK FALSE
