CONSTANTS
  Last = 4
  Bundle <- MCBundle
  Fallback = 1
  MaxRetries = 5
  MaxFaults = 4
SPECIFICATION Spec
INVARIANTS
  OldBinaryOnlyAfterLostLink
PROPERTIES
  BackedUpBeforeUpgrade
  OnlyDueUpgrades
  UpgradesHappen
