CONSTANTS
  MaxVer = 2
  StockVer = 0
  Mode = "oneshot"
  TripAfter = 2
  DiskFaults = TRUE
SPECIFICATION Spec
INVARIANTS
  TypeOK
  FallbackProven
  DefaultProven
  TrialIsPinned
  InstalledGated
PROPERTIES
  RerunKeepsStaged
  ImplementsBootTrial
