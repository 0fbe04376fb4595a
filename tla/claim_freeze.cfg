CONSTANTS
  MaxVer = 2
  StockVer = 0
  Mode = "oneshot"
  TripAfter = 2
  DiskFaults = FALSE
SPECIFICATION Spec
PROPERTY FreezeWithholdsKernel
