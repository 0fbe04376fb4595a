CONSTANTS
  MaxClock = 3
  KeepLogs = 2
  Keeps = {1}
SPECIFICATION Spec
INVARIANTS TypeOK RecordsTellTheLastRun DeployHasNet
