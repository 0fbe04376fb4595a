CONSTANTS
  Nightly = nightly
  Manual = {window}
  Previews = {preview}
  Probes = {tray}
  Nobody = nobody
  Torn = torn
  LockOpens = TRUE
SPECIFICATION FairSpec
INVARIANTS
  TypeOK
  OneRunWorks
  WorkerIsNamed
  NoGhostLock
PROPERTY LockIsFreed
