CONSTANTS
  Src <- MCSrc
  Bins <- MCBins
  SrcOf <- MCSrcOf
  MaxVer = 2
SPECIFICATION FairSpec
INVARIANTS
  TypeOK
  EmptyQueueIsConverged
  BuiltIsPickedUp
  JournalIsTrue
PROPERTY Converges
