CONSTANTS
  Artifacts = {g1, g2}
  MaxVer = 2
  Previews = {}
SPECIFICATION FairSpec
INVARIANTS TypeOK OnlyVouched CrashNeedsNoHuman
PROPERTY EveryBumpIsBuilt
