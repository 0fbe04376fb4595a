CONSTANTS
  Writers = {updater, daemon}
  MaxSaves = 2
SPECIFICATION Spec
INVARIANTS TypeOK NothingLostAlone
PROPERTY ImplementsAtomicFile
