CONSTANTS
  Q <- MCQ
  Graphs <- MCGraphs
  SeedSets <- MCSeedSets
  SorterLines <- MCSorterLines
SPECIFICATION Spec
INVARIANTS
  TypeOK
  ComponentsAreReal
  OrderIsPermutation
  BuiltAfterItsNeeds
  RefusedIfSeedless
PROPERTY Terminates
