CONSTANTS
  MaxClock = 6
  Day = 3
  Grace = 1
  Hours = {{0}, {0, 2}}
  Spellings = {"yes", "no"}
SPECIFICATION Spec
INVARIANT ModeInForce
