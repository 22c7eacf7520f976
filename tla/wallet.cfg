CONSTANTS
  MaxPending = 3
  Scenarios <- All
SPECIFICATION Spec
CHECK_DEADLOCK FALSE
INVARIANTS
  ReadYourWrites
PROPERTIES
  BuildsOnLongest
  Converge
