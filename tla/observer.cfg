SPECIFICATION Spec
CONSTANTS
  Ledger <- FourBlocks
  Callers = {c1, c2}
  Positions = {"oldest"}
  MaxCrashes = 2
CHECK_DEADLOCK FALSE
INVARIANTS
  IndexedBelow
  PagesPartition
PROPERTIES
  NeverBack
  CatchesUp
