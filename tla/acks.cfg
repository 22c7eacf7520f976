CONSTANTS
  Servers <- TwoMiners
  Queries = {"q1", "q2"}
  QueryTTL = 2
  Scenarios <- OneOrTwo
SPECIFICATION Spec
CHECK_DEADLOCK FALSE
INVARIANTS
  AckWillFind
  ChargedOnce
PROPERTIES
  NoAckLost
