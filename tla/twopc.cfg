SPECIFICATION Spec
CONSTANTS
  s1 = s1
  s2 = s2
  p1 = p1
  p2 = p2
  p3 = p3
  Puts = {p1, p2, p3}
  Storages = {s1, s2}
  Workers <- Both
  TxID <- Ids
  After <- Retry
  Hooked = {p2}
  Workloads <- Pairs
  MaxWrites = 1
  Direct = Direct
  NoPut = NoPut
CHECK_DEADLOCK FALSE
INVARIANTS
  HeldUntilHandled
  SuccessIsApplied
PROPERTIES
  OneOrder
  PutReturns
