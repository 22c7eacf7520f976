SPECIFICATION Spec
CONSTANTS
  m1 = m1
  m2 = m2
  w1 = w1
  w2 = w2
  w3 = w3
  r1 = r1
  r2 = r2
  Servers <- TwoServers
  Leader = m2
  Reads = {r1, r2}
  Writes = {w1, w2, w3}
  Stmts <- OneOrTwo
  FailsAt <- FailsW2
  DDL = {w2}
  MaxTx = 1
  Scenarios <- Workloads
  QueryTTL = 2
  Crashable = {m1}
SYMMETRY ReadSymmetry
CHECK_DEADLOCK FALSE
INVARIANTS
  ChainsMatch
  Once
  ReplicaFollowsChain
