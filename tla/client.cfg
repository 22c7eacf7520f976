CONSTANTS
  Threads = {"t1", "t2"}
  Peers = {"leader", "follower"}
  Workers = 1
  AckCap = 1
  Users = {"u1", "u2"}
  Conns = {1, 2, 3, 4, 5}
  BPs = {"b1", "b2"}
  Nodes = {"n1", "n2"}
  NumberOfReplicas = 2
  FreeCap = 1
  MaxPhysical = 2
  Scenarios <- All
SPECIFICATION Spec
CHECK_DEADLOCK FALSE
INVARIANTS
  Outcomes
  LateRefused
  Exclusive
  Ring
PROPERTIES
  Recovers
  LookupFails
