CONSTANTS
  Blocks <- ThreeBlocks
  DBs = {"d1", "d2", "d3"}
  Users = {"u"}
  Asked = {"write"}
  MaxFails = 2
  MaxCrashes = 2
SPECIFICATION Spec
CHECK_DEADLOCK FALSE
INVARIANTS
  Serves
PROPERTIES
  UsedIsKept
  PermissionFollows
  ServesAll
