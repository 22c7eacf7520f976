SPECIFICATION FairSpec
CONSTANTS
  Followers = {f1}
  Leader = leader
  Reqs = {r1, r2}
  PrepareThreshold = 100
  CommitThreshold = 0
  Expiry = FALSE
  MaxIndex = 3
  MaxCrashes = 0
  MaxDrops = 1
CHECK_DEADLOCK FALSE
PROPERTIES
  ApplyReturns
  CommitsAreRepaired
