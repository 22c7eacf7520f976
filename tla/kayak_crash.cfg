SPECIFICATION Spec
CONSTANTS
  Followers = {f1}
  Leader = leader
  Reqs = {r1, r2}
  PrepareThreshold = 100
  CommitThreshold = 0
  Expiry = TRUE
  MaxIndex = 3
  MaxCrashes = 1
  MaxDrops = 0
SYMMETRY Symmetry
CHECK_DEADLOCK FALSE
INVARIANTS
  DecisionAgreement
  CommittedIsPrepared
  SkippedOnlyByCrash
  RecoveryAccepts
  OutcomeIsTrue
PROPERTIES
  ImplementsOrder
