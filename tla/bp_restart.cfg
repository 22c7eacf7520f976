SPECIFICATION Spec
CONSTANTS
  Accounts = {1}
  Txs <- Rivals
  Confirms = {2}
  Total = 2
  Rank = 1
  MaxPack = 2
  MaxPending = 2
  MaxHeight = 5
  MaxRestarts = 1
CHECK_DEADLOCK FALSE
INVARIANTS
  RestartPreserves
  OwnBlocksValid
PROPERTIES
  IrreversibleIsFinal
