SPECIFICATION Spec
CONSTANTS
  Users = {11, 12}
  MinProviderDeposit = 1
  DepositUnit = 1
  Cases <- Both
CHECK_DEADLOCK FALSE
PROPERTIES
  Conservation
  BilledOnce
