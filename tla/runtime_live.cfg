SPECIFICATION LiveSpec
CONSTANTS
  Instances <- MCLiveInstances
PROPERTIES DebtPaid
CHECK_DEADLOCK FALSE
