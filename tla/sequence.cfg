SPECIFICATION Spec
CONSTANTS
  Codes <- MCCodes
  Roles <- MCRoles
  Slots = 2
  MaxTokens = 3
  MaxDuration = 3
  MaxStarts = 2
  MaxOwners = 2
  MaxBusy = 1
INVARIANTS PlanOwned NoneForgotten CleanedUp TerminalTrue KeysInOrder
PROPERTY OneTerminal
CHECK_DEADLOCK FALSE
