SPECIFICATION Spec
CONSTANTS
  Instances <- MCInstances
INVARIANT NotReadyUnsent
CHECK_DEADLOCK FALSE
