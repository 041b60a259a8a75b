SPECIFICATION Spec
CONSTANTS
  Instances <- MCInstances
INVARIANTS HeldIsKnown ConfirmedTrue AnswerTrue
PROPERTIES ReleaseSafe SequenceAlone
CHECK_DEADLOCK FALSE
