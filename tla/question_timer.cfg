SPECIFICATION Spec
CONSTANTS
  HasForceCallback = TRUE
  MaxStarts = 4
INVARIANTS
  OneOutcome
  NoLostWakeup
  NeverOverwritesThread
  RunningIsExact
PROPERTIES
  ImplementsOneShot
  CallsReturn
CHECK_DEADLOCK FALSE
