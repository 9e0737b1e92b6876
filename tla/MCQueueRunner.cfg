CONSTANTS
  N = 3
  MaxRuns = 3
  NoFile = NoFile
SPECIFICATION Spec
INVARIANTS TypeOK AttemptsCoverExecutions OrdinarySuccessIsReal
PROPERTY OnlyFailedOnlyForgets
CHECK_DEADLOCK FALSE
