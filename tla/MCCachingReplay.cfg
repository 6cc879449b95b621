SPECIFICATION Spec
CONSTANTS
  MaxCalls = 3
  MaxComms = 2
CHECK_DEADLOCK FALSE
INVARIANT
  EveryProgramReplays
