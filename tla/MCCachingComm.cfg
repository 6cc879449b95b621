SPECIFICATION Spec
CONSTANTS
  MaxCalls = 5
  MaxComms = 3
CHECK_DEADLOCK FALSE
INVARIANTS
  OrderlyProgramsReplay
