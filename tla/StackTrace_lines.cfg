SPECIFICATION Spec
CONSTANTS
  Length = 3
  MaxCalls = 1
  STACKFRAME_DEPTH = 1
INVARIANTS
  BacktraceGivesLines
CHECK_DEADLOCK FALSE
