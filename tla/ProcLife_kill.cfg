SPECIFICATION FairSpec
CONSTANTS
  Procs = {init, p1, p2}
  Idle = idle
  InitProc = init
  NULL = null
  MAX_PROCESS = 5
CHECK_DEADLOCK FALSE
PROPERTIES
  KilledProcessExits
