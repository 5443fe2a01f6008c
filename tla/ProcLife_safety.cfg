SPECIFICATION Spec
CONSTANTS
  Procs = {init, p1, p2, p3, p4, p5}
  Idle = idle
  InitProc = init
  NULL = null
  MAX_PROCESS = 6
SYMMETRY UserSymmetry
CHECK_DEADLOCK FALSE
INVARIANTS
  FamilyIsWhole
  NoLostWakeup
