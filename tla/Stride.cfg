SPECIFICATION Spec
CONSTANTS
  Procs = {p1, p2, p3}
  Idle = idle
  max_time_slice = 1
  BIG_STRIDE = 3
  Priorities = {2}
SYMMETRY ProcSymmetry
INVARIANTS
  PoolAgrees
PROPERTIES
  ImplementsCore
  StridesStayInStep
  PicksMinimum
