SPECIFICATION FairSpec
CONSTANTS
  Procs = {p1, p2, p3, p4}
  Idle = idle
  max_time_slice = 2
INVARIANTS
  QueueAgrees
PROPERTIES
  ImplementsCore
  Fifo
  NoStarvation
