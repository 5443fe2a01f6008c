SPECIFICATION FairSpec
CONSTANTS
  Procs = {p1, p2, p3}
  Idle = idle
  level_slice <- ShortSlices
  BOOST_TICKS = 2
INVARIANTS
  QueuesAgree
PROPERTIES
  ImplementsCore
  LevelChangesAreEarned
  NoStarvation
