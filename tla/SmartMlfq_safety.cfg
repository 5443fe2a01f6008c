SPECIFICATION Spec
CONSTANTS
  Procs = {p1, p2, p3}
  Idle = idle
  level_slice <- ShortSlices
  BOOST_TICKS = 2
  SCORE_SCALE = 2
  IO_BOUND_THRESHOLD = 1
SYMMETRY ProcSymmetry
INVARIANTS
  QueuesAgree
  ScoreInRange
  ReschedIsRight
PROPERTIES
  ImplementsCore
  NoOvertaking
  LevelChangesAreEarned
  ScoreFollowsBurst
