SPECIFICATION FairSpec
CONSTANTS
  Procs = {p1, p2}
  Idle = idle
  level_slice <- ShortSlices
  BOOST_TICKS = 2
  SCORE_SCALE = 2
  IO_BOUND_THRESHOLD = 1
PROPERTIES
  NoStarvation
