SPECIFICATION Spec
\* The system stops in a panic and when the last process is gone.
CHECK_DEADLOCK FALSE
CONSTANTS
  NULL = NULL
  Procs = {p1, p2}
  Mm = {p1, p2}
  npage = 19
  PTSIZE = 3
  USERBASE = 1
  USERTOP = 6
  Value = {0}
  Images <- SomeImages
  STACKPAGES = 2
  EAGER = 1
  KSTACKPAGE = 2
  Touch = {0, 1, 2, 4}
SYMMETRY Symmetry
INVARIANTS
  FramesAccounted
  AreasSound
PROPERTIES
  ImplementsMemory
