SPECIFICATION FairPartsSpec
CONSTANTS
  Timer = {t1, t2, t3, t4}
  MaxExpires = 4
  npage = 10
  Regions <- TwoRegions
  MaxReq = 3
  PAGE_SIZE = 5
  HeapPages = {1, 2, 3}
  Requests = {1, 2, 4, 10}
  BIGBLOCK = 2
  mm = mm
  SwapFrames = 7
  CHECK_VALID_PHY_PAGE_NUM = 4
  CHECK_VALID_VIR_PAGE_NUM = 5
  CONSBUFSIZE = 3
  SerialChars = {127}
  MaxPending = 2
  CRT_ROWS = 3
  CRT_COLS = 3
  BUFSIZE = 5
  Typed = {120, 121, 32, 8, 10}
  Node = {1, 2, 3, 4, 5, 6, 7, 8}
  nil = 0
  root = 9
  Length = 4
  MaxCalls = 2
  STACKFRAME_DEPTH = 1
  MAX_PID = 8
  MAX_PROCS = 7
  NULL = NULL
INVARIANTS
  PidsDistinct
  FreeListIsSound
  HeapIsSound
  CheckPasses
  NoStuckModifier
  ScreenShowsLine
  BacktraceNamesCalls
  TreeIsSound
PROPERTIES
  TakesTheNextFree
  GetPidReturns
  ImplementsPool
  ImplementsTimers
  ImplementsQueue
  ImplementsList
CHECK_DEADLOCK FALSE
