SPECIFICATION AnySpec
CONSTANTS
  mm = mm
  NULL = NULL
  Mm = {mm}
  npage = 7
  PTSIZE = 8
  USERBASE = 1
  USERTOP = 8
  Value = {0}
  CHECK_VALID_PHY_PAGE_NUM = 4
  CHECK_VALID_VIR_PAGE_NUM = 5
INVARIANTS
  SwapKeepsContents
