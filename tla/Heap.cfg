SPECIFICATION FairSpec
CONSTANTS
  ALIGN = 2
  HEADER_SIZE = 2
  HEAP_START = 4
  HEAP_SIZE = 14
  USIZE_MAX = 31
  Sizes = {0, 1, 2, 3, 5, 29, 31}
  Aligns = {1, 2, 4}
  Junk = {6}
INVARIANTS BlocksTile HolesStayApart NullOnlyWhenNothingFits LiveIsAccounted
PROPERTIES PayloadsAreKept CallsReturn
