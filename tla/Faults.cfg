SPECIFICATION FaultsSpec
CONSTANTS
  FRAME_SIZE = 2
  ENTRIES = 3
  Machines <- MCMachines
  PAGE_WORDS = 4
  STACK_PAGES = 1
  Vectors = {0, 3, 6, 8, 13, 14, 17, 96}
  Calls = {2, 5}
  MAX_FAULTS = 2
INVARIANTS  ReportsAreTrue 
PROPERTY FaultsAreReported
