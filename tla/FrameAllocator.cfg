CONSTANTS
  MAX_FRAME_INDEX = 10
  NO_FRAME = NO_FRAME
  regions <- MCregions
  reservations <- MCreservations
  Memory0 <- MCMemory0
  RunLengths = {2, 3}
  Data = {2, 9}
  SELF_TEST_FRAMES = 3
SPECIFICATION TestSpec
INVARIANTS OwnersAreSound FreeListSound Accounting SelfTestIsTrue
