SPECIFICATION FairClockSpec
CONSTANTS
  MAX_TASKS = 4
  TURN_LIMIT = 5
  TASKS = 3
  FREQUENCY_HZ = 2
  U32 = 16
  MAX_TICKS = 7
INVARIANTS CountsFollowSeconds TurnsStayClose
PROPERTY SecondsAreNoticed
