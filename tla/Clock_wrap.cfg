SPECIFICATION PromptSpec
CONSTANTS
  MAX_TASKS = 3
  TURN_LIMIT = 5
  TASKS = 3
  FREQUENCY_HZ = 2
  U32 = 7
  MAX_TICKS = 7
PROPERTY ReportsKeepComing
