SPECIFICATION CatSpec
CONSTANTS
  SPIN_LIMIT = 2
  SECTOR_SIZE = 2
  MAX_FILE_SIZE = 6
  FS_BASE_LBA = 3
  LBA_LIMIT = 12
  U32_MAX = 15
  MAX_FILES = 2
  Images <- MCImages
  FileLists <- MCFileLists
  HELLO_TXT_NAME = "h"
  HELLO_TXT_CONTENTS = "hello"
  HELLO_SIZE = 3
  Names = {"a", "b"}
  TRANSMIT_SPIN_LIMIT = 1
INVARIANTS  MountIsAllOrNothing OutputIsTheMessage
PROPERTIES CommandsReturn
