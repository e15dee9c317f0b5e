SPECIFICATION MCBootSpec
CONSTANTS
  FRAME_SIZE = 4
  MAX_FRAME_INDEX = 6
  U64_MAX = 39
  MAX_ENTRIES = 2
  Reserved <- MCReserved
  BiosMaps <- MCBiosMaps
  BYTE = 4
  CYLINDER_HIGH = 4
  SEGMENTS = 12
  LBAS = 12
  KERNEL_LOAD_SEGMENT = 2
  KERNEL_SECTORS = 10
  Geometries <- MCGeometries
INVARIANTS PoolIsSound KernelIsLoaded
PROPERTY BootEnds
