SPECIFICATION FairSpec
CONSTANTS
  Lines = {0, 1, 7, 14, 15}
  Drivers <- MCDrivers
  Strays <- MCStrays
  MAX_EDGES = 3
INVARIANTS NothingLeftInService DeliveredGatesAreWhole
PROPERTY RequestsAreTaken
