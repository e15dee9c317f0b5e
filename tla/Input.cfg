SPECIFICATION FairSpec
CONSTANTS
  CAPACITY = 2
  Letters = {"a"}
  Plain = {"enter"}
  Scancodes <- MCScancodes
  NoByte = NoByte
  MAX_BYTES = 4
 
PROPERTIES RingIsLossyQueue BytesAreRead EventsReachTheShell
