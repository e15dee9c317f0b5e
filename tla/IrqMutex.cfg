SPECIFICATION MutexFairSpec
CONSTANTS
  Locks = {vga, serial}
  MAX_INTERRUPTS = 2
  NoLock = NoLock
INVARIANTS LockedWhileHeld NoIrqInsideCriticalSection
PROPERTIES WithKeepsIF BodiesFinish
