\* CPU_RESETN pressed at any time: the drain outlasts every transaction.
SPECIFICATION Spec
CONSTANTS
  VgaChunk = 1
  BlitChunk = 2
  LineReads = 2
  Drain = 3
  MaxLat = 3
  ResetLen = 5
  CanReset = TRUE
  Users = {"vga", "blit"}
INVARIANTS
  ReadyToOwner
CHECK_DEADLOCK TRUE
