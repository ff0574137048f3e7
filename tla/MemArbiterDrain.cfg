\* CPU_RESETN pressed at any time, with the drain the code has and a read as
\* long as the measured ones.
SPECIFICATION Spec
CONSTANTS
  VgaChunk = 1
  BlitChunk = 1
  LineReads = 1
  Drain = 15
  MaxLat = 20
  ResetLen = 40
  CanReset = TRUE
  Users = {"blit"}
INVARIANTS
  ReadyToOwner
CHECK_DEADLOCK TRUE
