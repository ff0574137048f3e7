\* All four masters, no reset: safety, and the cache is served.
SPECIFICATION Spec
CONSTANTS
  VgaChunk = 1
  BlitChunk = 2
  LineReads = 2
  Drain = 15
  MaxLat = 1
  ResetLen = 1
  CanReset = FALSE
  Users = {"vga", "blit", "core2"}
INVARIANTS
  TenureCoversTransaction
  NoBlockedCommand
  MissBehindOneTenure
PROPERTIES
  CacheServed
CHECK_DEADLOCK TRUE
