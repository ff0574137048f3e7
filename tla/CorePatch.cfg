\* Stores over fetched code: what becomes of a store behind one.
SPECIFICATION CtlSpec
CONSTANTS
  Dw = {0, 1}
  Succ <- Line2
  Programs <- Patches
  CtlPrograms = {}
  Val = {0, 1}
  Val0 = 0
  Dev = Dev
  Plain = Plain
  None = None
  Ack = Ack
  GoHold = 4
INVARIANTS
  MemoryIsProgram
