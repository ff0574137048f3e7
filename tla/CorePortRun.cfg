\* Four programs, each beside fills and an interrupt.
SPECIFICATION CtlSpec
CONSTANTS
  Dw = {0, 1}
  Succ <- Line2
  Programs <- AllPrograms
  CtlPrograms <- MaintenanceOnly
  Val = {0, 1}
  Val0 = 0
  Dev = Dev
  Plain = Plain
  None = None
  Ack = Ack
  GoHold = 4
INVARIANTS
  LoadsReadLastStore
  StoresPerformed
  PortOwned
  AnswersTaken
  NoRequestLost
PROPERTIES
  KeepsPort
  DrivesStrobe
  MemMoves
