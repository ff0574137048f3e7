\* Liveness of the port beside dirty evictions, walks and DMA tenures.
SPECIFICATION Spec
CONSTANTS
  t1 = t1
  t2 = t2
  t3 = t3
  Tags = {t1, t2, t3}
  LastSet = 0
  LastOff = 0
  Val = {0, 1}
  Val0 = 0
  Asked <- AllKinds
  GapLen = 0
  GoHold = 1
  MntKinds <- OnlyInvalidate
  NoTag = NoTag
  NoReq = NoReq
  NoVictim = NoVictim
  None = None
  Ack = Ack
PROPERTIES
  RequestAnswered
CHECK_DEADLOCK TRUE
