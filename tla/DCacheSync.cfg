\* The load-hit pipe while a maintenance request waits for the FSM.
SPECIFICATION Spec
CONSTANTS
  t1 = t1
  t2 = t2
  t3 = t3
  Tags = {t1, t2}
  LastSet = 1
  LastOff = 0
  Val = {0, 1}
  Val0 = 0
  Asked <- AllKinds
  GapLen = 2
  GoHold = 2
  MntKinds <- OnlyInvalidate
  NoTag = NoTag
  NoReq = NoReq
  NoVictim = NoVictim
  None = None
  Ack = Ack
INVARIANTS
  NextAccessStalls
CHECK_DEADLOCK TRUE
