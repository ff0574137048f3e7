\* Two sets: the hit pipe reads one while the FSM works on the other, and the
\* walk has a next set.
SPECIFICATION Spec
CONSTANTS
  t1 = t1
  t2 = t2
  t3 = t3
  Tags = {t1}
  LastSet = 1
  LastOff = 0
  Val = {0, 1}
  Val0 = 0
  Asked <- TwoSets
  GapLen = 2
  GoHold = 2
  MntKinds <- AnyRequest
  NoTag = NoTag
  NoReq = NoReq
  NoVictim = NoVictim
  None = None
  Ack = Ack
INVARIANTS
  PipeReadsLastStore
PROPERTIES
  WalkComplete
  ImplementsMaintCapture
CHECK_DEADLOCK TRUE
