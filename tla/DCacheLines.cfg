\* Three lines of two words competing for the two ways of one set.
SPECIFICATION Spec
CONSTANTS
  t1 = t1
  t2 = t2
  t3 = t3
  Tags = {t1, t2, t3}
  LastSet = 0
  LastOff = 1
  Val = {0, 1}
  Val0 = 0
  Asked <- OneWord
  GapLen = 2
  GoHold = 2
  MntKinds <- AnyRequest
  NoTag = NoTag
  NoReq = NoReq
  NoVictim = NoVictim
  None = None
  Ack = Ack
SYMMETRY
  Symmetry
INVARIANTS
  ReadsLastStore
  AnsweredOnce
  LineInOneWay
  VictimHidden
  FlushReachesMemory
CHECK_DEADLOCK TRUE
