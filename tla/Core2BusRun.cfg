\* The whole subsystem; core 1 restarts core 2 only with its adapter idle.
SPECIFICATION Spec
CONSTANTS
  r1 = r1
  r2 = r2
  t1 = t1
  t2 = t2
  d1 = d1
  Rows = {r1, r2}
  Lines = {t1, t2, d1}
  Text = {t1, t2}
  Con = Con
  Status = Status
  Eth = Eth
  Nowhere = Nowhere
  NoWord = NoWord
  LogDepth = 3
  LogSlack = 1
  Uses <- AllUses
  PatientRestart = TRUE
INVARIANTS
  ReadsMemory
  StoreDone
  LogInOrder
PROPERTIES
  WindowReadsBack
  BusReleased
  PortAnswered
CHECK_DEADLOCK TRUE
