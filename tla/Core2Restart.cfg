\* Core 1 restarts core 2 whatever its adapter is doing.
SPECIFICATION Spec
CONSTANTS
  r1 = r1
  r2 = r2
  t1 = t1
  t2 = t2
  d1 = d1
  Rows = {r1, r2}
  Lines = {t1, t2, d1}
  Text = {t1, t2}
  Con = Con
  Status = Status
  Eth = Eth
  Nowhere = Nowhere
  NoWord = NoWord
  LogDepth = 3
  LogSlack = 1
  Uses <- OneUse
  PatientRestart = FALSE
INVARIANTS
  DrainsAndIdles
CHECK_DEADLOCK TRUE
