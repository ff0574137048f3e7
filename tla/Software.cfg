\* Two programs of the board gates, the hazard probe, a VNC session and the
\* simulation runner, one at a time.
SPECIFICATION SoftSpec
CONSTANTS
  Letters = 2
  Items = 2
  Iters = 2
  Rounds = 2
  DdrBase = 100
  DataBase = 200
  Result = 300
  ALU = 2
  MEM_WORDS = 4
  MEM_REPS = 2
  CHASE = 5
  BR = 2
  FIB = 4
  MD = 2
  COUNTERS = 3
  DIGITS = 2
  Tiles = 2
  Cap = 2
  Updates = 2
  Setups <- SetupsDef
  Rtl = {1, 2, 3}
  Benches = {1, 2}
  BaseSource <- BaseSourceDef
  NoCompile = {3}
  Does <- DoesDef
  Seeds = 2
  ExpectedState <- ExpectedDef
  Plans <- PlansDef
  Edits = 2
INVARIANTS
  VerdictTrue
  PassIsFresh
  NoStaleText
  RowsMeasureKernels
  ChaseVisitsAll
  FrameIsUpdate
  OneRequest
  DisconnectSaysWhy
  ExeIsSource
  SameIsSame
PROPERTIES
  ProgramEnds
  UpdateShown
\* The last program and the probe halt, sessions close, the commands have been given.
CHECK_DEADLOCK FALSE
