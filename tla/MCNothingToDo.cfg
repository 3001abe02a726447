CONSTANTS
  Jobs = {}
  Developers = {v1}
  f1 = f1
  f2 = f2
  NightlyFiles <- MCNightlyFiles
  Rustup = {1}
  Master = {0, 1, 2}
  DispatchTargets = {2}
  LocalTargets = {0, 2, NoDate}
  RevOverrides = {}
  Offset = 1
  Window = 1
  LastDay = 2
  MaxBumps = 2
  Faults = {"kill"}
  Strays = {}
  NoDate = NoDate
  NoPR = NoPR
SPECIFICATION Spec
INVARIANT
  NothingToDoMeansDone
CHECK_DEADLOCK FALSE
