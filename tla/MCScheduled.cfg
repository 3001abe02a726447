CONSTANTS
  Jobs = {j1}
  Developers = {}
  f1 = f1
  f2 = f2
  NightlyFiles <- MCNightlyFiles
  Rustup = {1}
  Master = {0, 1, 2}
  DispatchTargets = {}
  LocalTargets = {0, 2, NoDate}
  RevOverrides = {}
  Offset = 1
  Window = 1
  LastDay = 2
  MaxBumps = 2
  Faults = {}
  Strays = {}
  NoDate = NoDate
  NoPR = NoPR
SPECIFICATION Spec
INVARIANT
  ScheduledBumpsGoForward
CHECK_DEADLOCK FALSE
