CONSTANTS
  Jobs = {j1}
  Developers = {v1}
  f1 = f1
  f2 = f2
  NightlyFiles <- MCNightlyFiles
  Rustup = {1}
  Master = {0, 1, 2}
  DispatchTargets = {2, s1, NoDate}
  LocalTargets = {0, 2, s1, NoDate}
  RevOverrides = {2, s1, NoDate}
  Offset = 1
  Window = 1
  LastDay = 2
  MaxBumps = 2
  Faults = {"network", "edit", "kill"}
  Strays = {s1}
  NoDate = NoDate
  NoPR = NoPR
SPECIFICATION Spec
INVARIANTS
  TypeOK
  HalfBumpsAreCaught
  RefusalsLeaveTheTree
  UpdatesAreComplete
  PullRequestIsWhole
  BumpInv
CHECK_DEADLOCK FALSE
