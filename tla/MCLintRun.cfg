CONSTANTS
  Procs = {p1, p2}
  Clearers = {}
  Args = {a1, a2}
  Inputs = {f1}
  Contents = {v0, v1}
  f1 = f1
  f2 = f2
  v0 = v0
  v1 = v1
  broken = broken
  Masked = Masked
  Unread = Unread
  Absent = Absent
  Empty = Empty
  Torn = Torn
  NoFile = NoFile
  Orphan = Orphan
  NoAnswer = NoAnswer
  Error = Error
  LintOf <- MCLintOf
  Findings <- MCFindings
  Partial <- MCPartial
  Faults = {"walk", "read", "spawn", "child", "io", "crash", "clean"}
  MaxRuns = 2
  MaxEdits = 2
SPECIFICATION Spec
SYMMETRY Symmetry
INVARIANTS
  TypeOK
  EntriesMatchKeys
  UndisturbedRunsAreRight
  ReportsAreWhole
PROPERTY
  ImplementsService
CHECK_DEADLOCK FALSE
