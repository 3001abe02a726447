CONSTANTS
  Procs = {p1, p2}
  Clearers = {c1, c2}
  Args = {a1, a2}
  Inputs = {f1}
  Contents = {v0}
  f1 = f1
  f2 = f2
  v0 = v0
  v1 = v1
  broken = broken
  Masked = Masked
  Unread = Unread
  Absent = Absent
  Empty = Empty
  Torn = Torn
  NoFile = NoFile
  Orphan = Orphan
  NoAnswer = NoAnswer
  Error = Error
  LintOf <- MCLintOf
  Findings <- MCFindings
  Partial <- MCPartial
  Faults = {"io", "crash", "clean"}
  MaxRuns = 2
  MaxEdits = 0
SPECIFICATION FairSpec
INVARIANTS
  ClearLeavesNoOldFile
  IInv
PROPERTY
  RunsEnd
CHECK_DEADLOCK FALSE
