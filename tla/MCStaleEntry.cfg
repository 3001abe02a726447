CONSTANTS
  Procs = {p1, p2}
  Clearers = {}
  Args = {a1}
  Inputs = {f1}
  Contents = {v0, v1}
  f1 = f1
  f2 = f2
  v0 = v0
  v1 = v1
  broken = broken
  Masked = Masked
  Unread = Unread
  Absent = Absent
  Empty = Empty
  Torn = Torn
  NoFile = NoFile
  Orphan = Orphan
  NoAnswer = NoAnswer
  Error = Error
  LintOf <- MCLintOf
  Findings <- MCFindings
  Partial <- MCPartial
  Faults = {}
  MaxRuns = 2
  MaxEdits = 1
SPECIFICATION Spec
INVARIANT
  EditsInvalidateEntries
CHECK_DEADLOCK FALSE
