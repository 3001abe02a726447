\* Every report, with a reader that may go away at any line; bodies of four
\* expressions at two bits for 64.
CONSTANTS
  Missing = Missing
  MaxLines = 3
  Cwd <- MCCwd
  Inventory <- MCInventory
  Inputs <- MCInputs
  Half = 2
  Literals <- MCLiterals
  MaxNodes = 4
  BitAnd <- MCBitAnd
  BitOr <- MCBitOr

SPECIFICATION LinterSpec

INVARIANTS
  ReportInv
  ReportFollowsFindings
  ErrorsNeverPass
  AnnotationsAreLossless
  RenderingsAgree
  WideInv
  ProvenValuesFit
  ReportedFitsU64

PROPERTY
  ExitAgreesWithOutput
