\* --format sarif against README.md 257-263.
CONSTANTS
  Missing = Missing
  MaxLines = 1
  Cwd <- MCCwd
  Inventory <- MCInventory
  Inputs <- MCInputs

SPECIFICATION Spec

INVARIANT
  SarifIsPrinted
