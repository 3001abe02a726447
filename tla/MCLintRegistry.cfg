\* The build, two runs of the generator, and a developer who edits once.
CONSTANTS
  Missing = Missing
  Garbled = "garbled"
  Cut = "cut"
  Torn = Torn
  Malformed = Malformed
  Gens = {g1, g2}
  Worlds <- MCWorlds
  Revisions <- MCRevisions
  Configs <- MCConfigs

SPECIFICATION Spec

SYMMETRY Symmetry

INVARIANTS
  RegistryInv
  BuildVouchesForLints
  InventoriesAgree
  AcceptedSettingsBecomeFlags

PROPERTIES
  CheckIsExact
  WriterLeavesDocsUp
