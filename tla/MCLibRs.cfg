\* The build script on the repository's own lib.rs.
CONSTANTS
  Missing = Missing
  Garbled = "garbled"
  Cut = "cut"
  Torn = Torn
  Malformed = Malformed
  Gens = {g1}
  Worlds <- LibWorlds
  Revisions = {}
  Configs = {}

SPECIFICATION Spec

PROPERTY
  CrossCheckPasses
