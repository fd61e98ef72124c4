CONSTANTS
  first = first
  base = base
  skill = skill
  small = small
  large = large
  None = None
  Declared <- MCDeclared
  Presets <- MCPresets
  Healths <- MCSpoiled
  RunsPerPreset = 1
  MaxAttempts = 2
  MaxRows = 1
  MaxUpsets = 0
SPECIFICATION Spec
PROPERTIES
  BrokenBlocksNobody
