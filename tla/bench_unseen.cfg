CONSTANTS
  first = first
  base = base
  skill = skill
  small = small
  large = large
  None = None
  Declared <- MCDeclared
  Presets <- MCPresets
  Healths <- MCSound
  RunsPerPreset = 1
  MaxAttempts = 2
  MaxRows = 1
  MaxUpsets = 1
SPECIFICATION Spec
INVARIANTS
  GreenIsOnBranch
