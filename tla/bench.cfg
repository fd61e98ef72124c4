CONSTANTS
  first = first
  base = base
  skill = skill
  small = small
  large = large
  None = None
  Declared <- MCDeclared
  Presets <- MCPresets
  Healths <- MCBroken
  RunsPerPreset = 1
  MaxAttempts = 2
  MaxRows = 1
  MaxUpsets = 2
SPECIFICATION Spec
INVARIANTS
  MeasuredIsCommitted
  GreenIsRecorded
PROPERTIES
  CommittedRowsStay
  SoundAreSampled
