CONSTANTS
  a = a
  b = b
  Batches = {a, b}
  Declared <- MCDeclared
  Models = {"default"}
  Versions = {1, 2}
  MaxEdits = 1
  None = None
SYMMETRY MCSymmetry
SPECIFICATION Spec
INVARIANTS
  IntakeTypeOK
  EnqueuedWasApproved
  LaunchedAsApproved
  SteadyIsAccepted
CHECK_DEADLOCK FALSE
