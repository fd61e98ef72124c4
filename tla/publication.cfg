CONSTANTS
  r1 = r1
  r2 = r2
  batch = batch
  digest = digest
  Runs = {r1}
  Plans = {batch}
  Digests = {digest}
  PlanRuns <- MCPlanOfOne
  DigestOf <- MCDigestOf
  NoRun = NoRun
  MaxAttempts = 3
SPECIFICATION Spec
INVARIANTS
  
  KeysAreAttempts
  ContradictionsHaveCause
PROPERTIES
  SuccessIsPublished
  AddsNewKeys
CHECK_DEADLOCK FALSE
