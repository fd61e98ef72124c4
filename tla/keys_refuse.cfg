CONSTANTS
  r1 = r1
  r2 = r2
  batch = batch
  digest = digest
  Runs = {r1, r2}
  Plans = {batch}
  Digests = {digest}
  PlanRuns <- MCPlanRuns
  DigestOf <- MCDigestOf
  NoRun = NoRun
  MaxAttempts = 2
SPECIFICATION Spec
INVARIANTS
  KeysAgree
