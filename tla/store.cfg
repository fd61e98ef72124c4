CONSTANTS
  r1 = r1
  r2 = r2
  r3 = r3
  r4 = r4
  p1 = p1
  p2 = p2
  p3 = p3
  d1 = d1
  d2 = d2
  Runs = {r1, r2, r3, r4}
  Plans = {p1, p2, p3}
  Digests = {d1, d2}
  PlanRuns <- MCPlanRuns
  DigestOf <- MCDigestOf
SPECIFICATION StoreSpec
INVARIANTS
  StoreTypeOK
  OutcomeMatchesStatus
  RowsKeepPlanOrder
PROPERTIES
  SucceededIsFinal
  DeletedStaysDeleted
  OneBatchPerApproval
