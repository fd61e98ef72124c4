CONSTANTS
  r1 = r1
  r2 = r2
  batch = batch
  digest = digest
  cli = cli
  web = web
  Runs = {r1, r2}
  Plans = {batch}
  Digests = {digest}
  PlanRuns <- MCPlanRuns
  DigestOf <- MCDigestOf
  NoRun = NoRun
  NoWorker = NoWorker
  Workers = {cli, web}
  Once = {cli}
  Drain = {}
  Served = {web}
  Faults = {"launch", "evaluate", "publish", "kill"}
SPECIFICATION Spec
INVARIANTS
  TypeOK
  RunningIsOwned
  FinishAccepted
  AcceptedStopKept
  ShutdownReachesRun
PROPERTIES
  CancelledWasAsked
  OnceReportsRow
