CONSTANTS
  r1 = r1
  r2 = r2
  batch = batch
  digest = digest
  cli = cli
  web = web
  Runs = {r1, r2}
  Plans = {batch}
  Digests = {digest}
  PlanRuns <- MCPlanRuns
  DigestOf <- MCDigestOf
  NoRun = NoRun
  NoWorker = NoWorker
  Workers = {web}
  Once = {}
  Drain = {}
  Served = {web}
  Faults = {"launch", "evaluate", "publish", "kill"}
SPECIFICATION FairSpec
PROPERTIES
  ShutdownEnds
  ClaimedRunEnds
  StoreSpec
