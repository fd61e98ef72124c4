---------------------------- MODULE MCQueueWorker ----------------------------
(* One batch of two runs for QueueWorker; the workers and the faults are    *)
(* chosen in each cfg.                                                      *)
EXTENDS QueueWorker, TLC

CONSTANTS r1, r2, batch, digest, cli, web

MCPlanRuns == batch :> <<r1, r2>>
MCDigestOf == batch :> digest
=============================================================================
