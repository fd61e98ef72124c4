---------------------------- MODULE MCPublication ----------------------------
(* One batch for Publication: of one run that is retried, or of two runs.    *)
EXTENDS Publication, TLC

CONSTANTS r1, r2, batch, digest

MCPlanRuns == batch :> <<r1, r2>>
MCPlanOfOne == batch :> <<r1>>
MCDigestOf == batch :> digest
=============================================================================
