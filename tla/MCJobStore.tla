----------------------------- MODULE MCJobStore -----------------------------
(* Three batches for JobStore: one of two runs, and two of one run each     *)
(* that were estimated from the same inputs and so share their digest.      *)
EXTENDS JobStore, TLC

CONSTANTS r1, r2, r3, r4, p1, p2, p3, d1, d2

MCPlanRuns == (p1 :> <<r1, r2>>) @@ (p2 :> <<r3>>) @@ (p3 :> <<r4>>)
MCDigestOf == (p1 :> d1) @@ (p2 :> d2) @@ (p3 :> d2)
=============================================================================
