---------------------------- MODULE MCRunSummary ----------------------------
(* Series and treatments are interchangeable.                               *)
EXTENDS RunSummary, TLC

MCSymmetry == Permutations(Series) \union Permutations(Treatments)
=============================================================================
