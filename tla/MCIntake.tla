------------------------------ MODULE MCIntake ------------------------------
(* Two batches over a plain condition and one with an overlay and a plugin. *)
EXTENDS Intake, TLC

CONSTANTS a, b

MCDeclared ==
    <<[id |-> "base", repeat |-> 1, overlay |-> FALSE, plugin |-> FALSE],
      [id |-> "skill", repeat |-> 1, overlay |-> TRUE, plugin |-> TRUE]>>

MCSymmetry == Permutations(Batches)
=============================================================================
