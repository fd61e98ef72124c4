---------------------------- MODULE MCBenchTick ----------------------------
(* Three conditions, of which some are broken at first.                     *)
EXTENDS BenchTick

CONSTANTS first, base, skill, small, large

MCDeclared == <<first, base, skill>>
MCPresets == <<small, large>>
\* At most one is broken, in any way.
MCHealths ==
    {[c \in {first, base, skill} |-> IF c = broken THEN k ELSE "sound"] :
        broken \in {first, base, skill}, k \in Kinds}

\* One or two are broken, so that the third gets its turn.
MCTwoBroken ==
    {[c \in {first, base, skill} |->
        IF c = one THEN k ELSE IF c = other THEN "absent" ELSE "sound"] :
        one, other \in {first, base, skill}, k \in {"absent", "dying", "slow"}}

\* Either.
MCBroken == MCHealths \cup MCTwoBroken

\* The first of them ends its runs without a sample.
MCSpoiled ==
    {[c \in {first, base, skill} |-> IF c = first THEN "spoiled" ELSE "sound"]}

MCSound == {[c \in {first, base, skill} |-> "sound"]}
=============================================================================
