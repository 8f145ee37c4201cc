------------------------------ MODULE MCFactors ------------------------------
EXTENDS Factors, TLC

\* Nothing, one factor, the same factor twice, two distinct factors.
MCProofs == UNION {[1 .. n -> {"Passcode", "Voice"}] : n \in 0 .. 2}
MCSymmetry == Permutations(Digits)
=============================================================================
