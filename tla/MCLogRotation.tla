---------------------------- MODULE MCLogRotation ----------------------------
EXTENDS LogRotation, TLC

CONSTANTS w1, w2, w3

MCSymmetry == Permutations(Writers)

=============================================================================
