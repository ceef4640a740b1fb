---------------------------- MODULE MCUmaClient -----------------------------
EXTENDS UmaClient, TLC

CONSTANTS c1, c2, k1, k2

Symmetry == Permutations({c1, c2}) \cup Permutations({k1, k2})

=============================================================================
