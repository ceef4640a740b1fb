--------------------------- MODULE MCPodCreation ---------------------------
EXTENDS PodCreation, TLC

CONSTANTS c1, c2, c3, p1, w1, w2

Symmetry == Permutations({c1, c2, c3}) \cup Permutations({w1, w2})
=============================================================================
