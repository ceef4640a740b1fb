------------------------- MODULE MCSelfIssuedTokens -------------------------
EXTENDS SelfIssuedTokens

CONSTANTS c1, c2, k1, k2, k3, k4

DpopCalls == [f \in {c1} |-> c2]
=============================================================================
