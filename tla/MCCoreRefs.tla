----------------------------- MODULE MCCoreRefs -----------------------------
EXTENDS CoreRefs

CONSTANTS p1, p2, m1, m2, a1, a2, c1, c2, e1, v1
=============================================================================
