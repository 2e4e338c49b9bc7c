----------------------------- MODULE MCRdeTable -----------------------------
EXTENDS RdeTable, TLC

\* PDs and spaces are only compared, never ordered.
Symmetry == Permutations(PDs) \cup Permutations(Spaces)
=============================================================================
