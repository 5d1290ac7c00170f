--------------------------- MODULE MC_SentMessages ---------------------------
EXTENDS SentMessagesRefinement, TLC

CONSTANTS p1, p2

Symmetry == Permutations(PktNos)
=============================================================================
