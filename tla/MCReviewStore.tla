--------------------------- MODULE MCReviewStore ---------------------------
EXTENDS ReviewStore, TLC

Symmetry == Permutations(Procs) 
==============================================================================
