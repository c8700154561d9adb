--------------------------- MODULE MCRefreshStore ---------------------------
EXTENDS RefreshStoreRefinement, TLC

\* Token values are interchangeable.
Symmetry == Permutations(Token)

=============================================================================
