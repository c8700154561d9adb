------------------------- MODULE MCRefreshExchange -------------------------
EXTENDS RefreshExchange, TLC

\* Tokens are interchangeable, and so are requests.
Symmetry == Permutations(Token) \cup Permutations(Request)

=============================================================================
