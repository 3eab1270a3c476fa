--------------------------- MODULE MCFallbackCache ---------------------------
\* Small instances of FallbackCache for TLC.
EXTENDS FallbackCache, TLC

CONSTANTS k1, k2, c1, c2

\* Keys are alike and clients are alike.
Symmetry == Permutations(Keys) \cup Permutations(Clients)

=============================================================================
