--------------------------- MODULE MCMemoryCache ---------------------------
\* Small instances of MemoryCache for TLC.
EXTENDS MemoryCache, TLC

CONSTANTS k1, k2, k3, k4, c1, c2, v1

\* Keys are alike and clients are alike.
Symmetry == Permutations(Keys) \cup Permutations(Clients)

=============================================================================
