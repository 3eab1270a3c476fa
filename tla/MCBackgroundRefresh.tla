------------------------ MODULE MCBackgroundRefresh ------------------------
\* A small instance of BackgroundRefresh for TLC.
EXTENDS BackgroundRefresh

CONSTANTS k1, k2, w1, w2, s1, s2

=============================================================================
