--------------------------- MODULE MCRateLimiter ---------------------------
\* A small instance of RateLimiter for TLC.
EXTENDS RateLimiter

CONSTANTS i1, r1, r2

=============================================================================
