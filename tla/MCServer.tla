------------------------------ MODULE MCServer ------------------------------
\* A small instance of Server for TLC.
EXTENDS Server

CONSTANTS r1, k1, w1

=============================================================================
