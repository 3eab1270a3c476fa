-------------------------- MODULE MCServerRefresh --------------------------
\* An instance of ServerRefresh for TLC.
EXTENDS ServerRefresh

CONSTANTS w1, s1

=============================================================================
