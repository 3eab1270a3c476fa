--------------------------- MODULE MCKrakenClient ---------------------------
\* A small instance of KrakenClient for TLC: the constants are in the cfg.
EXTENDS KrakenClient

=============================================================================
