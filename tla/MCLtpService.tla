---------------------------- MODULE MCLtpService ----------------------------
\* Small instances of LtpService for TLC.
EXTENDS LtpService

CONSTANTS r1, r2

\* Two pairs that have one symbol, and two that are refused.
SameSymbol == {<<"BTC", "USD">>, <<"XXBT", "USD">>, <<"BTC">>, <<"BTC", "">>}

\* Two pairs with a symbol each.
TwoSymbols == {<<"BTC", "USD">>, <<"BTC", "CHF">>}

=============================================================================
