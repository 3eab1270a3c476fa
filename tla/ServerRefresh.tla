--------------------------- MODULE ServerRefresh ---------------------------
(***************************************************************************)
(* The background refresh as cmd/server/main.go wires it: the keys are the *)
(* Kraken symbols GetLTP caches prices under, and refreshFunc hands the    *)
(* key to GetLTP, which takes it for a pair a user typed.                  *)
(***************************************************************************)
EXTENDS BackgroundRefresh, Pairs

\* The pairs handleLTP asks for when a client names none.
DefaultPairs == {<<"BTC", "USD">>, <<"BTC", "CHF">>, <<"BTC", "EUR">>}

CachedKeys == {ToKrakenSymbol(p) : p \in DefaultPairs}

\* refreshFunc gets a quote only for a key that is a well formed pair; a symbol
\* has no slash, so it is a single piece.
refreshFunc(key) == NormalizeUserPair(<<key>>) # Invalid

RefreshableKeys == {key \in CachedKeys : refreshFunc(key)}

=============================================================================
