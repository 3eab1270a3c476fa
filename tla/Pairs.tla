------------------------------- MODULE Pairs -------------------------------
(***************************************************************************)
(* internal/pairs: currency pairs as users write them and as Kraken names  *)
(* them.  What a user typed is the sequence of the pieces between its      *)
(* slashes, after strings.ToUpper and TrimSpace, which only choose the     *)
(* letters of the pieces.                                                  *)
(***************************************************************************)
EXTENDS Sequences

Invalid == <<>>

NormalizeUserPair(pieces) ==
  IF Len(pieces) = 2 /\ pieces[1] # "" /\ pieces[2] # "" THEN pieces ELSE Invalid

\* Only these currencies have a name of their own; any other keeps its letters.
KrakenBase(base, quote) ==
  IF base # "BTC" THEN base ELSE IF quote = "CHF" THEN "XBT" ELSE "XXBT"

KrakenQuote(quote) ==
  IF quote = "USD" THEN "ZUSD" ELSE IF quote = "EUR" THEN "ZEUR" ELSE quote

\* The two names run together, so different pairs can have one symbol.
ToKrakenSymbol(pair) == KrakenBase(pair[1], pair[2]) \o KrakenQuote(pair[2])

=============================================================================
