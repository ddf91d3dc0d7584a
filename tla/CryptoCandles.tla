---- MODULE CryptoCandles ----
(***************************************************************************)
(* Candles and the contracts they decide (services/crypto_data.py,         *)
(* crypto_probability.py and paper.py).  Candle k is the interval that     *)
(* ends at k * Interval; a response is a function from candles to closing  *)
(* prices, the last of which may still be open.  Prices are positive       *)
(* multiples of the smallest unit a source quotes.                         *)
(***************************************************************************)
EXTENDS Integers, FiniteSets

CONSTANTS Interval,    \* length of a candle
          MinHistory,  \* complete candles a series needs
          Freshness,   \* age its last complete candle may have
          Refused

ASSUME CandlesAssumption ==
    /\ Interval \in Nat \ {0} /\ MinHistory \in Nat \ {0} /\ Freshness \in Nat
    /\ Refused \notin Nat

(* The candle that contains now is not complete.                           *)
Complete(response, now) == {k \in DOMAIN response : k * Interval <= now}

LastOf(candles) == CHOOSE k \in candles : \A j \in candles : j <= k

(* normalize_candles of a response without gaps, duplicates or misplaced   *)
(* candles, which it refuses too.                                          *)
Normalized(response, now) ==
    LET complete == Complete(response, now) IN
    /\ \A k \in DOMAIN response : (k - 1) * Interval <= now
    /\ Cardinality(complete) >= MinHistory
    /\ now - LastOf(complete) * Interval <= Freshness

(* normalize_crypto_settlement_payload: the raw response, with its open    *)
(* candle, is searched for the one that ends at the expiry.                *)
ClosingPrice(response, expiry) ==
    LET matches == {k \in DOMAIN response : k * Interval = expiry}
    IN  IF matches = {} THEN Refused ELSE response[CHOOSE k \in matches : TRUE]

-----------------------------------------------------------------------------
(* What a closing price decides                                            *)

(* A contract's increment is a whole number of units, up to a dollar.      *)
HalfUp(price, increment) == ((2 * price + increment) \div (2 * increment)) * increment

(* _event_probability, for the final price of one path.                    *)
EventHit(c, price) ==
    LET final == HalfUp(price, c.increment) IN
    IF c.comparison \in {"above", "up"}
    THEN final > c.reference \/ (c.inclusive /\ final = c.reference)
    ELSE final < c.reference \/ (c.inclusive /\ final = c.reference)

(* _derive_settlement_outcome: half up to a multiple of the increment,     *)
(* then the comparison.                                                    *)
ResolvedYes(c, price) ==
    LET steps == price \div c.increment
        rest == price % c.increment
        rounded == (IF 2 * rest >= c.increment THEN steps + 1 ELSE steps) * c.increment
    IN  CASE c.comparison \in {"above", "up"} /\ c.inclusive    -> rounded >= c.reference
          [] c.comparison \in {"above", "up"} /\ ~c.inclusive   -> rounded > c.reference
          [] c.comparison \in {"below", "down"} /\ c.inclusive  -> rounded <= c.reference
          [] c.comparison \in {"below", "down"} /\ ~c.inclusive -> rounded < c.reference
====
