---- MODULE MCSettlement ----
(* Small instances of Settlement for TLC.                                  *)
EXTENDS Settlement, TLC

CONSTANTS oslo, boston, btc, eth

(* Boston's market is in Fahrenheit and eth's ends within a candle: each   *)
(* is refused on every run and stands before one that is not.              *)
MCPortfolios == {<<boston, oslo>>, <<eth, btc>>}

(* Up to nine degrees and from ten; above the reference of 20 cents.       *)
Day == [domain |-> "weather", expiry |-> 2, start |-> 0, end |-> 2, method |-> "half_up",
        buckets |-> <<[low |-> None, high |-> 9], [low |-> 10, high |-> None]>>,
        bucket |-> 2, fahrenheit |-> FALSE]
Above == [domain |-> "crypto", expiry |-> 4, comparison |-> "above", inclusive |-> TRUE,
          reference |-> 20, increment |-> 10]

MCContractOf ==
    oslo :> Day @@ boston :> [Day EXCEPT !.fahrenheit = TRUE]
    @@ btc :> Above @@ eth :> [Above EXCEPT !.expiry = 3]

MCPrices == {14, 15}
MCMoves == {1, 3}
(* The reading of hour one is corrected from ten degrees to nine.          *)
MCReadings == (0 :> {800}) @@ (1 :> {900, 1000})
MCLate == {1}

Range10 == {10 * t : t \in -20..20}

(* Buckets that pass the rule check have each rounded temperature in       *)
(* exactly one of them.                                                    *)
Bounds == [low : -1..2 \cup {None}, high : -1..2 \cup {None}]
ASSUME BucketsPartition ==
    \A n \in 1..3 : \A buckets \in [1..n -> Bounds] :
        CompleteBuckets(buckets) /\ (\A i \in 1..n : buckets[i].low = None \/ buckets[i].high = None
                                        \/ buckets[i].low <= buckets[i].high) =>
            \A t \in Range10 : \E i \in 1..n : \A j \in 1..n :
                InBucket(buckets[j], RoundTemperature(t, "half_up")) = (i = j)

(* The model prices the event that the settlement decides.                 *)
ASSUME EventsAgree ==
    \A comparison \in {"above", "below", "up", "down"}, inclusive \in BOOLEAN,
       increment \in {1, 10, 100}, reference \in 0..30, amount \in 1..60 :
        LET c == [comparison |-> comparison, inclusive |-> inclusive, reference |-> reference,
                  increment |-> increment]
        IN  ResolvedYes(c, amount) = EventHit(c, amount)
====
