---- MODULE CryptoSignal ----
(***************************************************************************)
(* What the crypto pipeline computes for one market: the probability of    *)
(* its event (services/crypto_probability.py), the side to buy and the     *)
(* reasons not to (services/crypto_pipeline.py).  Probabilities, prices    *)
(* and edges are hundredths of a percent.  A book holds price levels       *)
(* <<price, size>>, best first.                                            *)
(***************************************************************************)
EXTENDS CryptoCandles, SequencesExt

CONSTANTS Closes,      \* closing price of each candle
          Paths,       \* relative final prices, in percent, that the seeded
                       \* generators draw for the series ending at a candle
          MaxHorizon,
          Costs,       \* estimated fee, slippage and rule risk together
          Uncertainty, MinEdge, MaxSpread, MinLiquidity,
          BookFreshness  \* two polls

One == 10000

Lesser(a, b) == IF a < b THEN a ELSE b
Distance(a, b) == IF a < b THEN b - a ELSE a - b

(* The series ends at time zero, or at a later candle there are paths for. *)
ASSUME SignalAssumption ==
    /\ DOMAIN Closes \subseteq Int /\ IsFiniteSet(DOMAIN Closes) /\ 0 \in DOMAIN Closes
    /\ \A k \in DOMAIN Closes : Closes[k] \in Nat \ {0} /\ (k >= 0 => k \in DOMAIN Paths)
    /\ \A k \in DOMAIN Paths : \A g \in {"bootstrap", "gauss"} :
          Paths[k][g] \in Seq(Nat) \ {<< >>}
    /\ Costs \in Nat /\ Uncertainty \in Nat /\ MinEdge \in Nat /\ BookFreshness \in Nat

(* _horizon: whole candles from the last complete one to the expiry.       *)
HorizonSupported(c, latest) ==
    LET left == c.expiry - latest * Interval IN
    left > 0 /\ left % Interval = 0 /\ left \div Interval <= MaxHorizon

-----------------------------------------------------------------------------
(* estimate_crypto_probability                                             *)

Fraction(c, latest, paths) ==
    LET hits == {i \in DOMAIN paths : EventHit(c, (Closes[latest] * paths[i]) \div 100)}
    IN  (Cardinality(hits) * One) \div Len(paths)

Estimate(c, latest) ==
    LET b == Fraction(c, latest, Paths[latest].bootstrap)
        g == Fraction(c, latest, Paths[latest].gauss)
    IN  [probability |-> (b + g) \div 2, disagreement |-> Distance(b, g)]

-----------------------------------------------------------------------------
(* Order books                                                             *)

Depth(book) == FoldLeft(LAMBDA sum, level : sum + level[2], 0, book.asks)
Spread(book) == book.asks[1][1] - book.bids[1][1]

Descending(levels) == \A i \in 1..Len(levels) - 1 : levels[i][1] >= levels[i + 1][1]

(* _validate_order_book, for the values parse_order_book derives from the  *)
(* levels: the best prices, the spread, the midpoint and the depth.        *)
ValidBook(book) ==
    /\ book.asks # << >> /\ book.bids # << >>
    /\ Head(book.bids)[1] \in 0..One /\ Head(book.asks)[1] \in 0..One
    /\ Spread(book) >= 0
    /\ book.minimum > 0 /\ book.tick > 0
    /\ Descending(book.bids) /\ Descending(Reverse(book.asks))
    /\ \A level \in ToSet(book.asks) \cup ToSet(book.bids) : level[1] % book.tick = 0

(* _match_books: one valid book for each of the two tokens.                *)
Matched(c, books) ==
    /\ DOMAIN books = {"YES", "NO"}
    /\ \A side \in {"YES", "NO"} :
          ValidBook(books[side]) /\ books[side].minimum = c.minimum

(* The cost of what the book offers of a size, from the best ask on.       *)
Fill(acc, level) ==
    LET filled == Lesser(acc.left, level[2])
    IN  [left |-> acc.left - filled, cost |-> acc.cost + filled * level[1]]

PartialCost(book, size) == FoldLeft(Fill, [left |-> size, cost |-> 0], book.asks).cost

(* _execution_vwap times the size, or Refused.                             *)
ExecutionCost(book, size) ==
    IF Depth(book) < size THEN Refused ELSE PartialCost(book, size)

-----------------------------------------------------------------------------
(* Candidates.  An edge is that of the whole minimum order: what the code  *)
(* divides by the size is compared without rounding.                       *)

Buffers(estimate, book) ==
    LET thin == IF Depth(book) = 0 THEN One
                ELSE Lesser(One, (book.minimum * book.tick) \div Depth(book))
    IN  Costs + Lesser(One, Uncertainty + estimate.disagreement \div 2) + thin

Chance(side, estimate) ==
    IF side = "YES" THEN estimate.probability ELSE One - estimate.probability

SideCandidate(c, estimate, books, side) ==
    LET book == books[side]
        cost == ExecutionCost(book, c.minimum)
        asked == IF cost = Refused THEN c.minimum * book.asks[1][1] ELSE cost
        raw == c.minimum * Chance(side, estimate) - asked
    IN  [side |-> side, executable |-> cost # Refused, raw |-> raw,
         usable |-> IF cost = Refused THEN Refused
                    ELSE raw - c.minimum * Buffers(estimate, book)]

Rank(candidate) == IF candidate.usable = Refused THEN candidate.raw ELSE candidate.usable

(* The first of the best, in the order of the market's outcomes.           *)
Chosen(c, estimate, books) ==
    LET of(i) == SideCandidate(c, estimate, books, c.outcomes[i])
        best == CHOOSE i \in 1..2 : \A j \in 1..2 :
                   Rank(of(i)) > Rank(of(j)) \/ (Rank(of(i)) = Rank(of(j)) /\ i <= j)
    IN  of(best)

(* _signal_reasons, as a set, of books that bear one time.                 *)
SignalReasons(c, books, time, chosen, now) ==
    LET shown == {books[side] : side \in DOMAIN books} IN
    UNION {IF c.active THEN {} ELSE {"market_inactive"},
           IF ~c.closed /\ c.expiry > now THEN {} ELSE {"market_closed"},
           IF c.liquidity < MinLiquidity THEN {"liquidity_below_minimum"} ELSE {},
           IF \E b \in shown : Spread(b) > MaxSpread THEN {"spread_above_maximum"} ELSE {},
           IF ~chosen.executable \/ \E b \in shown : Depth(b) < b.minimum
           THEN {"insufficient_executable_depth"} ELSE {},
           IF time > now THEN {"order_book_clock_skew"} ELSE {},
           IF now - time > BookFreshness THEN {"order_book_stale"} ELSE {},
           IF chosen.usable = Refused THEN {"usable_edge_below_minimum"}
           ELSE IF chosen.usable < c.minimum * MinEdge THEN {"usable_edge_below_minimum"} ELSE {}}
====
