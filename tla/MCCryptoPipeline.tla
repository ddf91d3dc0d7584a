---- MODULE MCCryptoPipeline ----
(***************************************************************************)
(* An instance of CryptoPipeline.  The clock counts half hours; a candle   *)
(* is an hour.  Two scans of one process see two markets that are not      *)
(* crypto ones, one market the pipeline can price and one from a source it *)
(* does not read; what they may buy changes when the candle does.          *)
(***************************************************************************)
EXTENDS CryptoPipeline

CONSTANTS p1, p2

MCDiscovered == <<"election", "btc", "xrp", "merger">>

Plain == [public |-> TRUE, metadata |-> TRUE, expiry |-> 4,
          comparison |-> "above", inclusive |-> FALSE, reference |-> 1000, increment |-> 1,
          outcomes |-> <<"YES", "NO">>, minimum |-> 2, active |-> TRUE, closed |-> FALSE,
          liquidity |-> 100]

MCMarketOf == [election |-> Plain, merger |-> Plain, btc |-> Plain,
               xrp |-> [Plain EXCEPT !.public = FALSE]]

MCCloses == [k \in -2..2 |-> IF k <= 0 THEN 1000 ELSE 990]

(* The text of the market on btc is edited to and fro.                     *)
MCListings == {{"election", "merger"}, {"election", "merger", "btc"}}

(* Seven of eight paths end above the reference, then one in four.         *)
MCPaths ==
    [k \in 0..2 |->
       IF k = 0 THEN [bootstrap |-> <<101, 103, 99, 105>>, gauss |-> <<101, 102, 104, 103>>]
                ELSE [bootstrap |-> <<98, 99, 103, 97>>, gauss |-> <<96, 99, 100, 104>>]]

Book(asks, bids) == [asks |-> asks, bids |-> bids, minimum |-> 2, tick |-> 100]

No == Book(<< <<6000, 4>> >>, << <<5800, 4>> >>)

(* A book that fills the order from two levels, one too thin for it, and   *)
(* one that is crossed.                                                    *)
MCBookPairs ==
    {[YES |-> Book(<< <<4000, 1>>, <<4200, 1>> >>, << <<3900, 3>> >>), NO |-> No],
     [YES |-> Book(<< <<3000, 1>> >>, << <<2900, 3>> >>), NO |-> No],
     [YES |-> Book(<< <<4000, 4>> >>, << <<4100, 3>> >>), NO |-> No]}

Symmetry == Permutations(Scanners)
====
