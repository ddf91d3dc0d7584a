---- MODULE MCWeatherScan ----
(* Small instances of WeatherScan for TLC.                                 *)
EXTENDS WeatherScan, TLC

CONSTANTS warm, cold, gfs, ecmwf

(* Below and from ten degrees.                                             *)
MCBuckets == cold :> [low |-> None, high |-> 9] @@ warm :> [low |-> 10, high |-> None]

MCPolicy == [buffers |-> 1, minConfidence |-> 90, maxSpread |-> 2, minLiquidity |-> 5,
             minMembers |-> 3, minEdge |-> 0]

Market(bucket) ==
    [bucket |-> bucket, active |-> TRUE, closes |-> 2, spread |-> 1, liquidity |-> 5,
     minimum |-> 5]

MCMarketOf == "m1" :> Market(warm) @@ "m2" :> Market(cold) @@ "m3" :> Market(cold)

MCEventOf ==
    "rain" :> [route |-> "other", markets |-> << >>, wellFormed |-> TRUE,
               confidence |-> 0, ends |-> 2]
    @@ "oslo" :> [route |-> "accepted", markets |-> <<"m1", "m2">>, wellFormed |-> TRUE,
                  confidence |-> 95, ends |-> 2]
    @@ "rome" :> [route |-> "rejected", markets |-> <<"m3">>, wellFormed |-> TRUE,
                  confidence |-> 0, ends |-> 2]
    @@ "odd" :> [route |-> "rejected", markets |-> <<"m3">>, wellFormed |-> FALSE,
                 confidence |-> 0, ends |-> 2]

MCDiscovered == <<"rome", "rain", "oslo">>
MCMalformed == <<"odd", "oslo">>
MCAsks == {4}
(* Nine and a half degrees round up into the warm bucket.                  *)
MCForecasts == {<<950, 900, Missing>>}
Sample(p) == [probability |-> p, won |-> TRUE]

(* The perfect model takes all the weight.                                 *)
MCSamples == {gfs :> <<Sample(10)>> @@ ecmwf :> <<Sample(5)>>}

Symmetric == Permutations(Scanners)
====
