---- MODULE WeatherModel ----
(***************************************************************************)
(* What a weather scan computes (services/probability.py, signals.py and   *)
(* model_weights.py).  Probabilities and prices are whole parts of One,    *)
(* weights whole parts of Unit.  A forecast is a function from the models  *)
(* that answered to the daily maxima of their members, where Missing is a  *)
(* member with no point on the market's day.                               *)
(***************************************************************************)
EXTENDS Temperatures, FiniteSets, Functions

CONSTANTS Models,      \* settings.forecast_models
          Buckets,     \* Buckets[label]: its bounds
          Rounding,    \* the rounding method of the events
          Missing,
          One, Unit,
          MinSamples,
          MinGain,     \* min_improvement, in parts of One
          Policy       \* SignalPolicy and the sum of EdgeBuffers

ASSUME WeatherModelAssumption ==
    /\ One \in Nat \ {0} /\ Unit \in Nat \ {0}
    /\ MinSamples \in Nat \ {0} /\ MinGain \in 0..One
    /\ Missing \notin Int
    /\ IsFiniteSet(Models) /\ IsFiniteSet(DOMAIN Buckets)

Product(f, S) == FoldFunctionOnSet(LAMBDA a, b : a * b, 1, f, S)

-----------------------------------------------------------------------------
(* calculate_probabilities                                                 *)

Valid(fs, m) == {i \in DOMAIN fs[m] : fs[m][i] # Missing}

ValidModels(fs) == {m \in DOMAIN fs : Valid(fs, m) # {}}

Hits(fs, m, label) ==
    {i \in Valid(fs, m) :
        InBucket(Buckets[label], RoundTemperature(fs[m][i], Rounding))}

(* A model without a stored weight counts fully.                           *)
Weight(weights, m) == IF m \in DOMAIN weights THEN weights[m] ELSE Unit

(* No model that answered has a weight: the code raises ValueError.        *)
NoWeight(fs, weights) ==
    ValidModels(fs) # {} /\ \A m \in ValidModels(fs) : Weight(weights, m) = 0

(* The weight of a model is divided among its valid members; the common    *)
(* denominator is the product of their numbers.                            *)
Share(fs, weights, label) ==
    LET sizes == [m \in DOMAIN fs |-> Cardinality(Valid(fs, m))] IN
    SumFunction([m \in ValidModels(fs) |->
                    Weight(weights, m) * Cardinality(Hits(fs, m, label))
                        * Product(sizes, ValidModels(fs) \ {m})])

Probability(fs, weights, label) ==
    LET total == SumFunction([l \in DOMAIN Buckets |-> Share(fs, weights, l)])
    IN  IF total = 0 THEN 0 ELSE (One * Share(fs, weights, label)) \div total

MemberCount(fs) ==
    SumFunction([m \in ValidModels(fs) |->
                    Cardinality(UNION {Hits(fs, m, l) : l \in DOMAIN Buckets})])

-----------------------------------------------------------------------------
(* calculate_usable_edge and evaluate_signal: a candidate without reasons  *)
(* becomes a signal.                                                       *)

UsableEdge(c) == c.probability - c.ask - Policy.buffers

Reasons(c) ==
    {r \in {"market_inactive", "market_closed", "rule_confidence_below_minimum",
            "executable_ask_missing", "spread_above_maximum", "liquidity_below_minimum",
            "minimum_order_exceeds_balance", "insufficient_ensemble_members",
            "observations_stale", "usable_edge_below_minimum"} :
        CASE r = "market_inactive" -> ~c.active
          [] r = "market_closed" -> c.closes <= c.at
          [] r = "rule_confidence_below_minimum" -> c.confidence < Policy.minConfidence
          [] r = "executable_ask_missing" -> c.ask = Missing
          [] r = "spread_above_maximum" -> c.ask = Missing \/ c.spread > Policy.maxSpread
          [] r = "liquidity_below_minimum" -> c.liquidity < Policy.minLiquidity
          [] r = "minimum_order_exceeds_balance" ->
                c.ask = Missing \/ c.minimum * c.ask > c.balance
          [] r = "insufficient_ensemble_members" -> c.members < Policy.minMembers
          [] r = "observations_stale" -> c.window /\ ~c.blended
          [] r = "usable_edge_below_minimum" ->
                c.ask = Missing \/ UsableEdge(c) < Policy.minEdge}

-----------------------------------------------------------------------------
(* model_brier and compute_weights, over samples[m], the sequence of what  *)
(* m forecast for settled signals and whether they won.                    *)

Penalty(s) == IF s.won THEN (One - s.probability) * (One - s.probability)
              ELSE s.probability * s.probability

(* model_brier times the number of samples.                                *)
Penalties(samples, m) ==
    SumFunction([i \in DOMAIN samples[m] |-> Penalty(samples[m][i])])

TooFew(samples) == samples = << >> \/ \E m \in DOMAIN samples : Len(samples[m]) < MinSamples

(* One over the Brier score of m, times a factor common to every model.    *)
InverseBrier(samples, m) ==
    Len(samples[m]) * Product(
        [k \in DOMAIN samples |-> Penalties(samples, k)], DOMAIN samples \ {m})

(* Weighting by inverse scores turns their arithmetic mean into their      *)
(* harmonic mean; it must gain min_improvement of the former.              *)
Improves(samples) ==
    LET models == DOMAIN samples
        sizes == Product([m \in models |-> Len(samples[m])], models)
        scores == Product([m \in models |-> Penalties(samples, m)], models)
        mean == SumFunction([m \in models |-> Penalties(samples, m) *
                    Product([k \in models |-> Len(samples[k])], models \ {m})])
        inverses == SumFunction([m \in models |-> InverseBrier(samples, m)])
        n == Cardinality(models)
    IN  mean * (One - MinGain) * inverses >= One * n * n * sizes * scores

(* Faulty: the inverse scores are promoted without being normalised.       *)
InverseWeights(samples) == [m \in DOMAIN samples |-> Unit + InverseBrier(samples, m)]

(* The weights to promote, or Missing.                                     *)
ComputeWeights(samples) ==
    LET perfect == {m \in DOMAIN samples : Penalties(samples, m) = 0}
        total == SumFunction([m \in DOMAIN samples |-> InverseBrier(samples, m)])
    IN  IF TooFew(samples) THEN Missing
        ELSE IF perfect # {}
             THEN [m \in DOMAIN samples |-> IF m = CHOOSE k \in perfect : TRUE THEN Unit ELSE 0]
        ELSE IF ~Improves(samples) THEN Missing
        ELSE [m \in DOMAIN samples |-> (Unit * InverseBrier(samples, m)) \div total]
====
