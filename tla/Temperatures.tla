---- MODULE Temperatures ----
(***************************************************************************)
(* Rounding a temperature and finding its bucket (services/probability.py, *)
(* schemas.py, services/rules.py), shared by the forecast and by the       *)
(* settlement of a weather market.  Temperatures are hundredths of a       *)
(* degree, which a report in tenths of a degree Celsius is in Fahrenheit   *)
(* too; the bounds of a bucket are whole degrees, None where it is open.   *)
(***************************************************************************)
EXTENDS Integers, Sequences

CONSTANT None

Methods == {"half_up", "floor", "ceiling"}

(* Decimal.quantize: a half goes away from zero.                           *)
RoundTemperature(v, method) ==
    CASE method = "floor"   -> v \div 100
      [] method = "ceiling" -> -((-v) \div 100)
      [] method = "half_up" -> IF v >= 0 THEN (v + 50) \div 100 ELSE -((50 - v) \div 100)

(* Bucket.contains; parse_bucket leaves both bounds inclusive.             *)
InBucket(b, v) == (b.low = None \/ v >= b.low) /\ (b.high = None \/ v <= b.high)

(* _validate_complete_buckets, for buckets sorted by their lower bound.    *)
CompleteBuckets(buckets) ==
    /\ buckets # << >>
    /\ buckets[1].low = None /\ buckets[Len(buckets)].high = None
    /\ \A i \in 1..Len(buckets) - 1 :
          /\ buckets[i].high # None /\ buckets[i + 1].low # None
          /\ buckets[i + 1].low = buckets[i].high + 1

(* The first bucket that contains v, or None.                              *)
BucketOf(buckets, v) ==
    LET hits == {i \in DOMAIN buckets : InBucket(buckets[i], v)}
    IN  IF hits = {} THEN None ELSE CHOOSE i \in hits : \A j \in hits : i <= j

Fahrenheit(celsius) == (celsius * 9) \div 5 + 3200
====
