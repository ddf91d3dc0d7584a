---- MODULE WeatherDay ----
(***************************************************************************)
(* The observations of a market's local day (services/observations.py,     *)
(* settlement.py and paper.py): how a scan blends them into a forecast and *)
(* what outcome they settle.  A contract's local day is from its start up  *)
(* to its end, in hours; rows[h] holds the temperatures stored for hour h, *)
(* more than one where the hour was stored twice.                          *)
(***************************************************************************)
EXTENDS Temperatures, FiniteSets, SequencesExt

CONSTANTS MinRows,  \* observations a settlement needs
          EdgeGap,  \* hours the first and the last may be inside the day
          MaxGap    \* hours between two of them

ASSUME WeatherDayAssumption == MinRows \in Nat \ {0} /\ EdgeGap \in Nat /\ MaxGap \in Nat

(* load_day_observations, and the fetcher's selection of a day.            *)
DayHours(rows, c) == {h \in c.start..c.end - 1 : rows[h] # << >>}

Latest(hours) == CHOOSE h \in hours : \A g \in hours : g <= h
Earliest(hours) == CHOOSE h \in hours : \A g \in hours : h <= g
(* Faulty: the minimum of the day.                                         *)
Coldest(rows, hours) == Earliest(UNION {ToSet(rows[h]) : h \in hours})

Warmest(rows, hours) == Latest(UNION {ToSet(rows[h]) : h \in hours})

(* latest_observed of apply_observations_to_points: the last observation   *)
(* known at now and no later than an hour after the point.                 *)
LatestObserved(rows, c, point, now) ==
    LET past == {h \in DayHours(rows, c) : h <= now /\ h <= point + 1}
    IN  IF past = {} THEN {} ELSE {Head(rows[Latest(past)])}

(* What the blend puts in place of the forecast points of the past.        *)
BlendedPast(rows, c, now) ==
    UNION {LatestObserved(rows, c, p, now) : p \in {q \in c.start..c.end - 1 : q <= now}}

(* _weather: the evidence is rounded in Celsius whatever the market's unit.*)
EvidenceDegrees(rows, c) == RoundTemperature(Warmest(rows, DayHours(rows, c)), c.method)

InUnit(v, c) == IF c.fahrenheit THEN Fahrenheit(v) ELSE v

(* Enough observations, from end to end of the day, each hour once.        *)
Covered(rows, c) ==
    LET hours == DayHours(rows, c) IN
    /\ \A h \in hours : Len(rows[h]) = 1
    /\ Cardinality(hours) >= MinRows
    /\ Earliest(hours) - c.start <= EdgeGap
    /\ c.end - Latest(hours) <= EdgeGap
    /\ \A h \in hours : h = Latest(hours) \/ \E g \in hours : h < g /\ g - h <= MaxGap

(* _derive_weather_settlement_outcome of rows captured in the evidence,    *)
(* which said degrees; None when it is refused.                            *)
WeatherOutcome(rows, c, degrees) ==
    LET maximum == RoundTemperature(InUnit(Warmest(rows, DayHours(rows, c)), c), c.method)
        bucket == BucketOf(c.buckets, maximum)
    IN  IF ~Covered(rows, c) \/ bucket = None \/ maximum # degrees
           \/ bucket # BucketOf(c.buckets, degrees)
        THEN None
        ELSE IF bucket = c.bucket THEN "YES" ELSE "NO"
====
