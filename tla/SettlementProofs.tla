---- MODULE SettlementProofs ----
(***************************************************************************)
(* Proofs about Settlement, for every set of processes, positions, prices  *)
(* and readings.                                                           *)
(*                                                                         *)
(* What a settlement is based on was read earlier: the candles when a      *)
(* series was fetched, perhaps by another job, the observations when the   *)
(* evidence was put together.  The strengthening says what such a copy     *)
(* still tells of the present: the candles a series holds as complete are  *)
(* the closing prices, and the warmest observation of the evidence is no   *)
(* colder than what the blends of that time had seen.                      *)
(***************************************************************************)
EXTENDS Settlement, FoldProofs, SequenceTheorems

-----------------------------------------------------------------------------
(* The greatest and the least of finitely many numbers                     *)

LEMMA LatestIs ==
    ASSUME NEW S \in SUBSET Int, IsFiniteSet(S), S # {}
    PROVE  Latest(S) \in S /\ \A x \in S : x <= Latest(S)
  BY FiniteMax DEF Latest

LEMMA EarliestIs ==
    ASSUME NEW S \in SUBSET Int, IsFiniteSet(S), S # {}
    PROVE  Earliest(S) \in S /\ \A x \in S : Earliest(S) <= x
<1> DEFINE f == [x \in S |-> 0 - x]
           T == {f[x] : x \in S}
<1>1. ASSUME NEW x \in S PROVE x \in Int /\ f[x] \in Int /\ f[x] = 0 - x
  OBVIOUS
<1>2. IsFiniteSet(T)
  <2>1. f \in Surjection(S, T)
    BY DEF Surjection
  <2> QED
    BY <2>1, FS_Surjection
<1> HIDE DEF f
<1>3. T \in SUBSET Int /\ T # {}
  BY <1>1
<1>4. PICK m \in T : \A x \in T : x <= m
  BY <1>2, <1>3, FiniteMax
<1>5. PICK least \in S : m = f[least]
  BY <1>4
<1>6. \A x \in S : least <= x
  BY <1>1, <1>4, <1>5
<1> QED
  BY <1>5, <1>6 DEF Earliest

-----------------------------------------------------------------------------
(* Candles and prices                                                      *)

LEMMA Quotient ==
    ASSUME NEW a \in Nat, NEW b \in Nat \ {0}
    PROVE  /\ a \div b \in Nat /\ a % b \in 0..b - 1
           /\ a = b * (a \div b) + (a % b)
           /\ \A q \in Nat : b * q <= a /\ a < b * (q + 1) => a \div b = q
<1>1. a \div b \in Nat /\ a % b \in 0..b - 1
  OBVIOUS
<1>2. a = b * (a \div b) + (a % b)
  OBVIOUS
<1>3. ASSUME NEW q \in Nat, b * q <= a, a < b * (q + 1) PROVE a \div b = q
  BY <1>3
<1> QED
  BY <1>1, <1>2, <1>3

(* The candle that ends at a time, and those that have ended by then.      *)
LEMMA CandleAt ==
    ASSUME NEW k \in Nat, NEW t \in Nat
    PROVE  /\ k * Interval = t => t \div Interval = k
           /\ k * Interval <= t => k <= t \div Interval
<1>1. Interval \in Nat \ {0}
  BY CandlesAssumption
<1> QED
  BY <1>1, Quotient

(* Candles are counted as time passes.                                     *)
LEMMA NextCandle ==
    ASSUME NEW t \in Nat
    PROVE  (t + 1) \div Interval = IF (t + 1) % Interval = 0 THEN t \div Interval + 1
                                                            ELSE t \div Interval
<1> DEFINE q == t \div Interval
           r == t % Interval
<1>1. Interval \in Nat \ {0}
  BY CandlesAssumption
<1>2. /\ q \in Nat /\ r \in Nat /\ r < Interval /\ t = Interval * q + r
      /\ (t + 1) % Interval \in Nat /\ (t + 1) % Interval < Interval
      /\ (t + 1) \div Interval \in Nat
      /\ t + 1 = Interval * ((t + 1) \div Interval) + ((t + 1) % Interval)
  BY <1>1, Quotient
<1> HIDE DEF q, r
<1>3. CASE r + 1 < Interval
  <2>1. Interval * q <= t + 1 /\ t + 1 < Interval * (q + 1)
    BY <1>1, <1>2, <1>3
  <2>2. (t + 1) \div Interval = q
    <3>1. t + 1 \in Nat
      OBVIOUS
    <3> HIDE DEF q
    <3> QED
      BY <1>1, <1>2, <2>1, <3>1, Quotient
  <2>3. (t + 1) % Interval = r + 1
    BY <1>1, <1>2, <2>2
  <2> QED
    BY <1>2, <2>2, <2>3 DEF q
<1>4. CASE r + 1 = Interval
  <2>1. t + 1 = Interval * (q + 1) /\ t + 1 < Interval * (q + 2)
    BY <1>1, <1>2, <1>4
  <2>2. (t + 1) \div Interval = q + 1
    <3>1. t + 1 \in Nat /\ q + 1 \in Nat /\ (q + 1) + 1 = q + 2
      BY <1>2
    <3>2. Interval * (q + 1) <= t + 1 /\ t + 1 < Interval * ((q + 1) + 1)
      BY <2>1, <3>1
    <3> QED
      BY <1>1, <3>1, <3>2, Quotient
  <2>3. (t + 1) % Interval = 0
    BY <1>1, <1>2, <2>1, <2>2
  <2> QED
    BY <2>2, <2>3 DEF q
<1> QED
  BY <1>1, <1>2, <1>3, <1>4

(* Half up by quotient and remainder is half up by twice the price plus    *)
(* the increment.                                                          *)
LEMMA HalfUpSplit ==
    ASSUME NEW price0 \in Nat, NEW increment \in Nat \ {0}
    PROVE  (2 * price0 + increment) \div (2 * increment) =
               IF 2 * (price0 % increment) >= increment
               THEN price0 \div increment + 1 ELSE price0 \div increment
<1> DEFINE q == price0 \div increment
           r == price0 % increment
           twice == 2 * increment
<1>1. q \in Nat /\ r \in Nat /\ r < increment /\ price0 = increment * q + r
  BY Quotient
<1>2. twice \in Nat \ {0} /\ 2 * price0 + increment \in Nat
  OBVIOUS
<1>3. 2 * price0 + increment = twice * q + (2 * r + increment)
  BY <1>1
<1>4. CASE 2 * r >= increment
  <2>1. twice * (q + 1) = twice * q + twice /\ twice * (q + 2) = twice * q + 2 * twice
    <3> HIDE DEF twice, q
    <3> QED
      BY <1>1, <1>2
  <2>2. twice <= 2 * r + increment /\ 2 * r + increment < 2 * twice
    BY <1>1, <1>4
  <2>3. twice * (q + 1) <= 2 * price0 + increment /\ 2 * price0 + increment < twice * (q + 2)
    BY <1>1, <1>3, <2>1, <2>2
  <2>4. q + 1 \in Nat /\ (q + 1) + 1 = q + 2
    BY <1>1
  <2> HIDE DEF q, r, twice
  <2>5. (2 * price0 + increment) \div twice = q + 1
    BY <1>2, <2>3, <2>4, Quotient
  <2> QED
    BY <1>4, <2>5 DEF q, r, twice
<1>5. CASE 2 * r < increment
  <2>1. twice * (q + 1) = twice * q + twice
    <3> HIDE DEF twice, q
    <3> QED
      BY <1>1, <1>2
  <2>2. 0 <= 2 * r + increment /\ 2 * r + increment < twice
    BY <1>1, <1>5
  <2>3. twice * q <= 2 * price0 + increment /\ 2 * price0 + increment < twice * (q + 1)
    BY <1>1, <1>3, <2>1, <2>2
  <2> HIDE DEF q, r, twice
  <2>4. (2 * price0 + increment) \div twice = q
    BY <1>1, <1>2, <2>3, Quotient
  <2>5. ~(2 * r >= increment)
    BY <1>1, <1>5
  <2> QED
    BY <2>4, <2>5 DEF q, r, twice
<1> QED
  BY <1>1, <1>4, <1>5

(* paper.py, _derive_settlement_outcome and crypto_probability.py,         *)
(* _event_probability: whatever the comparison, reference, increment and   *)
(* price, the settlement decides the event that the model prices, though   *)
(* the one rounds the price by its remainder and the other by adding half  *)
(* an increment.                                                           *)
THEOREM PricedEventSettles ==
    ASSUME NEW c, c.comparison \in {"above", "below", "up", "down"}, c.inclusive \in BOOLEAN,
           c.reference \in Int, c.increment \in Nat \ {0}, NEW amount \in Nat
    PROVE  ResolvedYes(c, amount) = EventHit(c, amount)
<1> DEFINE final == HalfUp(amount, c.increment)
<1>1. /\ c.comparison \in {"above", "below", "up", "down"} /\ c.inclusive \in BOOLEAN
      /\ c.reference \in Int /\ c.increment \in Nat \ {0}
  OBVIOUS
<1>2. final = (IF 2 * (amount % c.increment) >= c.increment
               THEN amount \div c.increment + 1 ELSE amount \div c.increment) * c.increment
  BY <1>1, HalfUpSplit DEF HalfUp
<1>3. final \in Int
  <2>1. ASSUME NEW i \in Nat \ {0} PROVE amount \div i \in Int
    OBVIOUS
  <2>2. amount \div c.increment \in Int
    BY <1>1, <2>1
  <2> QED
    BY <1>1, <1>2, <2>2
<1>4. ResolvedYes(c, amount) =
          CASE c.comparison \in {"above", "up"} /\ c.inclusive    -> final >= c.reference
            [] c.comparison \in {"above", "up"} /\ ~c.inclusive   -> final > c.reference
            [] c.comparison \in {"below", "down"} /\ c.inclusive  -> final <= c.reference
            [] c.comparison \in {"below", "down"} /\ ~c.inclusive -> final < c.reference
  BY <1>2 DEF ResolvedYes
<1> HIDE DEF final
<1>5. EventHit(c, amount) =
          IF c.comparison \in {"above", "up"}
          THEN final > c.reference \/ (c.inclusive /\ final = c.reference)
          ELSE final < c.reference \/ (c.inclusive /\ final = c.reference)
  BY DEF EventHit, final
<1> QED
  BY <1>1, <1>3, <1>4, <1>5

(* So it is for the contract of each position.                             *)
LEMMA OutcomeIsEvent ==
    ASSUME NEW p \in DOMAIN ContractOf, ContractOf[p].domain = "crypto", NEW amount \in Nat
    PROVE  ResolvedYes(ContractOf[p], amount) = EventHit(ContractOf[p], amount)
<1>1. /\ ContractOf[p].comparison \in {"above", "below", "up", "down"}
      /\ ContractOf[p].inclusive \in BOOLEAN
      /\ ContractOf[p].reference \in Int /\ ContractOf[p].increment \in Nat \ {0}
  BY SettlementAssumption
<1> QED
  BY <1>1, PricedEventSettles

-----------------------------------------------------------------------------
(* Temperatures                                                            *)

(* A higher temperature is never rounded to a lower degree.                *)
LEMMA RoundingMonotone ==
    ASSUME NEW v \in Int, NEW w \in Int, v <= w, NEW method \in Methods
    PROVE  /\ RoundTemperature(v, method) \in Int
           /\ RoundTemperature(v, method) <= RoundTemperature(w, method)
<1>1. CASE method = "floor"
  BY <1>1 DEF RoundTemperature
<1>2. CASE method = "ceiling"
  BY <1>2 DEF RoundTemperature
<1>3. CASE method = "half_up"
  BY <1>3 DEF RoundTemperature
<1> QED
  BY <1>1, <1>2, <1>3 DEF Methods

(* What parse_bucket makes of the labels of an event.                      *)
Bounds == Int \cup {None}
Parsed(buckets) ==
    /\ buckets \in Seq([low: Bounds, high: Bounds])
    /\ \A i \in DOMAIN buckets :
          buckets[i].low = None \/ buckets[i].high = None \/ buckets[i].low <= buckets[i].high

LEMMA BucketTypes ==
    ASSUME NEW buckets, Parsed(buckets), CompleteBuckets(buckets)
    PROVE  /\ Len(buckets) \in Nat \ {0} /\ DOMAIN buckets = 1..Len(buckets)
           /\ \A i \in 1..Len(buckets) :
                 /\ i # 1 => buckets[i].low \in Int /\ buckets[i].low # None
                 /\ i # Len(buckets) => buckets[i].high \in Int /\ buckets[i].high # None
                 /\ i # 1 /\ i # Len(buckets) => buckets[i].low <= buckets[i].high
                 /\ i # Len(buckets) => buckets[i + 1].low = buckets[i].high + 1
<1> DEFINE n == Len(buckets)
<1>1. n \in Nat \ {0} /\ DOMAIN buckets = 1..n
  BY DEF Parsed, CompleteBuckets
<1>2. \A i \in 1..n - 1 : /\ buckets[i].high # None /\ buckets[i + 1].low # None
                          /\ buckets[i + 1].low = buckets[i].high + 1
  BY DEF CompleteBuckets
<1>3. ASSUME NEW i \in 1..n
      PROVE  /\ buckets[i].low \in Bounds /\ buckets[i].high \in Bounds
             /\ (buckets[i].low = None \/ buckets[i].high = None
                    \/ buckets[i].low <= buckets[i].high)
  <2> DEFINE T == [low: Bounds, high: Bounds]
  <2>1. buckets \in Seq(T) /\ i \in 1..Len(buckets)
    BY <1>3 DEF Parsed
  <2>2. buckets[i] \in T
    <3> HIDE DEF T
    <3> QED
      BY ONLY <2>1
  <2> QED
    BY <1>1, <1>3, <2>2 DEF Parsed
<1> HIDE DEF n
<1>4. ASSUME NEW i \in 1..n, i # 1
      PROVE  buckets[i].low \in Int /\ buckets[i].low # None
  <2>1. i - 1 \in 1..n - 1 /\ (i - 1) + 1 = i
    BY <1>1, <1>4
  <2>2. buckets[i].low # None
    BY <1>2, <2>1
  <2> QED
    BY <1>3, <2>2 DEF Bounds
<1>5. ASSUME NEW i \in 1..n, i # n
      PROVE  /\ buckets[i].high \in Int /\ buckets[i].high # None
             /\ buckets[i + 1].low = buckets[i].high + 1
  <2>1. i \in 1..n - 1
    BY <1>1, <1>5
  <2>2. buckets[i].high \in Bounds
    BY <1>3
  <2> QED
    BY <1>2, <2>1, <2>2 DEF Bounds
<1>6. ASSUME NEW i \in 1..n, i # 1, i # n
      PROVE  buckets[i].low <= buckets[i].high
  BY <1>3, <1>4, <1>5, <1>6
<1> QED
  BY <1>1, <1>4, <1>5, <1>6 DEF n

(* A later bucket starts above the end of an earlier one.                  *)
LEMMA BucketsApart ==
    ASSUME NEW buckets, Parsed(buckets), CompleteBuckets(buckets),
           NEW i \in DOMAIN buckets, NEW j \in DOMAIN buckets, i < j
    PROVE  /\ buckets[i].high \in Int /\ buckets[j].low \in Int
           /\ buckets[i].high < buckets[j].low
<1> DEFINE n == Len(buckets)
           Under == {k \in 1..n : i < k /\ ~(buckets[i].high < buckets[k].low)}
<1>1. /\ n \in Nat \ {0} /\ i \in 1..n /\ j \in 1..n
      /\ \A k \in 1..n :
            /\ k # 1 => buckets[k].low \in Int
            /\ k # n => buckets[k].high \in Int
            /\ k # 1 /\ k # n => buckets[k].low <= buckets[k].high
            /\ k # n => buckets[k + 1].low = buckets[k].high + 1
  BY BucketTypes
<1> HIDE DEF n
<1>2. i # n /\ j # 1
  BY <1>1
<1>3. buckets[i].high \in Int /\ buckets[j].low \in Int
  BY <1>1, <1>2
<1>4. Under = {}
  <2> SUFFICES ASSUME Under # {} PROVE FALSE
    OBVIOUS
  <2>1. PICK k \in Under : \A l \in Under : k <= l
    <3>1. IsFiniteSet(1..n) /\ 1..n \in SUBSET Int
      BY <1>1, FS_Interval
    <3>2. Under \subseteq 1..n
      OBVIOUS
    <3> HIDE DEF Under
    <3>3. IsFiniteSet(Under)
      BY <3>1, <3>2, FS_Subset
    <3>4. Under \in SUBSET Int
      BY <3>1, <3>2
    <3> QED
      BY <3>3, <3>4, EarliestIs
  <2>2. k \in 1..n /\ i < k /\ ~(buckets[i].high < buckets[k].low)
    OBVIOUS
  <2>3. k - 1 \in 1..n /\ k - 1 # n /\ (k - 1) + 1 = k
    BY <1>1, <2>2
  <2>4. buckets[k].low = buckets[k - 1].high + 1 /\ buckets[k - 1].high \in Int
    BY <1>1, <2>3
  <2>5. k - 1 # i
    BY <1>3, <2>2, <2>4
  <2>6. i < k - 1 /\ k - 1 # 1
    BY <1>1, <2>2, <2>3, <2>5
  <2>7. k - 1 \notin Under
    BY <2>1, <2>2
  <2>8. buckets[i].high < buckets[k - 1].low
    BY <2>3, <2>6, <2>7
  <2>9. buckets[k - 1].low \in Int /\ buckets[k - 1].low <= buckets[k - 1].high
    BY <1>1, <2>3, <2>6
  <2> QED
    BY <1>3, <2>2, <2>4, <2>8, <2>9
<1> QED
  BY <1>1, <1>3, <1>4

(* rules.py, _validate_complete_buckets and schemas.py, Bucket.contains:   *)
(* whatever the buckets of an event that passes the rule check, each whole *)
(* degree is in exactly one of them.                                       *)
THEOREM BucketsPartition ==
    ASSUME NEW buckets, Parsed(buckets), CompleteBuckets(buckets), NEW v \in Int
    PROVE  \E i \in DOMAIN buckets : \A j \in DOMAIN buckets : InBucket(buckets[j], v) <=> i = j
<1> DEFINE n == Len(buckets)
           From == {k \in 1..n : buckets[k].low = None \/ v >= buckets[k].low}
<1>1. /\ n \in Nat \ {0} /\ DOMAIN buckets = 1..n
      /\ \A k \in 1..n :
            /\ k # 1 => buckets[k].low \in Int /\ buckets[k].low # None
            /\ k # n => buckets[k].high \in Int /\ buckets[k].high # None
            /\ k # n => buckets[k + 1].low = buckets[k].high + 1
  BY BucketTypes
<1>2. buckets[1].low = None /\ buckets[n].high = None
  BY DEF CompleteBuckets
<1> HIDE DEF n
<1>3. PICK i \in From : \A k \in From : k <= i
  <2>1. 1 \in From
    BY <1>1, <1>2
  <2>2. IsFiniteSet(1..n) /\ 1..n \in SUBSET Int
    BY <1>1, FS_Interval
  <2>3. From \subseteq 1..n
    OBVIOUS
  <2> HIDE DEF From
  <2>4. IsFiniteSet(From)
    BY <2>2, <2>3, FS_Subset
  <2>5. From \in SUBSET Int /\ From # {}
    BY <2>1, <2>2, <2>3
  <2> QED
    BY <2>4, <2>5, FiniteMax
<1>4. i \in 1..n /\ (buckets[i].low = None \/ v >= buckets[i].low)
  OBVIOUS
<1>5. InBucket(buckets[i], v)
  <2>1. CASE i = n
    BY <1>2, <1>4, <2>1 DEF InBucket
  <2>2. CASE i # n
    <3>1. /\ i + 1 \in 1..n /\ i + 1 # 1 /\ ~(i + 1 <= i)
          /\ buckets[i + 1].low = buckets[i].high + 1 /\ buckets[i].high \in Int
      BY <1>1, <1>4, <2>2
    <3>2. i + 1 \notin From
      BY <1>3, <3>1
    <3>3. ~(v >= buckets[i + 1].low)
      BY <3>1, <3>2
    <3>4. v <= buckets[i].high
      BY <3>1, <3>3
    <3> QED
      BY <1>4, <3>4 DEF InBucket
  <2> QED
    BY <2>1, <2>2
<1>6. ASSUME NEW k \in 1..n, NEW l \in 1..n, k < l,
             InBucket(buckets[k], v), InBucket(buckets[l], v)
      PROVE  FALSE
  <2>1. /\ buckets[k].high \in Int /\ buckets[l].low \in Int
        /\ buckets[k].high < buckets[l].low
    BY <1>1, <1>6, BucketsApart
  <2>2. k # n /\ l # 1
    BY <1>1, <1>6
  <2>3. buckets[k].high # None /\ buckets[l].low # None
    BY <1>1, <2>2
  <2> QED
    BY <1>6, <2>1, <2>3 DEF InBucket
<1>7. ASSUME NEW j \in 1..n, InBucket(buckets[j], v) PROVE i = j
  BY <1>1, <1>4, <1>5, <1>6, <1>7
<1> QED
  BY <1>1, <1>4, <1>5, <1>7

(* services/probability.py: the bucket a temperature is counted in.        *)
THEOREM BucketIsFound ==
    ASSUME NEW buckets, Parsed(buckets), CompleteBuckets(buckets), NEW v \in Int, None \notin Nat
    PROVE  /\ BucketOf(buckets, v) \in DOMAIN buckets
           /\ \A j \in DOMAIN buckets : InBucket(buckets[j], v) <=> j = BucketOf(buckets, v)
<1>1. PICK i \in DOMAIN buckets : \A j \in DOMAIN buckets : InBucket(buckets[j], v) <=> i = j
  BY BucketsPartition
<1> DEFINE hits == {j \in DOMAIN buckets : InBucket(buckets[j], v)}
<1>2. hits = {i} /\ i \in Nat
  BY <1>1, BucketTypes
<1>3. BucketOf(buckets, v) = IF hits = {} THEN None
                             ELSE CHOOSE k \in hits : \A j \in hits : k <= j
  BY Zenon DEF BucketOf
<1> HIDE DEF hits
<1>4. BucketOf(buckets, v) = i
  BY <1>2, <1>3
<1> QED
  BY <1>1, <1>4

-----------------------------------------------------------------------------
(* The invariant                                                           *)

Labels == {"idle", "fetch", "request", "settle"}
RowsType == [DOMAIN Readings -> Seq(Int)]
EvidenceType == [value : Int, rows : {<< >>} \cup RowsType, seen : SUBSET Int]

IsWeather(p) == ContractOf[p].domain = "weather"
IsCrypto(p) == ContractOf[p].domain = "crypto"

MarketShape ==
    /\ clock \in 0..MaxClock /\ price \in Prices
    /\ closes \in Seq(Prices) /\ Len(closes) = clock \div Interval

RowsShape ==
    /\ rows \in RowsType
    /\ \A h \in DOMAIN Readings : ToSet(rows[h]) \subseteq Readings[h]

JobShape ==
    /\ positions \in Seq(DOMAIN ContractOf)
    /\ pc \in [Settlers -> Labels] /\ asked \in [Settlers -> 0..clock]
    /\ due \in [Settlers -> SUBSET DOMAIN positions]
    /\ cache = [w \in Settlers |-> cache[w]] /\ evidence = [w \in Settlers |-> evidence[w]]
    /\ settled = [p \in DOMAIN ContractOf |-> settled[p]]

(* The candles that a series calls complete have their final price.        *)
SeriesTrue(series) ==
    /\ series.at \in 0..clock
    /\ \A k \in DOMAIN series.response :
          /\ k \in Nat \ {0}
          /\ k * Interval <= series.at =>
                k <= Len(closes) /\ series.response[k] = closes[k]

(* A crypto position's price is that of its last candle.                   *)
FinalPrice(p, value) ==
    LET k == ContractOf[p].expiry \div Interval IN
    k \in 1..Len(closes) /\ value = closes[k]

(* No temperature that had been blended is rounded to more degrees.        *)
Bounded(p, seen, value) ==
    \A t \in seen : RoundTemperature(t, ContractOf[p].method) <= value

EvidenceTrue(p, e) ==
    /\ e \in EvidenceType
    /\ IsCrypto(p) => FinalPrice(p, e.value)
    /\ IsWeather(p) => Bounded(p, e.seen, e.value)

JobOK(w) ==
    /\ (pc[w] = "idle") = (due[w] = {})
    /\ \A i \in due[w] : ContractOf[positions[i]].expiry <= clock
    /\ pc[w] = "request" => IsCrypto(Current(w))
    /\ pc[w] = "settle" => EvidenceTrue(Current(w), evidence[w])

(* What an ingest job is about to store are readings.                      *)
IngestOK ==
    \A w \in Ingesters : ingest[w] # None =>
        \A h \in DOMAIN Readings \cap DOMAIN ingest[w] : ingest[w][h] \in Readings[h]

(* What has been blended is stored, in the day of every weather contract.  *)
BlendedStored ==
    /\ blended \subseteq Temperatures
    /\ \A p \in ToSet(positions) : IsWeather(p) =>
          \A t \in blended : \E h \in DayHours(rows, ContractOf[p]) : t \in ToSet(rows[h])

SettledRight(p) ==
    settled[p] # None =>
        /\ settled[p].outcome \in {"YES", "NO"}
        /\ ContractOf[p].expiry <= clock
        /\ IsCrypto(p) => /\ FinalPrice(p, settled[p].value)
                          /\ (settled[p].outcome = "YES") = EventHit(ContractOf[p], settled[p].value)
        /\ IsWeather(p) => Bounded(p, settled[p].seen, settled[p].value)

IInv ==
    /\ MarketShape /\ RowsShape /\ JobShape
    /\ \A w \in Settlers : JobOK(w) /\ (cache[w] # None => SeriesTrue(cache[w]))
    /\ IngestOK
    /\ BlendedStored
    /\ \A p \in DOMAIN ContractOf : SettledRight(p)

-----------------------------------------------------------------------------
(* Reading the observations of a day                                       *)

LEMMA ContractTypes ==
    /\ \A p \in DOMAIN ContractOf :
          /\ ContractOf[p].expiry \in Nat
          /\ IsWeather(p) = ~IsCrypto(p)
          /\ IsWeather(p) => /\ ContractOf[p].method \in Methods
                             /\ ContractOf[p].start \in Int /\ ContractOf[p].end \in Int
    /\ MaxClock \in Nat /\ Interval \in Nat \ {0}
    /\ DOMAIN Readings \subseteq Nat
  BY SettlementAssumption, CandlesAssumption DEF IsWeather, IsCrypto

LEMMA DayOf ==
    ASSUME NEW p \in DOMAIN ContractOf, IsWeather(p), NEW r
    PROVE  /\ DayHours(r, ContractOf[p]) \in SUBSET DOMAIN Readings
           /\ DayHours(r, ContractOf[p]) \in SUBSET Int
           /\ IsFiniteSet(DayHours(r, ContractOf[p]))
<1> DEFINE c == ContractOf[p]
<1>1. c.start \in Int /\ c.end \in Int /\ c.start..c.end - 1 \subseteq DOMAIN Readings
  BY SettlementAssumption DEF IsWeather
<1>2. IsFiniteSet(c.start..c.end - 1)
  BY <1>1, FS_Interval
<1>3. DayHours(r, c) \subseteq c.start..c.end - 1
  BY DEF DayHours
<1> QED
  BY <1>1, <1>2, <1>3, FS_Subset, ContractTypes

(* A weather contract's day is that of any other.                          *)
LEMMA SameDay ==
    ASSUME NEW p \in DOMAIN ContractOf, NEW q \in DOMAIN ContractOf,
           IsWeather(p), IsWeather(q), NEW r
    PROVE  DayHours(r, ContractOf[p]) = DayHours(r, ContractOf[q])
  BY SettlementAssumption DEF IsWeather, DayHours

LEMMA ElementsFinite ==
    ASSUME NEW S, NEW s \in Seq(S)
    PROVE  IsFiniteSet(ToSet(s)) /\ ToSet(s) \subseteq S /\ (s # << >> => ToSet(s) # {})
<1>1. s \in [1..Len(s) -> S] /\ Len(s) \in Nat /\ DOMAIN s = 1..Len(s)
  BY DEF ToSet
<1>2. s \in Surjection(1..Len(s), ToSet(s))
  BY <1>1 DEF Surjection, ToSet
<1>3. IsFiniteSet(1..Len(s))
  BY <1>1, FS_Interval
<1>4. ToSet(s) \subseteq S
  BY <1>1 DEF ToSet
<1>5. ASSUME s # << >> PROVE ToSet(s) # {}
  <2>1. 1 \in DOMAIN s
    BY <1>5
  <2> QED
    BY <2>1 DEF ToSet
<1> QED
  BY <1>2, <1>3, <1>4, <1>5, FS_Surjection

LEMMA WarmestIs ==
    ASSUME NEW r \in RowsType, NEW hours \in SUBSET DOMAIN Readings, IsFiniteSet(hours),
           NEW g \in hours, r[g] # << >>
    PROVE  /\ Warmest(r, hours) \in Int
           /\ \A h \in hours : \A t \in ToSet(r[h]) : t \in Int /\ t <= Warmest(r, hours)
<1> DEFINE f == [h \in hours |-> ToSet(r[h])]
           sets == {ToSet(r[h]) : h \in hours}
           all == UNION sets
<1>1. \A h \in hours : r[h] \in Seq(Int)
  BY DEF RowsType
<1>2. \A h \in hours : IsFiniteSet(ToSet(r[h])) /\ ToSet(r[h]) \subseteq Int
  BY <1>1, ElementsFinite
<1>3. IsFiniteSet(sets)
  <2>1. f \in Surjection(hours, sets)
    BY DEF Surjection
  <2> QED
    BY <2>1, FS_Surjection
<1>4. IsFiniteSet(all)
  BY <1>2, <1>3, FS_UNION
<1>5. all \in SUBSET Int /\ all # {}
  <2>1. PICK t : t \in ToSet(r[g])
    BY <1>1, ElementsFinite
  <2>2. t \in all
    BY <2>1
  <2>3. all \subseteq Int
    BY <1>2
  <2> QED
    BY <2>2, <2>3
<1> HIDE DEF all
<1>6. Latest(all) \in all /\ \A x \in all : x <= Latest(all)
  BY <1>4, <1>5, LatestIs
<1>7. Warmest(r, hours) = Latest(all)
  BY DEF Warmest, all
<1> QED
  BY <1>5, <1>6, <1>7 DEF all

(* The blend uses what is stored.                                          *)
LEMMA BlendStored ==
    ASSUME NEW p \in DOMAIN ContractOf, IsWeather(p), NEW r \in RowsType, NEW now \in Int,
           NEW t \in BlendedPast(r, ContractOf[p], now)
    PROVE  \E h \in DayHours(r, ContractOf[p]) : t \in ToSet(r[h])
<1> DEFINE c == ContractOf[p]
           day == DayHours(r, c)
<1>1. PICK point : t \in LatestObserved(r, c, point, now)
  BY DEF BlendedPast
<1> DEFINE past == {h \in day : h <= now /\ h <= point + 1}
<1>2. past # {} /\ t = Head(r[Latest(past)])
  BY <1>1 DEF LatestObserved
<1>3. day \in SUBSET DOMAIN Readings /\ day \in SUBSET Int /\ IsFiniteSet(day)
  BY DayOf
<1>4. past \in SUBSET Int /\ IsFiniteSet(past)
  BY <1>3, FS_Subset
<1>5. Latest(past) \in past
  <2> HIDE DEF past
  <2> QED
    BY <1>2, <1>4, LatestIs
<1> DEFINE h == Latest(past)
<1>6. h \in day /\ r[h] # << >> /\ r[h] \in Seq(Int)
  BY <1>3, <1>5 DEF DayHours, RowsType
<1> HIDE DEF h, past
<1>7. Head(r[h]) \in ToSet(r[h])
  BY <1>6 DEF ToSet
<1> QED
  BY <1>2, <1>6, <1>7 DEF h

-----------------------------------------------------------------------------
(* What the growth of the market leaves true                               *)

(* Time passes, and candles are added to those that are closed.            *)
Grown ==
    /\ clock \in Int /\ clock' \in Int /\ clock <= clock'
    /\ Len(closes) \in Nat /\ Len(closes') \in Nat /\ Len(closes) <= Len(closes')
    /\ \A k \in 1..Len(closes) : closes'[k] = closes[k]

LEMMA Still ==
    ASSUME IInv, clock' = clock, closes' = closes
    PROVE  Grown
<1>1. clock \in Int /\ Len(closes) \in Nat
  BY DEF IInv, MarketShape
<1> QED
  BY <1>1 DEF Grown

LEMMA SeriesKept ==
    ASSUME Grown, NEW series, SeriesTrue(series)
    PROVE  SeriesTrue(series)'
<1>1. series.at \in 0..clock'
  BY DEF Grown, SeriesTrue
<1>2. ASSUME NEW k \in DOMAIN series.response, k * Interval <= series.at
      PROVE  k <= Len(closes') /\ series.response[k] = closes'[k]
  <2>1. k \in Nat \ {0} /\ k <= Len(closes) /\ series.response[k] = closes[k]
    BY <1>2 DEF SeriesTrue
  <2> QED
    BY <2>1 DEF Grown
<1> QED
  BY <1>1, <1>2 DEF SeriesTrue

LEMMA PriceKept ==
    ASSUME Grown, NEW p, NEW value, FinalPrice(p, value)
    PROVE  FinalPrice(p, value)'
  BY DEF Grown, FinalPrice

LEMMA JobKept ==
    ASSUME IInv, Grown, positions' = positions, NEW w \in Settlers,
           pc'[w] = pc[w], due'[w] = due[w], evidence'[w] = evidence[w]
    PROVE  JobOK(w)'
<1>1. JobOK(w)
  BY DEF IInv
<1>2. Current(w)' = Current(w)
  BY DEF Current, First
<1>3. \A i \in due[w] : ContractOf[positions[i]].expiry <= clock'
  <2>1. ASSUME NEW i \in due[w] PROVE ContractOf[positions[i]].expiry \in Int
    BY SettlementAssumption DEF IInv, JobShape
  <2> QED
    BY <1>1, <2>1 DEF JobOK, Grown
<1>4. ASSUME EvidenceTrue(Current(w), evidence[w]) PROVE EvidenceTrue(Current(w), evidence[w])'
  <2>1. ASSUME NEW p, NEW e, EvidenceTrue(p, e) PROVE EvidenceTrue(p, e)'
    BY <2>1, PriceKept DEF EvidenceTrue, Bounded, IsCrypto, IsWeather
  <2>2. PICK p, e : p = Current(w) /\ e = evidence[w]
    OBVIOUS
  <2>3. EvidenceTrue(p, e)'
    BY <1>4, <2>1, <2>2
  <2> QED
    BY <1>2, <2>2, <2>3
<1> QED
  BY <1>1, <1>2, <1>3, <1>4 DEF JobOK, IsCrypto

LEMMA SettledKept ==
    ASSUME IInv, Grown, NEW p \in DOMAIN ContractOf, settled'[p] = settled[p]
    PROVE  SettledRight(p)'
<1>1. SettledRight(p)
  BY DEF IInv
<1>2. ContractOf[p].expiry \in Int
  BY SettlementAssumption
<1>3. ASSUME NEW value, FinalPrice(p, value) PROVE FinalPrice(p, value)'
  BY <1>3, PriceKept
<1>4. ContractOf[p].expiry <= clock => ContractOf[p].expiry <= clock'
  BY <1>2 DEF Grown
<1> QED
  BY <1>1, <1>3, <1>4 DEF SettledRight, IsCrypto, IsWeather, Bounded

-----------------------------------------------------------------------------
(* The settlement job                                                      *)

LEMMA CurrentIs ==
    ASSUME IInv, NEW w \in Settlers, pc[w] # "idle"
    PROVE  /\ First(w) \in due[w] /\ due[w] \in SUBSET DOMAIN positions
           /\ Current(w) \in ToSet(positions) /\ Current(w) \in DOMAIN ContractOf
           /\ ContractOf[Current(w)].expiry <= clock
           /\ \A i \in due[w] : ContractOf[positions[i]].expiry <= clock
<1>1. /\ due[w] \in SUBSET DOMAIN positions /\ due[w] # {}
      /\ \A i \in due[w] : ContractOf[positions[i]].expiry <= clock
      /\ positions \in Seq(DOMAIN ContractOf)
  BY DEF IInv, JobShape, JobOK
<1>2. DOMAIN positions = 1..Len(positions) /\ Len(positions) \in Nat
  BY <1>1
<1>3. due[w] \in SUBSET Int /\ IsFiniteSet(due[w])
  <2>1. IsFiniteSet(1..Len(positions))
    BY <1>2, FS_Interval
  <2>2. due[w] \subseteq 1..Len(positions)
    BY <1>1, <1>2
  <2> QED
    BY <2>1, <2>2, FS_Subset
<1>4. First(w) \in due[w]
  BY <1>1, <1>3, EarliestIs DEF First
<1>5. Current(w) \in ToSet(positions) /\ Current(w) \in DOMAIN ContractOf
  BY <1>1, <1>4 DEF Current, ToSet
<1> QED
  BY <1>1, <1>4, <1>5 DEF Current

(* A settlement job goes to another place, with other positions left,      *)
(* another evidence, or another series in the cache.                       *)
Works(w, label, d, at, e, series) ==
    /\ pc' = [pc EXCEPT ![w] = label] /\ due' = [due EXCEPT ![w] = d]
    /\ asked' = [asked EXCEPT ![w] = at] /\ evidence' = [evidence EXCEPT ![w] = e]
    /\ cache' = [cache EXCEPT ![w] = series]
    /\ UNCHANGED <<clock, market, stored, ingest, positions>>

LEMMA Unmoved ==
    ASSUME IInv, NEW w \in Settlers
    PROVE  /\ pc = [pc EXCEPT ![w] = pc[w]] /\ due = [due EXCEPT ![w] = due[w]]
           /\ asked = [asked EXCEPT ![w] = asked[w]]
           /\ evidence = [evidence EXCEPT ![w] = evidence[w]]
           /\ cache = [cache EXCEPT ![w] = cache[w]]
<1>1. /\ pc \in [Settlers -> Labels] /\ asked \in [Settlers -> 0..clock]
      /\ due \in [Settlers -> SUBSET DOMAIN positions]
      /\ cache = [v \in Settlers |-> cache[v]] /\ evidence = [v \in Settlers |-> evidence[v]]
  BY DEF IInv, JobShape
<1>2. ASSUME NEW f, f = [v \in Settlers |-> f[v]] PROVE f = [f EXCEPT ![w] = f[w]]
  BY <1>2
<1> QED
  BY <1>1, <1>2

LEMMA WorkKeepsInv ==
    ASSUME IInv, NEW w \in Settlers, NEW label \in Labels, NEW d \in SUBSET DOMAIN positions,
           NEW at \in 0..clock, NEW e, NEW series, Works(w, label, d, at, e, series),
           (label = "idle") = (d = {}),
           \A i \in d : ContractOf[positions[i]].expiry <= clock,
           label = "request" => IsCrypto(positions[Earliest(d)]),
           label = "settle" => EvidenceTrue(positions[Earliest(d)], e),
           series # None => SeriesTrue(series),
           settled' = [p \in DOMAIN ContractOf |-> settled'[p]],
           \A p \in DOMAIN ContractOf : SettledRight(p)'
    PROVE  IInv'
<1>1. /\ clock' = clock /\ price' = price /\ closes' = closes /\ rows' = rows
      /\ blended' = blended /\ ingest' = ingest /\ positions' = positions
  BY DEF Works, market, stored
<1>2. /\ pc \in [Settlers -> Labels] /\ asked \in [Settlers -> 0..clock]
      /\ due \in [Settlers -> SUBSET DOMAIN positions]
      /\ cache = [v \in Settlers |-> cache[v]] /\ evidence = [v \in Settlers |-> evidence[v]]
  BY DEF IInv, JobShape
<1>3. /\ pc' \in [Settlers -> Labels] /\ asked' \in [Settlers -> 0..clock']
      /\ due' \in [Settlers -> SUBSET DOMAIN positions']
  BY <1>1, <1>2 DEF Works
<1>4. /\ cache' = [v \in Settlers |-> IF v = w THEN series ELSE cache[v]]
      /\ evidence' = [v \in Settlers |-> IF v = w THEN e ELSE evidence[v]]
  BY <1>2, Zenon DEF Works
<1>5. /\ cache' = [v \in Settlers |-> cache'[v]] /\ evidence' = [v \in Settlers |-> evidence'[v]]
  BY <1>4, Zenon
<1>6. /\ pc'[w] = label /\ due'[w] = d /\ evidence'[w] = e /\ cache'[w] = series
      /\ \A v \in Settlers \ {w} : /\ pc'[v] = pc[v] /\ due'[v] = due[v]
                                   /\ evidence'[v] = evidence[v] /\ cache'[v] = cache[v]
  <2>1. pc'[w] = label /\ \A v \in Settlers \ {w} : pc'[v] = pc[v]
    BY <1>2 DEF Works
  <2>2. due'[w] = d /\ \A v \in Settlers \ {w} : due'[v] = due[v]
    BY <1>2 DEF Works
  <2> QED
    BY <1>4, <2>1, <2>2
<1>7. MarketShape' /\ RowsShape' /\ IngestOK' /\ BlendedStored'
  BY <1>1 DEF IInv, MarketShape, RowsShape, IngestOK, BlendedStored, DayHours
<1>8. JobShape'
  BY <1>1, <1>3, <1>5 DEF IInv, JobShape
<1>9. Grown
  BY <1>1, Still
<1>10. ASSUME NEW v \in Settlers PROVE JobOK(v)'
  <2>1. CASE v = w
    <3>1. Current(w)' = positions[Earliest(d)]
      BY <1>1, <1>6 DEF Current, First
    <3>2. \A p, x : EvidenceTrue(p, x)' <=> EvidenceTrue(p, x)
      BY <1>1 DEF EvidenceTrue, FinalPrice, Bounded, IsCrypto, IsWeather
    <3>3. label = "settle" => EvidenceTrue(Current(w), evidence[w])'
      BY <1>6, <3>1, <3>2
    <3> QED
      BY <1>1, <1>6, <2>1, <3>1, <3>3 DEF JobOK, IsCrypto
  <2>2. CASE v # w
    BY <1>1, <1>6, <1>9, <2>2, JobKept
  <2> QED
    BY <2>1, <2>2
<1>11. ASSUME NEW v \in Settlers, cache'[v] # None PROVE SeriesTrue(cache[v])'
  <2>1. \A x : SeriesTrue(x)' <=> SeriesTrue(x)
    BY <1>1 DEF SeriesTrue
  <2>2. SeriesTrue(cache'[v])
    BY <1>6, <1>11 DEF IInv
  <2> QED
    BY <1>1, <2>2 DEF SeriesTrue
<1> QED
  BY <1>7, <1>8, <1>10, <1>11 DEF IInv

(* A step of the job that settles nothing.                                 *)
LEMMA QuietWork ==
    ASSUME IInv, NEW w \in Settlers, NEW label \in Labels, NEW d \in SUBSET due[w],
           NEW at \in 0..clock, NEW e, NEW series, Works(w, label, d, at, e, series),
           pc[w] # "idle", settled' = settled,
           (label = "idle") = (d = {}),
           label = "request" => d = due[w] /\ IsCrypto(Current(w)),
           label = "settle" => d = due[w] /\ EvidenceTrue(Current(w), e),
           series # None => SeriesTrue(series)
    PROVE  IInv'
<1>1. Grown
  BY Still DEF Works, market
<1>2. \A p \in DOMAIN ContractOf : SettledRight(p)'
  BY <1>1, SettledKept
<1>3. settled' = [p \in DOMAIN ContractOf |-> settled'[p]]
  BY DEF IInv, JobShape
<1>4. d \in SUBSET DOMAIN positions /\ \A i \in d : ContractOf[positions[i]].expiry <= clock
  BY CurrentIs
<1> QED
  BY <1>2, <1>3, <1>4, WorkKeepsInv DEF Current, First

(* The position at hand is left.                                           *)
LEMMA Continues ==
    ASSUME IInv, NEW w \in Settlers, pc[w] # "idle", Continue(w)
    PROVE  \E label \in {"idle", "fetch"}, d \in SUBSET due[w] :
              /\ pc' = [pc EXCEPT ![w] = label] /\ due' = [due EXCEPT ![w] = d]
              /\ (label = "idle") = (d = {})
<1> DEFINE label == IF due[w] = {First(w)} THEN "idle" ELSE "fetch"
           d == due[w] \ {First(w)}
<1>1. (label = "idle") = (d = {}) /\ label \in {"idle", "fetch"} /\ d \in SUBSET due[w]
  BY CurrentIs
<1>2. pc' = [pc EXCEPT ![w] = label] /\ due' = [due EXCEPT ![w] = d]
  BY DEF Continue, Goto
<1> QED
  BY <1>1, <1>2

LEMMA RunDueKeepsInv ==
    ASSUME IInv, NEW w \in Settlers, RunDue(w)
    PROVE  IInv'
<1> DEFINE d == {i \in DOMAIN positions : /\ settled[positions[i]] = None
                                          /\ ContractOf[positions[i]].expiry <= clock}
<1>1. /\ due' = [due EXCEPT ![w] = d] /\ due'[w] # {} /\ pc' = [pc EXCEPT ![w] = "fetch"]
      /\ UNCHANGED <<clock, market, cache, stored, ingest, asked, evidence, positions, settled>>
  BY DEF RunDue, Goto
<1>2. d # {}
  BY <1>1 DEF IInv, JobShape
<1>3. Works(w, "fetch", d, asked[w], evidence[w], cache[w])
  BY <1>1, Unmoved DEF Works
<1>4. /\ d \in SUBSET DOMAIN positions /\ \A i \in d : ContractOf[positions[i]].expiry <= clock
      /\ asked[w] \in 0..clock /\ (cache[w] # None => SeriesTrue(cache[w]))
  BY DEF IInv, JobShape
<1>5. settled' = [p \in DOMAIN ContractOf |-> settled'[p]]
  BY <1>1 DEF IInv, JobShape
<1>6. \A p \in DOMAIN ContractOf : SettledRight(p)'
  BY <1>1, Still, SettledKept DEF market
<1> HIDE DEF d
<1> QED
  BY <1>2, <1>3, <1>4, <1>5, <1>6, WorkKeepsInv DEF Labels

LEMMA SourceFailsKeepsInv ==
    ASSUME IInv, NEW w \in Settlers, SourceFails(w)
    PROVE  IInv'
<1>1. /\ pc[w] = "request" /\ Continue(w) /\ asked' = [asked EXCEPT ![w] = 0]
      /\ UNCHANGED <<clock, market, cache, stored, ingest, evidence, positions, settled>>
  BY DEF SourceFails, Failed
<1>2. PICK label \in {"idle", "fetch"}, d \in SUBSET due[w] :
          /\ pc' = [pc EXCEPT ![w] = label] /\ due' = [due EXCEPT ![w] = d]
          /\ (label = "idle") = (d = {})
  BY <1>1, Continues
<1>3. Works(w, label, d, 0, evidence[w], cache[w])
  BY <1>1, <1>2, Unmoved DEF Works
<1>4. 0 \in 0..clock /\ (cache[w] # None => SeriesTrue(cache[w]))
  BY ContractTypes DEF IInv, MarketShape
<1> QED
  BY <1>1, <1>2, <1>3, <1>4, QuietWork DEF Labels

-----------------------------------------------------------------------------
(* Candles as evidence                                                     *)

(* A response that comes now tells the closing prices.                     *)
LEMMA SeriesNow ==
    ASSUME IInv, NEW now \in 0..clock
    PROVE  SeriesTrue(Series(now))
<1> DEFINE open == Len(closes) + 1
           first == IF open > Limit THEN open - Limit + 1 ELSE 1
           response == [k \in first..open |-> IF k = open THEN price ELSE closes[k]]
<1>1. Limit \in Nat \ {0} /\ MaxClock \in Nat
  BY SettlementAssumption
<1>2. clock \in 0..MaxClock /\ Len(closes) \in Nat /\ Len(closes) = clock \div Interval
  BY DEF IInv, MarketShape
<1>3. clock \in Nat /\ now \in Nat /\ now <= clock /\ first \in Nat \ {0}
  BY <1>1, <1>2
<1>4. Series(now).at = now /\ Series(now).response = response
  BY DEF Series, Response
<1>5. ASSUME NEW k \in first..open
      PROVE  /\ k \in Nat \ {0}
             /\ k * Interval <= now => k <= Len(closes) /\ response[k] = closes[k]
  <2>1. k \in Nat \ {0}
    BY <1>2, <1>3, <1>5
  <2>2. ASSUME k * Interval <= now PROVE k <= Len(closes)
    <3>1. k * Interval \in Int
      BY <2>1, ContractTypes
    <3>2. k * Interval <= clock
      BY <1>3, <2>2, <3>1
    <3> QED
      BY <1>2, <1>3, <2>1, <3>2, CandleAt
  <2>3. ASSUME k <= Len(closes) PROVE response[k] = closes[k]
    BY <1>2, <2>1, <2>3
  <2> QED
    BY <2>1, <2>2, <2>3
<1>6. DOMAIN response = first..open
  OBVIOUS
<1> HIDE DEF response, first, open
<1> QED
  BY <1>4, <1>5, <1>6 DEF SeriesTrue

(* The candle that ends at the expiry is final in a series from then on.   *)
LEMMA ClosingIsFinal ==
    ASSUME IInv, NEW p \in DOMAIN ContractOf, IsCrypto(p), NEW series, SeriesTrue(series),
           ClosingPrice(series.response, ContractOf[p].expiry) # Refused,
           Timely(ContractOf[p], series.at)
    PROVE  /\ FinalPrice(p, ClosingPrice(series.response, ContractOf[p].expiry))
           /\ ClosingPrice(series.response, ContractOf[p].expiry) \in Nat
<1> DEFINE expiry == ContractOf[p].expiry
           matches == {k \in DOMAIN series.response : k * Interval = expiry}
           k == CHOOSE x \in matches : TRUE
<1>1. expiry \in Nat /\ series.at \in Int /\ expiry <= series.at
  <2>1. expiry \in Nat
    BY ContractTypes
  <2>2. series.at \in Int /\ clock \in Int
    BY DEF SeriesTrue, IInv, MarketShape
  <2> QED
    BY <2>1, <2>2 DEF Timely
<1>2. matches # {} /\ ClosingPrice(series.response, expiry) = series.response[k]
  BY DEF ClosingPrice
<1>3. k \in DOMAIN series.response /\ k * Interval = expiry
  BY <1>2
<1>4. k \in Nat \ {0}
  BY <1>3 DEF SeriesTrue
<1>5. k <= Len(closes) /\ series.response[k] = closes[k]
  <2>1. k * Interval <= series.at
    BY <1>1, <1>3
  <2> QED
    BY <1>3, <2>1 DEF SeriesTrue
<1> HIDE DEF k, matches
<1>6. expiry \div Interval = k
  BY <1>1, <1>3, <1>4, CandleAt
<1>7. closes \in Seq(Prices) /\ Len(closes) \in Nat /\ Prices \subseteq Nat
  BY SettlementAssumption DEF IInv, MarketShape
<1>8. k \in 1..Len(closes) /\ closes[k] \in Nat
  <2>1. k \in 1..Len(closes)
    BY <1>4, <1>5, <1>7
  <2>2. closes[k] \in Prices
    BY <1>7, <2>1
  <2> QED
    BY <1>7, <2>1, <2>2
<1> QED
  BY <1>2, <1>5, <1>6, <1>8 DEF FinalPrice

(* A series is turned into evidence, or refused.                           *)
LEMMA CryptoEvidenceWorks ==
    ASSUME IInv, NEW w \in Settlers, pc[w] # "idle", IsCrypto(Current(w)),
           NEW series, SeriesTrue(series), CryptoEvidence(w, series)
    PROVE  \E label \in {"idle", "fetch", "settle"}, d \in SUBSET due[w],
              e \in EvidenceType \cup {evidence[w]} :
              /\ pc' = [pc EXCEPT ![w] = label] /\ due' = [due EXCEPT ![w] = d]
              /\ evidence' = [evidence EXCEPT ![w] = e]
              /\ (label = "idle") = (d = {})
              /\ label = "settle" => d = due[w] /\ EvidenceTrue(Current(w), e)
<1> DEFINE p == Current(w)
           value == ClosingPrice(series.response, ContractOf[p].expiry)
           e == [value |-> value, rows |-> << >>, seen |-> {}]
<1>1. p \in DOMAIN ContractOf /\ due[w] # {} /\ ~IsWeather(p)
  BY CurrentIs, ContractTypes
<1>2. CASE value # Refused /\ Timely(ContractOf[p], series.at)
  <2>1. /\ evidence' = [evidence EXCEPT ![w] = e] /\ pc' = [pc EXCEPT ![w] = "settle"]
        /\ due' = [due EXCEPT ![w] = due[w]]
    BY <1>2, Unmoved DEF CryptoEvidence, Goto
  <2>2. FinalPrice(p, value) /\ value \in Nat
    BY <1>1, <1>2, ClosingIsFinal
  <2>3. e.value = value /\ e \in EvidenceType
    BY <2>2 DEF EvidenceType
  <2>4. EvidenceTrue(p, e)
    BY <1>1, <2>2, <2>3 DEF EvidenceTrue
  <2> e \in EvidenceType \cup {evidence[w]}
    BY <2>3
  <2> HIDE DEF e
  <2> WITNESS "settle" \in {"idle", "fetch", "settle"}, due[w] \in SUBSET due[w],
              e \in EvidenceType \cup {evidence[w]}
  <2> QED
    BY <1>1, <2>1, <2>4 DEF p
<1>3. CASE ~(value # Refused /\ Timely(ContractOf[p], series.at))
  <2>1. Continue(w) /\ evidence' = evidence
    BY <1>3 DEF CryptoEvidence, Failed
  <2>2. PICK label \in {"idle", "fetch"}, d \in SUBSET due[w] :
            /\ pc' = [pc EXCEPT ![w] = label] /\ due' = [due EXCEPT ![w] = d]
            /\ (label = "idle") = (d = {})
    BY <2>1, Continues
  <2>3. evidence' = [evidence EXCEPT ![w] = evidence[w]]
    BY <2>1, Unmoved
  <2> WITNESS label \in {"idle", "fetch", "settle"}, d \in SUBSET due[w],
              evidence[w] \in EvidenceType \cup {evidence[w]}
  <2> QED
    BY <2>2, <2>3
<1> QED
  BY <1>2, <1>3

LEMMA FetchCryptoKeepsInv ==
    ASSUME IInv, NEW w \in Settlers, FetchCrypto(w)
    PROVE  IInv'
<1>1. /\ pc[w] = "fetch" /\ Current(w) \in Crypto
      /\ UNCHANGED <<clock, market, cache, stored, ingest, positions, settled>>
  BY DEF FetchCrypto
<1>2. IsCrypto(Current(w))
  BY <1>1 DEF Crypto, IsCrypto
<1>3. /\ asked[w] \in 0..clock /\ clock \in 0..clock
      /\ (cache[w] # None => SeriesTrue(cache[w]))
  BY ContractTypes DEF IInv, JobShape, MarketShape
<1>4. CASE Cached(w, clock)
  <2>1. CryptoEvidence(w, cache[w]) /\ asked' = asked /\ cache[w] # None
    BY <1>4 DEF FetchCrypto, Cached
  <2>2. PICK label \in {"idle", "fetch", "settle"}, d \in SUBSET due[w],
              e \in EvidenceType \cup {evidence[w]} :
              /\ pc' = [pc EXCEPT ![w] = label] /\ due' = [due EXCEPT ![w] = d]
              /\ evidence' = [evidence EXCEPT ![w] = e]
              /\ (label = "idle") = (d = {})
              /\ label = "settle" => d = due[w] /\ EvidenceTrue(Current(w), e)
    BY <1>1, <1>2, <1>3, <2>1, CryptoEvidenceWorks
  <2>3. Works(w, label, d, asked[w], e, cache[w])
    BY <1>1, <2>1, <2>2, Unmoved DEF Works
  <2> QED
    BY <1>1, <1>3, <2>2, <2>3, QuietWork DEF Labels
<1>5. CASE ~Cached(w, clock)
  <2>1. Works(w, "request", due[w], clock, evidence[w], cache[w])
    BY <1>1, <1>5, Unmoved DEF Works, FetchCrypto, Goto
  <2>2. due[w] # {}
    BY <1>1, CurrentIs
  <2> QED
    BY <1>1, <1>2, <1>3, <2>1, <2>2, QuietWork DEF Labels
<1> QED
  BY <1>4, <1>5

LEMMA SourceAnswersKeepsInv ==
    ASSUME IInv, NEW w \in Settlers, SourceAnswers(w)
    PROVE  IInv'
<1> DEFINE series == Series(asked[w])
<1>1. /\ pc[w] = "request" /\ cache' = [cache EXCEPT ![w] = series]
      /\ CryptoEvidence(w, series) /\ asked' = [asked EXCEPT ![w] = 0]
      /\ UNCHANGED <<clock, market, stored, ingest, positions, settled>>
  BY DEF SourceAnswers
<1>2. asked[w] \in 0..clock /\ 0 \in 0..clock /\ IsCrypto(Current(w))
  BY <1>1, ContractTypes DEF IInv, JobShape, MarketShape, JobOK
<1>3. SeriesTrue(series)
  BY <1>2, SeriesNow
<1> HIDE DEF series
<1>4. PICK label \in {"idle", "fetch", "settle"}, d \in SUBSET due[w],
              e \in EvidenceType \cup {evidence[w]} :
            /\ pc' = [pc EXCEPT ![w] = label] /\ due' = [due EXCEPT ![w] = d]
            /\ evidence' = [evidence EXCEPT ![w] = e]
            /\ (label = "idle") = (d = {})
            /\ label = "settle" => d = due[w] /\ EvidenceTrue(Current(w), e)
  BY <1>1, <1>2, <1>3, CryptoEvidenceWorks
<1>5. Works(w, label, d, 0, e, series)
  BY <1>1, <1>4 DEF Works
<1> QED
  BY <1>1, <1>2, <1>3, <1>4, <1>5, QuietWork DEF Labels

(* A crypto scan puts a series in the cache of its process.                *)
LEMMA ScanFetchesKeepsInv ==
    ASSUME IInv, NEW w \in Settlers, ScanFetches(w)
    PROVE  IInv'
<1>1. PICK now \in {clock, clock - 1} \cap Nat :
          /\ cache' = [cache EXCEPT ![w] = Series(now)]
          /\ UNCHANGED <<clock, market, stored, ingest, job, positions, settled>>
  BY DEF ScanFetches
<1>2. now \in 0..clock
  BY ContractTypes DEF IInv, MarketShape
<1>3. SeriesTrue(Series(now))
  BY <1>2, SeriesNow
<1>4. Works(w, pc[w], due[w], asked[w], evidence[w], Series(now))
  BY <1>1, Unmoved DEF Works, job
<1>5. /\ JobOK(w) /\ pc[w] \in Labels /\ due[w] \in SUBSET DOMAIN positions
      /\ asked[w] \in 0..clock
  BY DEF IInv, JobShape
<1>6. settled' = [p \in DOMAIN ContractOf |-> settled'[p]]
  BY <1>1 DEF IInv, JobShape
<1>7. \A p \in DOMAIN ContractOf : SettledRight(p)'
  BY <1>1, Still, SettledKept DEF market
<1> QED
  BY <1>3, <1>4, <1>5, <1>6, <1>7, WorkKeepsInv DEF JobOK, Current, First

-----------------------------------------------------------------------------
(* Observations as evidence                                                *)

(* No blend of a day is warmer than its warmest observation.               *)
LEMMA EvidenceCoversBlends ==
    ASSUME IInv, NEW p \in ToSet(positions), IsWeather(p), DayHours(rows, ContractOf[p]) # {}
    PROVE  /\ EvidenceDegrees(rows, ContractOf[p]) \in Int
           /\ Bounded(p, blended, EvidenceDegrees(rows, ContractOf[p]))
<1> DEFINE c == ContractOf[p]
           day == DayHours(rows, c)
<1>1. p \in DOMAIN ContractOf /\ rows \in RowsType
  BY ElementsFinite DEF IInv, JobShape, RowsShape
<1>2. c.method \in Methods
  BY <1>1, ContractTypes
<1>3. day \in SUBSET DOMAIN Readings /\ IsFiniteSet(day)
  BY <1>1, DayOf
<1>4. PICK g \in day : rows[g] # << >>
  BY DEF DayHours
<1>5. /\ Warmest(rows, day) \in Int
      /\ \A h \in day : \A t \in ToSet(rows[h]) : t \in Int /\ t <= Warmest(rows, day)
  BY <1>1, <1>3, <1>4, WarmestIs
<1>6. EvidenceDegrees(rows, c) = RoundTemperature(Warmest(rows, day), c.method)
  BY DEF EvidenceDegrees
<1>7. EvidenceDegrees(rows, c) \in Int
  BY <1>2, <1>5, <1>6, RoundingMonotone
<1>8. ASSUME NEW t \in blended
      PROVE  RoundTemperature(t, c.method) <= EvidenceDegrees(rows, c)
  <2>1. PICK h \in day : t \in ToSet(rows[h])
    BY DEF IInv, BlendedStored
  <2>2. t \in Int /\ t <= Warmest(rows, day)
    BY <1>5, <2>1
  <2> HIDE DEF c, day
  <2> QED
    BY <1>2, <1>5, <1>6, <2>2, RoundingMonotone
<1> QED
  BY <1>7, <1>8 DEF Bounded

LEMMA FetchWeatherKeepsInv ==
    ASSUME IInv, NEW w \in Settlers, FetchWeather(w)
    PROVE  IInv'
<1> DEFINE p == Current(w)
           c == ContractOf[p]
           e == [value |-> EvidenceDegrees(rows, c), rows |-> rows, seen |-> blended]
<1>1. /\ pc[w] = "fetch" /\ p \in Weather
      /\ UNCHANGED <<clock, market, cache, stored, ingest, asked, positions, settled>>
  BY DEF FetchWeather
<1>2. /\ p \in ToSet(positions) /\ p \in DOMAIN ContractOf /\ IsWeather(p) /\ ~IsCrypto(p)
      /\ due[w] # {}
  BY <1>1, CurrentIs DEF Weather, IsWeather, IsCrypto
<1>3. asked[w] \in 0..clock /\ (cache[w] # None => SeriesTrue(cache[w]))
  BY DEF IInv, JobShape
<1>4. CASE /\ clock >= c.end /\ DayHours(rows, c) # {}
           /\ BucketOf(c.buckets, EvidenceDegrees(rows, c)) # None
  <2>1. /\ evidence' = [evidence EXCEPT ![w] = e] /\ pc' = [pc EXCEPT ![w] = "settle"]
        /\ due' = due
    BY <1>4 DEF FetchWeather, Goto
  <2>2. EvidenceDegrees(rows, c) \in Int /\ Bounded(p, blended, EvidenceDegrees(rows, c))
    BY <1>2, <1>4, EvidenceCoversBlends
  <2>3. rows \in RowsType /\ blended \in SUBSET Int
    BY SettlementAssumption DEF IInv, RowsShape, BlendedStored, Temperatures
  <2>4. e \in EvidenceType /\ e.value = EvidenceDegrees(rows, c) /\ e.seen = blended
    BY <2>2, <2>3 DEF EvidenceType
  <2>5. EvidenceTrue(p, e)
    BY <1>2, <2>2, <2>4 DEF EvidenceTrue
  <2> HIDE DEF e
  <2>6. Works(w, "settle", due[w], asked[w], e, cache[w])
    BY <1>1, <2>1, Unmoved DEF Works
  <2> QED
    BY <1>1, <1>2, <1>3, <2>5, <2>6, QuietWork DEF Labels
<1>5. CASE ~(/\ clock >= c.end /\ DayHours(rows, c) # {}
             /\ BucketOf(c.buckets, EvidenceDegrees(rows, c)) # None)
  <2>1. Continue(w) /\ evidence' = evidence
    BY <1>5 DEF FetchWeather, Failed
  <2>2. PICK label \in {"idle", "fetch"}, d \in SUBSET due[w] :
            /\ pc' = [pc EXCEPT ![w] = label] /\ due' = [due EXCEPT ![w] = d]
            /\ (label = "idle") = (d = {})
    BY <1>1, <2>1, Continues
  <2>3. Works(w, label, d, asked[w], evidence[w], cache[w])
    BY <1>1, <2>1, <2>2, Unmoved DEF Works
  <2> QED
    BY <1>1, <1>3, <2>2, <2>3, QuietWork DEF Labels
<1> QED
  BY <1>4, <1>5

-----------------------------------------------------------------------------
(* Settling                                                                *)

LEMMA SettleKeepsInv ==
    ASSUME IInv, NEW w \in Settlers, Settle(w)
    PROVE  IInv'
<1> DEFINE p == Current(w)
           e == evidence[w]
           outcome == Outcome(p, e)
           decision == [outcome |-> outcome, value |-> e.value, seen |-> e.seen]
<1>1. /\ pc[w] = "settle" /\ evidence' = [evidence EXCEPT ![w] = None] /\ Continue(w)
      /\ UNCHANGED <<clock, market, cache, stored, ingest, asked, positions>>
      /\ \/ settled' = settled
         \/ settled[p] = None /\ outcome # None /\ settled' = [settled EXCEPT ![p] = decision]
  BY DEF Settle, Failed
<1>2. /\ p \in ToSet(positions) /\ p \in DOMAIN ContractOf
      /\ ContractOf[p].expiry <= clock
  BY <1>1, CurrentIs
<1>3. EvidenceTrue(p, e)
  BY <1>1 DEF IInv, JobOK
<1>4. PICK label \in {"idle", "fetch"}, d \in SUBSET due[w] :
          /\ pc' = [pc EXCEPT ![w] = label] /\ due' = [due EXCEPT ![w] = d]
          /\ (label = "idle") = (d = {})
  BY <1>1, Continues
<1>5. Works(w, label, d, asked[w], None, cache[w])
  BY <1>1, <1>4, Unmoved DEF Works
<1>6. /\ asked[w] \in 0..clock /\ (cache[w] # None => SeriesTrue(cache[w]))
      /\ d \in SUBSET DOMAIN positions /\ label \in Labels
      /\ \A i \in d : ContractOf[positions[i]].expiry <= clock
  BY <1>1, CurrentIs DEF IInv, JobShape, Labels
<1>7. Grown
  BY <1>1, Still DEF market
<1>8. CASE settled' = settled
  <2>1. settled' = [q \in DOMAIN ContractOf |-> settled'[q]]
    BY <1>8 DEF IInv, JobShape
  <2>2. \A q \in DOMAIN ContractOf : SettledRight(q)'
    BY <1>7, <1>8, SettledKept
  <2> QED
    BY <1>4, <1>5, <1>6, <2>1, <2>2, WorkKeepsInv
<1>9. CASE outcome # None /\ settled' = [settled EXCEPT ![p] = decision]
  <2>1. outcome \in {"YES", "NO"}
    BY <1>9 DEF Outcome, WeatherOutcome, CryptoOutcome
  <2>2. ASSUME IsCrypto(p)
        PROVE  /\ FinalPrice(p, e.value)
               /\ (outcome = "YES") = EventHit(ContractOf[p], e.value)
    <3>1. FinalPrice(p, e.value)
      BY <1>3, <2>2 DEF EvidenceTrue
    <3>2. e.value \in Nat
      <4>1. closes \in Seq(Prices) /\ Prices \subseteq Nat
        BY SettlementAssumption DEF IInv, MarketShape
      <4>2. PICK k \in 1..Len(closes) : e.value = closes[k]
        BY <3>1 DEF FinalPrice
      <4>3. closes[k] \in Prices
        BY <4>1
      <4> QED
        BY <4>1, <4>2, <4>3
    <3>3. outcome = IF ResolvedYes(ContractOf[p], e.value) THEN "YES" ELSE "NO"
      BY <2>2 DEF Outcome, CryptoOutcome, Weather, IsCrypto
    <3>4. ResolvedYes(ContractOf[p], e.value) = EventHit(ContractOf[p], e.value)
      BY <1>2, <2>2, <3>2, OutcomeIsEvent DEF IsCrypto
    <3>5. EventHit(ContractOf[p], e.value) \in BOOLEAN
      BY DEF EventHit
    <3> QED
      BY <3>1, <3>3, <3>4, <3>5
  <2>3. IsWeather(p) => Bounded(p, e.seen, e.value)
    BY <1>3 DEF EvidenceTrue
  <2>4. /\ decision.outcome = outcome /\ decision.value = e.value /\ decision.seen = e.seen
    OBVIOUS
  <2>5. settled = [q \in DOMAIN ContractOf |-> settled[q]]
    BY DEF IInv, JobShape
  <2> HIDE DEF decision, outcome, e, p
  <2>6. settled' = [q \in DOMAIN ContractOf |-> IF q = p THEN decision ELSE settled[q]]
    BY <1>9, <2>5
  <2>7. settled' = [q \in DOMAIN ContractOf |-> settled'[q]]
    BY <2>6, Zenon
  <2>8. ASSUME NEW q \in DOMAIN ContractOf PROVE SettledRight(q)'
    <3>1. CASE q = p
      <4>1. settled'[q] = decision /\ clock' = clock /\ closes' = closes
        BY <1>1, <2>6, <3>1 DEF market
      <4> QED
        BY <1>2, <2>1, <2>2, <2>3, <2>4, <3>1, <4>1
           DEF SettledRight, FinalPrice, Bounded, IsCrypto, IsWeather
    <3>2. CASE q # p
      BY <1>7, <2>6, <3>2, SettledKept
    <3> QED
      BY <3>1, <3>2
  <2> QED
    BY <1>4, <1>5, <1>6, <2>7, <2>8, WorkKeepsInv
<1> QED
  BY <1>1, <1>8, <1>9

-----------------------------------------------------------------------------
(* The world and the ingest jobs                                           *)

(* Steps that leave the settlement jobs alone.                             *)
LEMMA SettlersKept ==
    ASSUME IInv, Grown, UNCHANGED <<cache, job, positions, settled>>,
           MarketShape', RowsShape', IngestOK', BlendedStored'
    PROVE  IInv'
<1>1. pc' = pc /\ due' = due /\ asked' = asked /\ evidence' = evidence
  BY DEF job
<1>2. JobShape'
  <2>1. 0..clock \subseteq 0..clock'
    BY DEF Grown
  <2> QED
    BY <1>1, <2>1 DEF IInv, JobShape
<1>3. \A w \in Settlers : JobOK(w)'
  BY <1>1, JobKept
<1>4. ASSUME NEW w \in Settlers, cache'[w] # None PROVE SeriesTrue(cache[w])'
  <2>1. ASSUME NEW x, SeriesTrue(x) PROVE SeriesTrue(x)'
    BY <2>1, SeriesKept
  <2>2. PICK x : x = cache[w]
    OBVIOUS
  <2>3. SeriesTrue(x)'
    BY <1>4, <2>1, <2>2 DEF IInv
  <2> QED
    BY <2>2, <2>3
<1>5. \A p \in DOMAIN ContractOf : SettledRight(p)'
  BY SettledKept
<1> QED
  BY <1>2, <1>3, <1>4, <1>5 DEF IInv

LEMMA TickKeepsInv ==
    ASSUME IInv, Tick
    PROVE  IInv'
<1>1. /\ clock < MaxClock /\ clock' = clock + 1 /\ price' \in Prices
      /\ closes' = IF clock' % Interval = 0 THEN Append(closes, price') ELSE closes
      /\ UNCHANGED <<cache, stored, ingest, job, positions, settled>>
  BY DEF Tick, IInv, MarketShape
<1>2. /\ clock \in Nat /\ clock' \in 0..MaxClock /\ closes \in Seq(Prices)
      /\ Len(closes) = clock \div Interval /\ Len(closes) \in Nat
  BY <1>1, ContractTypes DEF IInv, MarketShape
<1>3. /\ closes' \in Seq(Prices)
      /\ Len(closes') = IF clock' % Interval = 0 THEN Len(closes) + 1 ELSE Len(closes)
      /\ \A k \in 1..Len(closes) : closes'[k] = closes[k]
  BY <1>1, <1>2
<1>4. MarketShape'
  BY <1>1, <1>2, <1>3, NextCandle DEF MarketShape
<1>5. Grown
  BY <1>1, <1>2, <1>3 DEF Grown
<1>6. RowsShape' /\ IngestOK' /\ BlendedStored'
  BY <1>1 DEF IInv, RowsShape, IngestOK, BlendedStored, DayHours, stored
<1> QED
  BY <1>1, <1>4, <1>5, <1>6, SettlersKept

LEMMA IngestReadsKeepsInv ==
    ASSUME IInv, NEW w \in Ingesters, IngestReads(w)
    PROVE  IInv'
<1>1. PICK got \in Reports :
          ingest' = [ingest EXCEPT ![w] =
                        [h \in {h \in DOMAIN got : rows[h] = << >>} |-> got[h]]]
  BY DEF IngestReads
<1>2. UNCHANGED <<clock, market, cache, stored, job, positions, settled>>
  BY DEF IngestReads
<1>3. \A h \in DOMAIN got : got[h] \in Readings[h]
  BY DEF Reports
<1>4. IngestOK'
  BY <1>1, <1>3 DEF IInv, IngestOK
<1>5. MarketShape' /\ RowsShape' /\ BlendedStored'
  BY <1>2 DEF IInv, MarketShape, RowsShape, BlendedStored, DayHours, stored, market
<1> QED
  BY <1>2, <1>4, <1>5, Still, SettlersKept DEF market

LEMMA IngestCommitsKeepsInv ==
    ASSUME IInv, NEW w \in Ingesters, IngestCommits(w)
    PROVE  IInv'
<1>1. /\ ingest[w] # None /\ ingest' = [ingest EXCEPT ![w] = None]
      /\ rows' = [h \in DOMAIN rows |-> IF h \in DOMAIN ingest[w]
                                        THEN Append(rows[h], ingest[w][h]) ELSE rows[h]]
      /\ UNCHANGED <<clock, market, cache, blended, job, positions, settled>>
  BY DEF IngestCommits
<1>2. DOMAIN rows = DOMAIN Readings /\ rows \in RowsType
  BY DEF IInv, RowsShape, RowsType
<1>3. ASSUME NEW h \in DOMAIN Readings
      PROVE  /\ rows'[h] \in Seq(Int) /\ ToSet(rows'[h]) \subseteq Readings[h]
             /\ ToSet(rows[h]) \subseteq ToSet(rows'[h])
             /\ rows[h] # << >> => rows'[h] # << >>
  <2>1. rows[h] \in Seq(Int) /\ ToSet(rows[h]) \subseteq Readings[h]
    BY <1>2 DEF IInv, RowsShape, RowsType
  <2>2. CASE h \in DOMAIN ingest[w]
    <3>1. ingest[w][h] \in Readings[h] /\ ingest[w][h] \in Int
      BY <1>1, <2>2, SettlementAssumption DEF IInv, IngestOK
    <3>2. rows'[h] = Append(rows[h], ingest[w][h])
      BY <1>1, <1>2, <2>2
    <3>3. ASSUME NEW s \in Seq(Int), NEW x \in Int
          PROVE  /\ Append(s, x) \in Seq(Int) /\ Append(s, x) # << >>
                 /\ ToSet(Append(s, x)) = ToSet(s) \cup {x}
      <4> DEFINE r == Append(s, x)
      <4>1. /\ Len(s) \in Nat /\ r \in Seq(Int) /\ Len(r) = Len(s) + 1
            /\ DOMAIN s = 1..Len(s) /\ DOMAIN r = 1..(Len(s) + 1)
            /\ r[Len(s) + 1] = x /\ \A i \in 1..Len(s) : r[i] = s[i]
        OBVIOUS
      <4> HIDE DEF r
      <4>2. r # << >>
        BY <4>1
      <4>3. ToSet(r) = ToSet(s) \cup {x}
        BY <4>1 DEF ToSet
      <4> QED
        BY <4>1, <4>2, <4>3 DEF r
    <3> QED
      BY <2>1, <3>1, <3>2, <3>3
  <2>3. CASE h \notin DOMAIN ingest[w]
    BY <1>1, <1>2, <2>1, <2>3
  <2> QED
    BY <2>2, <2>3
<1>4. RowsShape'
  BY <1>1, <1>2, <1>3 DEF RowsShape, RowsType
<1>5. BlendedStored'
  <2>1. ASSUME NEW p \in ToSet(positions), IsWeather(p), NEW t \in blended
        PROVE  \E h \in DayHours(rows', ContractOf[p]) : t \in ToSet(rows'[h])
    <3>1. PICK h \in DayHours(rows, ContractOf[p]) : t \in ToSet(rows[h])
      BY <2>1 DEF IInv, BlendedStored
    <3>2. h \in DOMAIN Readings
      BY <2>1, DayOf, ElementsFinite DEF IInv, JobShape
    <3>3. h \in DayHours(rows', ContractOf[p]) /\ t \in ToSet(rows'[h])
      BY <1>3, <3>1, <3>2 DEF DayHours
    <3> QED
      BY <3>3
  <2> QED
    BY <1>1, <2>1 DEF IInv, BlendedStored, IsWeather
<1>6. IngestOK'
  BY <1>1 DEF IInv, IngestOK
<1>7. MarketShape'
  BY <1>1 DEF IInv, MarketShape, market
<1> QED
  BY <1>1, <1>4, <1>5, <1>6, <1>7, Still, SettlersKept DEF market

LEMMA BlendKeepsInv ==
    ASSUME IInv, Blend
    PROVE  IInv'
<1>1. PICK p \in Weather : blended' = blended \cup BlendedPast(rows, ContractOf[p], clock)
  BY DEF Blend
<1>2. UNCHANGED <<clock, market, cache, rows, ingest, job, positions, settled>>
  BY DEF Blend
<1>3. p \in ToSet(positions) /\ p \in DOMAIN ContractOf /\ IsWeather(p)
  BY ElementsFinite DEF IInv, JobShape, Weather, IsWeather
<1>4. rows \in RowsType /\ clock \in Int
  BY DEF IInv, RowsShape, MarketShape
<1>5. ASSUME NEW t \in BlendedPast(rows, ContractOf[p], clock)
      PROVE  \E h \in DayHours(rows, ContractOf[p]) : t \in ToSet(rows[h])
  BY <1>3, <1>4, BlendStored
<1>6. BlendedPast(rows, ContractOf[p], clock) \subseteq Temperatures
  <2>1. ASSUME NEW t \in BlendedPast(rows, ContractOf[p], clock) PROVE t \in Temperatures
    <3>1. PICK h \in DayHours(rows, ContractOf[p]) : t \in ToSet(rows[h])
      BY <1>5
    <3>2. h \in DOMAIN Readings
      BY <1>3, DayOf
    <3> QED
      BY <3>1, <3>2 DEF IInv, RowsShape, Temperatures
  <2> QED
    BY <2>1
<1>7. ASSUME NEW q \in ToSet(positions), IsWeather(q), NEW t \in blended'
      PROVE  \E h \in DayHours(rows, ContractOf[q]) : t \in ToSet(rows[h])
  <2>1. CASE t \in blended
    BY <1>7, <2>1 DEF IInv, BlendedStored
  <2>2. CASE t \in BlendedPast(rows, ContractOf[p], clock)
    <3>1. q \in DOMAIN ContractOf
      BY ElementsFinite DEF IInv, JobShape
    <3>2. DayHours(rows, ContractOf[p]) = DayHours(rows, ContractOf[q])
      BY <1>3, <1>7, <3>1, SameDay
    <3> QED
      BY <1>5, <2>2, <3>2
  <2> QED
    BY <1>1, <2>1, <2>2
<1>8. BlendedStored'
  BY <1>1, <1>2, <1>6, <1>7 DEF IInv, BlendedStored, IsWeather, DayHours
<1>9. MarketShape' /\ RowsShape' /\ IngestOK'
  BY <1>2 DEF IInv, MarketShape, RowsShape, IngestOK, market
<1> QED
  BY <1>2, <1>8, <1>9, Still, SettlersKept DEF market

-----------------------------------------------------------------------------
(* Crashes                                                                 *)

LEMMA SettlerDiesKeepsInv ==
    ASSUME IInv, NEW w \in Settlers, SettlerDies(w)
    PROVE  IInv'
<1>1. Works(w, "idle", {}, 0, None, None) /\ settled' = settled
  BY DEF SettlerDies, Works, Goto
<1>2. settled' = [p \in DOMAIN ContractOf |-> settled'[p]]
  BY <1>1 DEF IInv, JobShape
<1>3. \A p \in DOMAIN ContractOf : SettledRight(p)'
  BY <1>1, Still, SettledKept DEF Works, market
<1>4. 0 \in 0..clock
  BY ContractTypes DEF IInv, MarketShape
<1> QED
  BY <1>1, <1>2, <1>3, <1>4, WorkKeepsInv DEF Labels

LEMMA IngesterDiesKeepsInv ==
    ASSUME IInv, NEW w \in Ingesters, IngesterDies(w)
    PROVE  IInv'
<1>1. /\ ingest' = [ingest EXCEPT ![w] = None]
      /\ UNCHANGED <<clock, market, cache, stored, job, positions, settled>>
  BY DEF IngesterDies
<1>2. MarketShape' /\ RowsShape' /\ IngestOK' /\ BlendedStored'
  BY <1>1 DEF IInv, MarketShape, RowsShape, IngestOK, BlendedStored, DayHours, stored, market
<1> QED
  BY <1>1, <1>2, Still, SettlersKept DEF market

LEMMA RescanKeepsInv ==
    ASSUME IInv, Rescan
    PROVE  IInv'
<1>1. UNCHANGED <<clock, market, cache, stored, ingest, job, positions, settled>>
  BY DEF Rescan
<1>2. MarketShape' /\ RowsShape' /\ IngestOK' /\ BlendedStored'
  BY <1>1 DEF IInv, MarketShape, RowsShape, IngestOK, BlendedStored, DayHours, stored, market
<1> QED
  BY <1>1, <1>2, Still, SettlersKept DEF market

-----------------------------------------------------------------------------
(* The theorems                                                            *)

LEMMA InitInv == Init => IInv
<1> SUFFICES ASSUME Init PROVE IInv
  OBVIOUS
<1>1. MarketShape
  <2>1. 0 \div Interval = 0
    BY ContractTypes, CandleAt
  <2> QED
    BY <2>1, ContractTypes DEF Init, MarketShape
<1>2. RowsShape
  BY DEF Init, RowsShape, RowsType, ToSet
<1>3. JobShape
  BY SettlementAssumption DEF Init, JobShape, Labels
<1>4. \A w \in Settlers : JobOK(w) /\ (cache[w] # None => SeriesTrue(cache[w]))
  BY DEF Init, JobOK
<1>5. IngestOK /\ BlendedStored
  BY DEF Init, IngestOK, BlendedStored
<1>6. \A p \in DOMAIN ContractOf : SettledRight(p)
  BY DEF Init, SettledRight
<1> QED
  BY <1>1, <1>2, <1>3, <1>4, <1>5, <1>6 DEF IInv

LEMMA NextInv == IInv /\ [Next]_vars => IInv'
<1> SUFFICES ASSUME IInv, [Next]_vars PROVE IInv'
  OBVIOUS
<1>1. CASE UNCHANGED vars
  <2>1. MarketShape' /\ RowsShape' /\ IngestOK' /\ BlendedStored'
    BY <1>1 DEF vars, IInv, MarketShape, RowsShape, IngestOK, BlendedStored, DayHours, stored,
                market
  <2> QED
    BY <1>1, <2>1, Still, SettlersKept DEF vars, market
<1>2. CASE Tick \/ Blend \/ Rescan
  BY <1>2, TickKeepsInv, BlendKeepsInv, RescanKeepsInv
<1>3. ASSUME NEW w \in Settlers, ScanFetches(w) \/ Work(w) \/ SourceAnswers(w) \/ SettlerDies(w)
      PROVE  IInv'
  BY <1>3, ScanFetchesKeepsInv, RunDueKeepsInv, FetchCryptoKeepsInv, SourceFailsKeepsInv,
     FetchWeatherKeepsInv, SettleKeepsInv, SourceAnswersKeepsInv, SettlerDiesKeepsInv DEF Work
<1>4. ASSUME NEW w \in Ingesters, IngestReads(w) \/ IngestCommits(w) \/ IngesterDies(w)
      PROVE  IInv'
  BY <1>4, IngestReadsKeepsInv, IngestCommitsKeepsInv, IngesterDiesKeepsInv
<1> QED
  BY <1>1, <1>2, <1>3, <1>4 DEF Next

(* IInv holds throughout.                                                  *)
THEOREM Invariance == Spec => []IInv
  BY InitInv, NextInv, PTL DEF Spec

(* Type correctness: among others, a position is settled YES or NO, and a  *)
(* job that is to settle has its evidence (SettlementWorker.run_due).      *)
THEOREM TypeCorrect == Spec => []TypeOK
<1> DEFINE Accepted == DOMAIN ContractOf \ accepted \subseteq Edited
<1>1. ASSUME IInv, Accepted PROVE TypeOK
  <2>1. clock \in 0..MaxClock /\ price \in Prices /\ Len(closes) = clock \div Interval
    BY <1>1 DEF IInv, MarketShape
  <2>2. ToSet(closes) \subseteq Prices
    BY <1>1, ElementsFinite DEF IInv, MarketShape
  <2>3. \A h \in DOMAIN rows : ToSet(rows[h]) \subseteq Readings[h]
    BY <1>1 DEF IInv, RowsShape, RowsType
  <2>4. ASSUME NEW w \in Settlers
        PROVE  (pc[w] = "idle") = (due[w] = {}) /\ (pc[w] = "settle" => evidence[w] # None)
    BY <1>1, SettlementAssumption DEF IInv, JobOK, EvidenceTrue, EvidenceType, RowsType
  <2>5. ASSUME NEW p \in ToSet(positions), settled[p] # None
        PROVE  settled[p].outcome \in {"YES", "NO"}
    <3>1. p \in DOMAIN ContractOf
      BY <1>1, ElementsFinite DEF IInv, JobShape
    <3> QED
      BY <1>1, <2>5, <3>1 DEF IInv, SettledRight
  <2>6. blended \subseteq Temperatures
    BY <1>1 DEF IInv, BlendedStored
  <2> QED
    BY <1>1, <2>1, <2>2, <2>3, <2>4, <2>5, <2>6 DEF TypeOK
<1>2. Init => Accepted
  BY DEF Init
<1>3. Accepted /\ [Next]_vars => Accepted'
  <2> SUFFICES ASSUME Accepted, [Next]_vars PROVE Accepted'
    OBVIOUS
  <2>1. CASE Rescan
    BY <2>1 DEF Rescan
  <2>2. CASE Tick \/ Blend \/ UNCHANGED vars
    BY <2>2 DEF Tick, Blend, vars
  <2>3. ASSUME NEW w \in Settlers,
               ScanFetches(w) \/ Work(w) \/ SourceAnswers(w) \/ SettlerDies(w)
        PROVE  accepted' = accepted
    BY <2>3 DEF ScanFetches, Work, RunDue, FetchCrypto, SourceFails, FetchWeather, Settle,
                SourceAnswers, SettlerDies
  <2>4. ASSUME NEW w \in Ingesters, IngestReads(w) \/ IngestCommits(w) \/ IngesterDies(w)
        PROVE  accepted' = accepted
    BY <2>4 DEF IngestReads, IngestCommits, IngesterDies
  <2> QED
    BY <2>1, <2>2, <2>3, <2>4 DEF Next
<1> QED
  BY <1>1, <1>2, <1>3, Invariance, PTL DEF Spec

(* A crypto position settles at the final price of its last candle         *)
(* (settlement.py, normalize_crypto_settlement_payload over the shared     *)
(* cache of crypto_data.py, fetch_series) and for the event that           *)
(* _event_probability priced.                                              *)
THEOREM FinalCloses == Spec => []FinalClose
<1>1. ASSUME IInv PROVE FinalClose
  <2>1. ASSUME NEW p \in Crypto
        PROVE  p \in DOMAIN ContractOf /\ IsCrypto(p) /\ SettledRight(p)
    BY <1>1, ElementsFinite DEF IInv, JobShape, Crypto, IsCrypto
  <2> QED
    BY <2>1 DEF FinalClose, SettledRight, FinalPrice
<1> QED
  BY <1>1, Invariance, PTL

(* A weather position never settles below what a blend took for observed   *)
(* (observations.py, apply_observations_to_points; settlement.py, the      *)
(* fetcher's maximum of the day).                                          *)
THEOREM BlendsKept == Spec => []BlendsSettled
<1>1. ASSUME IInv PROVE BlendsSettled
  <2>1. ASSUME NEW p \in Weather
        PROVE  p \in DOMAIN ContractOf /\ IsWeather(p) /\ SettledRight(p)
    BY <1>1, ElementsFinite DEF IInv, JobShape, Weather, IsWeather
  <2> QED
    BY <2>1 DEF BlendsSettled, SettledRight, Bounded
<1> QED
  BY <1>1, Invariance, PTL

-----------------------------------------------------------------------------
(* How often an hour is stored                                             *)

(* The ingest jobs that have found this hour missing and will store it.    *)
Storing(h) == {w \in Ingesters : ingest[w] # None /\ h \in DOMAIN ingest[w]}

(* Whoever stores an hour had found it missing, and never will again.      *)
StoredPerProcess ==
    \A h \in DOMAIN rows : Cardinality(Storing(h)) + Len(rows[h]) <= Cardinality(Ingesters)

OncePerProcess == \A h \in DOMAIN rows : Len(rows[h]) <= Cardinality(Ingesters)

IngestsKept == ingest = [w \in Ingesters |-> ingest[w]]

LEMMA StoringIs ==
    ASSUME IsFiniteSet(Ingesters), NEW h
    PROVE  /\ IsFiniteSet(Storing(h)) /\ Cardinality(Storing(h)) \in Nat
           /\ Cardinality(Storing(h)) <= Cardinality(Ingesters) /\ Cardinality(Ingesters) \in Nat
<1>1. Storing(h) \in SUBSET Ingesters
  BY DEF Storing
<1> QED
  BY <1>1, FS_Subset, FS_CardinalityType

(* One job more, or one less.                                              *)
LEMMA StoringChanges ==
    ASSUME IsFiniteSet(Ingesters), IngestsKept, NEW h, NEW w \in Ingesters, NEW job2,
           ingest' = [ingest EXCEPT ![w] = job2]
    PROVE  Storing(h)' = IF job2 # None /\ h \in DOMAIN job2 THEN Storing(h) \cup {w}
                                                             ELSE Storing(h) \ {w}
<1>1. ingest'[w] = job2 /\ \A v \in Ingesters \ {w} : ingest'[v] = ingest[v]
  BY DEF IngestsKept
<1> QED
  BY <1>1 DEF Storing

LEMMA ReadsKeepStored ==
    ASSUME IsFiniteSet(Ingesters), IInv, IngestsKept, StoredPerProcess,
           NEW w \in Ingesters, IngestReads(w)
    PROVE  StoredPerProcess'
<1>1. PICK got \in Reports :
          ingest' = [ingest EXCEPT ![w] =
                        [h \in {h \in DOMAIN got : rows[h] = << >>} |-> got[h]]]
  BY DEF IngestReads
<1>2. ingest[w] = None /\ rows' = rows
  BY DEF IngestReads, stored
<1> SUFFICES ASSUME NEW h \in DOMAIN rows
             PROVE  Cardinality(Storing(h)') + Len(rows[h]) <= Cardinality(Ingesters)
  BY <1>2 DEF StoredPerProcess
<1>3. Cardinality(Storing(h)) + Len(rows[h]) <= Cardinality(Ingesters) /\ Len(rows[h]) \in Nat
  BY DEF StoredPerProcess, IInv, RowsShape, RowsType
<1>4. CASE rows[h] = << >>
  <2>1. Storing(h)' \in SUBSET Ingesters
    BY DEF Storing
  <2>2. Cardinality(Storing(h)') <= Cardinality(Ingesters) /\ Cardinality(Storing(h)') \in Nat
    BY <2>1, FS_Subset, FS_CardinalityType
  <2> QED
    BY <1>4, <2>2
<1>5. CASE rows[h] # << >>
  <2> DEFINE fresh == [k \in {k \in DOMAIN got : rows[k] = << >>} |-> got[k]]
  <2>1. h \notin DOMAIN fresh
    BY <1>5
  <2>2. ingest' = [ingest EXCEPT ![w] = fresh]
    BY <1>1
  <2> HIDE DEF fresh
  <2>3. Storing(h)' = Storing(h) \ {w}
    BY <2>1, <2>2, StoringChanges
  <2>4. Storing(h)' = Storing(h)
    BY <1>2, <2>3 DEF Storing
  <2> QED
    BY <1>3, <2>4
<1> QED
  BY <1>4, <1>5

LEMMA CommitsKeepStored ==
    ASSUME IsFiniteSet(Ingesters), IInv, IngestsKept, StoredPerProcess,
           NEW w \in Ingesters, IngestCommits(w)
    PROVE  StoredPerProcess'
<1>1. /\ ingest[w] # None /\ ingest' = [ingest EXCEPT ![w] = None]
      /\ rows' = [h \in DOMAIN rows |-> IF h \in DOMAIN ingest[w]
                                        THEN Append(rows[h], ingest[w][h]) ELSE rows[h]]
  BY DEF IngestCommits
<1> SUFFICES ASSUME NEW h \in DOMAIN rows
             PROVE  Cardinality(Storing(h)') + Len(rows'[h]) <= Cardinality(Ingesters)
  BY <1>1 DEF StoredPerProcess
<1>2. /\ Cardinality(Storing(h)) + Len(rows[h]) <= Cardinality(Ingesters)
      /\ rows[h] \in Seq(Int) /\ Len(rows[h]) \in Nat
  BY DEF StoredPerProcess, IInv, RowsShape, RowsType
<1>3. Storing(h)' = Storing(h) \ {w}
  BY <1>1, StoringChanges
<1>4. /\ IsFiniteSet(Storing(h)) /\ Cardinality(Storing(h)) \in Nat
      /\ Cardinality(Ingesters) \in Nat
  BY StoringIs
<1>5. Cardinality(Storing(h)') = IF w \in Storing(h) THEN Cardinality(Storing(h)) - 1
                                                   ELSE Cardinality(Storing(h))
  BY <1>3, <1>4, FS_RemoveElement
<1>6. CASE h \in DOMAIN ingest[w]
  <2>1. w \in Storing(h)
    BY <1>1, <1>6 DEF Storing
  <2>2. rows'[h] = Append(rows[h], ingest[w][h])
    BY <1>1, <1>6
  <2>3. Len(rows'[h]) = Len(rows[h]) + 1
    BY <1>2, <2>2
  <2> QED
    BY <1>2, <1>4, <1>5, <2>1, <2>3
<1>7. CASE h \notin DOMAIN ingest[w]
  <2>1. w \notin Storing(h) /\ rows'[h] = rows[h]
    BY <1>1, <1>7 DEF Storing
  <2> QED
    BY <1>2, <1>5, <2>1
<1> QED
  BY <1>6, <1>7

LEMMA DiesKeepsStored ==
    ASSUME IsFiniteSet(Ingesters), IInv, IngestsKept, StoredPerProcess,
           NEW w \in Ingesters, IngesterDies(w)
    PROVE  StoredPerProcess'
<1>1. ingest' = [ingest EXCEPT ![w] = None] /\ rows' = rows
  BY DEF IngesterDies, stored
<1> SUFFICES ASSUME NEW h \in DOMAIN rows
             PROVE  Cardinality(Storing(h)') + Len(rows[h]) <= Cardinality(Ingesters)
  BY <1>1 DEF StoredPerProcess
<1>2. Cardinality(Storing(h)) + Len(rows[h]) <= Cardinality(Ingesters) /\ Len(rows[h]) \in Nat
  BY DEF StoredPerProcess, IInv, RowsShape, RowsType
<1>3. Storing(h)' = Storing(h) \ {w}
  BY <1>1, StoringChanges
<1>4. IsFiniteSet(Storing(h)) /\ Cardinality(Storing(h)) \in Nat /\ Cardinality(Ingesters) \in Nat
  BY StoringIs
<1>5. Cardinality(Storing(h)') \in Nat /\ Cardinality(Storing(h)') <= Cardinality(Storing(h))
  <2>1. /\ IsFiniteSet(Storing(h) \ {w})
        /\ Cardinality(Storing(h) \ {w}) = IF w \in Storing(h) THEN Cardinality(Storing(h)) - 1
                                                               ELSE Cardinality(Storing(h))
    BY <1>4, FS_RemoveElement
  <2>2. Cardinality(Storing(h) \ {w}) \in Nat
    BY <2>1, FS_CardinalityType
  <2> QED
    BY <1>3, <1>4, <2>1, <2>2
<1> QED
  BY <1>2, <1>4, <1>5

LEMMA NextStored ==
    ASSUME IsFiniteSet(Ingesters), IInv, IngestsKept, StoredPerProcess, [Next]_vars
    PROVE  IngestsKept' /\ StoredPerProcess'
<1>1. CASE rows' = rows /\ ingest' = ingest
  BY <1>1 DEF IngestsKept, StoredPerProcess, Storing
<1>2. ASSUME NEW w \in Ingesters, IngestReads(w) \/ IngestCommits(w) \/ IngesterDies(w)
      PROVE  IngestsKept' /\ StoredPerProcess'
  <2>1. IngestsKept'
    BY <1>2 DEF IngestReads, IngestCommits, IngesterDies, IngestsKept
  <2> QED
    BY <1>2, <2>1, ReadsKeepStored, CommitsKeepStored, DiesKeepsStored
<1>3. ASSUME NEW w \in Settlers, ScanFetches(w) \/ Work(w) \/ SourceAnswers(w) \/ SettlerDies(w)
      PROVE  rows' = rows /\ ingest' = ingest
  BY <1>3 DEF ScanFetches, Work, RunDue, FetchCrypto, SourceFails, FetchWeather, Settle,
              SourceAnswers, SettlerDies, stored
<1>4. CASE Tick \/ Blend \/ Rescan \/ UNCHANGED vars
  BY <1>1, <1>4 DEF Tick, Blend, Rescan, vars, stored
<1> QED
  BY <1>1, <1>2, <1>3, <1>4 DEF Next

(* Nothing in the database keeps two processes from storing an hour twice  *)
(* (observations.py, ingest_observations); but no process stores it twice  *)
(* by itself, whatever is reported late, corrected or lost in a crash.     *)
THEOREM StoredOncePerProcess == IsFiniteSet(Ingesters) => (Spec => []OncePerProcess)
<1> SUFFICES ASSUME IsFiniteSet(Ingesters) PROVE Spec => []OncePerProcess
  OBVIOUS
<1>1. Init => IngestsKept /\ StoredPerProcess
  <2> SUFFICES ASSUME Init PROVE IngestsKept /\ StoredPerProcess
    OBVIOUS
  <2>1. ASSUME NEW h \in DOMAIN rows PROVE Storing(h) = {} /\ Len(rows[h]) = 0
    BY <2>1 DEF Init, Storing
  <2>2. Cardinality({}) = 0 /\ Cardinality(Ingesters) \in Nat
    BY FS_EmptySet, FS_CardinalityType
  <2>3. ASSUME NEW h \in DOMAIN rows
        PROVE  Cardinality(Storing(h)) + Len(rows[h]) <= Cardinality(Ingesters)
    <3>1. Cardinality(Storing(h)) = 0 /\ Len(rows[h]) = 0
      BY <2>1, <2>2
    <3> QED
      BY <2>2, <3>1
  <2>4. IngestsKept
    BY DEF Init, IngestsKept
  <2> QED
    BY <2>3, <2>4 DEF StoredPerProcess
<1>2. IInv /\ IngestsKept /\ StoredPerProcess /\ [Next]_vars => IngestsKept' /\ StoredPerProcess'
  BY NextStored
<1>3. IInv /\ StoredPerProcess => OncePerProcess
  <2> SUFFICES ASSUME IInv, StoredPerProcess, NEW h \in DOMAIN rows
               PROVE  Len(rows[h]) <= Cardinality(Ingesters)
    BY DEF OncePerProcess
  <2>1. Cardinality(Storing(h)) + Len(rows[h]) <= Cardinality(Ingesters) /\ Len(rows[h]) \in Nat
    BY DEF StoredPerProcess, IInv, RowsShape, RowsType
  <2>2. Cardinality(Storing(h)) \in Nat /\ Cardinality(Ingesters) \in Nat
    BY StoringIs
  <2> QED
    BY <2>1, <2>2
<1> QED
  BY <1>1, <1>2, <1>3, Invariance, PTL DEF Spec

(* So with one process, whose scheduler runs one ingest job at a time      *)
(* (main.py:318), an hour is there once: the run settlement_twice, which   *)
(* refutes it, needs two.                                                  *)
THEOREM AloneObservesOnce == (\E w : Ingesters = {w}) => (Spec => []ObservedOnce)
<1> SUFFICES ASSUME NEW w, Ingesters = {w} PROVE Spec => []ObservedOnce
  OBVIOUS
<1>1. IsFiniteSet(Ingesters) /\ Cardinality(Ingesters) = 1
  BY FS_Singleton
<1>2. OncePerProcess => ObservedOnce
  BY <1>1 DEF OncePerProcess, ObservedOnce
<1> QED
  BY <1>1, <1>2, StoredOncePerProcess, PTL
====
