---- MODULE WeatherScanProofs ----
(***************************************************************************)
(* Proofs about WeatherScan, for every set of scanners, events, markets    *)
(* and forecasts, and without its bounds on scans and hours playing a part.*)
(*                                                                         *)
(* The properties speak of what is committed and sent; what keeps them is  *)
(* what a session knows in between.  The strengthening says, for each      *)
(* place in scan_once, what the session has written but not committed, and *)
(* how far the signal it is following has got.                             *)
(***************************************************************************)
EXTENDS WeatherScan, FoldProofs, SequenceTheorems, TLAPS

Following == {"execute", "alert", "mark"}
InEvent == {"upsert", "books", "forecast", "market", "insert"} \cup Following
Labels == {"idle", "discover", "event"} \cup InEvent

(* The scan a session works for, and the session itself.                   *)
ScanShape(s) == s \in [n: 1..scans, now: 0..clock, todo: Seq(AllEvents), weights: {s.weights}]

Whys == {"route", "policy", "duplicate_signal"}

TxRows == [events: SUBSET AllEvents, contracts: SUBSET AllMarkets,
           estimates: SUBSET ((1..MaxScans) \X AllMarkets),
           rejections: SUBSET ((1..MaxScans) \X AllMarkets \X Whys), signals: {{}}]

TxShape(t) ==
    t \in [known: BOOLEAN, books: BOOLEAN, plan: {t.plan}, todo: Seq(AllMarkets),
           signal: {t.signal}, tries: Nat, rows: TxRows]

(* The variables that are functions, and where a session is.               *)
ShapeOK ==
    /\ pc \in [Scanners -> Labels]
    /\ scan = [p \in Scanners |-> scan[p]] /\ tx = [p \in Scanners |-> tx[p]]
    /\ scans \in 0..MaxScans /\ clock \in 0..MaxClock

(* The markets whose estimate is matched by a rejection or a signal.       *)
Accounted(rejected, stored) ==
    {<<r[1], r[2]>> : r \in {r \in rejected : r[3] # "route"}}
        \cup {<<s.scan, s.fingerprint[1]>> : s \in stored}

(* A session at this label of scan_once.  What it has not committed is     *)
(* accounted for too, but for the market whose signal it is to insert.     *)
Session(label, s, t) ==
    /\ IF label = "idle" THEN s = None ELSE ScanShape(s)
    /\ TxShape(t)
    /\ label \in InEvent => s.todo # << >>
    /\ label \notin InEvent => t = NoTx
    /\ label \in {"insert"} \cup Following => t.todo # << >>
    /\ label \in {"upsert"} \cup Following => t.rows = NoRows
    /\ t.rows.estimates =
           Accounted(t.rows.rejections, {})
               \cup IF label = "insert" THEN {<<s.n, t.signal[1]>>} ELSE {}

Placed(p) == Session(pc[p], scan[p], tx[p])

Copies(x, bag) == IF BagIn(x, bag) THEN bag[x] ELSE 0

(* How far the signal has got that the session follows through.            *)
Followed(p) ==
    /\ pc[p] \in Following => [fingerprint |-> tx[p].signal, scan |-> scan[p].n] \in signals
    /\ pc[p] \in {"alert", "mark"} => tx[p].signal \in decided
    /\ pc[p] = "execute" => tx[p].signal \notin BagToSet(sent)
    /\ pc[p] \in Following => tx[p].signal \notin alerted
    /\ pc[p] = "alert" => Copies(tx[p].signal, sent) <= tx[p].tries
    /\ pc[p] = "mark" => tx[p].signal \in BagToSet(sent)

(* No two sessions follow the same signal.                                 *)
FollowedOnce ==
    \A p, q \in Scanners :
        p # q /\ pc[p] \in Following /\ pc[q] \in Following => tx[p].signal # tx[q].signal

SentInOrder ==
    /\ IsABag(sent) /\ BagToSet(sent) \subseteq decided
    /\ alerted \subseteq BagToSet(sent)
    /\ \A fp \in decided : Stored(fp)

(* A signal without a decision is being executed, or its scan broke off.   *)
Undecided ==
    \A s \in signals :
        \/ s.fingerprint \in decided \/ s.scan \in cut
        \/ \E p \in Scanners : /\ pc[p] = "execute" /\ scan[p].n = s.scan
                               /\ tx[p].signal = s.fingerprint

IInv ==
    /\ ShapeOK
    /\ \A p \in Scanners : Placed(p) /\ Followed(p)
    /\ FollowedOnce
    /\ SentInOrder
    /\ AlertsBounded
    /\ Undecided
    /\ DecisionsComplete


-----------------------------------------------------------------------------
(* What the weather model computes                                         *)

ClosedUnderProducts(V) == V \subseteq Nat /\ 1 \in V /\ \A a, b \in V : a * b \in V

Products(f, S, iter) ==
    iter = [s \in SUBSET S |-> IF s = {} THEN 1
                               ELSE f[Member(S)[s]] * iter[s \ {Member(S)[s]}]]

(* A set with one that is closed under multiplication has the products of  *)
(* its elements.                                                           *)
LEMMA ProductStaysIn ==
    ASSUME NEW S, IsFiniteSet(S), NEW V, ClosedUnderProducts(V),
           NEW f, \A x \in S : f[x] \in V
    PROVE  Product(f, S) \in V
<1> DEFINE iter == CHOOSE i : Products(f, S, i)
           times == [x \in V \X V |-> x[2] * x[1]]
           pick == Member(S)
<1>1. Product(f, S) = iter[S]
  <2> DEFINE product(i) == [s \in SUBSET S |-> IF s = {} THEN 1
                 ELSE f[CHOOSE x \in s : TRUE] * i[s \ {CHOOSE x \in s : TRUE}]]
  <2>1. Product(f, S) = (CHOOSE i : i = product(i))[S]
    BY Zenon DEF Product, FoldFunctionOnSet, MapThenFoldSet
  <2>2. ASSUME NEW i PROVE (i = product(i)) <=> Products(f, S, i)
    <3>1. \A s \in SUBSET S : Member(S)[s] = CHOOSE x \in s : TRUE
      BY DEF Member
    <3> QED
      BY <3>1, Zenon DEF Products
  <2> QED
    BY <2>1, <2>2, Zenon
<1>2. Picks(S, pick)
  BY MemberPicks
<1>3. \A s \in SUBSET S : s # {} => f[pick[s]] \in V
  BY <1>2 DEF Picks
<1> HIDE DEF pick
<1>4. \E i : Products(f, S, i)
  <2>1. times \in [V \X V -> V] /\ 1 \in V
    BY DEF ClosedUnderProducts
  <2>2. \A x, y \in V : times[<<y, x>>] = x * y
    OBVIOUS
  <2> HIDE DEF times
  <2>3. PICK i : FoldTable(S, pick, f, 1, times, V, i)
    BY <1>2, <2>1, FoldExists, Zenon
  <2>4. ASSUME NEW s \in SUBSET S
        PROVE  i[s] = IF s = {} THEN 1 ELSE f[pick[s]] * i[s \ {pick[s]}]
    <3>1. i[s] = IF s = {} THEN 1 ELSE times[<<i[s \ {pick[s]}], f[pick[s]]>>]
      BY <2>3, Zenon DEF FoldTable
    <3>2. i[s \ {pick[s]}] \in V
      BY <2>3 DEF FoldTable
    <3> QED
      BY <1>3, <2>2, <3>1, <3>2
  <2>5. i = [s \in SUBSET S |-> IF s = {} THEN 1 ELSE f[pick[s]] * i[s \ {pick[s]}]]
    <3>1. i = [s \in SUBSET S |-> i[s]]
      BY <2>3 DEF FoldTable
    <3> QED
      BY <2>4, <3>1, Zenon
  <2> QED
    BY <2>5, Zenon DEF Products, pick
<1>5. Products(f, S, iter)
  BY <1>4, Zenon
<1> HIDE DEF iter
<1>6. \A s \in SUBSET S :
         iter[s] = IF s = {} THEN 1 ELSE f[pick[s]] * iter[s \ {pick[s]}]
  BY <1>5, Zenon DEF Products, pick
<1>7. \A s \in SUBSET S : iter[s] \in V
  <2>1. iter[{}] \in V
    <3>1. iter[{}] = 1
      BY <1>6, Zenon
    <3> QED
      BY <3>1 DEF ClosedUnderProducts
  <2>2. ASSUME NEW s \in SUBSET S, s # {}, iter[s \ {pick[s]}] \in V
        PROVE  iter[s] \in V
    <3>1. iter[s] = f[pick[s]] * iter[s \ {pick[s]}]
      BY <1>6, <2>2, Zenon
    <3> QED
      BY <1>3, <2>2, <3>1 DEF ClosedUnderProducts
  <2> QED
    BY <1>2, <2>1, <2>2, FoldStaysIn
<1> QED
  BY <1>1, <1>7

LEMMA PositiveProducts == ClosedUnderProducts(Nat) /\ ClosedUnderProducts(Nat \ {0})
<1>1. ASSUME NEW a \in Nat, NEW b \in Nat
      PROVE  a * b \in Nat /\ (a # 0 /\ b # 0 => a * b # 0)
  BY SMT
<1> QED
  BY <1>1 DEF ClosedUnderProducts

(* A part of a whole, divided by the whole, is a fraction of one.          *)
LEMMA PartOfWhole ==
    ASSUME NEW one \in Nat, NEW whole \in Nat \ {0}, NEW part \in Nat, part <= whole
    PROVE  (one * part) \div whole \in 0..one
<1>1. one * part \in Nat /\ one * part <= whole * one
  BY ProductNat, ProductMonotone
<1> DEFINE n == one * part
<1>2. n \in Nat /\ n <= whole * one
  BY <1>1
<1> HIDE DEF n
<1>3. n \div whole \in Nat /\ (n \div whole) * whole <= n
  BY <1>2, QuotientWithinBudget
<1>4. (n \div whole) <= one
  <2> DEFINE q == n \div whole
  <2>1. q \in Nat /\ q * whole <= whole * one
    BY <1>2, <1>3
  <2> HIDE DEF q
  <2>2. q <= one
    BY <2>1, SMT
  <2> QED
    BY <2>2 DEF q
<1> QED
  BY <1>3, <1>4 DEF n

(* A finite sum over a set of natural numbers is one, and none of them     *)
(* exceeds it.                                                             *)
LEMMA SumBounds ==
    ASSUME NEW S, IsFiniteSet(S), NEW f, f \in [S -> Nat]
    PROVE  /\ SumFunction(f) \in Nat
           /\ \A x \in S : f[x] <= SumFunction(f)
<1>1. SumFunction(f) = SumFunctionOnSet(f, S)
  BY Zenon DEF SumFunction
<1>2. f \in [S -> Int] /\ \A x \in S : f[x] \in Nat
  OBVIOUS
<1>3. SumFunctionOnSet(f, S) \in Nat
  BY <1>2, SumNat, Zenon
<1>4. ASSUME NEW x \in S PROVE f[x] <= SumFunctionOnSet(f, S)
  BY <1>2, TermWithinSum, Zenon
<1> QED
  BY <1>1, <1>3, <1>4

(* A table of weights, each at most the whole.                             *)
Weights(w) == \A m \in DOMAIN w : w[m] \in 0..Unit

LEMMA ValidMembers ==
    ASSUME NEW fs \in Answers
    PROVE  /\ IsFiniteSet(DOMAIN fs) /\ IsFiniteSet(ValidModels(fs))
           /\ ValidModels(fs) \subseteq DOMAIN fs
           /\ \A m \in DOMAIN fs : IsFiniteSet(Valid(fs, m)) /\ Cardinality(Valid(fs, m)) \in Nat
<1>1. PICK answered \in SUBSET Models : fs \in [answered -> Forecasts]
  BY DEF Answers
<1>2. IsFiniteSet(answered)
  BY FS_Subset, WeatherModelAssumption
<1>3. DOMAIN fs = answered /\ \A m \in answered : fs[m] \in Forecasts
  BY <1>1
<1>4. ValidModels(fs) \subseteq DOMAIN fs
  BY DEF ValidModels
<1>5. ASSUME NEW m \in answered
      PROVE  IsFiniteSet(Valid(fs, m)) /\ Cardinality(Valid(fs, m)) \in Nat
  <2>1. fs[m] \in Seq(Int \cup {Missing})
    BY <1>3, WeatherScanAssumption
  <2>2. DOMAIN fs[m] = 1..Len(fs[m]) /\ Len(fs[m]) \in Nat
    BY <2>1
  <2>3. IsFiniteSet(DOMAIN fs[m])
    BY <2>2, FS_Interval
  <2>4. Valid(fs, m) \subseteq DOMAIN fs[m]
    BY DEF Valid
  <2>5. IsFiniteSet(Valid(fs, m))
    BY <2>3, <2>4, FS_Subset
  <2> QED
    BY <2>5, FS_CardinalityType
<1>6. IsFiniteSet(ValidModels(fs))
  BY <1>2, <1>3, <1>4, FS_Subset
<1> QED
  BY <1>2, <1>3, <1>4, <1>5, <1>6

LEMMA ShareNat ==
    ASSUME NEW fs \in Answers, NEW w, Weights(w), NEW label
    PROVE  Share(fs, w, label) \in Nat
<1> DEFINE sizes == [m \in DOMAIN fs |-> Cardinality(Valid(fs, m))]
           rest(m) == Product(sizes, ValidModels(fs) \ {m})
           terms == [m \in ValidModels(fs) |->
                        Weight(w, m) * Cardinality(Hits(fs, m, label)) * rest(m)]
<1>1. Share(fs, w, label) = SumFunction(terms)
  BY Zenon DEF Share
<1>2. /\ IsFiniteSet(ValidModels(fs)) /\ ValidModels(fs) \subseteq DOMAIN fs
      /\ \A m \in DOMAIN fs : IsFiniteSet(Valid(fs, m)) /\ Cardinality(Valid(fs, m)) \in Nat
  BY ValidMembers
<1>3. ASSUME NEW m \in ValidModels(fs)
      PROVE  Weight(w, m) * Cardinality(Hits(fs, m, label)) * rest(m) \in Nat
  <2>1. Weight(w, m) \in Nat
    BY WeatherModelAssumption DEF Weight, Weights
  <2>2. Cardinality(Hits(fs, m, label)) \in Nat
    <3>1. Hits(fs, m, label) \subseteq Valid(fs, m) /\ IsFiniteSet(Valid(fs, m))
      BY <1>2 DEF Hits
    <3>2. IsFiniteSet(Hits(fs, m, label))
      BY <3>1, FS_Subset
    <3> QED
      BY <3>2, FS_CardinalityType
  <2>3. rest(m) \in Nat
    <3>1. IsFiniteSet(ValidModels(fs) \ {m})
      BY <1>2, FS_Subset
    <3>2. \A k \in ValidModels(fs) \ {m} : sizes[k] \in Nat
      BY <1>2
    <3> HIDE DEF sizes
    <3> QED
      BY <3>1, <3>2, PositiveProducts, ProductStaysIn, Zenon
  <2> HIDE DEF rest
  <2> QED
    BY <2>1, <2>2, <2>3, ProductNat
<1> HIDE DEF rest
<1>4. terms \in [ValidModels(fs) -> Nat]
  BY <1>3
<1> HIDE DEF terms
<1>5. SumFunction(terms) \in Nat
  BY <1>2, <1>4, SumBounds, Zenon
<1> QED
  BY <1>1, <1>5

(* calculate_probabilities: whatever the models forecast and the weights   *)
(* are, no bucket gets more than the whole probability.                    *)
LEMMA ProbabilityBounds ==
    ASSUME NEW fs \in Answers, NEW w, Weights(w), NEW label \in DOMAIN Buckets
    PROVE  Probability(fs, w, label) \in 0..One
<1> DEFINE shares == [l \in DOMAIN Buckets |-> Share(fs, w, l)]
<1>1. shares \in [DOMAIN Buckets -> Nat] /\ shares[label] = Share(fs, w, label)
  BY ShareNat
<1>2. Probability(fs, w, label) =
         IF SumFunction(shares) = 0 THEN 0
         ELSE (One * shares[label]) \div SumFunction(shares)
  BY <1>1, Zenon DEF Probability
<1> HIDE DEF shares
<1>3. SumFunction(shares) \in Nat /\ shares[label] <= SumFunction(shares)
  <2>1. IsFiniteSet(DOMAIN Buckets)
    BY WeatherModelAssumption
  <2> QED
    BY <1>1, <2>1, SumBounds, Zenon
<1>4. One \in Nat /\ shares[label] \in Nat
  BY <1>1, WeatherModelAssumption
<1> QED
  BY <1>2, <1>3, <1>4, PartOfWhole

LEMMA PenaltiesNat ==
    ASSUME NEW samples \in Samples, NEW m \in DOMAIN samples
    PROVE  Penalties(samples, m) \in Nat
<1> DEFINE terms == [i \in DOMAIN samples[m] |-> Penalty(samples[m][i])]
<1>1. samples[m] \in Seq([probability: 0..One, won: BOOLEAN]) /\ One \in Nat
  BY WeatherScanAssumption, WeatherModelAssumption
<1>2. DOMAIN samples[m] = 1..Len(samples[m]) /\ Len(samples[m]) \in Nat
  BY <1>1
<1>3. IsFiniteSet(DOMAIN samples[m])
  BY <1>2, FS_Interval
<1>4. ASSUME NEW i \in DOMAIN samples[m] PROVE Penalty(samples[m][i]) \in Nat
  <2> DEFINE s == samples[m][i]
  <2>1. s \in [probability: 0..One, won: BOOLEAN]
    <3>1. \A S : samples[m] \in Seq(S) => samples[m][i] \in S
      BY <1>2
    <3> QED
      BY <1>1, <3>1, Zenon
  <2> HIDE DEF s
  <2>2. s.probability \in Nat /\ One - s.probability \in Nat
    BY <1>1, <2>1
  <2>3. Penalty(s) \in Nat
    BY <2>2, ProductNat DEF Penalty
  <2> QED
    BY <2>3 DEF s
<1>5. terms \in [DOMAIN samples[m] -> Nat]
  BY <1>4
<1>6. Penalties(samples, m) = SumFunction(terms)
  BY Zenon DEF Penalties
<1> HIDE DEF terms
<1>7. SumFunction(terms) \in Nat
  BY <1>3, <1>5, SumBounds, Zenon
<1> QED
  BY <1>6, <1>7

LEMMA InverseBrierNat ==
    ASSUME NEW samples \in Samples, NEW m \in DOMAIN samples
    PROVE  /\ InverseBrier(samples, m) \in Nat
           /\ ~TooFew(samples) /\ (\A k \in DOMAIN samples : Penalties(samples, k) # 0)
                 => InverseBrier(samples, m) # 0
<1> DEFINE penalties == [k \in DOMAIN samples |-> Penalties(samples, k)]
           product == Product(penalties, DOMAIN samples \ {m})
<1>1. InverseBrier(samples, m) = Len(samples[m]) * product
  BY Zenon DEF InverseBrier
<1>2. IsFiniteSet(DOMAIN samples \ {m})
  BY FS_Subset, WeatherScanAssumption
<1>3. \A k \in DOMAIN samples \ {m} : /\ penalties[k] \in Nat
                                      /\ penalties[k] = Penalties(samples, k)
  BY PenaltiesNat
<1> HIDE DEF penalties
<1>4. product \in Nat
  <2>1. \A k \in DOMAIN samples \ {m} : penalties[k] \in Nat
    BY <1>3
  <2> QED
    BY <1>2, <2>1, PositiveProducts, ProductStaysIn, Zenon
<1>5. ASSUME \A k \in DOMAIN samples : Penalties(samples, k) # 0
      PROVE  product \in Nat \ {0}
  <2>1. \A k \in DOMAIN samples \ {m} : penalties[k] \in Nat \ {0}
    BY <1>3, <1>5
  <2> QED
    BY <1>2, <2>1, PositiveProducts, ProductStaysIn, Zenon
<1> HIDE DEF product
<1>6. Len(samples[m]) \in Nat
  BY WeatherScanAssumption
<1>7. ~TooFew(samples) => Len(samples[m]) # 0
  BY <1>6, WeatherModelAssumption DEF TooFew
<1>8. ASSUME NEW a \in Nat, NEW b \in Nat
      PROVE  a * b \in Nat /\ (a # 0 /\ b # 0 => a * b # 0)
  BY SMT
<1> QED
  BY <1>1, <1>4, <1>5, <1>6, <1>7, <1>8

(* compute_weights: whatever the settled signals hold, no model gets more  *)
(* than the whole weight.                                                  *)
LEMMA WeightBounds ==
    ASSUME NEW samples \in Samples, ComputeWeights(samples) # Missing
    PROVE  ComputeWeights(samples) \in [DOMAIN samples -> 0..Unit]
<1> DEFINE perfect == {m \in DOMAIN samples : Penalties(samples, m) = 0}
           inverses == [m \in DOMAIN samples |-> InverseBrier(samples, m)]
           total == SumFunction(inverses)
           best == [m \in DOMAIN samples |->
                       IF m = CHOOSE k \in perfect : TRUE THEN Unit ELSE 0]
           shared == [m \in DOMAIN samples |-> (Unit * InverseBrier(samples, m)) \div total]
<1>1. /\ ~TooFew(samples)
      /\ \/ ComputeWeights(samples) = best
         \/ perfect = {} /\ ComputeWeights(samples) = shared
  BY Zenon DEF ComputeWeights
<1>2. Unit \in Nat /\ IsFiniteSet(DOMAIN samples)
  BY WeatherModelAssumption, WeatherScanAssumption
<1>3. best \in [DOMAIN samples -> 0..Unit]
  BY <1>2
<1>4. inverses \in [DOMAIN samples -> Nat]
      /\ \A m \in DOMAIN samples : inverses[m] = InverseBrier(samples, m)
  BY InverseBrierNat
<1>5. ASSUME perfect = {} PROVE shared \in [DOMAIN samples -> 0..Unit]
  <2>1. ASSUME NEW m \in DOMAIN samples
        PROVE  (Unit * InverseBrier(samples, m)) \div total \in 0..Unit
    <3>1. InverseBrier(samples, m) \in Nat \ {0}
      BY <1>1, <1>5, InverseBrierNat
    <3>2. total \in Nat /\ InverseBrier(samples, m) <= total
      <4> HIDE DEF inverses
      <4>1. total \in Nat /\ inverses[m] <= total
        BY <1>2, <1>4, SumBounds, Zenon
      <4> QED
        BY <1>4, <4>1
    <3> HIDE DEF total
    <3> QED
      BY <1>2, <3>1, <3>2, PartOfWhole
  <2> HIDE DEF total
  <2> QED
    BY <2>1
<1> HIDE DEF best, shared
<1> QED
  BY <1>1, <1>3, <1>5

-----------------------------------------------------------------------------
(* Lemmas                                                                  *)

LEMMA EmptySession ==
    /\ TxShape(NoTx) /\ NoTx.rows = NoRows
    /\ Accounted({}, {}) = {}
<1>1. NoRows \in TxRows
  BY DEF NoRows, TxRows
<1>2. NoTx \in [known: BOOLEAN, books: BOOLEAN, plan: {NoTx.plan}, todo: Seq(AllMarkets),
               signal: {NoTx.signal}, tries: Nat, rows: TxRows]
  BY <1>1 DEF NoTx
<1> QED
  BY <1>2 DEF TxShape, Accounted, NoTx

(* Markets accounted for by rows of two places are those of each.          *)
LEMMA AccountedUnion ==
    ASSUME NEW R1, NEW R2, NEW S1, NEW S2
    PROVE  Accounted(R1 \cup R2, S1 \cup S2) = Accounted(R1, S1) \cup Accounted(R2, S2)
  BY DEF Accounted

(* What has not changed is the value it was.                               *)
LEMMA Unmoved ==
    ASSUME IInv, NEW p \in Scanners
    PROVE  /\ pc = [pc EXCEPT ![p] = pc[p]] /\ scan = [scan EXCEPT ![p] = scan[p]]
           /\ tx = [tx EXCEPT ![p] = tx[p]]
<1>1. /\ pc = [q \in Scanners |-> pc[q]] /\ scan = [q \in Scanners |-> scan[q]]
      /\ tx = [q \in Scanners |-> tx[q]]
  BY DEF IInv, ShapeOK
<1>2. ASSUME NEW f, f = [q \in Scanners |-> f[q]] PROVE f = [f EXCEPT ![p] = f[p]]
  BY <1>2
<1> QED
  BY <1>1, <1>2

LEMMA MarketsKnown == AllMarkets \subseteq DOMAIN MarketOf
<1>1. ASSUME NEW e \in AllEvents PROVE ToSet(EventOf[e].markets) \subseteq DOMAIN MarketOf
  <2>1. e \in DOMAIN EventOf
    BY WeatherScanAssumption DEF AllEvents, ToSet
  <2>2. EventOf[e].markets \in Seq(DOMAIN MarketOf)
    BY <2>1, WeatherScanAssumption
  <2> QED
    BY <2>2 DEF ToSet
<1> QED
  BY <1>1, Zenon DEF AllMarkets

LEMMA DomainTypes ==
    /\ Discovered \in Seq(AllEvents)
    /\ \A e \in AllEvents : EventOf[e].markets \in Seq(AllMarkets)
    /\ MaxScans \in Nat /\ MaxClock \in Nat
<1>1. ASSUME NEW s, NEW S, s \in Seq(S) PROVE s \in Seq(ToSet(s))
  <2>1. s \in [1..Len(s) -> S] /\ Len(s) \in Nat
    BY <1>1
  <2>2. s \in [1..Len(s) -> ToSet(s)]
    BY <2>1 DEF ToSet
  <2> QED
    BY <2>1, <2>2, SeqDef
<1>2. Discovered \in Seq(AllEvents)
  BY <1>1, WeatherScanAssumption DEF AllEvents
<1>3. ASSUME NEW e \in AllEvents PROVE EventOf[e].markets \in Seq(AllMarkets)
  <2>1. e \in DOMAIN EventOf
    BY WeatherScanAssumption DEF AllEvents, ToSet
  <2>2. EventOf[e].markets \in Seq(ToSet(EventOf[e].markets))
    BY <1>1, <2>1, WeatherScanAssumption
  <2>3. ToSet(EventOf[e].markets) \subseteq AllMarkets
    BY DEF AllMarkets
  <2> QED
    BY <2>2, <2>3, SeqMonotonic
<1> QED
  BY <1>2, <1>3, WeatherScanAssumption

(* The steps of other scanners keep what a session knows.                  *)
LEMMA OthersKeep ==
    ASSUME IInv, NEW q \in Scanners, ShapeOK',
           pc'[q] = pc[q], scan'[q] = scan[q], tx'[q] = tx[q],
           scans <= scans', clock <= clock',
           signals \subseteq signals', decided \subseteq decided',
           pc[q] \in Following => (tx[q].signal \in alerted' <=> tx[q].signal \in alerted),
           pc[q] \in Following => Copies(tx[q].signal, sent') = Copies(tx[q].signal, sent),
           pc[q] \in Following =>
               (tx[q].signal \in BagToSet(sent') <=> tx[q].signal \in BagToSet(sent))
    PROVE  Placed(q)' /\ Followed(q)'
<1>1. scans \in Int /\ scans' \in Int /\ clock \in Int /\ clock' \in Int
  BY DomainTypes DEF IInv, ShapeOK
<1>2. 1..scans \subseteq 1..scans' /\ 0..clock \subseteq 0..clock'
  BY <1>1
<1>3. ScanShape(scan[q]) => ScanShape(scan[q])'
  BY <1>2 DEF ScanShape
<1>4. Placed(q)'
  BY <1>3 DEF IInv, Placed, Session, TxShape
<1>5. Followed(q)'
  BY DEF IInv, Followed, Following
<1> QED
  BY <1>4, <1>5

(* Session p moves on to another place.                                    *)
MovesTo(p, label, s, t) ==
    /\ pc' = [pc EXCEPT ![p] = label]
    /\ scan' = [scan EXCEPT ![p] = s]
    /\ tx' = [tx EXCEPT ![p] = t]
    /\ scans' \in 0..MaxScans /\ scans <= scans' /\ clock' = clock

LEMMA SessionMoves ==
    ASSUME IInv, NEW p \in Scanners, NEW label \in Labels, NEW s, NEW t,
           MovesTo(p, label, s, t)
    PROVE  /\ ShapeOK'
           /\ pc'[p] = label /\ scan'[p] = s /\ tx'[p] = t
           /\ \A q \in Scanners \ {p} :
                 pc'[q] = pc[q] /\ scan'[q] = scan[q] /\ tx'[q] = tx[q]
           /\ clock \in Int /\ scans \in Int
<1>1. /\ pc \in [Scanners -> Labels] /\ clock \in 0..MaxClock /\ scans \in 0..MaxScans
      /\ scan = [q \in Scanners |-> scan[q]] /\ tx = [q \in Scanners |-> tx[q]]
  BY DEF IInv, ShapeOK
<1>2. scan' = [q \in Scanners |-> IF q = p THEN s ELSE scan[q]]
  BY <1>1 DEF MovesTo
<1>3. tx' = [q \in Scanners |-> IF q = p THEN t ELSE tx[q]]
  BY <1>1 DEF MovesTo
<1>4. scan' = [q \in Scanners |-> scan'[q]] /\ tx' = [q \in Scanners |-> tx'[q]]
  BY <1>2, <1>3, Zenon
<1>5. pc' \in [Scanners -> Labels] /\ pc'[p] = label
      /\ \A q \in Scanners \ {p} : pc'[q] = pc[q]
  BY <1>1 DEF MovesTo
<1> QED
  BY <1>1, <1>2, <1>3, <1>4, <1>5, DomainTypes DEF ShapeOK, MovesTo

(* It moves without storing, deciding or sending a signal.                 *)
LEMMA Move ==
    ASSUME IInv, NEW p \in Scanners, NEW label \in Labels \ Following, NEW s, NEW t,
           MovesTo(p, label, s, t), signals' = signals, DecisionsComplete',
           decided' = decided, alerted' \subseteq alerted \cup BagToSet(sent), sent' = sent,
           alerted \subseteq alerted',
           \A q \in Scanners \ {p} : pc[q] \in Following => tx[q].signal \notin alerted' \ alerted,
           cut \subseteq cut', pc[p] = "execute" => scan[p].n \in cut',
           Session(label, s, t)'
    PROVE  IInv'
<1>1. /\ ShapeOK'
      /\ pc'[p] = label /\ scan'[p] = s /\ tx'[p] = t
      /\ \A q \in Scanners \ {p} : pc'[q] = pc[q] /\ scan'[q] = scan[q] /\ tx'[q] = tx[q]
      /\ clock \in Int
  BY SessionMoves
<1>2. \A q \in Scanners \ {p} : Placed(q)' /\ Followed(q)'
  BY <1>1, OthersKeep DEF MovesTo
<1>3. Placed(p)' /\ Followed(p)'
  BY <1>1 DEF Placed, Followed, Following
<1>4. FollowedOnce'
  BY <1>1 DEF IInv, FollowedOnce
<1>5. SentInOrder' /\ AlertsBounded'
  BY DEF IInv, SentInOrder, AlertsBounded, Stored
<1>6. Undecided'
  BY <1>1 DEF IInv, Undecided
<1> QED
  BY <1>1, <1>2, <1>3, <1>4, <1>5, <1>6 DEF IInv

(* Nor does it commit anything.                                            *)
LEMMA QuietMove ==
    ASSUME IInv, NEW p \in Scanners, NEW label \in Labels \ Following, NEW s, NEW t,
           MovesTo(p, label, s, t), written' = written,
           decided' = decided, alerted' = alerted, sent' = sent,
           cut \subseteq cut', pc[p] = "execute" => scan[p].n \in cut',
           Session(label, s, t)'
    PROVE  IInv'
<1>1. DecisionsComplete' /\ signals' = signals
  BY DEF IInv, DecisionsComplete, written
<1> QED
  BY <1>1, Move

(* The session ends, the scan having finished, raised or died.             *)
LEMMA EndScanKeepsInv ==
    ASSUME IInv, NEW p \in Scanners, EndScan(p),
           UNCHANGED <<clock, scans, written, others, sent>>,
           cut \subseteq cut', pc[p] = "execute" => scan[p].n \in cut'
    PROVE  IInv'
<1>1. Session("idle", None, NoTx)'
  BY EmptySession DEF Session, Following, InEvent, TxShape, NoRows
<1>2. scans' \in 0..MaxScans /\ scans <= scans'
  BY DomainTypes DEF IInv, ShapeOK
<1>3. MovesTo(p, "idle", None, NoTx) /\ "idle" \in Labels \ Following
  BY <1>2 DEF MovesTo, EndScan, Goto, Labels, Following
<1> QED
  BY <1>1, <1>3, QuietMove DEF others

LEMMA RaiseKeepsInv ==
    ASSUME IInv, NEW p \in Scanners, Raise(p)
    PROVE  IInv'
  BY EndScanKeepsInv DEF Raise

-----------------------------------------------------------------------------
(* Reading, before anything is written                                     *)

(* Where p is, in a scan and outside an event.                             *)
LEMMA InScan ==
    ASSUME IInv, NEW p \in Scanners, pc[p] # "idle"
    PROVE  /\ scans \in 0..MaxScans /\ clock \in 0..MaxClock
           /\ scans \in Nat /\ clock \in Nat
           /\ scan[p] \in [n: 1..scans, now: 0..clock, todo: Seq(AllEvents),
                           weights: {scan[p].weights}]
           /\ scan[p].n \in 1..MaxScans
           /\ Session(pc[p], scan[p], tx[p])
<1>1. scan[p] \in [n: 1..scans, now: 0..clock, todo: Seq(AllEvents), weights: {scan[p].weights}]
      /\ Session(pc[p], scan[p], tx[p])
  BY DEF IInv, Placed, Session, ScanShape
<1> QED
  BY <1>1, DomainTypes DEF IInv, ShapeOK

LEMMA BeginKeepsInv ==
    ASSUME IInv, NEW p \in Scanners, Begin(p)
    PROVE  IInv'
<1> DEFINE new == [n |-> scans + 1, now |-> clock, todo |-> << >>, weights |-> << >>]
<1>1. /\ scans \in 0..MaxScans /\ clock \in 0..MaxClock /\ scans < MaxScans
      /\ MaxScans \in Nat /\ MaxClock \in Nat
  BY DomainTypes DEF Begin, IInv, ShapeOK
<1>2. tx[p] = NoTx
  BY DEF Begin, IInv, Placed, Session, InEvent, Following
<1>3. /\ pc' = [pc EXCEPT ![p] = "discover"] /\ scan' = [scan EXCEPT ![p] = new]
      /\ tx' = [tx EXCEPT ![p] = NoTx] /\ scans' = scans + 1 /\ clock' = clock
  BY <1>2 DEF Begin, Goto, IInv, ShapeOK
<1>4. new \in [n: 1..(scans + 1), now: 0..clock, todo: Seq(AllEvents), weights: {new.weights}]
  BY <1>1
<1>5. ASSUME NEW s, s = new PROVE Session("discover", s, NoTx)'
  <2>1. ScanShape(s)'
    BY <1>3, <1>4, <1>5 DEF ScanShape
  <2> QED
    BY <2>1, EmptySession DEF Session, Following, InEvent, TxShape, NoRows
<1>6. MovesTo(p, "discover", new, NoTx) /\ "discover" \in Labels \ Following
  BY <1>1, <1>3 DEF MovesTo, Labels, Following
<1>7. UNCHANGED <<written, decided, alerted, sent, cut>> /\ pc[p] # "execute"
  BY DEF Begin, others, seen
<1> HIDE DEF new
<1> QED
  BY <1>5, <1>6, <1>7, QuietMove

LEMMA DiscoverKeepsInv ==
    ASSUME IInv, NEW p \in Scanners, Discover(p)
    PROVE  IInv'
<1> DEFINE new == [scan[p] EXCEPT !.todo = Discovered, !.weights = weights]
<1>1. /\ scan[p] \in [n: 1..scans, now: 0..clock, todo: Seq(AllEvents),
                      weights: {scan[p].weights}]
      /\ tx[p] = NoTx /\ scans \in 0..MaxScans /\ scans \in Nat
  BY InScan DEF Discover, Session, InEvent, Following
<1>2. /\ pc' = [pc EXCEPT ![p] = "event"] /\ scan' = [scan EXCEPT ![p] = new]
      /\ tx' = [tx EXCEPT ![p] = NoTx] /\ scans' = scans /\ clock' = clock
  BY <1>1 DEF Discover, Goto, IInv, ShapeOK
<1>3. new \in [n: 1..scans, now: 0..clock, todo: Seq(AllEvents), weights: {new.weights}]
  BY <1>1, DomainTypes
<1>4. ASSUME NEW s, s = new PROVE Session("event", s, NoTx)'
  <2>1. ScanShape(s)'
    BY <1>2, <1>3, <1>4 DEF ScanShape
  <2> QED
    BY <2>1, EmptySession DEF Session, Following, InEvent, TxShape, NoRows
<1>5. MovesTo(p, "event", new, NoTx) /\ "event" \in Labels \ Following
  BY <1>1, <1>2 DEF MovesTo, Labels, Following
<1>6. UNCHANGED <<written, decided, alerted, sent, cut>> /\ pc[p] # "execute"
  BY DEF Discover, others, seen
<1> HIDE DEF new
<1> QED
  BY <1>4, <1>5, <1>6, QuietMove

(* The event at hand, and the sequences cut at their heads.                *)
LEMMA AtEvent ==
    ASSUME IInv, NEW p \in Scanners, pc[p] # "idle", scan[p].todo # << >>
    PROVE  /\ Head(scan[p].todo) \in AllEvents /\ Tail(scan[p].todo) \in Seq(AllEvents)
           /\ EventOf[Head(scan[p].todo)].markets \in Seq(AllMarkets)
<1>1. scan[p].todo \in Seq(AllEvents)
  BY InScan
<1> QED
  BY <1>1, DomainTypes

LEMMA NextEventKeepsInv ==
    ASSUME IInv, NEW p \in Scanners, NextEvent(p)
    PROVE  IInv'
<1> DEFINE e == Head(scan[p].todo)
           rest == [scan[p] EXCEPT !.todo = Tail(scan[p].todo)]
           new == [NoTx EXCEPT !.known = e \in events, !.todo = EventOf[e].markets]
<1>1. /\ scan[p] \in [n: 1..scans, now: 0..clock, todo: Seq(AllEvents),
                      weights: {scan[p].weights}]
      /\ tx[p] = NoTx /\ scan[p].todo # << >> /\ scans \in 0..MaxScans /\ scans \in Nat
  BY InScan DEF NextEvent, Session, InEvent, Following
<1>2. scans' = scans /\ clock' = clock
  BY DEF NextEvent
<1>3. Tail(scan[p].todo) \in Seq(AllEvents) /\ EventOf[e].markets \in Seq(AllMarkets)
  BY <1>1, AtEvent DEF NextEvent
<1>4. UNCHANGED <<written, decided, alerted, sent, cut>> /\ pc[p] # "execute"
  BY DEF NextEvent, others, seen
<1>5. CASE EventOf[e].route = "other"
  <2>1. MovesTo(p, "event", rest, NoTx) /\ "event" \in Labels \ Following
    <3>1. pc' = pc /\ tx' = tx /\ scan' = [scan EXCEPT ![p] = rest]
      BY <1>5 DEF NextEvent, IInv, ShapeOK
    <3>2. pc[p] = "event"
      BY DEF NextEvent
    <3> QED
      BY <1>1, <1>2, <3>1, <3>2, Unmoved DEF MovesTo, Labels, Following
  <2>2. ASSUME NEW s, s = rest PROVE Session("event", s, NoTx)'
    <3>1. s \in [n: 1..scans, now: 0..clock, todo: Seq(AllEvents), weights: {s.weights}]
      BY <1>1, <1>3, <2>2
    <3> QED
      BY <1>2, <3>1, EmptySession
         DEF Session, ScanShape, Following, InEvent, TxShape, NoRows
  <2> HIDE DEF rest
  <2> QED
    BY <1>4, <2>1, <2>2, QuietMove
<1>6. CASE EventOf[e].route # "other"
  <2>1. MovesTo(p, "upsert", scan[p], new) /\ "upsert" \in Labels \ Following
    <3>1. pc' = [pc EXCEPT ![p] = "upsert"] /\ scan' = scan /\ tx' = [tx EXCEPT ![p] = new]
      BY <1>6 DEF NextEvent, Goto, IInv, ShapeOK
    <3> QED
      BY <1>1, <1>2, <3>1, Unmoved DEF MovesTo, Labels, InEvent, Following
  <2>2. ASSUME NEW s, NEW t, s = scan[p], t = new PROVE Session("upsert", s, t)'
    <3>1. ScanShape(s)'
      BY <1>1, <1>2, <2>2 DEF ScanShape
    <3>2. t = [known |-> e \in events, books |-> FALSE, plan |-> None,
               todo |-> EventOf[e].markets, signal |-> None, tries |-> 0, rows |-> NoRows]
      BY <2>2, Zenon DEF NoTx
    <3>3. NoRows \in TxRows
      BY EmptySession DEF TxShape
    <3>4. TxShape(t) /\ t.rows = NoRows
      BY <1>3, <3>2, <3>3 DEF TxShape
    <3>5. NoRows.estimates = {} /\ NoRows.rejections = {}
      BY DEF NoRows
    <3>6. s.todo # << >>
      BY <1>1, <2>2
    <3>7. TxShape(t)'
      BY <3>4 DEF TxShape
    <3> HIDE DEF new
    <3> QED
      BY <3>1, <3>4, <3>5, <3>6, <3>7, EmptySession DEF Session, Following, InEvent
  <2> HIDE DEF new
  <2> QED
    BY <1>4, <2>1, <2>2, QuietMove
<1> QED
  BY <1>5, <1>6

-----------------------------------------------------------------------------
(* The session of one event                                                *)

(* Within an event only the session itself changes, until it commits.      *)
LEMMA TxMove ==
    ASSUME IInv, NEW p \in Scanners, pc[p] \in {"upsert", "books", "forecast", "market"},
           NEW label \in {"books", "forecast", "market", "insert"}, NEW t,
           pc' = [pc EXCEPT ![p] = label], tx' = [tx EXCEPT ![p] = t],
           UNCHANGED <<clock, scan, scans, written, others, seen>>,
           TxShape(t), label = "insert" => t.todo # << >>,
           t.rows.estimates =
               Accounted(t.rows.rejections, {})
                   \cup IF label = "insert" THEN {<<scan[p].n, t.signal[1]>>} ELSE {}
    PROVE  IInv'
<1>1. MovesTo(p, label, scan[p], t) /\ label \in Labels \ Following
  <2>1. scan' = [scan EXCEPT ![p] = scan[p]]
    BY Unmoved
  <2>2. scans' \in 0..MaxScans /\ scans <= scans'
    BY InScan
  <2> QED
    BY <2>1, <2>2 DEF MovesTo, Labels, InEvent, Following
<1>2. /\ ScanShape(scan[p]) /\ scan[p].todo # << >>
  BY DEF InEvent, IInv, Placed, Session
<1>3. ASSUME NEW s, s = scan[p] PROVE Session(label, s, t)'
  <2>1. ScanShape(s)'
    BY <1>2, <1>3 DEF ScanShape
  <2> QED
    BY <1>2, <1>3, <2>1 DEF Session, Following, InEvent, TxShape
<1> QED
  BY <1>1, <1>3, QuietMove DEF others, seen

LEMMA UpsertKeepsInv ==
    ASSUME IInv, NEW p \in Scanners, Upsert(p)
    PROVE  IInv'
<1> DEFINE e == Head(scan[p].todo)
           rejected == EventOf[e].route = "rejected"
           refusals == IF rejected THEN RejectAll(p, e) ELSE {}
           rest == IF rejected THEN << >> ELSE tx[p].todo
           rows == WithEvent(tx[p].rows, e, refusals)
           new == [tx[p] EXCEPT !.rows = rows, !.todo = rest]
           label == IF rejected THEN "market" ELSE "books"
<1>1. UNCHANGED <<clock, scan, scans, written, others, seen>> /\ pc[p] = "upsert"
  BY DEF Upsert
<1>2. /\ scan[p].n \in 1..MaxScans /\ scan[p].todo # << >>
      /\ TxShape(tx[p]) /\ tx[p].rows = NoRows
  BY <1>1, InScan DEF Session, InEvent
<1>3. e \in AllEvents /\ EventOf[e].markets \in Seq(AllMarkets)
  BY <1>1, <1>2, AtEvent
<1>4. /\ pc' = [pc EXCEPT ![p] = label] /\ tx' = [tx EXCEPT ![p] = new]
  <2>1. /\ tx' = [tx EXCEPT ![p].rows = rows, ![p].todo = rest]
        /\ pc' = [pc EXCEPT ![p] = label]
    BY Zenon DEF Upsert, Goto
  <2> HIDE DEF rows, rest
  <2> QED
    BY <2>1 DEF IInv, ShapeOK
<1>5. refusals \in SUBSET ((1..MaxScans) \X AllMarkets \X Whys)
      /\ Accounted(refusals, {}) = {}
  <2>1. ToSet(EventOf[e].markets) \subseteq AllMarkets
    BY <1>3 DEF AllMarkets
  <2>2. RejectAll(p, e) \in SUBSET ((1..MaxScans) \X AllMarkets \X Whys)
    <3> HIDE DEF e
    <3>1. ASSUME NEW m \in ToSet(EventOf[e].markets)
          PROVE  <<scan[p].n, m, "route">> \in (1..MaxScans) \X AllMarkets \X Whys
      BY <1>2, <2>1 DEF Whys
    <3> QED
      BY <3>1, Zenon DEF RejectAll
  <2>3. Accounted(RejectAll(p, e), {}) = {}
    BY DEF RejectAll, Accounted
  <2> QED
    BY <2>2, <2>3, EmptySession
<1>6. /\ rows \in TxRows /\ rows.estimates = {} /\ rows.rejections = refusals
  <2>1. tx[p].rows \in TxRows /\ NoRows.estimates = {}
    BY <1>2 DEF TxShape, NoRows
  <2> HIDE DEF refusals, e
  <2> QED
    BY <1>2, <1>3, <1>5, <2>1 DEF TxRows, WithEvent
<1>7. rest \in Seq(AllMarkets)
  BY <1>2 DEF TxShape
<1>8. ASSUME NEW t, t = new
      PROVE  TxShape(t) /\ t.rows.estimates = Accounted(t.rows.rejections, {})
  <2> HIDE DEF rows, rest, refusals
  <2> QED
    BY <1>2, <1>5, <1>6, <1>7, <1>8 DEF TxShape
<1>9. label \in {"books", "market"}
  OBVIOUS
<1> HIDE DEF new, label
<1> QED
  BY <1>1, <1>4, <1>8, <1>9, TxMove

LEMMA GetBooksKeepsInv ==
    ASSUME IInv, NEW p \in Scanners, GetBooks(p)
    PROVE  IInv'
<1>1. PICK books \in BOOLEAN : tx' = [tx EXCEPT ![p].books = books]
  BY DEF GetBooks
<1> DEFINE new == [tx[p] EXCEPT !.books = books]
<1>2. Session("books", scan[p], tx[p]) /\ TxShape(tx[p])
  BY InScan DEF GetBooks, Session
<1>3. pc' = [pc EXCEPT ![p] = "forecast"] /\ tx' = [tx EXCEPT ![p] = new]
  BY <1>1 DEF GetBooks, Goto, IInv, ShapeOK
<1>4. ASSUME NEW t, t = new
      PROVE  TxShape(t) /\ t.rows.estimates = Accounted(t.rows.rejections, {})
  BY <1>2, <1>4 DEF TxShape, Session
<1>5. UNCHANGED <<clock, scan, scans, written, others, seen>> /\ pc[p] = "books"
  BY DEF GetBooks
<1> HIDE DEF new
<1> QED
  BY <1>3, <1>4, <1>5, TxMove

LEMMA ForecastKeepsInv ==
    ASSUME IInv, NEW p \in Scanners, Forecast(p)
    PROVE  IInv'
<1>1. PICK plan : tx' = [tx EXCEPT ![p].plan = plan]
  BY DEF Forecast
<1> DEFINE new == [tx[p] EXCEPT !.plan = plan]
<1>2. Session("forecast", scan[p], tx[p]) /\ TxShape(tx[p])
  BY InScan DEF Forecast, Session
<1>3. pc' = [pc EXCEPT ![p] = "market"] /\ tx' = [tx EXCEPT ![p] = new]
  BY <1>1 DEF Forecast, Goto, IInv, ShapeOK
<1>4. ASSUME NEW t, t = new
      PROVE  TxShape(t) /\ t.rows.estimates = Accounted(t.rows.rejections, {})
  BY <1>2, <1>4 DEF TxShape, Session
<1>5. UNCHANGED <<clock, scan, scans, written, others, seen>> /\ pc[p] = "forecast"
  BY DEF Forecast
<1> HIDE DEF new
<1> QED
  BY <1>3, <1>4, <1>5, TxMove

(* A market is judged: its estimate is written with the reason it is       *)
(* refused for, or stands alone until its signal is inserted.              *)
LEMMA EvaluateKeepsInv ==
    ASSUME IInv, NEW p \in Scanners, Evaluate(p)
    PROVE  IInv'
<1>1. /\ UNCHANGED <<clock, scan, scans, written, others, seen>>
      /\ pc[p] = "market" /\ tx[p].todo # << >>
  BY DEF Evaluate
<1> DEFINE m == Head(tx[p].todo)
           n == scan[p].n
           rows == WithEstimate(tx[p].rows, n, m)
           turned(why) == WithReason(rows, {<<n, m, why>>})
<1>2. PICK why, signal :
        /\ why \in {"policy", "duplicate_signal"}
        /\ \/ /\ tx' = [tx EXCEPT ![p].rows = turned(why), ![p].todo = Tail(@)]
              /\ UNCHANGED pc
           \/ /\ tx' = [tx EXCEPT ![p].rows = rows, ![p].signal = signal]
              /\ signal[1] = m
              /\ pc' = [pc EXCEPT ![p] = "insert"]
  <2>1. PICK ask \in Asks \cup {Missing} :
          LET c == Candidate(p, m, ask)
              refused == Reasons(c) # {}
              why == IF refused THEN "policy" ELSE "duplicate_signal"
          IN  IF refused \/ Duplicate(p, Fingerprint(m, c))
              THEN /\ tx' = [tx EXCEPT ![p].rows = WithReason(rows, Verdict(p, m, why)),
                                      ![p].todo = Tail(@)]
                   /\ UNCHANGED pc
              ELSE /\ tx' = [tx EXCEPT ![p].rows = rows, ![p].signal = Fingerprint(m, c)]
                   /\ Goto(p, "insert")
    BY Zenon DEF Evaluate
  <2> DEFINE c == Candidate(p, m, ask)
             refused == Reasons(c) # {}
             reason == IF refused THEN "policy" ELSE "duplicate_signal"
  <2>2. reason \in {"policy", "duplicate_signal"}
    OBVIOUS
  <2>3. Fingerprint(m, c)[1] = m
    BY DEF Fingerprint
  <2>4. Verdict(p, m, reason) = {<<n, m, reason>>}
    BY DEF Verdict
  <2> HIDE DEF m, rows, n
  <2>5. CASE refused \/ Duplicate(p, Fingerprint(m, c))
    <3>1. /\ tx' = [tx EXCEPT ![p].rows = turned(reason), ![p].todo = Tail(@)]
          /\ UNCHANGED pc
      BY <2>1, <2>4, <2>5, Zenon
    <3> HIDE DEF reason, turned
    <3> WITNESS reason, None
    <3> QED
      BY <2>2, <3>1
  <2>6. CASE ~(refused \/ Duplicate(p, Fingerprint(m, c)))
    <3>1. /\ tx' = [tx EXCEPT ![p].rows = rows, ![p].signal = Fingerprint(m, c)]
          /\ pc' = [pc EXCEPT ![p] = "insert"]
      BY <2>1, <2>6, Zenon DEF Goto
    <3> HIDE DEF turned
    <3> WITNESS "policy", Fingerprint(m, c)
    <3> QED
      BY <2>3, <3>1
  <2> QED
    BY <2>5, <2>6
<1>3. /\ TxShape(tx[p]) /\ n \in 1..MaxScans
      /\ tx[p].rows.estimates = Accounted(tx[p].rows.rejections, {})
  BY <1>1, InScan DEF Session
<1>4. m \in AllMarkets /\ Tail(tx[p].todo) \in Seq(AllMarkets)
  BY <1>1, <1>3 DEF TxShape
<1>5. /\ rows \in TxRows /\ rows.rejections = tx[p].rows.rejections
      /\ rows.estimates = tx[p].rows.estimates \cup {<<n, m>>}
  <2>1. tx[p].rows \in TxRows /\ <<n, m>> \in (1..MaxScans) \X AllMarkets
    BY <1>3, <1>4 DEF TxShape
  <2> HIDE DEF m
  <2> QED
    BY <1>4, <2>1 DEF TxRows, WithEstimate
<1> HIDE DEF rows
<1>6. CASE /\ tx' = [tx EXCEPT ![p].rows = turned(why), ![p].todo = Tail(@)]
           /\ UNCHANGED pc
  <2> DEFINE new == [tx[p] EXCEPT !.rows = turned(why), !.todo = Tail(tx[p].todo)]
  <2>1. /\ turned(why) \in TxRows
        /\ turned(why).estimates = tx[p].rows.estimates \cup {<<n, m>>}
        /\ turned(why).rejections = tx[p].rows.rejections \cup {<<n, m, why>>}
    <3>0. why \in {"policy", "duplicate_signal"}
      BY <1>2
    <3>1. {<<n, m, why>>} \in SUBSET ((1..MaxScans) \X AllMarkets \X Whys)
      BY <1>3, <1>4, <3>0 DEF Whys
    <3> HIDE DEF m, n
    <3> QED
      BY <1>5, <3>1 DEF TxRows, WithReason
  <2>2. turned(why).estimates = Accounted(turned(why).rejections, {})
    <3>1. Accounted({<<n, m, why>>}, {}) = {<<n, m>>}
      <4> DEFINE r == <<n, m, why>>
      <4>1. r[1] = n /\ r[2] = m /\ r[3] # "route"
        BY <1>2
      <4> HIDE DEF r
      <4>2. {<<x[1], x[2]>> : x \in {x \in {r} : x[3] # "route"}} = {<<r[1], r[2]>>}
        BY <4>1
      <4> QED
        BY <4>1, <4>2 DEF Accounted, r
    <3>2. Accounted(tx[p].rows.rejections \cup {<<n, m, why>>}, {} \cup {})
              = Accounted(tx[p].rows.rejections, {}) \cup {<<n, m>>}
      BY <3>1, AccountedUnion
    <3> QED
      BY <1>3, <2>1, <3>2
  <2>3. ASSUME NEW t, t = new
        PROVE  TxShape(t) /\ t.rows.estimates = Accounted(t.rows.rejections, {})
    <3> HIDE DEF turned
    <3> QED
      BY <1>3, <1>4, <2>1, <2>2, <2>3 DEF TxShape
  <2>4. tx' = [tx EXCEPT ![p] = new]
    <3> HIDE DEF turned
    <3> QED
      BY <1>6 DEF IInv, ShapeOK
  <2>5. pc' = [pc EXCEPT ![p] = "market"]
    BY <1>1, <1>6, Unmoved
  <2> HIDE DEF new
  <2> QED
    BY <1>1, <2>3, <2>4, <2>5, TxMove
<1>7. CASE /\ tx' = [tx EXCEPT ![p].rows = rows, ![p].signal = signal]
           /\ signal[1] = m
           /\ pc' = [pc EXCEPT ![p] = "insert"]
  <2> DEFINE new == [tx[p] EXCEPT !.rows = rows, !.signal = signal]
  <2>1. rows.estimates = Accounted(rows.rejections, {}) \cup {<<n, signal[1]>>}
    BY <1>3, <1>5, <1>7
  <2>2. ASSUME NEW t, t = new
        PROVE  /\ TxShape(t) /\ t.todo # << >>
               /\ t.rows.estimates = Accounted(t.rows.rejections, {}) \cup {<<n, t.signal[1]>>}
    BY <1>1, <1>3, <1>5, <2>1, <2>2 DEF TxShape
  <2>3. tx' = [tx EXCEPT ![p] = new]
    BY <1>7 DEF IInv, ShapeOK
  <2> HIDE DEF new
  <2> QED
    BY <1>1, <1>7, <2>2, <2>3, TxMove
<1> QED
  BY <1>2, <1>6, <1>7

-----------------------------------------------------------------------------
(* Commits                                                                 *)

(* A commit whose rows account for their estimates.                        *)
LEMMA CommitComplete ==
    ASSUME IInv, NEW rows, WriteRows(rows),
           rows.estimates = Accounted(rows.rejections, rows.signals)
    PROVE  DecisionsComplete'
<1>1. estimates = Accounted(rejections, signals)
  BY DEF IInv, DecisionsComplete, Accounted
<1>2. Accounted(rejections \cup rows.rejections, signals \cup rows.signals)
          = Accounted(rejections, signals) \cup Accounted(rows.rejections, rows.signals)
  BY AccountedUnion
<1>3. estimates' = Accounted(rejections', signals')
  BY <1>1, <1>2 DEF WriteRows
<1> QED
  BY <1>3 DEF DecisionsComplete, Accounted

(* A signal nobody has stored is not followed, decided or sent.            *)
LEMMA NewSignal ==
    ASSUME IInv, NEW fp, ~Stored(fp)
    PROVE  /\ fp \notin decided /\ fp \notin BagToSet(sent)
           /\ \A q \in Scanners : pc[q] \in Following => tx[q].signal # fp
<1>1. fp \notin decided
  BY DEF IInv, SentInOrder
<1>2. BagToSet(sent) \subseteq decided
  BY DEF IInv, SentInOrder
<1>3. ASSUME NEW q \in Scanners, pc[q] \in Following PROVE tx[q].signal # fp
  BY <1>3 DEF IInv, Followed, Stored
<1> QED
  BY <1>1, <1>2, <1>3

LEMMA InsertSignalKeepsInv ==
    ASSUME IInv, NEW p \in Scanners, InsertSignal(p)
    PROVE  IInv'
<1> DEFINE signal == [fingerprint |-> tx[p].signal, scan |-> scan[p].n]
           rows == [tx[p].rows EXCEPT !.signals = @ \cup {signal}]
           new == [tx[p] EXCEPT !.rows = NoRows]
<1>1. /\ pc[p] = "insert" /\ ~Stored(tx[p].signal)
      /\ UNCHANGED <<clock, scan, scans, others, seen>>
      /\ WriteRows(rows) /\ pc' = [pc EXCEPT ![p] = "execute"]
  BY DEF InsertSignal, CommitSignal, FingerprintTaken, ExecuteNext, Goto
<1>2. tx' = [tx EXCEPT ![p] = new]
  BY DEF InsertSignal, CommitSignal, IInv, ShapeOK
<1>3. /\ ScanShape(scan[p]) /\ scan[p].todo # << >>
      /\ TxShape(tx[p]) /\ tx[p].todo # << >>
      /\ tx[p].rows.estimates =
             Accounted(tx[p].rows.rejections, {}) \cup {<<scan[p].n, tx[p].signal[1]>>}
  BY <1>1, InScan DEF Session, InEvent, IInv, Placed
<1>4. /\ rows.estimates = tx[p].rows.estimates
      /\ rows.rejections = tx[p].rows.rejections /\ rows.signals = {signal}
  BY <1>3 DEF TxShape, TxRows
<1>5. signals' = signals \cup {signal}
  BY <1>1, <1>4 DEF WriteRows
<1>6. DecisionsComplete'
  <2>1. Accounted({}, {signal}) = {<<scan[p].n, tx[p].signal[1]>>}
    BY DEF Accounted
  <2>2. Accounted(tx[p].rows.rejections \cup {}, {} \cup {signal})
            = Accounted(tx[p].rows.rejections, {}) \cup Accounted({}, {signal})
    BY AccountedUnion
  <2>3. rows.estimates = Accounted(rows.rejections, rows.signals)
    BY <1>3, <1>4, <2>1, <2>2
  <2> HIDE DEF rows
  <2> QED
    BY <1>1, <2>3, CommitComplete
<1>7. ASSUME NEW t, t = new PROVE Session("execute", scan[p], t)' /\ t.signal = tx[p].signal
  <2>1. scan'[p] = scan[p] /\ ScanShape(scan[p])'
    BY <1>1, <1>3 DEF ScanShape
  <2>2. /\ TxShape(t) /\ t.todo # << >> /\ t.rows = NoRows /\ t.signal = tx[p].signal
    <3>1. NoRows \in TxRows
      BY EmptySession DEF TxShape
    <3> QED
      BY <1>3, <1>7, <3>1 DEF TxShape
  <2>3. NoRows.estimates = {} /\ NoRows.rejections = {}
    BY DEF NoRows
  <2>4. TxShape(t)' /\ scan'[p].todo # << >>
    BY <1>3, <2>1, <2>2 DEF TxShape
  <2> QED
    BY <2>1, <2>2, <2>3, <2>4, EmptySession DEF Session, Following, InEvent
<1> HIDE DEF new, rows
<1>8. MovesTo(p, "execute", scan[p], new) /\ "execute" \in Labels
  <2>1. scan' = [scan EXCEPT ![p] = scan[p]]
    BY <1>1, Unmoved
  <2>2. scans' \in 0..MaxScans /\ scans <= scans'
    BY <1>1, InScan
  <2> QED
    BY <1>1, <1>2, <2>1, <2>2 DEF MovesTo, Labels, InEvent, Following
<1>9. /\ ShapeOK' /\ pc'[p] = "execute" /\ scan'[p] = scan[p] /\ tx'[p] = new
      /\ \A q \in Scanners \ {p} : pc'[q] = pc[q] /\ scan'[q] = scan[q] /\ tx'[q] = tx[q]
      /\ clock \in Int /\ scans \in Int
  BY <1>8, SessionMoves
<1>10. /\ decided' = decided /\ sent' = sent /\ alerted' = alerted /\ cut' = cut
  BY <1>1 DEF others, seen
<1>11. \A q \in Scanners \ {p} : Placed(q)' /\ Followed(q)'
  BY <1>1, <1>5, <1>9, <1>10, OthersKeep
<1>12. tx'[p].signal = tx[p].signal /\ Placed(p)'
  BY <1>7, <1>9 DEF Placed
<1>13. Followed(p)'
  BY <1>1, <1>5, <1>9, <1>10, <1>12, NewSignal DEF Followed, IInv, SentInOrder
<1>14. FollowedOnce'
  BY <1>1, <1>9, <1>12, NewSignal DEF IInv, FollowedOnce
<1>15. SentInOrder' /\ AlertsBounded'
  BY <1>5, <1>10 DEF IInv, SentInOrder, AlertsBounded, Stored
<1>16. Undecided'
  BY <1>1, <1>5, <1>9, <1>10, <1>12 DEF IInv, Undecided
<1> QED
  BY <1>6, <1>9, <1>11, <1>12, <1>13, <1>14, <1>15, <1>16 DEF IInv

LEMMA EndEventKeepsInv ==
    ASSUME IInv, NEW p \in Scanners, EndEvent(p)
    PROVE  IInv'
<1> DEFINE rest == [scan[p] EXCEPT !.todo = Tail(scan[p].todo)]
<1>1. /\ pc[p] = "market" /\ WriteRows(tx[p].rows)
      /\ UNCHANGED <<clock, scans, others, seen>>
      /\ pc' = [pc EXCEPT ![p] = "event"] /\ tx' = [tx EXCEPT ![p] = NoTx]
  BY DEF EndEvent, Goto
<1>2. scan' = [scan EXCEPT ![p] = rest]
  BY DEF EndEvent, IInv, ShapeOK
<1>3. /\ scan[p] \in [n: 1..scans, now: 0..clock, todo: Seq(AllEvents),
                      weights: {scan[p].weights}]
      /\ scans \in 0..MaxScans /\ scans \in Nat
      /\ scan[p].todo # << >> /\ TxShape(tx[p])
      /\ tx[p].rows.estimates = Accounted(tx[p].rows.rejections, {})
  BY <1>1, InScan DEF Session, InEvent
<1>4. tx[p].rows.signals = {}
  BY <1>3 DEF TxShape, TxRows
<1>5. signals' = signals /\ DecisionsComplete'
  BY <1>1, <1>3, <1>4, CommitComplete DEF WriteRows
<1>6. ASSUME NEW s, s = rest PROVE Session("event", s, NoTx)'
  <2>1. Tail(scan[p].todo) \in Seq(AllEvents)
    BY <1>1, <1>3, AtEvent
  <2>2. s \in [n: 1..scans, now: 0..clock, todo: Seq(AllEvents), weights: {s.weights}]
    BY <1>3, <1>6, <2>1
  <2>3. ScanShape(s)'
    BY <1>1, <2>2 DEF ScanShape
  <2> QED
    BY <2>3, EmptySession DEF Session, Following, InEvent, TxShape, NoRows
<1>7. MovesTo(p, "event", rest, NoTx) /\ "event" \in Labels \ Following
  BY <1>1, <1>2, <1>3 DEF MovesTo, Labels, Following
<1>8. decided' = decided /\ alerted' = alerted /\ sent' = sent /\ cut' = cut
  BY <1>1 DEF others, seen
<1> HIDE DEF rest
<1> QED
  BY <1>1, <1>5, <1>6, <1>7, <1>8, Move

-----------------------------------------------------------------------------
(* Following a signal through                                              *)

(* A session follows its signal on, and keeps its rows and markets.        *)
LEMMA FollowsOn ==
    ASSUME IInv, NEW p \in Scanners, NEW label \in {"alert", "mark"}, NEW t,
           pc[p] \in Following, pc' = [pc EXCEPT ![p] = label], tx' = [tx EXCEPT ![p] = t],
           TxShape(t), t.todo = tx[p].todo, t.signal = tx[p].signal, t.rows = tx[p].rows,
           UNCHANGED <<clock, scan, scans, written, alerted, cut>>
    PROVE  /\ ShapeOK' /\ pc'[p] = label /\ tx'[p] = t /\ clock \in Int /\ scans \in Int
           /\ \A q \in Scanners \ {p} : pc'[q] = pc[q] /\ tx'[q] = tx[q]
           /\ Placed(p)' /\ FollowedOnce' /\ DecisionsComplete'
<1>1. MovesTo(p, label, scan[p], t) /\ label \in Labels
  <2>1. scans' \in 0..MaxScans /\ scans <= scans'
    BY InScan DEF Following
  <2> QED
    BY <2>1, Unmoved DEF MovesTo, Labels, InEvent, Following
<1>2. /\ ShapeOK' /\ pc'[p] = label /\ tx'[p] = t /\ clock \in Int /\ scans \in Int
      /\ \A q \in Scanners \ {p} : pc'[q] = pc[q] /\ tx'[q] = tx[q]
  BY <1>1, SessionMoves
<1>3. Session(pc[p], scan[p], tx[p])
  BY DEF IInv, Placed
<1>4. Session(label, scan[p], t)
  BY <1>3 DEF Session, Following, InEvent
<1>5. Placed(p)'
  BY <1>2, <1>4 DEF Placed, Session, ScanShape, TxShape
<1>6. FollowedOnce'
  BY <1>2 DEF IInv, FollowedOnce, Following
<1>7. DecisionsComplete'
  BY DEF IInv, DecisionsComplete, written
<1> QED
  BY <1>2, <1>5, <1>6, <1>7

LEMMA Tries ==
    ASSUME IInv, NEW p \in Scanners
    PROVE  TxShape(tx[p]) /\ tx[p].tries \in Nat /\ MaxRetries \in Nat
<1>1. TxShape(tx[p])
  BY DEF IInv, Placed, Session
<1>2. tx[p].tries \in Nat
  BY <1>1 DEF TxShape
<1>3. MaxRetries \in Nat
  BY Zenon, WeatherScanAssumption
<1> QED
  BY <1>1, <1>2, <1>3

(* What a session that follows a signal has read stays as it is.           *)
LEMMA SameTx ==
    ASSUME IInv, NEW p \in Scanners, tx' = tx
    PROVE  tx' = [tx EXCEPT ![p] = tx[p]] /\ TxShape(tx[p])
<1>1. tx = [tx EXCEPT ![p] = tx[p]]
  BY DEF IInv, ShapeOK
<1> QED
  BY <1>1, Tries

LEMMA ExecuteKeepsInv ==
    ASSUME IInv, NEW p \in Scanners, Execute(p)
    PROVE  IInv'
<1>1. /\ pc[p] = "execute" /\ pc' = [pc EXCEPT ![p] = "alert"]
      /\ decided' = decided \cup {tx[p].signal} /\ tx' = tx
      /\ UNCHANGED <<clock, scan, scans, written, alerted, sent, cut>>
      /\ signals' = signals
  BY DEF Execute, Goto, seen, written
<1>2. /\ ShapeOK' /\ pc'[p] = "alert" /\ clock \in Int /\ scans \in Int
      /\ \A q \in Scanners \ {p} : pc'[q] = pc[q]
      /\ Placed(p)' /\ FollowedOnce' /\ DecisionsComplete'
  <2>1. tx' = [tx EXCEPT ![p] = tx[p]] /\ TxShape(tx[p])
    BY <1>1, SameTx
  <2>2. pc[p] \in Following /\ UNCHANGED <<clock, scan, scans, written, alerted, cut>>
    BY <1>1 DEF Following
  <2> QED
    BY ONLY <1>1, <2>1, <2>2, IInv, p \in Scanners, FollowsOn
<1>3. \A q \in Scanners \ {p} : Placed(q)' /\ Followed(q)'
  BY <1>1, <1>2, OthersKeep
<1>4. Followed(p)'
  <2>1. Copies(tx[p].signal, sent) = 0
    BY <1>1 DEF IInv, Followed, Copies, BagIn
  <2>2. tx[p].tries \in Nat
    BY Tries
  <2>3. Copies(tx[p].signal, sent)' <= tx'[p].tries
    BY <1>1, <2>1, <2>2
  <2> QED
    BY <1>1, <1>2, <2>3 DEF IInv, Followed, Following
<1>5. Stored(tx[p].signal)
  BY <1>1 DEF IInv, Followed, Following, Stored
<1>6. SentInOrder' /\ AlertsBounded'
  <2>1. \A fp : Stored(fp)' <=> Stored(fp)
    BY <1>1 DEF Stored
  <2> QED
    BY <1>1, <1>5, <2>1 DEF IInv, SentInOrder, AlertsBounded
<1>7. Undecided'
  BY <1>1, <1>2 DEF IInv, Undecided
<1> QED
  BY <1>2, <1>3, <1>4, <1>6, <1>7 DEF IInv

(* The bag c has one copy of x more than b.                                *)
OneMore(b, x, c) ==
    /\ IsABag(c) /\ BagToSet(c) = BagToSet(b) \cup {x}
    /\ Copies(x, b) \in Nat /\ Copies(x, c) = Copies(x, b) + 1
    /\ \A y : y # x => Copies(y, c) = Copies(y, b)

LEMMA Delivering ==
    ASSUME NEW b, IsABag(b), NEW x, NEW c, c = b (+) SetToBag({x})
    PROVE  OneMore(b, x, c)
<1> DEFINE d == b (+) SetToBag({x})
<1>1. /\ DOMAIN d = DOMAIN b \cup {x}
      /\ d = [e \in DOMAIN d |-> (IF e \in DOMAIN b THEN b[e] ELSE 0)
                                    + (IF e = x THEN 1 ELSE 0)]
  BY DEF SetToBag, (+)
<1>2. \A e \in DOMAIN b : b[e] \in Nat /\ b[e] > 0
  BY DEF IsABag
<1> HIDE DEF d
<1>3. \A e \in DOMAIN d : d[e] = (IF e \in DOMAIN b THEN b[e] ELSE 0) + (IF e = x THEN 1 ELSE 0)
  BY <1>1, Zenon
<1>4. \A e \in DOMAIN d : d[e] \in Nat /\ d[e] > 0
  BY <1>1, <1>2, <1>3
<1>5. d = [e \in DOMAIN d |-> d[e]]
  BY <1>1, <1>3, Zenon
<1>6. IsABag(d)
  BY <1>4, <1>5 DEF IsABag
<1>7. /\ Copies(x, b) \in Nat /\ Copies(x, d) = Copies(x, b) + 1
      /\ \A y : y # x => Copies(y, d) = Copies(y, b)
  BY <1>1, <1>2, <1>3 DEF Copies, BagIn, BagToSet
<1> QED
  BY <1>1, <1>6, <1>7 DEF OneMore, BagToSet, d

(* An alert goes out, and its session has tries to account for it.         *)
LEMMA DeliveryKeepsInv ==
    ASSUME IInv, NEW p \in Scanners, NEW label \in {"alert", "mark"}, NEW t,
           pc[p] = "alert", pc' = [pc EXCEPT ![p] = label], tx' = [tx EXCEPT ![p] = t],
           TxShape(t), t.todo = tx[p].todo, t.signal = tx[p].signal, t.rows = tx[p].rows,
           tx[p].tries <= MaxRetries, label = "alert" => t.tries = tx[p].tries + 1,
           Deliver(p), UNCHANGED <<clock, scan, scans, written, decided, alerted, cut>>
    PROVE  IInv'
<1> DEFINE fp == tx[p].signal
<1>1. /\ IsABag(sent) /\ fp \in decided
      /\ Copies(fp, sent) <= tx[p].tries /\ tx[p].tries \in Nat /\ MaxRetries \in Nat
  BY Tries DEF IInv, SentInOrder, Followed
<1>2. /\ IsABag(sent') /\ BagToSet(sent') = BagToSet(sent) \cup {fp}
      /\ Copies(fp, sent) \in Nat /\ Copies(fp, sent') = Copies(fp, sent) + 1
      /\ \A y : y # fp => Copies(y, sent') = Copies(y, sent)
  <2>1. sent' = sent (+) SetToBag({fp})
    BY Zenon DEF Deliver
  <2>2. OneMore(sent, fp, sent')
    BY <1>1, <2>1, Delivering, Zenon
  <2> QED
    BY <2>2, Zenon DEF OneMore
<1>3. /\ ShapeOK' /\ pc'[p] = label /\ tx'[p] = t /\ clock \in Int /\ scans \in Int
      /\ \A q \in Scanners \ {p} : pc'[q] = pc[q] /\ tx'[q] = tx[q]
      /\ Placed(p)' /\ FollowedOnce' /\ DecisionsComplete'
  <2>1. pc[p] \in Following /\ UNCHANGED <<clock, scan, scans, written, alerted, cut>>
    BY DEF Following
  <2> QED
    BY <2>1, FollowsOn, Zenon
<1>4. ASSUME NEW q \in Scanners \ {p} PROVE Placed(q)' /\ Followed(q)'
  <2>1. pc[q] \in Following => tx[q].signal # fp
    BY DEF IInv, FollowedOnce, Following
  <2>2. signals' = signals /\ scan'[q] = scan[q]
    BY DEF written
  <2> QED
    BY <1>2, <1>3, <2>1, <2>2, OthersKeep
<1>5. Copies(fp, sent') <= tx[p].tries + 1 /\ Copies(fp, sent') <= MaxRetries + 1
  BY <1>1, <1>2
<1>6. Followed(p)'
  <2>1. [fingerprint |-> fp, scan |-> scan[p].n] \in signals /\ signals' = signals
    BY DEF IInv, Followed, Following, written
  <2>2. fp \notin alerted /\ fp \in decided'
    BY <1>1 DEF IInv, Followed, Following
  <2>3. (tx[p].signal)' = fp /\ fp \in BagToSet(sent')
    BY <1>2, <1>3
  <2>4. label = "alert" => Copies(fp, sent') <= t.tries
    BY <1>5
  <2> QED
    BY <1>3, <2>1, <2>2, <2>3, <2>4 DEF Followed
<1>7. SentInOrder'
  <2>1. signals' = signals
    BY DEF written
  <2> QED
    BY <1>1, <1>2, <2>1 DEF IInv, SentInOrder, Stored
<1>8. AlertsBounded'
  <2>1. \A y \in BagToSet(sent) : Copies(y, sent) <= MaxRetries + 1
    BY DEF IInv, AlertsBounded, Copies, BagIn
  <2>2. ASSUME NEW y \in BagToSet(sent') PROVE Copies(y, sent') <= MaxRetries + 1
    <3>1. CASE y = fp
      BY <1>5, <3>1
    <3>2. CASE y # fp
      BY <1>2, <2>1, <3>2
    <3> QED
      BY <3>1, <3>2
  <2> QED
    BY <2>2 DEF AlertsBounded, Copies, BagIn
<1>9. Undecided'
  <2>1. signals' = signals
    BY DEF written
  <2> QED
    BY <1>3, <2>1 DEF IInv, Undecided
<1> QED
  BY <1>3, <1>4, <1>6, <1>7, <1>8, <1>9 DEF IInv

(* The signal is done with, and the session goes on to the next market.    *)
LEMMA MarketLeft ==
    ASSUME IInv, NEW p \in Scanners, pc[p] \in {"alert", "mark"},
           NextMarket(p), UNCHANGED <<clock, scan, scans, written, decided, sent, cut>>,
           alerted' \in {alerted, alerted \cup ({tx[p].signal} \cap BagToSet(sent))}
    PROVE  IInv'
<1> DEFINE new == [tx[p] EXCEPT !.todo = Tail(tx[p].todo), !.signal = None, !.tries = 0]
<1>1. tx' = [tx EXCEPT ![p] = new] /\ pc' = [pc EXCEPT ![p] = "market"]
  BY DEF IInv, ShapeOK, NextMarket, Goto
<1>2. /\ ScanShape(scan[p]) /\ scan[p].todo # << >>
      /\ TxShape(tx[p]) /\ tx[p].todo # << >> /\ tx[p].rows = NoRows
  BY InScan DEF Session, InEvent, Following, IInv, Placed
<1>3. ASSUME NEW t, t = new PROVE Session("market", scan[p], t)'
  <2>1. scan'[p] = scan[p] /\ ScanShape(scan[p])'
    BY <1>2 DEF ScanShape
  <2>2. Tail(tx[p].todo) \in Seq(AllMarkets)
    BY <1>2 DEF TxShape
  <2>3. TxShape(t) /\ t.rows = NoRows
    BY <1>2, <1>3, <2>2 DEF TxShape
  <2>4. NoRows.estimates = {} /\ NoRows.rejections = {}
    BY DEF NoRows
  <2>5. TxShape(t)' /\ scan'[p].todo # << >>
    BY <1>2, <2>1, <2>3 DEF TxShape
  <2> QED
    BY <2>1, <2>3, <2>4, <2>5, EmptySession DEF Session, Following, InEvent
<1> HIDE DEF new
<1>4. MovesTo(p, "market", scan[p], new) /\ "market" \in Labels \ Following
  <2>1. scan' = [scan EXCEPT ![p] = scan[p]]
    BY Unmoved
  <2>2. scans' \in 0..MaxScans /\ scans <= scans'
    BY InScan
  <2> QED
    BY <1>1, <2>1, <2>2 DEF MovesTo, Labels, InEvent, Following
<1>5. signals' = signals /\ DecisionsComplete' /\ scan'[p] = scan[p]
  BY DEF IInv, DecisionsComplete, written
<1>6. \A q \in Scanners \ {p} : pc[q] \in Following => tx[q].signal \notin alerted' \ alerted
  BY DEF IInv, FollowedOnce, Following
<1> QED
  BY <1>3, <1>4, <1>5, <1>6, Move

LEMMA AttemptFailsKeepsInv ==
    ASSUME IInv, NEW p \in Scanners, AttemptFails(p)
    PROVE  IInv'
<1> DEFINE t == [tx[p] EXCEPT !.tries = tx[p].tries + 1]
<1>1. /\ pc[p] = "alert" /\ tx[p].tries <= MaxRetries
      /\ UNCHANGED <<clock, scan, scans, written, decided, alerted, cut>>
      /\ signals' = signals
  BY DEF AttemptFails, others, written
<1>2. pc' = [pc EXCEPT ![p] = "alert"] /\ tx' = [tx EXCEPT ![p] = t]
  BY <1>1 DEF AttemptFails, IInv, ShapeOK
<1>3. TxShape(tx[p])
  BY Tries
<1>4. tx[p].tries \in Nat
  BY Tries
<1>5. tx[p].tries + 1 \in Nat
  BY <1>4
<1>6. /\ TxShape(t) /\ t.todo = tx[p].todo /\ t.signal = tx[p].signal
      /\ t.rows = tx[p].rows /\ t.tries = tx[p].tries + 1
  BY <1>3, <1>5 DEF TxShape
<1> HIDE DEF t
<1>7. CASE Deliver(p)
  BY <1>1, <1>2, <1>6, <1>7, DeliveryKeepsInv
<1>8. CASE sent' = sent
  <2>1. /\ ShapeOK' /\ pc'[p] = "alert" /\ tx'[p] = t /\ clock \in Int /\ scans \in Int
        /\ \A q \in Scanners \ {p} : pc'[q] = pc[q] /\ tx'[q] = tx[q]
        /\ Placed(p)' /\ FollowedOnce' /\ DecisionsComplete'
    <3>1. pc[p] \in Following /\ UNCHANGED <<clock, scan, scans, written, alerted, cut>>
      BY <1>1 DEF Following
    <3> QED
      BY <1>2, <1>6, <3>1, FollowsOn, Zenon
  <2>2. \A q \in Scanners \ {p} : Placed(q)' /\ Followed(q)'
    BY <1>1, <1>8, <2>1, OthersKeep
  <2>3. Copies(t.signal, sent) <= t.tries
    <3>1. Copies(tx[p].signal, sent) \in Nat
      BY DEF IInv, SentInOrder, IsABag, Copies, BagIn, BagToSet
    <3>2. Copies(tx[p].signal, sent) <= tx[p].tries
      BY <1>1 DEF IInv, Followed
    <3> QED
      BY <1>4, <1>6, <3>1, <3>2
  <2>4. Followed(p)'
    BY <1>1, <1>6, <1>8, <2>1, <2>3 DEF IInv, Followed, Following
  <2>5. SentInOrder' /\ AlertsBounded'
    BY <1>1, <1>8 DEF IInv, SentInOrder, AlertsBounded, Stored
  <2>6. Undecided'
    BY <1>1, <2>1 DEF IInv, Undecided
  <2> QED
    BY <2>1, <2>2, <2>4, <2>5, <2>6 DEF IInv
<1> QED
  BY <1>7, <1>8 DEF AttemptFails

LEMMA AlertKeepsInv ==
    ASSUME IInv, NEW p \in Scanners, Alert(p)
    PROVE  IInv'
<1>1. /\ pc[p] = "alert"
      /\ UNCHANGED <<clock, scan, scans, written, decided, alerted, cut>>
  BY DEF Alert, others
<1>2. CASE Telegram
  <2>1. /\ pc' = [pc EXCEPT ![p] = "mark"] /\ tx' = tx
        /\ tx[p].tries <= MaxRetries /\ Deliver(p)
    BY <1>2 DEF Alert, Goto
  <2>2. tx' = [tx EXCEPT ![p] = tx[p]] /\ TxShape(tx[p])
    BY <2>1, SameTx
  <2> QED
    BY <1>1, <2>1, <2>2, DeliveryKeepsInv
<1>3. CASE ~Telegram
  <2>1. NextMarket(p) /\ sent' = sent
    BY <1>3 DEF Alert
  <2> QED
    BY <1>1, <2>1, MarketLeft
<1> QED
  BY <1>2, <1>3

LEMMA MarkAlertedKeepsInv ==
    ASSUME IInv, NEW p \in Scanners, MarkAlerted(p)
    PROVE  IInv'
<1>1. /\ pc[p] = "mark" /\ NextMarket(p)
      /\ UNCHANGED <<clock, scan, scans, written, decided, sent, cut>>
      /\ alerted' = alerted \cup {tx[p].signal}
  BY DEF MarkAlerted, seen
<1>2. tx[p].signal \in BagToSet(sent)
  BY <1>1 DEF IInv, Followed
<1> QED
  BY <1>1, <1>2, MarketLeft

-----------------------------------------------------------------------------
(* The invariant                                                           *)

(* Time, calibrations and steps that change nothing here.                  *)
LEMMA NothingMoves ==
    ASSUME IInv, UNCHANGED <<session, scans, written, decided, alerted, seen>>,
           clock <= clock', clock' \in 0..MaxClock
    PROVE  IInv'
<1>1. /\ pc' = pc /\ scan' = scan /\ tx' = tx /\ signals' = signals
      /\ scans' = scans /\ decided' = decided /\ alerted' = alerted
      /\ sent' = sent /\ cut' = cut
  BY DEF session, written, seen
<1>2. ShapeOK' /\ scans <= scans'
  BY <1>1, DomainTypes DEF IInv, ShapeOK
<1>3. \A q \in Scanners : Placed(q)' /\ Followed(q)'
  BY <1>1, <1>2, OthersKeep
<1>4. FollowedOnce' /\ SentInOrder' /\ AlertsBounded' /\ Undecided' /\ DecisionsComplete'
  BY <1>1 DEF IInv, FollowedOnce, SentInOrder, AlertsBounded, Undecided, DecisionsComplete,
              Stored, written
<1> QED
  BY <1>2, <1>3, <1>4 DEF IInv

LEMMA InitInv == Init => IInv
<1> SUFFICES ASSUME Init PROVE IInv
  OBVIOUS
<1>1. ShapeOK
  BY DomainTypes DEF Init, ShapeOK, Labels
<1>2. ASSUME NEW p \in Scanners PROVE Placed(p) /\ Followed(p)
  <2>1. pc[p] = "idle" /\ scan[p] = None /\ tx[p] = NoTx
    BY DEF Init
  <2>2. Session("idle", None, NoTx)
    BY EmptySession DEF Session, Following, InEvent, NoRows
  <2> QED
    BY <2>1, <2>2 DEF Placed, Followed, Following
<1>3. FollowedOnce
  BY DEF Init, FollowedOnce, Following
<1>4. SentInOrder /\ AlertsBounded
  BY DEF Init, SentInOrder, AlertsBounded, EmptyBag, SetToBag, BagToSet, IsABag
<1>5. Undecided /\ DecisionsComplete
  BY DEF Init, Undecided, DecisionsComplete
<1> QED
  BY <1>1, <1>2, <1>3, <1>4, <1>5 DEF IInv

LEMMA NextInv == IInv /\ [Next]_vars => IInv'
<1> SUFFICES ASSUME IInv, [Next]_vars PROVE IInv'
  OBVIOUS
<1>1. clock \in 0..MaxClock /\ clock <= clock /\ clock \in Int
  BY DomainTypes DEF IInv, ShapeOK
<1>2. CASE UNCHANGED vars
  BY <1>1, <1>2, NothingMoves DEF vars, others
<1>3. CASE Calibrate
  BY <1>1, <1>3, NothingMoves DEF Calibrate
<1>4. CASE Tick
  <2>1. clock <= clock' /\ clock' \in 0..MaxClock
    BY <1>1, <1>4, DomainTypes DEF Tick
  <2> QED
    BY <1>4, <2>1, NothingMoves DEF Tick
<1>5. ASSUME NEW p \in Scanners, Begin(p) \/ Step(p) \/ LockTimeout(p) \/ Crash(p)
      PROVE  IInv'
  <2>1. CASE Begin(p)
    BY <2>1, BeginKeepsInv
  <2>2. CASE DiscoverFails(p) \/ ScanDone(p)
    BY <2>2, EndScanKeepsInv DEF DiscoverFails, ScanDone, seen
  <2>3. CASE UpsertFails(p) \/ ForecastRaises(p) \/ InsertFails(p) \/ ExecuteRaises(p)
             \/ AlertRaises(p) \/ LockTimeout(p)
    BY <2>3, RaiseKeepsInv
       DEF UpsertFails, ForecastRaises, InsertFails, ExecuteRaises, AlertRaises, LockTimeout
  <2>4. CASE Crash(p)
    BY <2>4, EndScanKeepsInv DEF Crash
  <2>5. CASE Discover(p) \/ NextEvent(p) \/ Upsert(p) \/ GetBooks(p) \/ Forecast(p)
    BY <2>5, DiscoverKeepsInv, NextEventKeepsInv, UpsertKeepsInv, GetBooksKeepsInv,
       ForecastKeepsInv
  <2>6. CASE Evaluate(p) \/ InsertSignal(p) \/ Execute(p) \/ AttemptFails(p) \/ Alert(p)
             \/ MarkAlerted(p) \/ EndEvent(p)
    BY <2>6, EvaluateKeepsInv, InsertSignalKeepsInv, ExecuteKeepsInv, AttemptFailsKeepsInv,
       AlertKeepsInv, MarkAlertedKeepsInv, EndEventKeepsInv
  <2> QED
    BY <1>5, <2>1, <2>2, <2>3, <2>4, <2>5, <2>6 DEF Step
<1> QED
  BY <1>2, <1>3, <1>4, <1>5 DEF Next

(* IInv holds throughout.                                                  *)
THEOREM Invariance == Spec => []IInv
  BY InitInv, NextInv, PTL DEF Spec

(* The deliveries of a signal's alert never exceed the attempts of one     *)
(* request (worker.py, scan_once: the unique fingerprint decides between   *)
(* racing scans, and nothing alerts again what a scan that raised or died  *)
(* may have sent; http.py, request_json: the attempts of a request).       *)
THEOREM DeliveriesBounded == Spec => []AlertsBounded
<1>1. IInv => AlertsBounded
  BY DEF IInv
<1> QED
  BY <1>1, Invariance, PTL

(* Signals are stored, decided and alerted in that order, and one without  *)
(* a decision is in the hands of a scan or was left by one that broke off  *)
(* (worker.py, scan_once).                                                 *)
THEOREM SignalsFollowed == Spec => []FollowThrough
<1>1. ASSUME IInv PROVE FollowThrough
  <2>1. alerted \subseteq BagToSet(sent) /\ BagToSet(sent) \subseteq decided
    BY <1>1 DEF IInv, SentInOrder
  <2> QED
    BY <1>1, <2>1 DEF FollowThrough, IInv, SentInOrder, Undecided
<1> QED
  BY <1>1, Invariance, PTL

(* Every estimate that is committed comes with a signal or a rejection     *)
(* (worker.py, scan_once: the commits in the loop and after it).           *)
THEOREM MarketsDecided == Spec => []DecisionsComplete
<1>1. IInv => DecisionsComplete
  BY DEF IInv
<1> QED
  BY <1>1, Invariance, PTL

-----------------------------------------------------------------------------
(* Types: what a session has computed                                      *)

RowsTyped ==
    /\ events \subseteq AllEvents /\ contracts \subseteq AllMarkets
    /\ estimates \subseteq (1..MaxScans) \X AllMarkets
    /\ \A s \in signals : s.fingerprint \in Fingerprints /\ s.scan \in 1..MaxScans
    /\ weights \in WeightTables
    /\ observed \subseteq 0..MaxClock /\ cut \subseteq 1..MaxScans

(* The weights a scan has read are ones a calibration stored; the plan it  *)
(* judges markets by has a probability for each bucket; and the signal it  *)
(* is about to insert is made of that and of an ask that was there.        *)
Computed(p) ==
    /\ pc[p] # "idle" => scan[p].weights \in WeightTables
    /\ pc[p] \in {"market", "insert"} \cup Following /\ tx[p].todo # << >> =>
          tx[p].plan.probability \in [DOMAIN Buckets -> 0..One]
    /\ pc[p] = "insert" => tx[p].signal \in Fingerprints

TInv == RowsTyped /\ \A p \in Scanners : Computed(p)

LEMMA WeightTablesBounded ==
    ASSUME NEW w \in WeightTables
    PROVE  Weights(w)
  BY DEF WeightTables, Weights

LEMMA StoredWeights ==
    ASSUME NEW samples \in Samples, ComputeWeights(samples) # Missing
    PROVE  ComputeWeights(samples) \in WeightTables
<1>1. ComputeWeights(samples) \in [DOMAIN samples -> 0..Unit]
  BY WeightBounds
<1>2. DOMAIN samples \in SUBSET UNION {DOMAIN s : s \in Samples}
  OBVIOUS
<1> HIDE DEF ComputeWeights
<1> QED
  BY <1>1, <1>2 DEF WeightTables

LEMMA TInvTypes ==
    ASSUME IInv, TInv
    PROVE  TypeOK
<1>1. ASSUME NEW p \in Scanners
      PROVE  (scan[p] = None) = (pc[p] = "idle")
  <2>1. CASE pc[p] = "idle"
    BY <2>1 DEF IInv, Placed, Session
  <2>2. CASE pc[p] # "idle"
    <3>1. /\ scans \in Nat /\ clock \in Nat /\ scan[p].weights \in WeightTables
          /\ scan[p] \in [n: 1..scans, now: 0..clock, todo: Seq(AllEvents),
                          weights: {scan[p].weights}]
      BY <2>2, InScan DEF TInv, Computed
    <3>2. AllEvents \subseteq DOMAIN EventOf
      BY WeatherScanAssumption DEF AllEvents, ToSet
    <3>3. Seq(AllEvents) \subseteq Seq(DOMAIN EventOf)
      BY <3>2, SeqMonotonic
    <3>4. scan[p] \in [n: Nat, now: Nat, todo: Seq(DOMAIN EventOf), weights: WeightTables]
      BY <3>1, <3>3
    <3>5. scan[p] # None
      BY <3>4, WeatherScanAssumption, Zenon
    <3> QED
      BY <2>2, <3>5
  <2> QED
    BY <2>1, <2>2
<1>2. \A m \in DOMAIN weights : weights[m] \in 0..Unit
  BY WeightTablesBounded DEF TInv, RowsTyped, Weights
<1> QED
  BY <1>1, <1>2 DEF TypeOK, TInv, RowsTyped

(* Only one session moves.                                                 *)
Alone(p) ==
    \A q \in Scanners \ {p} : pc'[q] = pc[q] /\ scan'[q] = scan[q] /\ tx'[q] = tx[q]

LEMMA OneMoves ==
    ASSUME IInv, NEW p \in Scanners, Begin(p) \/ Step(p) \/ LockTimeout(p) \/ Crash(p)
    PROVE  Alone(p)
<1> USE DEF Alone, Goto, EndScan, Raise
<1>1. CASE Begin(p) \/ LockTimeout(p) \/ Crash(p)
  BY <1>1 DEF Begin, LockTimeout, Crash, IInv, ShapeOK
<1>2. CASE DiscoverFails(p) \/ Discover(p) \/ ScanDone(p)
  BY <1>2 DEF DiscoverFails, Discover, ScanDone, IInv, ShapeOK
<1>3. CASE NextEvent(p) \/ UpsertFails(p) \/ GetBooks(p)
  BY <1>3 DEF NextEvent, UpsertFails, GetBooks, IInv, ShapeOK
<1>4. CASE Upsert(p)
  BY <1>4 DEF Upsert, IInv, ShapeOK
<1>5. CASE Forecast(p) \/ ForecastRaises(p)
  BY <1>5 DEF Forecast, ForecastRaises, IInv, ShapeOK
<1>6. CASE Evaluate(p)
  BY <1>6 DEF Evaluate, IInv, ShapeOK
<1>7. CASE InsertSignal(p) \/ InsertFails(p)
  BY <1>7 DEF InsertSignal, CommitSignal, InsertFails, IInv, ShapeOK
<1>8. CASE Execute(p) \/ ExecuteRaises(p) \/ AttemptFails(p) \/ Alert(p) \/ AlertRaises(p)
  BY <1>8 DEF Execute, ExecuteRaises, AttemptFails, Alert, NextMarket, AlertRaises, IInv, ShapeOK
<1>9. CASE MarkAlerted(p) \/ EndEvent(p)
  BY <1>9 DEF MarkAlerted, NextMarket, EndEvent, IInv, ShapeOK
<1> QED
  BY <1>1, <1>2, <1>3, <1>4, <1>5, <1>6, <1>7, <1>8, <1>9 DEF Step

LEMMA Typed ==
    ASSUME TInv, NEW p \in Scanners, Alone(p), RowsTyped', Computed(p)'
    PROVE  TInv'
<1>1. ASSUME NEW q \in Scanners \ {p} PROVE Computed(q)'
  BY <1>1 DEF TInv, Computed, Alone
<1> QED
  BY <1>1 DEF TInv

(* Sessions that commit nothing.                                           *)
LEMMA RowsKept ==
    ASSUME IInv, TInv, NEW p \in Scanners, pc[p] # "idle",
           UNCHANGED <<written, weights, observed>>, cut' \subseteq cut \cup {scan[p].n}
    PROVE  RowsTyped'
<1>1. scan[p].n \in 1..MaxScans
  BY InScan
<1>2. /\ events' = events /\ contracts' = contracts /\ estimates' = estimates
      /\ signals' = signals /\ weights' = weights /\ observed' = observed
  BY DEF written
<1> QED
  BY <1>1, <1>2 DEF TInv, RowsTyped

LEMMA EndScanKeepsTypes ==
    ASSUME IInv, TInv, NEW p \in Scanners, pc[p] # "idle", EndScan(p), Alone(p),
           UNCHANGED <<written, others>>, cut' \subseteq cut \cup {scan[p].n}
    PROVE  TInv'
<1>1. pc'[p] = "idle"
  BY DEF EndScan, Goto, IInv, ShapeOK
<1>2. Computed(p)'
  BY <1>1 DEF Computed, Following
<1>3. RowsTyped'
  BY RowsKept DEF others
<1> QED
  BY <1>2, <1>3, Typed

LEMMA RaiseKeepsTypes ==
    ASSUME IInv, TInv, NEW p \in Scanners, pc[p] # "idle", Raise(p), Alone(p)
    PROVE  TInv'
<1>1. cut' \subseteq cut \cup {scan[p].n} /\ EndScan(p) /\ UNCHANGED <<written, others>>
  BY DEF Raise
<1> QED
  BY <1>1, EndScanKeepsTypes

LEMMA BeginKeepsTypes ==
    ASSUME IInv, TInv, NEW p \in Scanners, Begin(p), Alone(p)
    PROVE  TInv'
<1>1. pc'[p] = "discover" /\ scan'[p].weights = << >>
  BY DEF Begin, Goto, IInv, ShapeOK
<1>2. << >> \in WeightTables
  <2>1. << >> \in [{} -> 0..Unit]
    OBVIOUS
  <2> QED
    BY <2>1 DEF WeightTables
<1>3. Computed(p)'
  BY <1>1, <1>2 DEF Computed, Following
<1>4. RowsTyped'
  BY DEF Begin, TInv, RowsTyped, written, others, seen
<1> QED
  BY <1>3, <1>4, Typed

(* Places where no market is judged yet.                                   *)
LEMMA EarlyKeepsTypes ==
    ASSUME IInv, TInv, NEW p \in Scanners,
           Discover(p) \/ NextEvent(p) \/ Upsert(p) \/ GetBooks(p), Alone(p)
    PROVE  TInv'
<1>1. pc[p] # "idle" /\ UNCHANGED <<written, others, seen>>
  BY DEF Discover, NextEvent, Upsert, GetBooks
<1>2. RowsTyped'
  BY <1>1, RowsKept DEF others, seen
<1>3. scan'[p].weights \in WeightTables
  <2>1. scan[p].weights \in WeightTables /\ weights \in WeightTables
    BY <1>1 DEF TInv, Computed, RowsTyped
  <2>2. CASE Discover(p)
    <3> DEFINE new == [scan[p] EXCEPT !.todo = Discovered, !.weights = weights]
    <3>1. scan'[p] = new
      BY <2>2 DEF Discover, IInv, ShapeOK
    <3>2. new.weights = weights
      BY <1>1, InScan
    <3> QED
      BY <2>1, <3>1, <3>2
  <2>3. CASE NextEvent(p)
    <3>1. scan' = scan \/ scan' = [scan EXCEPT ![p].todo = Tail(@)]
      BY <2>3 DEF NextEvent
    <3>2. scan'[p].weights = scan[p].weights
      BY <1>1, <3>1, InScan DEF IInv, ShapeOK
    <3> QED
      BY <2>1, <3>2
  <2>4. CASE Upsert(p) \/ GetBooks(p)
    BY <2>1, <2>4 DEF Upsert, GetBooks
  <2> QED
    BY <2>2, <2>3, <2>4
<1>4. \/ pc'[p] \in {"event", "upsert", "books", "forecast"}
      \/ pc'[p] = "market" /\ tx'[p].todo = << >>
  <2>1. CASE Discover(p) \/ NextEvent(p) \/ GetBooks(p)
    <3>1. \/ pc[p] = "event" /\ pc' = pc
          \/ \E label \in {"event", "upsert", "forecast"} : pc' = [pc EXCEPT ![p] = label]
      BY <2>1 DEF Discover, NextEvent, GetBooks, Goto
    <3> QED
      BY <3>1 DEF IInv, ShapeOK
  <2>2. CASE Upsert(p)
    <3> DEFINE rejected == EventOf[Head(scan[p].todo)].route = "rejected"
    <3>1. PICK rows : tx' = [tx EXCEPT ![p].rows = rows, ![p].todo = IF rejected THEN << >> ELSE @]
      BY <2>2, Zenon DEF Upsert
    <3>2. pc' = [pc EXCEPT ![p] = IF rejected THEN "market" ELSE "books"]
      BY <2>2 DEF Upsert, Goto
    <3>3. TxShape(tx[p])
      BY <1>1, InScan DEF Session
    <3> HIDE DEF rejected
    <3> QED
      BY <3>1, <3>2, <3>3 DEF IInv, ShapeOK, TxShape
  <2> QED
    BY <2>1, <2>2
<1>5. Computed(p)'
  BY <1>3, <1>4 DEF Computed, Following
<1> QED
  BY <1>2, <1>5, Typed

LEMMA ForecastKeepsTypes ==
    ASSUME IInv, TInv, NEW p \in Scanners, Forecast(p), Alone(p)
    PROVE  TInv'
<1>1. pc[p] = "forecast" /\ UNCHANGED <<scan, written, others, seen>>
      /\ pc'[p] = "market"
  BY DEF Forecast, Goto, IInv, ShapeOK
<1>2. RowsTyped'
  BY <1>1, RowsKept DEF others, seen
<1>3. scan'[p].weights \in WeightTables /\ Weights(scan[p].weights)
  BY <1>1, WeightTablesBounded DEF TInv, Computed
<1> DEFINE e == Head(scan[p].todo)
           chances(fs) == [l \in DOMAIN Buckets |-> Probability(fs, scan[p].weights, l)]
<1>a. PICK fs \in Answers :
         tx' = [tx EXCEPT ![p].plan =
                  [probability |-> chances(fs), members |-> MemberCount(fs),
                   window |-> WithinBlend(p, e), blended |-> Blended(p, e)]]
  BY Zenon DEF Forecast
<1> DEFINE plan == [probability |-> chances(fs), members |-> MemberCount(fs),
                    window |-> WithinBlend(p, e), blended |-> Blended(p, e)]
<1>4. tx' = [tx EXCEPT ![p].plan = plan] /\ plan.probability = chances(fs)
  BY <1>a
<1>5. plan.probability \in [DOMAIN Buckets -> 0..One]
  <2>1. \A l \in DOMAIN Buckets : Probability(fs, scan[p].weights, l) \in 0..One
    BY <1>3, ProbabilityBounds
  <2> QED
    BY <1>4, <2>1
<1> HIDE DEF plan
<1>6. tx'[p].plan = plan
  <2>1. TxShape(tx[p])
    BY <1>1, InScan DEF Session
  <2> QED
    BY <1>4, <2>1 DEF IInv, ShapeOK, TxShape
<1>7. Computed(p)'
  BY <1>1, <1>3, <1>5, <1>6 DEF Computed
<1> QED
  BY <1>2, <1>7, Typed

(* A market without reasons has an ask.                                    *)
LEMMA AskThere ==
    ASSUME NEW c, Reasons(c) = {}
    PROVE  c.ask # Missing
<1> SUFFICES ASSUME c.ask = Missing PROVE "executable_ask_missing" \in Reasons(c)
  OBVIOUS
<1> QED
  BY DEF Reasons

LEMMA EvaluateKeepsTypes ==
    ASSUME IInv, TInv, NEW p \in Scanners, Evaluate(p), Alone(p)
    PROVE  TInv'
<1> DEFINE m == Head(tx[p].todo)
<1>1. /\ pc[p] = "market" /\ tx[p].todo # << >> /\ TxShape(tx[p])
      /\ UNCHANGED <<scan, written, others, seen>>
  BY InScan DEF Evaluate, Session
<1>2. RowsTyped'
  BY <1>1, RowsKept DEF others, seen
<1>3. /\ scan'[p].weights \in WeightTables
      /\ tx[p].plan.probability \in [DOMAIN Buckets -> 0..One]
  BY <1>1 DEF TInv, Computed
<1>4. PICK rows, signal :
        \/ /\ tx' = [tx EXCEPT ![p].rows = rows, ![p].todo = Tail(@)]
           /\ pc' = pc
        \/ /\ tx' = [tx EXCEPT ![p].rows = rows, ![p].signal = signal]
           /\ signal \in Fingerprints
           /\ pc' = [pc EXCEPT ![p] = "insert"]
  <2>1. PICK ask \in Asks \cup {Missing} :
          LET c == Candidate(p, m, ask)
              refused == Reasons(c) # {}
              why == IF refused THEN "policy" ELSE "duplicate_signal"
              rows == WithEstimate(tx[p].rows, scan[p].n, m)
          IN  IF refused \/ Duplicate(p, Fingerprint(m, c))
              THEN /\ tx' = [tx EXCEPT ![p].rows = WithReason(rows, Verdict(p, m, why)),
                                      ![p].todo = Tail(@)]
                   /\ UNCHANGED pc
              ELSE /\ tx' = [tx EXCEPT ![p].rows = rows, ![p].signal = Fingerprint(m, c)]
                   /\ Goto(p, "insert")
    BY Zenon DEF Evaluate
  <2> DEFINE c == Candidate(p, m, ask)
  <2>2. CASE Reasons(c) # {} \/ Duplicate(p, Fingerprint(m, c))
    BY <2>1, <2>2, Zenon
  <2>3. CASE Reasons(c) = {} /\ ~Duplicate(p, Fingerprint(m, c))
    <3>1. c.ask # Missing /\ c.ask = ask
      BY <2>3, AskThere DEF Candidate
    <3>2. m \in AllMarkets
      BY <1>1 DEF TxShape
    <3>3. c.probability \in 0..One
      <4>1. MarketOf[m].bucket \in DOMAIN Buckets
        <5>1. m \in DOMAIN MarketOf
          BY <3>2, MarketsKnown
        <5> QED
          BY <5>1, WeatherScanAssumption
      <4>2. c.probability = tx[p].plan.probability[MarketOf[m].bucket]
        BY DEF Candidate
      <4> QED
        BY <1>3, <4>1, <4>2
    <3> HIDE DEF m
    <3>4. Fingerprint(m, c) \in Fingerprints
      BY <3>1, <3>2, <3>3 DEF Fingerprint, Fingerprints
    <3>5. /\ tx' = [tx EXCEPT ![p].rows = WithEstimate(tx[p].rows, scan[p].n, m),
                              ![p].signal = Fingerprint(m, c)]
          /\ pc' = [pc EXCEPT ![p] = "insert"]
      BY <2>1, <2>3, Zenon DEF Goto
    <3> QED
      BY <3>4, <3>5, Zenon
  <2> QED
    BY <2>2, <2>3
<1>5. /\ tx'[p].plan = tx[p].plan
      /\ pc'[p] = "insert" => tx'[p].signal \in Fingerprints
  <2> HIDE DEF m
  <2>1. CASE tx' = [tx EXCEPT ![p].rows = rows, ![p].todo = Tail(@)] /\ pc' = pc
    BY <1>1, <2>1 DEF IInv, ShapeOK, TxShape
  <2>2. CASE /\ tx' = [tx EXCEPT ![p].rows = rows, ![p].signal = signal]
             /\ signal \in Fingerprints
    BY <1>1, <2>2 DEF IInv, ShapeOK, TxShape
  <2> QED
    BY <1>4, <2>1, <2>2
<1>6. Computed(p)'
  BY <1>3, <1>5 DEF Computed
<1> QED
  BY <1>2, <1>6, Typed

(* What is committed was typed in the session.                             *)
LEMMA CommitTyped ==
    ASSUME TInv, NEW rows, WriteRows(rows),
           rows.events \subseteq AllEvents, rows.contracts \subseteq AllMarkets,
           rows.estimates \subseteq (1..MaxScans) \X AllMarkets,
           \A s \in rows.signals : s.fingerprint \in Fingerprints /\ s.scan \in 1..MaxScans,
           weights' = weights, observed' = observed, cut' = cut
    PROVE  RowsTyped'
<1>1. RowsTyped
  BY DEF TInv
<1> QED
  BY <1>1 DEF RowsTyped, WriteRows

LEMMA InsertSignalKeepsTypes ==
    ASSUME IInv, TInv, NEW p \in Scanners, InsertSignal(p), Alone(p)
    PROVE  TInv'
<1> DEFINE signal == [fingerprint |-> tx[p].signal, scan |-> scan[p].n]
           rows == [tx[p].rows EXCEPT !.signals = @ \cup {signal}]
<1>1. /\ pc[p] = "insert" /\ scan' = scan /\ WriteRows(rows)
      /\ tx' = [tx EXCEPT ![p].rows = NoRows]
      /\ pc' = [pc EXCEPT ![p] = "execute"]
      /\ weights' = weights /\ observed' = observed /\ cut' = cut
  BY Zenon DEF InsertSignal, CommitSignal, Goto, ExecuteNext, others, seen
<1>2. /\ TxShape(tx[p]) /\ tx[p].rows \in TxRows /\ tx[p].todo # << >>
      /\ scan[p].n \in 1..MaxScans
  BY <1>1, InScan DEF Session, TxShape
<1>3. signal.fingerprint \in Fingerprints /\ signal.scan \in 1..MaxScans
  BY <1>1, <1>2 DEF TInv, Computed
<1>4. /\ rows.events \subseteq AllEvents /\ rows.contracts \subseteq AllMarkets
      /\ rows.estimates \subseteq (1..MaxScans) \X AllMarkets
      /\ rows.signals = {signal}
  <2> HIDE DEF signal
  <2> QED
    BY <1>2 DEF TxRows
<1>5. RowsTyped'
  <2> HIDE DEF rows
  <2>1. \A s \in rows.signals : s.fingerprint \in Fingerprints /\ s.scan \in 1..MaxScans
    BY <1>3, <1>4
  <2> QED
    BY <1>1, <1>4, <2>1, CommitTyped
<1>6. /\ pc'[p] = "execute" /\ scan'[p].weights \in WeightTables
      /\ tx'[p].plan = tx[p].plan
      /\ tx[p].plan.probability \in [DOMAIN Buckets -> 0..One]
  BY <1>1, <1>2 DEF IInv, ShapeOK, TxShape, TInv, Computed
<1>7. Computed(p)'
  BY <1>6 DEF Computed
<1> QED
  BY <1>5, <1>7, Typed

LEMMA FollowingKeepsTypes ==
    ASSUME IInv, TInv, NEW p \in Scanners, Alone(p),
           Execute(p) \/ AttemptFails(p) \/ Alert(p) \/ MarkAlerted(p)
    PROVE  TInv'
<1>1. /\ pc[p] \in Following /\ scan' = scan /\ UNCHANGED <<written, weights, observed, cut>>
  BY DEF Execute, AttemptFails, Alert, MarkAlerted, Following, others, seen
<1>2. RowsTyped'
  BY <1>1, RowsKept DEF Following
<1>3. /\ TxShape(tx[p]) /\ tx[p].todo # << >>
  BY <1>1, InScan DEF Session, Following
<1>4. /\ tx'[p].plan = tx[p].plan /\ pc'[p] # "insert"
  <2>1. CASE Execute(p)
    BY <2>1 DEF Execute, Goto, IInv, ShapeOK
  <2>2. CASE Alert(p) \/ MarkAlerted(p)
    <3>1. /\ \/ tx' = tx
             \/ tx' = [tx EXCEPT ![p].todo = Tail(@), ![p].signal = None, ![p].tries = 0]
          /\ \E label \in {"mark", "market"} : pc' = [pc EXCEPT ![p] = label]
      BY <2>2 DEF Alert, MarkAlerted, NextMarket, Goto
    <3> QED
      BY <1>3, <3>1 DEF IInv, ShapeOK, TxShape
  <2>3. CASE AttemptFails(p)
    BY <1>3, <2>3 DEF AttemptFails, IInv, ShapeOK, TxShape
  <2> QED
    BY <2>1, <2>2, <2>3
<1>5. /\ tx[p].plan.probability \in [DOMAIN Buckets -> 0..One]
      /\ scan'[p].weights \in WeightTables
  BY <1>1, <1>3 DEF TInv, Computed, Following
<1>6. Computed(p)'
  BY <1>4, <1>5 DEF Computed
<1> QED
  BY <1>2, <1>6, Typed

LEMMA EndEventKeepsTypes ==
    ASSUME IInv, TInv, NEW p \in Scanners, EndEvent(p), Alone(p)
    PROVE  TInv'
<1>1. /\ pc[p] = "market" /\ WriteRows(tx[p].rows)
      /\ scan' = [scan EXCEPT ![p].todo = Tail(@)]
      /\ pc' = [pc EXCEPT ![p] = "event"]
      /\ weights' = weights /\ observed' = observed /\ cut' = cut
  BY DEF EndEvent, Goto, others, seen
<1>2. tx[p].rows \in TxRows
  BY <1>1, InScan DEF Session, TxShape
<1>3. RowsTyped'
  <2>1. /\ tx[p].rows.events \subseteq AllEvents /\ tx[p].rows.contracts \subseteq AllMarkets
        /\ tx[p].rows.estimates \subseteq (1..MaxScans) \X AllMarkets
        /\ tx[p].rows.signals = {}
    BY <1>2 DEF TxRows
  <2> QED
    BY <1>1, <2>1, CommitTyped
<1>4. scan'[p].weights = scan[p].weights /\ pc'[p] = "event"
  BY <1>1, InScan DEF IInv, ShapeOK
<1>5. Computed(p)'
  BY <1>1, <1>4 DEF TInv, Computed, Following
<1> QED
  BY <1>3, <1>5, Typed

LEMMA InitTypes == Init => TInv
<1> SUFFICES ASSUME Init PROVE TInv
  OBVIOUS
<1>1. << >> \in WeightTables
  <2>1. << >> \in [{} -> 0..Unit]
    OBVIOUS
  <2> QED
    BY <2>1 DEF WeightTables
<1>2. events \subseteq AllEvents
  BY DEF Init, Recordable, AllEvents
<1>3. contracts \subseteq AllMarkets
  BY <1>2 DEF Init, AllMarkets
<1>4. RowsTyped
  BY <1>1, <1>2, <1>3 DEF Init, RowsTyped
<1>5. \A p \in Scanners : Computed(p)
  BY DEF Init, Computed, Following
<1> QED
  BY <1>4, <1>5 DEF TInv

LEMMA NextTypes == IInv /\ TInv /\ [Next]_vars => TInv'
<1> SUFFICES ASSUME IInv, TInv, [Next]_vars PROVE TInv'
  OBVIOUS
<1>1. CASE UNCHANGED vars
  BY <1>1 DEF vars, session, written, others, seen, TInv, RowsTyped, Computed
<1>2. CASE Calibrate
  <2>1. weights' \in WeightTables
    BY <1>2, StoredWeights DEF Calibrate
  <2> QED
    BY <1>2, <2>1 DEF Calibrate, session, written, seen, TInv, RowsTyped, Computed
<1>3. CASE Tick
  <2>1. observed' \subseteq 0..MaxClock
    <3>1. clock \in 0..MaxClock /\ MaxClock \in Nat /\ observed \subseteq 0..MaxClock
      BY DomainTypes DEF IInv, ShapeOK, TInv, RowsTyped
    <3>2. clock + 1 \in 0..MaxClock
      BY <1>3, <3>1 DEF Tick
    <3> QED
      BY <1>3, <3>1, <3>2 DEF Tick
  <2> QED
    BY <1>3, <2>1 DEF Tick, session, written, seen, TInv, RowsTyped, Computed
<1>4. ASSUME NEW p \in Scanners, Begin(p) \/ Step(p) \/ LockTimeout(p) \/ Crash(p)
      PROVE  TInv'
  <2>1. Alone(p)
    BY <1>4, OneMoves
  <2>2. CASE Begin(p)
    BY <2>1, <2>2, BeginKeepsTypes
  <2>3. CASE DiscoverFails(p) \/ ScanDone(p)
    BY <2>1, <2>3, EndScanKeepsTypes DEF DiscoverFails, ScanDone, seen
  <2>4. CASE UpsertFails(p) \/ ForecastRaises(p) \/ InsertFails(p) \/ ExecuteRaises(p)
             \/ AlertRaises(p) \/ LockTimeout(p)
    BY <2>1, <2>4, RaiseKeepsTypes
       DEF UpsertFails, ForecastRaises, InsertFails, ExecuteRaises, AlertRaises, LockTimeout
  <2>5. CASE Crash(p)
    BY <2>1, <2>5, EndScanKeepsTypes DEF Crash
  <2>6. CASE Discover(p) \/ NextEvent(p) \/ Upsert(p) \/ GetBooks(p)
    BY <2>1, <2>6, EarlyKeepsTypes
  <2>7. CASE Forecast(p) \/ Evaluate(p) \/ InsertSignal(p) \/ EndEvent(p)
    BY <2>1, <2>7, ForecastKeepsTypes, EvaluateKeepsTypes, InsertSignalKeepsTypes,
       EndEventKeepsTypes
  <2>8. CASE Execute(p) \/ AttemptFails(p) \/ Alert(p) \/ MarkAlerted(p)
    BY <2>1, <2>8, FollowingKeepsTypes
  <2> QED
    BY <1>4, <2>2, <2>3, <2>4, <2>5, <2>6, <2>7, <2>8 DEF Step
<1> QED
  BY <1>1, <1>2, <1>3, <1>4 DEF Next

(* Every variable has its type: in particular the weights a calibration    *)
(* stores and the probabilities of the signals never exceed the whole,     *)
(* whatever was forecast and settled (model_weights.py, probability.py).   *)
THEOREM TypeCorrect == Spec => []TypeOK
<1>1. Spec => []TInv
  BY InitTypes, NextTypes, Invariance, PTL DEF Spec
<1>2. IInv /\ TInv => TypeOK
  BY TInvTypes
<1> QED
  BY <1>1, <1>2, Invariance, PTL

-----------------------------------------------------------------------------
(* Locks: nobody waits in a circle                                         *)

(* Where a session may hold a lock.                                        *)
Holding == {"books", "forecast", "market", "insert"}

ThisEvent(p) == Head(scan[p].todo)
TheMarkets(p) == EventOf[ThisEvent(p)].markets

(* How many markets of its event a session has judged.                     *)
Judged(p) == Len(TheMarkets(p)) - Len(tx[p].todo)

Written(p) == IF pc[p] = "insert" THEN Judged(p) + 1 ELSE Judged(p)

(* The markets left are the last ones of the event; on PostgreSQL a        *)
(* session has locked no more than the event and the markets before them.  *)
Locked(p) ==
    /\ pc[p] \notin Holding => holds[p] = {}
    /\ pc[p] \in InEvent =>
          /\ Len(tx[p].todo) <= Len(TheMarkets(p))
          /\ \A i \in 1..Len(tx[p].todo) : tx[p].todo[i] = TheMarkets(p)[Judged(p) + i]
    /\ dialect = "sqlite" => holds[p] \subseteq {Writer}
    /\ dialect # "sqlite" /\ pc[p] \in Holding =>
          holds[p] \subseteq {EventRow(ThisEvent(p))}
                        \cup {ContractKey(TheMarkets(p)[i]) : i \in 1..Written(p)}

LockInv ==
    /\ holds = [p \in Scanners |-> holds[p]]
    /\ dialect \in Dialects
    /\ \A p \in Scanners : Locked(p)
    /\ \A p, q \in Scanners : dialect = "sqlite" /\ p # q => holds[p] = {} \/ holds[q] = {}

(* What a session's own step does to its locks.                            *)
LocksOf(p, h) ==
    /\ holds' = [holds EXCEPT ![p] = h]
    /\ dialect' = dialect

LEMMA LocksMove ==
    ASSUME LockInv, NEW p \in Scanners, NEW h, Alone(p), LocksOf(p, h), Locked(p)',
           \/ h \in {{}, holds[p]}
           \/ dialect = "sqlite" => \A q \in Scanners \ {p} : holds[q] = {}
    PROVE  LockInv'
<1>1. /\ holds'[p] = h /\ \A q \in Scanners \ {p} : holds'[q] = holds[q]
      /\ holds' = [q \in Scanners |-> holds'[q]]
  BY DEF LockInv, LocksOf
<1>2. ASSUME NEW q \in Scanners \ {p} PROVE Locked(q)'
  <2>1. /\ pc'[q] = pc[q] /\ scan'[q] = scan[q] /\ tx'[q] = tx[q] /\ holds'[q] = holds[q]
        /\ dialect' = dialect
    BY <1>1, <1>2 DEF Alone, LocksOf
  <2>2. /\ ThisEvent(q)' = ThisEvent(q) /\ TheMarkets(q)' = TheMarkets(q)
        /\ Judged(q)' = Judged(q) /\ Written(q)' = Written(q)
    BY <2>1 DEF ThisEvent, TheMarkets, Judged, Written
  <2>3. Locked(q)
    BY DEF LockInv
  <2> QED
    BY <2>1, <2>2, <2>3 DEF Locked
<1>3. \A q, r \in Scanners : dialect' = "sqlite" /\ q # r => holds'[q] = {} \/ holds'[r] = {}
  BY <1>1 DEF LockInv, LocksOf
<1> QED
  BY <1>1, <1>2, <1>3 DEF LockInv, LocksOf

LEMMA ReleaseKeepsLocks ==
    ASSUME LockInv, NEW p \in Scanners, Alone(p), LocksOf(p, {}),
           pc'[p] \notin Holding, pc'[p] \notin InEvent
    PROVE  LockInv'
<1>1. holds'[p] = {}
  BY DEF LockInv, LocksOf
<1>2. Locked(p)'
  BY <1>1 DEF Locked
<1> QED
  BY <1>2, LocksMove

(* Where p is in its event.                                                *)
LEMMA AtMarket ==
    ASSUME IInv, LockInv, NEW p \in Scanners, pc[p] \in InEvent
    PROVE  /\ ThisEvent(p) \in AllEvents /\ TheMarkets(p) \in Seq(AllMarkets)
           /\ tx[p].todo \in Seq(AllMarkets) /\ TxShape(tx[p])
           /\ Len(tx[p].todo) \in Nat /\ Len(TheMarkets(p)) \in Nat
           /\ Judged(p) \in 0..Len(TheMarkets(p))
           /\ Len(tx[p].todo) <= Len(TheMarkets(p))
           /\ \A i \in 1..Len(tx[p].todo) : tx[p].todo[i] = TheMarkets(p)[Judged(p) + i]
           /\ pc[p] # "idle"
<1>1. pc[p] # "idle"
  BY DEF InEvent, Following
<1>2. scan[p].todo \in Seq(AllEvents) /\ scan[p].todo # << >> /\ TxShape(tx[p])
  BY <1>1, InScan DEF Session
<1>3. ThisEvent(p) \in AllEvents
  BY <1>2 DEF ThisEvent
<1>4. TheMarkets(p) \in Seq(AllMarkets)
  BY <1>3, DomainTypes DEF TheMarkets
<1>5. tx[p].todo \in Seq(AllMarkets)
  BY <1>2 DEF TxShape
<1>6. Locked(p)
  BY DEF LockInv
<1>7. /\ Len(tx[p].todo) \in Nat /\ Len(TheMarkets(p)) \in Nat
      /\ Len(tx[p].todo) <= Len(TheMarkets(p))
  BY <1>4, <1>5, <1>6 DEF Locked
<1>8. \A i \in 1..Len(tx[p].todo) : tx[p].todo[i] = TheMarkets(p)[Judged(p) + i]
  BY <1>6 DEF Locked
<1>9. Judged(p) \in 0..Len(TheMarkets(p))
  BY <1>7 DEF Judged
<1> QED
  BY <1>1, <1>2, <1>3, <1>4, <1>5, <1>7, <1>8, <1>9

(* A step that keeps its place in the event and its locks.                 *)
LEMMA PlaceKeepsLocks ==
    ASSUME IInv, LockInv, NEW p \in Scanners, Alone(p), pc[p] \in InEvent, pc'[p] \in InEvent,
           scan'[p].todo = scan[p].todo, tx'[p].todo = tx[p].todo,
           pc'[p] \in Holding \/ holds[p] = {}, pc[p] # "insert", pc'[p] # "insert",
           holds' = holds, dialect' = dialect
    PROVE  LockInv'
<1>1. LocksOf(p, holds[p]) /\ holds'[p] = holds[p]
  BY DEF LockInv, LocksOf
<1>2. Locked(p)'
  <2>1. /\ ThisEvent(p)' = ThisEvent(p) /\ TheMarkets(p)' = TheMarkets(p)
        /\ Judged(p)' = Judged(p) /\ Written(p)' = Judged(p) /\ Written(p) = Judged(p)
    BY DEF ThisEvent, TheMarkets, Judged, Written
  <2>2. Locked(p)
    BY DEF LockInv
  <2> QED
    BY <1>1, <2>1, <2>2 DEF Locked
<1> QED
  BY <1>1, <1>2, LocksMove

(* The lock of a row, and what follows from having taken it.               *)
LEMMA TakeAlone ==
    ASSUME LockInv, NEW p \in Scanners, NEW row, Take(p, row), dialect' = dialect
    PROVE  /\ LocksOf(p, holds[p] \cup {ToWrite(row)})
           /\ holds'[p] = holds[p] \cup {ToWrite(row)}
           /\ dialect = "sqlite" => \A q \in Scanners \ {p} : holds[q] = {}
<1>1. holds' = [holds EXCEPT ![p] = holds[p] \cup {ToWrite(row)}]
  BY DEF Take, LockInv
<1>2. ASSUME dialect = "sqlite", NEW q \in Scanners \ {p} PROVE holds[q] = {}
  <2>1. holds[q] \subseteq {Writer} /\ Writer \notin holds[q]
    BY <1>2 DEF LockInv, Locked, Take, Available, ToWrite
  <2> QED
    BY <2>1
<1> QED
  BY <1>1, <1>2 DEF LocksOf, LockInv

LEMMA EarlyKeepsLocks ==
    ASSUME IInv, LockInv, NEW p \in Scanners, Begin(p) \/ Discover(p) \/ NextEvent(p), Alone(p)
    PROVE  LockInv'
<1>1. holds' = holds /\ dialect' = dialect /\ holds[p] = {}
  BY DEF Begin, Discover, NextEvent, LockInv, Locked, Holding
<1>2. LocksOf(p, {}) /\ holds'[p] = {}
  BY <1>1 DEF LocksOf, LockInv
<1>3. CASE Begin(p) \/ Discover(p)
  <2>1. pc'[p] \in {"discover", "event"}
    BY <1>3 DEF Begin, Discover, Goto, IInv, ShapeOK
  <2> QED
    BY <1>2, <2>1, ReleaseKeepsLocks DEF Holding, InEvent, Following
<1>4. CASE NextEvent(p)
  <2>1. CASE pc' = pc
    BY <1>2, <1>4, <2>1, ReleaseKeepsLocks DEF NextEvent, Holding, InEvent, Following
  <2>2. CASE pc' # pc
    <3> DEFINE ms == EventOf[Head(scan[p].todo)].markets
    <3>1. /\ pc[p] = "event" /\ scan' = scan
          /\ tx' = [tx EXCEPT ![p] = [NoTx EXCEPT !.known = Head(scan[p].todo) \in events,
                                                  !.todo = ms]]
          /\ pc' = [pc EXCEPT ![p] = "upsert"]
      BY <1>4, <2>2 DEF NextEvent, Goto
    <3>2. pc'[p] = "upsert" /\ tx'[p].todo = ms
      BY <3>1 DEF IInv, ShapeOK, NoTx
    <3>3. TheMarkets(p)' = ms
      BY <3>1 DEF TheMarkets, ThisEvent
    <3>4. ms \in Seq(AllMarkets)
      BY <1>4, <3>1, AtEvent DEF NextEvent
    <3> HIDE DEF ms
    <3>5. Len(ms) \in Nat
      BY <3>4
    <3>6. Judged(p)' = 0
      BY <3>2, <3>3, <3>5 DEF Judged
    <3>7. Locked(p)'
      BY <1>2, <3>2, <3>3, <3>5, <3>6 DEF Locked, Holding
    <3> QED
      BY <1>2, <3>7, LocksMove
  <2> QED
    BY <2>1, <2>2
<1> QED
  BY <1>3, <1>4

LEMMA EndScanKeepsLocks ==
    ASSUME IInv, LockInv, NEW p \in Scanners, EndScan(p), dialect' = dialect, Alone(p)
    PROVE  LockInv'
<1>1. pc'[p] = "idle" /\ LocksOf(p, {})
  BY DEF EndScan, Goto, Release, LocksOf, IInv, ShapeOK
<1> QED
  BY <1>1, ReleaseKeepsLocks DEF Holding, InEvent, Following

LEMMA UpsertKeepsLocks ==
    ASSUME IInv, LockInv, NEW p \in Scanners, Upsert(p), Alone(p)
    PROVE  LockInv'
<1> DEFINE e == Head(scan[p].todo)
           rejected == EventOf[e].route = "rejected"
<1>1. /\ pc[p] = "upsert" /\ scan' = scan /\ dialect' = dialect
      /\ \/ Take(p, EventRow(e))
         \/ holds' = holds
  BY DEF Upsert
<1>2. PICK rows :
        /\ tx' = [tx EXCEPT ![p].rows = rows, ![p].todo = IF rejected THEN << >> ELSE @]
        /\ pc' = [pc EXCEPT ![p] = IF rejected THEN "market" ELSE "books"]
  BY Zenon DEF Upsert, Goto
<1>3. /\ ThisEvent(p) = e /\ TheMarkets(p) \in Seq(AllMarkets) /\ TxShape(tx[p])
      /\ tx[p].todo \in Seq(AllMarkets)
      /\ Len(tx[p].todo) \in Nat /\ Len(TheMarkets(p)) \in Nat
      /\ Len(tx[p].todo) <= Len(TheMarkets(p)) /\ holds[p] = {}
      /\ \A i \in 1..Len(tx[p].todo) : tx[p].todo[i] = TheMarkets(p)[Judged(p) + i]
  BY <1>1, AtMarket DEF InEvent, ThisEvent, LockInv, Locked, Holding
<1>4. /\ pc'[p] \in {"market", "books"}
      /\ tx'[p].todo = << >> \/ tx'[p].todo = tx[p].todo
  <2> HIDE DEF rejected
  <2> QED
    BY <1>2, <1>3 DEF IInv, ShapeOK, TxShape
<1>5. /\ ThisEvent(p)' = e /\ TheMarkets(p)' = TheMarkets(p)
  BY <1>1 DEF ThisEvent, TheMarkets
<1>6. /\ Len(tx'[p].todo) <= Len(TheMarkets(p)')
      /\ \A i \in 1..Len(tx'[p].todo) : tx'[p].todo[i] = TheMarkets(p)'[Judged(p)' + i]
  <2>1. CASE tx'[p].todo = << >>
    BY <1>3, <1>5, <2>1
  <2>2. CASE tx'[p].todo = tx[p].todo
    <3>1. Judged(p)' = Judged(p)
      BY <1>5, <2>2 DEF Judged
    <3> QED
      BY <1>3, <1>5, <2>2, <3>1
  <2> QED
    BY <1>4, <2>1, <2>2
<1>7. CASE Take(p, EventRow(e))
  <2>1. /\ LocksOf(p, holds[p] \cup {ToWrite(EventRow(e))})
        /\ holds'[p] = {ToWrite(EventRow(e))}
        /\ dialect = "sqlite" => \A q \in Scanners \ {p} : holds[q] = {}
    <3> DEFINE row == EventRow(e)
    <3>1. Take(p, row) /\ dialect' = dialect /\ holds[p] = {}
      BY <1>1, <1>3, <1>7
    <3> HIDE DEF row, e
    <3>2. /\ LocksOf(p, holds[p] \cup {ToWrite(row)})
          /\ holds'[p] = holds[p] \cup {ToWrite(row)}
          /\ dialect = "sqlite" => \A q \in Scanners \ {p} : holds[q] = {}
      BY <3>1, TakeAlone
    <3> QED
      BY <3>1, <3>2 DEF row
  <2>2. Locked(p)'
    BY <1>1, <1>4, <1>5, <1>6, <2>1 DEF Locked, Holding, ToWrite
  <2> HIDE DEF e
  <2> QED
    BY <2>1, <2>2, LocksMove
<1>8. CASE holds' = holds
  <2>1. LocksOf(p, holds[p]) /\ holds'[p] = {}
    BY <1>1, <1>3, <1>8 DEF LocksOf, LockInv
  <2>2. Locked(p)'
    BY <1>4, <1>6, <2>1 DEF Locked, Holding
  <2> QED
    BY <2>1, <2>2, LocksMove
<1> QED
  BY <1>1, <1>7, <1>8

LEMMA CallsKeepLocks ==
    ASSUME IInv, LockInv, NEW p \in Scanners,
           \/ GetBooks(p) \/ Forecast(p) \/ Execute(p) \/ AttemptFails(p)
           \/ (Alert(p) /\ Telegram),
           Alone(p)
    PROVE  LockInv'
<1>1. /\ pc[p] \in InEvent /\ pc[p] # "insert" /\ scan' = scan
      /\ holds' = holds /\ dialect' = dialect
  BY DEF GetBooks, Forecast, Execute, AttemptFails, Alert, InEvent, Following
<1>2. TxShape(tx[p])
  BY <1>1, AtMarket
<1>3. /\ pc'[p] \in InEvent \ {"insert"} /\ tx'[p].todo = tx[p].todo
      /\ pc'[p] \in Holding \/ pc[p] \notin Holding
  <2>1. CASE GetBooks(p)
    BY <1>2, <2>1 DEF GetBooks, Goto, IInv, ShapeOK, TxShape, InEvent, Holding
  <2>2. CASE Forecast(p)
    <3>1. PICK plan : tx' = [tx EXCEPT ![p].plan = plan]
      BY <2>2 DEF Forecast
    <3> QED
      BY <1>2, <2>2, <3>1 DEF Forecast, Goto, IInv, ShapeOK, TxShape, InEvent, Holding
  <2>3. CASE Execute(p) \/ (Alert(p) /\ Telegram)
    BY <2>3 DEF Execute, Alert, Goto, IInv, ShapeOK, InEvent, Following, Holding
  <2>4. CASE AttemptFails(p)
    BY <1>2, <2>4 DEF AttemptFails, IInv, ShapeOK, TxShape, InEvent, Following, Holding
  <2> QED
    BY <2>1, <2>2, <2>3, <2>4
<1>4. pc'[p] \in Holding \/ holds[p] = {}
  BY <1>3 DEF LockInv, Locked
<1> QED
  BY <1>1, <1>3, <1>4, PlaceKeepsLocks

(* One less to do of a sequence.                                           *)
LEMMA TailOfAll ==
    ASSUME NEW T, NEW ms \in Seq(T), NEW todo \in Seq(T), todo # << >>,
           Len(todo) <= Len(ms),
           \A i \in 1..Len(todo) : todo[i] = ms[Len(ms) - Len(todo) + i]
    PROVE  /\ Len(Tail(todo)) <= Len(ms) /\ Len(ms) - Len(Tail(todo)) = Len(ms) - Len(todo) + 1
           /\ \A i \in 1..Len(Tail(todo)) :
                 Tail(todo)[i] = ms[Len(ms) - Len(Tail(todo)) + i]
           /\ Head(todo) = ms[Len(ms) - Len(todo) + 1]
<1>1. Len(todo) \in Nat \ {0} /\ Len(ms) \in Nat /\ Len(Tail(todo)) = Len(todo) - 1
  BY LenProperties, HeadTailProperties
<1>2. ASSUME NEW i \in 1..Len(Tail(todo))
      PROVE  Tail(todo)[i] = ms[Len(ms) - Len(Tail(todo)) + i]
  <2>1. Tail(todo)[i] = todo[i + 1] /\ i + 1 \in 1..Len(todo)
    BY <1>1, HeadTailProperties
  <2>2. todo[i + 1] = ms[Len(ms) - Len(todo) + (i + 1)]
    BY <2>1
  <2>3. Len(ms) - Len(todo) + (i + 1) = Len(ms) - Len(Tail(todo)) + i
    BY <1>1
  <2> QED
    BY <2>1, <2>2, <2>3
<1>3. Head(todo) = ms[Len(ms) - Len(todo) + 1]
  <2>1. Head(todo) = todo[1] /\ 1 \in 1..Len(todo)
    BY <1>1
  <2> QED
    BY <2>1
<1>4. Len(Tail(todo)) <= Len(ms) /\ Len(ms) - Len(Tail(todo)) = Len(ms) - Len(todo) + 1
  BY <1>1
<1> QED
  BY <1>2, <1>3, <1>4

(* One market less to judge, one event less to scan.                        *)
LEMMA TailOfMarkets ==
    ASSUME NEW ms, NEW todo, ms \in Seq(AllMarkets), todo \in Seq(AllMarkets), todo # << >>,
           Len(todo) <= Len(ms),
           \A i \in 1..Len(todo) : todo[i] = ms[Len(ms) - Len(todo) + i]
    PROVE  /\ Len(Tail(todo)) <= Len(ms) /\ Len(ms) - Len(Tail(todo)) = Len(ms) - Len(todo) + 1
           /\ \A i \in 1..Len(Tail(todo)) :
                 Tail(todo)[i] = ms[Len(ms) - Len(Tail(todo)) + i]
           /\ Head(todo) = ms[Len(ms) - Len(todo) + 1]
  BY TailOfAll, Zenon

LEMMA TailOfEvents ==
    ASSUME NEW ms, NEW todo, ms \in Seq(AllEvents), todo \in Seq(AllEvents), todo # << >>,
           Len(todo) <= Len(ms),
           \A i \in 1..Len(todo) : todo[i] = ms[Len(ms) - Len(todo) + i]
    PROVE  /\ Len(Tail(todo)) <= Len(ms) /\ Len(ms) - Len(Tail(todo)) = Len(ms) - Len(todo) + 1
           /\ \A i \in 1..Len(Tail(todo)) :
                 Tail(todo)[i] = ms[Len(ms) - Len(Tail(todo)) + i]
           /\ Head(todo) = ms[Len(ms) - Len(todo) + 1]
  BY TailOfAll, Zenon

(* Everything held is about this event's markets so far.                   *)
LEMMA NextMarketKeepsLocks ==
    ASSUME IInv, LockInv, NEW p \in Scanners, MarkAlerted(p) \/ (Alert(p) /\ ~Telegram), Alone(p)
    PROVE  LockInv'
<1>1. /\ pc[p] \in Following /\ scan' = scan /\ holds' = holds /\ dialect' = dialect
      /\ tx' = [tx EXCEPT ![p].todo = Tail(@), ![p].signal = None, ![p].tries = 0]
      /\ pc' = [pc EXCEPT ![p] = "market"]
  BY DEF MarkAlerted, Alert, NextMarket, Goto, Following
<1>2. /\ holds[p] = {} /\ holds'[p] = {} /\ LocksOf(p, {})
  BY <1>1 DEF LockInv, Locked, Following, Holding, LocksOf
<1>3. /\ TheMarkets(p) \in Seq(AllMarkets) /\ tx[p].todo \in Seq(AllMarkets) /\ TxShape(tx[p])
      /\ Len(tx[p].todo) <= Len(TheMarkets(p)) /\ tx[p].todo # << >>
      /\ \A i \in 1..Len(tx[p].todo) : tx[p].todo[i] = TheMarkets(p)[Judged(p) + i]
  <2>1. pc[p] \in InEvent /\ tx[p].todo # << >>
    BY <1>1, InScan DEF Session, Following, InEvent
  <2> QED
    BY <2>1, AtMarket
<1>4. /\ tx'[p].todo = Tail(tx[p].todo) /\ pc'[p] = "market"
      /\ TheMarkets(p)' = TheMarkets(p)
  BY <1>1, <1>3 DEF IInv, ShapeOK, TxShape, TheMarkets, ThisEvent
<1>5. /\ Len(tx'[p].todo) <= Len(TheMarkets(p)')
      /\ \A i \in 1..Len(tx'[p].todo) : tx'[p].todo[i] = TheMarkets(p)'[Judged(p)' + i]
  <2> DEFINE ms == TheMarkets(p)
             left == tx[p].todo
  <2>1. /\ ms \in Seq(AllMarkets) /\ left \in Seq(AllMarkets) /\ left # << >>
        /\ Len(left) <= Len(ms)
        /\ \A i \in 1..Len(left) : left[i] = ms[Len(ms) - Len(left) + i]
    BY <1>3 DEF Judged
  <2>2. /\ tx'[p].todo = Tail(left) /\ TheMarkets(p)' = ms
        /\ Judged(p)' = Len(ms) - Len(Tail(left))
    BY <1>4 DEF Judged
  <2> HIDE DEF ms, left
  <2>3. /\ Len(Tail(left)) <= Len(ms)
        /\ \A i \in 1..Len(Tail(left)) : Tail(left)[i] = ms[Len(ms) - Len(Tail(left)) + i]
    BY <2>1, TailOfMarkets
  <2> QED
    BY <2>2, <2>3
<1>6. Locked(p)'
  BY <1>2, <1>4, <1>5 DEF Locked, Holding
<1> QED
  BY <1>2, <1>6, LocksMove

LEMMA EvaluateKeepsLocks ==
    ASSUME IInv, LockInv, NEW p \in Scanners, Evaluate(p), Alone(p)
    PROVE  LockInv'
<1> DEFINE m == Head(tx[p].todo)
<1>1. /\ pc[p] = "market" /\ tx[p].todo # << >> /\ scan' = scan /\ dialect' = dialect
      /\ Take(p, ContractKey(m)) \/ holds' = holds
  BY DEF Evaluate
<1>2. PICK rows, signal :
        \/ /\ tx' = [tx EXCEPT ![p].rows = rows, ![p].todo = Tail(@)]
           /\ pc' = pc
        \/ /\ tx' = [tx EXCEPT ![p].rows = rows, ![p].signal = signal]
           /\ pc' = [pc EXCEPT ![p] = "insert"]
  BY DEF Evaluate, Goto
<1>3. /\ ThisEvent(p) \in AllEvents /\ TheMarkets(p) \in Seq(AllMarkets) /\ TxShape(tx[p])
      /\ tx[p].todo \in Seq(AllMarkets) /\ Len(tx[p].todo) <= Len(TheMarkets(p))
      /\ Judged(p) \in 0..Len(TheMarkets(p)) /\ Len(TheMarkets(p)) \in Nat
      /\ \A i \in 1..Len(tx[p].todo) : tx[p].todo[i] = TheMarkets(p)[Judged(p) + i]
  BY <1>1, AtMarket DEF InEvent
<1>4. /\ Len(Tail(tx[p].todo)) <= Len(TheMarkets(p))
      /\ Len(TheMarkets(p)) - Len(Tail(tx[p].todo)) = Judged(p) + 1
      /\ \A i \in 1..Len(Tail(tx[p].todo)) :
            Tail(tx[p].todo)[i] = TheMarkets(p)[Len(TheMarkets(p)) - Len(Tail(tx[p].todo)) + i]
      /\ m = TheMarkets(p)[Judged(p) + 1]
  <2> DEFINE ms == TheMarkets(p)
             left == tx[p].todo
  <2>1. /\ ms \in Seq(AllMarkets) /\ left \in Seq(AllMarkets) /\ left # << >>
        /\ Len(left) <= Len(ms)
        /\ \A i \in 1..Len(left) : left[i] = ms[Len(ms) - Len(left) + i]
    BY <1>1, <1>3 DEF Judged
  <2>2. Judged(p) = Len(ms) - Len(left)
    BY DEF Judged
  <2> HIDE DEF ms, left
  <2>3. /\ Len(Tail(left)) <= Len(ms) /\ Len(ms) - Len(Tail(left)) = Len(ms) - Len(left) + 1
        /\ \A i \in 1..Len(Tail(left)) : Tail(left)[i] = ms[Len(ms) - Len(Tail(left)) + i]
        /\ Head(left) = ms[Len(ms) - Len(left) + 1]
    BY <2>1, TailOfMarkets
  <2> QED
    BY <2>2, <2>3 DEF ms, left
<1>5. /\ ThisEvent(p)' = ThisEvent(p) /\ TheMarkets(p)' = TheMarkets(p)
      /\ Judged(p) \in Nat
  BY <1>1, <1>3 DEF ThisEvent, TheMarkets
<1>6. \/ pc'[p] = "market" /\ tx'[p].todo = Tail(tx[p].todo)
      \/ pc'[p] = "insert" /\ tx'[p].todo = tx[p].todo
  <2>1. CASE tx' = [tx EXCEPT ![p].rows = rows, ![p].todo = Tail(@)] /\ pc' = pc
    BY <1>1, <1>3, <2>1 DEF IInv, ShapeOK, TxShape
  <2>2. CASE /\ tx' = [tx EXCEPT ![p].rows = rows, ![p].signal = signal]
             /\ pc' = [pc EXCEPT ![p] = "insert"]
    BY <1>1, <1>3, <2>2 DEF IInv, ShapeOK, TxShape
  <2> QED
    BY <1>2, <2>1, <2>2
<1> HIDE DEF m
<1>7. /\ Written(p)' = Judged(p) + 1
      /\ Len(tx'[p].todo) <= Len(TheMarkets(p)')
      /\ \A i \in 1..Len(tx'[p].todo) : tx'[p].todo[i] = TheMarkets(p)'[Judged(p)' + i]
      /\ pc'[p] \in Holding
  <2>1. CASE pc'[p] = "market" /\ tx'[p].todo = Tail(tx[p].todo)
    BY <1>4, <1>5, <2>1 DEF Judged, Written, Holding
  <2>2. CASE pc'[p] = "insert" /\ tx'[p].todo = tx[p].todo
    BY <1>3, <1>5, <2>2 DEF Judged, Written, Holding
  <2> QED
    BY <1>6, <2>1, <2>2
<1>8. dialect # "sqlite" =>
        /\ holds[p] \subseteq {EventRow(ThisEvent(p))}
                        \cup {ContractKey(TheMarkets(p)[i]) : i \in 1..(Judged(p) + 1)}
        /\ ContractKey(m) \in {ContractKey(TheMarkets(p)[i]) : i \in 1..(Judged(p) + 1)}
  <2>1. Written(p) = Judged(p) /\ 1..Judged(p) \subseteq 1..(Judged(p) + 1)
    BY <1>1, <1>5 DEF Written
  <2>2. Judged(p) + 1 \in 1..(Judged(p) + 1)
    BY <1>5
  <2> QED
    BY <1>1, <1>4, <2>1, <2>2 DEF LockInv, Locked, Holding
<1>9. CASE Take(p, ContractKey(m))
  <2>1. /\ LocksOf(p, holds[p] \cup {ToWrite(ContractKey(m))})
        /\ holds'[p] = holds[p] \cup {ToWrite(ContractKey(m))}
        /\ dialect = "sqlite" => \A q \in Scanners \ {p} : holds[q] = {}
    BY <1>1, <1>9, TakeAlone
  <2>2. dialect = "sqlite" => holds'[p] \subseteq {Writer}
    BY <2>1 DEF LockInv, Locked, ToWrite
  <2>3. dialect # "sqlite" =>
          holds'[p] \subseteq {EventRow(ThisEvent(p))}
                          \cup {ContractKey(TheMarkets(p)[i]) : i \in 1..(Judged(p) + 1)}
    BY <1>8, <2>1 DEF ToWrite
  <2>4. Locked(p)'
    BY <1>1, <1>5, <1>7, <2>2, <2>3 DEF Locked
  <2> QED
    BY <2>1, <2>4, LocksMove
<1>10. CASE holds' = holds
  <2>1. LocksOf(p, holds[p]) /\ holds'[p] = holds[p]
    BY <1>1, <1>10 DEF LocksOf, LockInv
  <2>2. dialect = "sqlite" => holds'[p] \subseteq {Writer}
    BY <2>1 DEF LockInv, Locked
  <2>3. Locked(p)'
    BY <1>1, <1>5, <1>7, <1>8, <2>1, <2>2 DEF Locked
  <2> QED
    BY <2>1, <2>3, LocksMove
<1> QED
  BY <1>1, <1>9, <1>10

LEMMA CommitKeepsLocks ==
    ASSUME IInv, LockInv, NEW p \in Scanners, InsertSignal(p) \/ EndEvent(p), Alone(p)
    PROVE  LockInv'
<1>1. LocksOf(p, {})
  BY DEF InsertSignal, CommitSignal, EndEvent, Release, LocksOf
<1>2. CASE EndEvent(p)
  <2>1. pc'[p] = "event"
    BY <1>2 DEF EndEvent, Goto, IInv, ShapeOK
  <2> QED
    BY <1>1, <2>1, ReleaseKeepsLocks DEF Holding, InEvent, Following
<1>3. CASE InsertSignal(p)
  <2>1. /\ pc[p] = "insert" /\ scan' = scan
        /\ tx' = [tx EXCEPT ![p].rows = NoRows] /\ pc' = [pc EXCEPT ![p] = "execute"]
    BY <1>3, Zenon DEF InsertSignal, CommitSignal, Goto, ExecuteNext
  <2>2. /\ TxShape(tx[p]) /\ Len(tx[p].todo) <= Len(TheMarkets(p))
        /\ \A i \in 1..Len(tx[p].todo) : tx[p].todo[i] = TheMarkets(p)[Judged(p) + i]
    BY <2>1, AtMarket DEF InEvent
  <2>3. pc'[p] = "execute" /\ tx'[p].todo = tx[p].todo
    BY <2>1, <2>2 DEF IInv, ShapeOK, TxShape
  <2>4. TheMarkets(p)' = TheMarkets(p) /\ Judged(p)' = Judged(p)
    BY <2>1, <2>3 DEF TheMarkets, ThisEvent, Judged
  <2>5. holds'[p] = {}
    BY <1>1 DEF LocksOf, LockInv
  <2>6. Locked(p)'
    BY <2>2, <2>3, <2>4, <2>5 DEF Locked, Holding
  <2> QED
    BY <1>1, <2>6, LocksMove
<1> QED
  BY <1>2, <1>3

LEMMA InitLocks == Init => LockInv
<1> SUFFICES ASSUME Init PROVE LockInv
  OBVIOUS
<1>1. ASSUME NEW p \in Scanners PROVE Locked(p)
  BY DEF Init, Locked, Holding, InEvent, Following
<1> QED
  BY <1>1 DEF Init, LockInv

LEMMA NextLocks == IInv /\ LockInv /\ [Next]_vars => LockInv'
<1> SUFFICES ASSUME IInv, LockInv, [Next]_vars PROVE LockInv'
  OBVIOUS
<1>1. CASE Calibrate \/ Tick \/ UNCHANGED vars
  <2>1. pc' = pc /\ scan' = scan /\ tx' = tx /\ holds' = holds /\ dialect' = dialect
    BY <1>1 DEF Calibrate, Tick, vars, session
  <2>2. ASSUME NEW q \in Scanners PROVE Locked(q)'
    <3>1. /\ ThisEvent(q)' = ThisEvent(q) /\ TheMarkets(q)' = TheMarkets(q)
          /\ Judged(q)' = Judged(q) /\ Written(q)' = Written(q)
      BY <2>1 DEF ThisEvent, TheMarkets, Judged, Written
    <3>2. Locked(q)
      BY DEF LockInv
    <3> QED
      BY <2>1, <3>1, <3>2 DEF Locked
  <2> QED
    BY <2>1, <2>2 DEF LockInv
<1>2. ASSUME NEW p \in Scanners, Begin(p) \/ Step(p) \/ LockTimeout(p) \/ Crash(p)
      PROVE  LockInv'
  <2>1. Alone(p)
    BY <1>2, OneMoves
  <2>2. CASE Begin(p) \/ Discover(p) \/ NextEvent(p)
    BY <2>1, <2>2, EarlyKeepsLocks
  <2>3. CASE DiscoverFails(p) \/ ScanDone(p) \/ Crash(p)
    BY <2>1, <2>3, EndScanKeepsLocks DEF DiscoverFails, ScanDone, Crash
  <2>4. CASE UpsertFails(p) \/ ForecastRaises(p) \/ InsertFails(p) \/ ExecuteRaises(p)
             \/ AlertRaises(p) \/ LockTimeout(p)
    <3>1. EndScan(p) /\ dialect' = dialect
      BY <2>4 DEF UpsertFails, ForecastRaises, InsertFails, ExecuteRaises, AlertRaises,
                  LockTimeout, Raise
    <3> QED
      BY <2>1, <3>1, EndScanKeepsLocks
  <2>5. CASE Upsert(p) \/ Evaluate(p) \/ InsertSignal(p) \/ EndEvent(p)
    BY <2>1, <2>5, UpsertKeepsLocks, EvaluateKeepsLocks, CommitKeepsLocks
  <2>6. CASE \/ GetBooks(p) \/ Forecast(p) \/ Execute(p) \/ AttemptFails(p) \/ Alert(p)
             \/ MarkAlerted(p)
    BY <2>1, <2>6, CallsKeepLocks, NextMarketKeepsLocks
  <2> QED
    BY <1>2, <2>2, <2>3, <2>4, <2>5, <2>6 DEF Step
<1> QED
  BY <1>1, <1>2 DEF Next

-----------------------------------------------------------------------------
(* What a scan has left behind                                             *)

(* How many events a scan has left behind.                                 *)
Came(p) == Len(Discovered) - Len(scan[p].todo)

(* How many markets of its event a session has a contract for.             *)
Seen(p) == IF pc[p] \in {"insert"} \cup Following THEN Judged(p) + 1 ELSE Judged(p)

(* The first n markets of an event that is traded have their contract,     *)
(* stored or among these.                                                  *)
Covered(e, n, uncommitted) ==
    EventOf[e].route = "accepted" =>
        \A j \in 1..n : EventOf[e].markets[j] \in contracts \cup uncommitted

(* The events left are the last ones discovered; those before them are not *)
(* traded or have all their contracts stored.                              *)
EventsBehind(p) ==
    /\ Len(scan[p].todo) <= Len(Discovered)
    /\ \A i \in 1..Len(scan[p].todo) : scan[p].todo[i] = Discovered[Came(p) + i]
    /\ \A i \in 1..Came(p) : Covered(Discovered[i], Len(EventOf[Discovered[i]].markets), {})

MarketsBehind(p) ==
    /\ EventOf[ThisEvent(p)].route # "other"
    /\ pc[p] # "upsert" /\ tx[p].todo # << >> => EventOf[ThisEvent(p)].route = "accepted"
    /\ Covered(ThisEvent(p), Seen(p), tx[p].rows.contracts)

(* On PostgreSQL a session has locked the contracts it inserted.           *)
RowsLocked(p) == \A m \in tx[p].rows.contracts : m \in contracts \/ ContractKey(m) \in holds[p]

Behind(p) ==
    /\ pc[p] \notin {"idle", "discover"} => EventsBehind(p)
    /\ pc[p] \in InEvent => MarketsBehind(p)
    /\ dialect # "sqlite" => RowsLocked(p)

PassInv ==
    /\ \A p \in Scanners : Behind(p)
    /\ \A p, q \in Scanners : dialect # "sqlite" /\ p # q => holds[p] \cap holds[q] = {}

LEMMA CoveredStays ==
    ASSUME NEW e, NEW n, NEW rows, Covered(e, n, rows), contracts \subseteq contracts'
    PROVE  Covered(e, n, rows)'
  BY DEF Covered

(* A step of p that commits rows or none, and gains or gives up locks.     *)
LEMMA PassMove ==
    ASSUME LockInv, PassInv, NEW p \in Scanners, NEW h, Alone(p), LocksOf(p, h), Behind(p)',
           contracts \subseteq contracts',
           \/ h \in {{}, holds[p]}
           \/ dialect # "sqlite" => \A q \in Scanners \ {p} : h \cap holds[q] = {}
    PROVE  PassInv'
<1>1. /\ holds'[p] = h /\ \A q \in Scanners \ {p} : holds'[q] = holds[q]
      /\ dialect' = dialect
  BY DEF LockInv, LocksOf
<1>2. ASSUME NEW q \in Scanners \ {p} PROVE Behind(q)'
  <2>1. /\ pc'[q] = pc[q] /\ scan'[q] = scan[q] /\ tx'[q] = tx[q] /\ holds'[q] = holds[q]
        /\ dialect' = dialect
    BY <1>1, <1>2 DEF Alone
  <2>2. /\ ThisEvent(q)' = ThisEvent(q) /\ Came(q)' = Came(q) /\ Seen(q)' = Seen(q)
    BY <2>1 DEF ThisEvent, TheMarkets, Judged, Came, Seen
  <2>3. Behind(q)
    BY DEF PassInv
  <2>4. EventsBehind(q) => EventsBehind(q)'
    BY <2>1, <2>2 DEF EventsBehind, Covered
  <2>5. MarketsBehind(q) => MarketsBehind(q)'
    BY <2>1, <2>2 DEF MarketsBehind, Covered
  <2>6. RowsLocked(q) => RowsLocked(q)'
    BY <2>1 DEF RowsLocked
  <2> QED
    BY <2>1, <2>3, <2>4, <2>5, <2>6 DEF Behind
<1>3. \A q, r \in Scanners : dialect' # "sqlite" /\ q # r => holds'[q] \cap holds'[r] = {}
  <2>1. dialect # "sqlite" => \A q \in Scanners \ {p} : h \cap holds[q] = {}
    BY DEF PassInv
  <2> QED
    BY <1>1, <2>1 DEF PassInv
<1> QED
  BY <1>2, <1>3, <1>1 DEF PassInv

(* The session is over and the scan has yet to find out what there is.     *)
LEMMA NothingBehind ==
    ASSUME LockInv, PassInv, NEW p \in Scanners, Alone(p), LocksOf(p, {}),
           pc'[p] \in {"idle", "discover"}, tx'[p] = NoTx, contracts' = contracts
    PROVE  PassInv'
<1>1. Behind(p)'
  BY DEF Behind, RowsLocked, NoTx, NoRows, InEvent, Following
<1> QED
  BY <1>1, PassMove

LEMMA EndScanPasses ==
    ASSUME IInv, LockInv, PassInv, NEW p \in Scanners, EndScan(p), dialect' = dialect,
           contracts' = contracts, Alone(p)
    PROVE  PassInv'
<1>1. /\ pc'[p] = "idle" /\ LocksOf(p, {}) /\ tx'[p] = NoTx
  BY DEF EndScan, Goto, Release, LocksOf, IInv, ShapeOK
<1> QED
  BY <1>1, NothingBehind

LEMMA BeginPasses ==
    ASSUME IInv, LockInv, PassInv, NEW p \in Scanners, Begin(p), Alone(p)
    PROVE  PassInv'
<1>1. /\ pc'[p] = "discover" /\ tx'[p] = NoTx /\ contracts' = contracts
      /\ holds' = holds /\ dialect' = dialect /\ holds[p] = {}
  BY DEF Begin, Goto, IInv, ShapeOK, Placed, Session, InEvent, Following, LockInv, Locked,
         Holding, written
<1>2. LocksOf(p, {})
  BY <1>1 DEF LocksOf, LockInv
<1> QED
  BY <1>1, <1>2, NothingBehind

LEMMA DiscoverPasses ==
    ASSUME IInv, LockInv, PassInv, NEW p \in Scanners, Discover(p), Alone(p)
    PROVE  PassInv'
<1>1. /\ pc'[p] = "event" /\ tx'[p] = NoTx /\ contracts' = contracts
      /\ holds' = holds /\ dialect' = dialect /\ holds[p] = {}
  BY DEF Discover, Goto, IInv, ShapeOK, Placed, Session, InEvent, Following, LockInv, Locked,
         Holding, written
<1>2. LocksOf(p, {})
  BY <1>1 DEF LocksOf, LockInv
<1>3. scan'[p].todo = Discovered
  <2>1. scan[p] = [n |-> scan[p].n, now |-> scan[p].now, todo |-> scan[p].todo,
                   weights |-> scan[p].weights]
    BY InScan DEF Discover
  <2> QED
    BY <2>1 DEF Discover, IInv, ShapeOK
<1>4. Came(p)' = 0 /\ Len(Discovered) \in Nat
  BY <1>3, DomainTypes DEF Came
<1>5. EventsBehind(p)'
  BY <1>3, <1>4 DEF EventsBehind
<1>6. Behind(p)'
  BY <1>1, <1>5 DEF Behind, RowsLocked, NoTx, NoRows, InEvent, Following
<1> QED
  BY <1>1, <1>2, <1>6, PassMove

(* The scan leaves an event behind that is not traded or has its contracts.*)
LEMMA EventPassed ==
    ASSUME IInv, LockInv, PassInv, NEW p \in Scanners, pc[p] \notin {"idle", "discover"},
           NEW d, d = Discovered, NEW todo, todo = scan[p].todo, NEW e, e = Head(todo),
           todo # << >>, scan'[p].todo = Tail(todo), contracts \subseteq contracts',
           Covered(e, Len(EventOf[e].markets), {})'
    PROVE  EventsBehind(p)'
<1>1. /\ d \in Seq(AllEvents) /\ todo \in Seq(AllEvents) /\ todo # << >>
      /\ Len(todo) <= Len(d)
      /\ \A i \in 1..Len(todo) : todo[i] = d[Len(d) - Len(todo) + i]
  <2>1. EventsBehind(p) /\ pc[p] # "idle"
    BY DEF PassInv, Behind
  <2> QED
    BY <2>1, InScan, DomainTypes DEF EventsBehind, Came
<1>2. \A i \in 1..(Len(d) - Len(todo)) : Covered(d[i], Len(EventOf[d[i]].markets), {})
  BY DEF PassInv, Behind, EventsBehind, Came
<1>3. /\ Len(Tail(todo)) <= Len(d) /\ Len(d) - Len(Tail(todo)) = Len(d) - Len(todo) + 1
      /\ \A i \in 1..Len(Tail(todo)) : Tail(todo)[i] = d[Len(d) - Len(Tail(todo)) + i]
      /\ Head(todo) = d[Len(d) - Len(todo) + 1]
  BY ONLY <1>1, TailOfEvents
<1>4. ASSUME NEW i \in 1..(Len(d) - Len(Tail(todo)))
      PROVE  Covered(d[i], Len(EventOf[d[i]].markets), {})'
  <2>1. Len(d) \in Nat /\ Len(todo) \in Nat
    BY <1>1
  <2>2. CASE i = Len(d) - Len(todo) + 1
    BY <1>3, <2>2
  <2>3. CASE i # Len(d) - Len(todo) + 1
    <3>1. i \in 1..(Len(d) - Len(todo))
      BY <1>3, <2>1, <2>3
    <3>2. Covered(d[i], Len(EventOf[d[i]].markets), {})
      BY <1>2, <3>1
    <3> QED
      BY <3>2, CoveredStays
  <2> QED
    BY <2>2, <2>3
<1> QED
  BY <1>3, <1>4 DEF EventsBehind, Came

LEMMA NextEventPasses ==
    ASSUME IInv, LockInv, PassInv, NEW p \in Scanners, NextEvent(p), Alone(p)
    PROVE  PassInv'
<1>1. /\ pc[p] = "event" /\ scan[p].todo # << >> /\ tx[p] = NoTx /\ contracts' = contracts
      /\ holds' = holds /\ dialect' = dialect /\ holds[p] = {}
      /\ EventsBehind(p)
  BY DEF NextEvent, IInv, Placed, Session, InEvent, Following, LockInv, Locked, Holding, written,
         PassInv, Behind
<1>2. LocksOf(p, {})
  BY <1>1 DEF LocksOf, LockInv
<1>3. CASE EventOf[Head(scan[p].todo)].route = "other"
  <2>1. /\ scan' = [scan EXCEPT ![p].todo = Tail(@)] /\ pc' = pc /\ tx' = tx
    BY <1>3, Zenon DEF NextEvent
  <2>2. scan'[p].todo = Tail(scan[p].todo)
    <3>1. scan[p] = [n |-> scan[p].n, now |-> scan[p].now, todo |-> scan[p].todo,
                     weights |-> scan[p].weights]
      BY <1>1, InScan
    <3> QED
      BY <2>1, <3>1 DEF IInv, ShapeOK
  <2>3. ASSUME NEW e, e = Head(scan[p].todo) PROVE Covered(e, Len(EventOf[e].markets), {})'
    BY <1>3, <2>3 DEF Covered
  <2>4. EventsBehind(p)'
    BY <1>1, <2>2, <2>3, EventPassed
  <2>5. Behind(p)'
    BY <1>1, <2>1, <2>4 DEF Behind, RowsLocked, NoTx, NoRows, InEvent, Following
  <2> QED
    BY <1>1, <1>2, <2>5, PassMove
<1>4. CASE EventOf[Head(scan[p].todo)].route # "other"
  <2> DEFINE e == Head(scan[p].todo)
  <2>1. /\ tx' = [tx EXCEPT ![p] = [NoTx EXCEPT !.known = e \in events,
                                                !.todo = EventOf[e].markets]]
        /\ pc' = [pc EXCEPT ![p] = "upsert"] /\ scan' = scan
    BY <1>4, Zenon DEF NextEvent, Goto
  <2>2. /\ pc'[p] = "upsert" /\ tx'[p].todo = EventOf[e].markets /\ tx'[p].rows = NoRows
    BY <2>1 DEF IInv, ShapeOK, NoTx
  <2>3. e \in AllEvents /\ EventOf[e].markets \in Seq(AllMarkets)
    BY <1>1, InScan, DomainTypes
  <2>4. ThisEvent(p)' = e /\ Seen(p)' = 0
    <3>1. ThisEvent(p)' = e
      BY <2>1 DEF ThisEvent
    <3>2. Judged(p)' = 0
      BY <2>2, <2>3, <3>1 DEF Judged, TheMarkets
    <3> QED
      BY <2>2, <3>1, <3>2 DEF Seen, Following
  <2> HIDE DEF e
  <2>5. MarketsBehind(p)'
    BY <1>4, <2>2, <2>4 DEF MarketsBehind, Covered, e
  <2>6. EventsBehind(p)'
    BY <1>1, <2>1 DEF EventsBehind, Came, Covered
  <2>7. RowsLocked(p)'
    BY <2>2 DEF RowsLocked, NoRows
  <2> QED
    BY <1>1, <1>2, <2>2, <2>5, <2>6, <2>7, PassMove DEF Behind
<1> QED
  BY <1>3, <1>4

(* What the session has yet to judge has a contract to come.               *)
LEMMA InMarkets ==
    ASSUME PassInv, NEW p \in Scanners, pc[p] \in InEvent
    PROVE  EventsBehind(p) /\ MarketsBehind(p) /\ (dialect # "sqlite" => RowsLocked(p))
  BY DEF PassInv, Behind, InEvent, Following

LEMMA StaysAtEvent ==
    ASSUME PassInv, NEW p \in Scanners, pc[p] \in InEvent, scan'[p].todo = scan[p].todo,
           contracts \subseteq contracts'
    PROVE  EventsBehind(p)' /\ ThisEvent(p)' = ThisEvent(p) /\ TheMarkets(p)' = TheMarkets(p)
<1>1. EventsBehind(p)
  BY InMarkets
<1> QED
  BY <1>1 DEF EventsBehind, Came, Covered, ThisEvent, TheMarkets

LEMMA UpsertPasses ==
    ASSUME IInv, LockInv, PassInv, NEW p \in Scanners, Upsert(p), Alone(p)
    PROVE  PassInv'
<1> DEFINE e == Head(scan[p].todo)
           rejected == EventOf[e].route = "rejected"
<1>1. /\ pc[p] = "upsert" /\ scan' = scan /\ dialect' = dialect /\ contracts' = contracts
      /\ Take(p, EventRow(e)) \/ holds' = holds
  BY DEF Upsert, written
<1>2. PICK refusals :
        /\ tx' = [tx EXCEPT ![p].rows = WithEvent(@, e, refusals),
                            ![p].todo = IF rejected THEN << >> ELSE @]
        /\ pc' = [pc EXCEPT ![p] = IF rejected THEN "market" ELSE "books"]
  BY Zenon DEF Upsert, Goto
<1>3. /\ TxShape(tx[p]) /\ tx[p].rows = NoRows /\ e \in AllEvents
      /\ Judged(p) \in Nat /\ holds[p] = {}
  BY <1>1, AtMarket, InScan DEF InEvent, ThisEvent, LockInv, Locked, Holding, Session
<1>4. /\ pc'[p] \in {"market", "books"} /\ tx'[p].rows.contracts = {}
      /\ tx'[p].todo = IF rejected THEN << >> ELSE tx[p].todo
  <2> HIDE DEF rejected, e
  <2>1. /\ tx'[p] = [tx[p] EXCEPT !.rows = WithEvent(@, e, refusals),
                                !.todo = IF rejected THEN << >> ELSE @]
        /\ pc'[p] \in {"market", "books"}
    BY <1>2 DEF IInv, ShapeOK
  <2>2. tx'[p].rows = WithEvent(NoRows, e, refusals)
    BY <1>3, <2>1 DEF TxShape
  <2>3. tx'[p].rows.contracts = {}
    BY <2>2 DEF WithEvent, NoRows
  <2>4. tx'[p].todo = IF rejected THEN << >> ELSE tx[p].todo
    BY <1>3, <2>1 DEF TxShape
  <2> QED
    BY <2>1, <2>3, <2>4
<1>5. /\ EventsBehind(p)' /\ ThisEvent(p)' = e /\ TheMarkets(p)' = TheMarkets(p)
      /\ EventOf[e].route # "other"
  BY <1>1, StaysAtEvent, InMarkets DEF InEvent, ThisEvent, MarketsBehind
<1>6. ~rejected => EventOf[e].route = "accepted"
  BY <1>3, <1>5, WeatherScanAssumption DEF AllEvents, ToSet
<1>7. MarketsBehind(p)'
  <2>1. CASE rejected
    BY <1>4, <1>5, <2>1 DEF MarketsBehind, Covered
  <2>2. CASE ~rejected
    <3>1. Judged(p)' = Judged(p)
      BY <1>4, <1>5, <2>2 DEF Judged
    <3>2. Seen(p)' = Judged(p) /\ Seen(p) = Judged(p)
      BY <1>1, <1>4, <3>1 DEF Seen, Following
    <3>3. Covered(e, Judged(p), {})
      <4>1. MarketsBehind(p) /\ ThisEvent(p) = e /\ tx[p].rows.contracts = {}
        BY <1>1, <1>3, InMarkets DEF InEvent, NoRows, ThisEvent
      <4> QED
        BY <3>2, <4>1 DEF MarketsBehind
    <3> QED
      BY <1>1, <1>4, <1>5, <1>6, <2>2, <3>2, <3>3 DEF MarketsBehind, Covered
  <2> QED
    BY <2>1, <2>2
<1>8. Behind(p)'
  BY <1>4, <1>5, <1>7 DEF Behind, RowsLocked
<1>9. CASE Take(p, EventRow(e))
  <2> DEFINE row == ToWrite(EventRow(e))
  <2>1. LocksOf(p, holds[p] \cup {row}) /\ \A q \in Scanners \ {p} : row \notin holds[q]
    BY <1>1, <1>9, TakeAlone DEF Take, Available
  <2>2. \A q \in Scanners \ {p} : (holds[p] \cup {row}) \cap holds[q] = {}
    BY <1>3, <2>1
  <2> HIDE DEF row
  <2> QED
    BY <1>1, <1>8, <2>1, <2>2, PassMove
<1>10. CASE holds' = holds
  <2>1. LocksOf(p, holds[p])
    BY <1>1, <1>10 DEF LocksOf, LockInv
  <2> QED
    BY <1>1, <1>8, <2>1, PassMove
<1> QED
  BY <1>1, <1>9, <1>10

LEMMA CallsPass ==
    ASSUME IInv, LockInv, PassInv, NEW p \in Scanners,
           \/ GetBooks(p) \/ Forecast(p) \/ Execute(p) \/ AttemptFails(p)
           \/ (Alert(p) /\ Telegram),
           Alone(p)
    PROVE  PassInv'
<1>1. /\ pc[p] \in InEvent \ {"upsert", "insert"} /\ scan' = scan /\ contracts' = contracts
      /\ holds' = holds /\ dialect' = dialect
  BY DEF GetBooks, Forecast, Execute, AttemptFails, Alert, InEvent, Following, written
<1>2. TxShape(tx[p])
  BY <1>1, AtMarket
<1>3. /\ pc'[p] \in InEvent \ {"upsert", "insert"} /\ (pc'[p] \in Following <=> pc[p] \in Following)
      /\ tx'[p].todo = tx[p].todo /\ tx'[p].rows = tx[p].rows
  <2>1. CASE GetBooks(p)
    BY <1>2, <2>1 DEF GetBooks, Goto, IInv, ShapeOK, TxShape, InEvent, Following
  <2>2. CASE Forecast(p)
    <3>1. PICK plan : tx' = [tx EXCEPT ![p].plan = plan]
      BY <2>2 DEF Forecast
    <3> QED
      BY <1>2, <2>2, <3>1 DEF Forecast, Goto, IInv, ShapeOK, TxShape, InEvent, Following
  <2>3. CASE Execute(p) \/ (Alert(p) /\ Telegram)
    BY <2>3 DEF Execute, Alert, Goto, IInv, ShapeOK, InEvent, Following
  <2>4. CASE AttemptFails(p)
    BY <1>2, <2>4 DEF AttemptFails, IInv, ShapeOK, TxShape, InEvent, Following
  <2> QED
    BY <2>1, <2>2, <2>3, <2>4
<1>4. EventsBehind(p)' /\ ThisEvent(p)' = ThisEvent(p) /\ TheMarkets(p)' = TheMarkets(p)
  BY <1>1, StaysAtEvent
<1>5. Seen(p)' = Seen(p)
  <2>1. Judged(p)' = Judged(p)
    BY <1>3, <1>4 DEF Judged
  <2>2. pc[p] # "insert" /\ pc'[p] # "insert"
    BY <1>1, <1>3
  <2> QED
    BY <1>3, <2>1, <2>2 DEF Seen
<1>6. MarketsBehind(p) /\ (dialect # "sqlite" => RowsLocked(p))
  BY <1>1, InMarkets
<1>7. MarketsBehind(p)'
  BY <1>1, <1>3, <1>4, <1>5, <1>6 DEF MarketsBehind, Covered
<1>8. dialect' # "sqlite" => RowsLocked(p)'
  BY <1>1, <1>3, <1>6 DEF RowsLocked
<1>9. LocksOf(p, holds[p])
  BY <1>1 DEF LocksOf, LockInv
<1> QED
  BY <1>1, <1>4, <1>7, <1>8, <1>9, PassMove DEF Behind

LEMMA OneJudged ==
    ASSUME IInv, LockInv, NEW p \in Scanners, pc[p] \in InEvent, tx[p].todo # << >>
    PROVE  /\ Len(TheMarkets(p)) - Len(Tail(tx[p].todo)) = Judged(p) + 1
           /\ Head(tx[p].todo) = TheMarkets(p)[Judged(p) + 1]
           /\ Len(tx[p].todo) \in Nat \ {0}
<1> DEFINE ms == TheMarkets(p)
           left == tx[p].todo
<1>1. /\ ms \in Seq(AllMarkets) /\ left \in Seq(AllMarkets) /\ left # << >>
      /\ Len(left) <= Len(ms)
      /\ \A i \in 1..Len(left) : left[i] = ms[Len(ms) - Len(left) + i]
  BY AtMarket DEF Judged
<1>2. Judged(p) = Len(ms) - Len(left)
  BY DEF Judged
<1> HIDE DEF ms, left
<1>3. /\ Len(ms) - Len(Tail(left)) = Len(ms) - Len(left) + 1
      /\ Head(left) = ms[Len(ms) - Len(left) + 1]
  BY ONLY <1>1, TailOfMarkets
<1>4. Len(left) \in Nat \ {0}
  BY <1>1
<1> QED
  BY <1>2, <1>3, <1>4 DEF ms, left

(* The contract of the market that was judged is there.                    *)
LEMMA NextMarketPasses ==
    ASSUME IInv, LockInv, PassInv, NEW p \in Scanners,
           MarkAlerted(p) \/ (Alert(p) /\ ~Telegram), Alone(p)
    PROVE  PassInv'
<1>1. /\ pc[p] \in Following /\ scan' = scan /\ holds' = holds /\ dialect' = dialect
      /\ contracts' = contracts
      /\ tx' = [tx EXCEPT ![p].todo = Tail(@), ![p].signal = None, ![p].tries = 0]
      /\ pc' = [pc EXCEPT ![p] = "market"]
  BY DEF MarkAlerted, Alert, NextMarket, Goto, Following, written
<1>2. pc[p] \in InEvent /\ tx[p].todo # << >>
  BY <1>1, InScan DEF Session, Following, InEvent
<1>3. /\ TxShape(tx[p]) /\ tx[p].todo \in Seq(AllMarkets) /\ Len(TheMarkets(p)) \in Nat
      /\ EventsBehind(p)' /\ ThisEvent(p)' = ThisEvent(p) /\ TheMarkets(p)' = TheMarkets(p)
      /\ MarketsBehind(p) /\ (dialect # "sqlite" => RowsLocked(p))
  BY <1>1, <1>2, AtMarket, StaysAtEvent, InMarkets
<1>4. pc'[p] = "market" /\ tx'[p].todo = Tail(tx[p].todo) /\ tx'[p].rows = tx[p].rows
  BY <1>1, <1>3 DEF IInv, ShapeOK, TxShape
<1>5. Seen(p)' = Seen(p)
  <2>1. Len(TheMarkets(p)) - Len(Tail(tx[p].todo)) = Judged(p) + 1
    BY <1>2, OneJudged
  <2>2. Seen(p) = Judged(p) + 1 /\ Seen(p)' = Judged(p)'
    BY <1>1, <1>4 DEF Seen, Following
  <2>3. Judged(p)' = Len(TheMarkets(p)) - Len(Tail(tx[p].todo))
    BY <1>3, <1>4 DEF Judged
  <2> QED
    BY <2>1, <2>2, <2>3
<1>6. MarketsBehind(p)'
  BY <1>1, <1>2, <1>3, <1>4, <1>5 DEF MarketsBehind, Covered, Following
<1>7. dialect' # "sqlite" => RowsLocked(p)'
  BY <1>1, <1>3, <1>4 DEF RowsLocked
<1>8. LocksOf(p, holds[p])
  BY <1>1 DEF LocksOf, LockInv
<1> QED
  BY <1>1, <1>3, <1>6, <1>7, <1>8, PassMove DEF Behind

LEMMA EvaluatePasses ==
    ASSUME IInv, LockInv, PassInv, NEW p \in Scanners, Evaluate(p), Alone(p)
    PROVE  PassInv'
<1> DEFINE m == Head(tx[p].todo)
<1>1. /\ pc[p] = "market" /\ tx[p].todo # << >> /\ scan' = scan /\ dialect' = dialect
      /\ contracts' = contracts
      /\ \/ Take(p, ContractKey(m))
         \/ dialect # "sqlite" /\ m \in contracts /\ holds' = holds
  BY DEF Evaluate, written
<1>2. PICK rows, signal :
        /\ rows.contracts = tx[p].rows.contracts \cup {m}
        /\ \/ /\ tx' = [tx EXCEPT ![p].rows = rows, ![p].todo = Tail(@)]
              /\ pc' = pc
           \/ /\ tx' = [tx EXCEPT ![p].rows = rows, ![p].signal = signal]
              /\ pc' = [pc EXCEPT ![p] = "insert"]
  <2>1. tx[p].rows \in TxRows
    BY <1>1, AtMarket DEF InEvent, TxShape
  <2> DEFINE estimated == WithEstimate(tx[p].rows, scan[p].n, m)
  <2>2. estimated.contracts = tx[p].rows.contracts \cup {m}
    BY <2>1 DEF WithEstimate, TxRows
  <2>3. \A refusals : WithReason(estimated, refusals).contracts = estimated.contracts
    BY <2>1 DEF WithEstimate, WithReason, TxRows
  <2>4. \E refusals, signal :
          \/ /\ tx' = [tx EXCEPT ![p].rows = WithReason(estimated, refusals),
                                 ![p].todo = Tail(@)]
             /\ pc' = pc
          \/ /\ tx' = [tx EXCEPT ![p].rows = estimated, ![p].signal = signal]
             /\ pc' = [pc EXCEPT ![p] = "insert"]
    BY Zenon DEF Evaluate, Goto
  <2> HIDE DEF estimated, m
  <2> QED
    BY <2>2, <2>3, <2>4
<1>3. /\ TxShape(tx[p]) /\ tx[p].todo \in Seq(AllMarkets) /\ Len(TheMarkets(p)) \in Nat
      /\ Judged(p) \in Nat /\ TheMarkets(p) \in Seq(AllMarkets)
      /\ EventsBehind(p)' /\ ThisEvent(p)' = ThisEvent(p) /\ TheMarkets(p)' = TheMarkets(p)
      /\ MarketsBehind(p) /\ (dialect # "sqlite" => RowsLocked(p))
  BY <1>1, AtMarket, StaysAtEvent, InMarkets DEF InEvent
<1>4. m = TheMarkets(p)[Judged(p) + 1]
  BY <1>1, OneJudged DEF InEvent
<1> HIDE DEF m
<1>5. /\ tx'[p].rows = rows
      /\ \/ pc'[p] = "market" /\ tx'[p].todo = Tail(tx[p].todo)
         \/ pc'[p] = "insert" /\ tx'[p].todo = tx[p].todo
  <2>1. CASE tx' = [tx EXCEPT ![p].rows = rows, ![p].todo = Tail(@)] /\ pc' = pc
    BY <1>1, <1>3, <2>1 DEF IInv, ShapeOK, TxShape
  <2>2. CASE /\ tx' = [tx EXCEPT ![p].rows = rows, ![p].signal = signal]
             /\ pc' = [pc EXCEPT ![p] = "insert"]
    BY <1>1, <1>3, <2>2 DEF IInv, ShapeOK, TxShape
  <2> QED
    BY <1>2, <2>1, <2>2
<1>6. Seen(p)' = Judged(p) + 1 /\ Seen(p) = Judged(p)
  <2>1. Len(TheMarkets(p)) - Len(Tail(tx[p].todo)) = Judged(p) + 1
    BY <1>1, OneJudged DEF InEvent
  <2>2. CASE pc'[p] = "market" /\ tx'[p].todo = Tail(tx[p].todo)
    <3>1. Seen(p)' = Judged(p)' /\ Seen(p) = Judged(p)
      BY <1>1, <2>2 DEF Seen, Following
    <3>2. Judged(p)' = Len(TheMarkets(p)) - Len(Tail(tx[p].todo))
      BY <1>3, <2>2 DEF Judged
    <3> QED
      BY <2>1, <3>1, <3>2
  <2>3. CASE pc'[p] = "insert" /\ tx'[p].todo = tx[p].todo
    <3>1. Judged(p)' = Judged(p)
      BY <1>3, <2>3 DEF Judged
    <3> QED
      BY <1>1, <2>3, <3>1 DEF Seen, Following
  <2> QED
    BY <1>5, <2>2, <2>3
<1>7. Covered(ThisEvent(p), Judged(p) + 1, rows.contracts)
  <2>1. Covered(ThisEvent(p), Judged(p), tx[p].rows.contracts)
    BY <1>3, <1>6 DEF MarketsBehind
  <2>2. \A j \in 1..(Judged(p) + 1) : j \in 1..Judged(p) \/ j = Judged(p) + 1
    BY <1>3
  <2> QED
    BY <1>2, <1>4, <2>1, <2>2 DEF Covered, TheMarkets
<1>8. MarketsBehind(p)'
  <2>1. EventOf[ThisEvent(p)].route = "accepted"
    BY <1>1, <1>3 DEF MarketsBehind
  <2> QED
    BY <1>1, <1>3, <1>5, <1>6, <1>7, <2>1 DEF MarketsBehind, Covered
<1>9. CASE Take(p, ContractKey(m))
  <2> DEFINE row == ToWrite(ContractKey(m))
  <2>1. /\ LocksOf(p, holds[p] \cup {row}) /\ holds'[p] = holds[p] \cup {row}
        /\ \A q \in Scanners \ {p} : row \notin holds[q]
    BY <1>1, <1>9, TakeAlone DEF Take, Available
  <2>2. dialect # "sqlite" => \A q \in Scanners \ {p} : (holds[p] \cup {row}) \cap holds[q] = {}
    BY <2>1 DEF PassInv
  <2>3. dialect # "sqlite" => row = ContractKey(m)
    BY DEF ToWrite
  <2> HIDE DEF row
  <2>4. dialect' # "sqlite" => RowsLocked(p)'
    BY <1>1, <1>2, <1>3, <1>5, <2>1, <2>3 DEF RowsLocked
  <2>5. Behind(p)'
    BY <1>3, <1>8, <2>4 DEF Behind
  <2> QED
    BY <1>1, <2>1, <2>2, <2>5, PassMove
<1>10. CASE dialect # "sqlite" /\ m \in contracts /\ holds' = holds
  <2>1. LocksOf(p, holds[p])
    BY <1>1, <1>10 DEF LocksOf, LockInv
  <2>2. RowsLocked(p)'
    BY <1>1, <1>2, <1>3, <1>5, <1>10 DEF RowsLocked
  <2> QED
    BY <1>1, <1>3, <1>8, <2>1, <2>2, PassMove DEF Behind
<1> QED
  BY <1>1, <1>9, <1>10

LEMMA InsertSignalPasses ==
    ASSUME IInv, LockInv, PassInv, NEW p \in Scanners, InsertSignal(p), Alone(p)
    PROVE  PassInv'
<1>1. /\ pc[p] = "insert" /\ scan' = scan /\ dialect' = dialect
      /\ tx' = [tx EXCEPT ![p].rows = NoRows] /\ pc' = [pc EXCEPT ![p] = "execute"]
  BY Zenon DEF InsertSignal, CommitSignal, Goto, ExecuteNext
<1>2. /\ TxShape(tx[p]) /\ tx[p].todo # << >> /\ (dialect # "sqlite" => RowsLocked(p))
      /\ MarketsBehind(p)
  BY <1>1, AtMarket, InScan, InMarkets DEF InEvent, Session
<1>3. contracts' = contracts \cup tx[p].rows.contracts
  <2>1. PICK signal : WriteRows([tx[p].rows EXCEPT !.signals = @ \cup {signal}])
    BY Zenon DEF InsertSignal, CommitSignal
  <2>2. tx[p].rows \in TxRows
    BY <1>2 DEF TxShape
  <2> QED
    BY <2>1, <2>2 DEF WriteRows, TxRows
<1>4. pc'[p] = "execute" /\ tx'[p].todo = tx[p].todo /\ tx'[p].rows = NoRows
  BY <1>1, <1>2 DEF IInv, ShapeOK, TxShape
<1>5. EventsBehind(p)' /\ ThisEvent(p)' = ThisEvent(p) /\ TheMarkets(p)' = TheMarkets(p)
  BY <1>1, <1>3, StaysAtEvent DEF InEvent
<1>6. Seen(p)' = Seen(p)
  <2>1. Judged(p)' = Judged(p)
    BY <1>4, <1>5 DEF Judged
  <2> QED
    BY <1>1, <1>4, <2>1 DEF Seen, Following
<1>7. MarketsBehind(p)'
  BY <1>1, <1>2, <1>3, <1>4, <1>5, <1>6 DEF MarketsBehind, Covered
<1>8. RowsLocked(p)'
  BY <1>4 DEF RowsLocked, NoRows
<1>9. LocksOf(p, {})
  BY <1>1 DEF InsertSignal, CommitSignal, Release, LocksOf
<1> QED
  BY <1>3, <1>5, <1>7, <1>8, <1>9, PassMove DEF Behind

LEMMA EndEventPasses ==
    ASSUME IInv, LockInv, PassInv, NEW p \in Scanners, EndEvent(p), Alone(p)
    PROVE  PassInv'
<1>1. /\ pc[p] = "market" /\ tx[p].todo = << >> /\ dialect' = dialect
      /\ contracts' = contracts \cup tx[p].rows.contracts
      /\ tx' = [tx EXCEPT ![p] = NoTx] /\ scan' = [scan EXCEPT ![p].todo = Tail(@)]
      /\ pc' = [pc EXCEPT ![p] = "event"] /\ LocksOf(p, {})
  BY DEF EndEvent, WriteRows, Goto, Release, LocksOf
<1>2. /\ scan[p].todo # << >> /\ MarketsBehind(p) /\ Len(TheMarkets(p)) \in Nat
      /\ scan[p] = [n |-> scan[p].n, now |-> scan[p].now, todo |-> scan[p].todo,
                    weights |-> scan[p].weights]
  BY <1>1, AtMarket, InScan, InMarkets DEF InEvent, Session
<1>3. /\ pc'[p] = "event" /\ tx'[p] = NoTx /\ scan'[p].todo = Tail(scan[p].todo)
  BY <1>1, <1>2 DEF IInv, ShapeOK
<1>4. Seen(p) = Len(TheMarkets(p))
  BY <1>1, <1>2 DEF Seen, Judged, Following
<1>5. Covered(ThisEvent(p), Len(TheMarkets(p)), tx[p].rows.contracts)
  BY <1>2, <1>4 DEF MarketsBehind
<1>6. ASSUME NEW e, e = Head(scan[p].todo) PROVE Covered(e, Len(EventOf[e].markets), {})'
  BY <1>1, <1>5, <1>6 DEF Covered, ThisEvent, TheMarkets
<1>7. EventsBehind(p)'
  BY <1>1, <1>2, <1>3, <1>6, EventPassed
<1>8. Behind(p)'
  BY <1>3, <1>7 DEF Behind, RowsLocked, NoTx, NoRows, InEvent, Following
<1> QED
  BY <1>1, <1>8, PassMove

LEMMA InitPasses == Init => PassInv
  BY DEF Init, PassInv, Behind, RowsLocked, NoTx, NoRows, InEvent, Following

LEMMA NextPasses == IInv /\ LockInv /\ PassInv /\ [Next]_vars => PassInv'
<1> SUFFICES ASSUME IInv, LockInv, PassInv, [Next]_vars PROVE PassInv'
  OBVIOUS
<1>1. CASE Calibrate \/ Tick \/ UNCHANGED vars
  <2>1. /\ pc' = pc /\ scan' = scan /\ tx' = tx /\ holds' = holds /\ dialect' = dialect
        /\ contracts' = contracts
    BY <1>1 DEF Calibrate, Tick, vars, session, written
  <2>2. ASSUME NEW q \in Scanners PROVE Behind(q)'
    <3>1. ThisEvent(q)' = ThisEvent(q) /\ Came(q)' = Came(q) /\ Seen(q)' = Seen(q)
      BY <2>1 DEF ThisEvent, TheMarkets, Judged, Came, Seen
    <3>2. Behind(q)
      BY DEF PassInv
    <3> QED
      BY <2>1, <3>1, <3>2
         DEF Behind, EventsBehind, MarketsBehind, RowsLocked, Covered
  <2> QED
    BY <2>1, <2>2 DEF PassInv
<1>2. ASSUME NEW p \in Scanners, Begin(p) \/ Step(p) \/ LockTimeout(p) \/ Crash(p)
      PROVE  PassInv'
  <2>1. Alone(p)
    BY <1>2, OneMoves
  <2>2. CASE Begin(p) \/ Discover(p) \/ NextEvent(p)
    BY <2>1, <2>2, BeginPasses, DiscoverPasses, NextEventPasses
  <2>3. CASE DiscoverFails(p) \/ ScanDone(p) \/ Crash(p)
    BY <2>1, <2>3, EndScanPasses DEF DiscoverFails, ScanDone, Crash, written
  <2>4. CASE UpsertFails(p) \/ ForecastRaises(p) \/ InsertFails(p) \/ ExecuteRaises(p)
             \/ AlertRaises(p) \/ LockTimeout(p)
    <3>1. EndScan(p) /\ dialect' = dialect /\ contracts' = contracts
      BY <2>4 DEF UpsertFails, ForecastRaises, InsertFails, ExecuteRaises, AlertRaises,
                  LockTimeout, Raise, written
    <3> QED
      BY <2>1, <3>1, EndScanPasses
  <2>5. CASE Upsert(p) \/ Evaluate(p) \/ InsertSignal(p) \/ EndEvent(p)
    BY <2>1, <2>5, UpsertPasses, EvaluatePasses, InsertSignalPasses, EndEventPasses
  <2>6. CASE \/ GetBooks(p) \/ Forecast(p) \/ Execute(p) \/ AttemptFails(p) \/ Alert(p)
             \/ MarkAlerted(p)
    BY <2>1, <2>6, CallsPass, NextMarketPasses
  <2> QED
    BY <1>2, <2>2, <2>3, <2>4, <2>5, <2>6 DEF Step
<1> QED
  BY <1>1, <1>2 DEF Next

-----------------------------------------------------------------------------
(* Who waits for whom                                                      *)

(* SQLite: whoever has the writer lock goes on, and if nobody has it all do.*)
LEMMA WriterGoesOn ==
    ASSUME LockInv, dialect = "sqlite"
    PROVE  NoCircle
<1> SUFFICES ASSUME NEW p \in Scanners, pc[p] # "idle"
             PROVE  \E q \in Scanners : pc[q] # "idle" /\ ~Waits(q)
  BY DEF NoCircle
<1>1. CASE \A q \in Scanners : holds[q] = {}
  BY <1>1 DEF Waits, Available, CanWriteElsewhere
<1>2. CASE \E q \in Scanners : holds[q] # {}
  <2>1. PICK q \in Scanners : holds[q] # {}
    BY <1>2
  <2>2. \A r \in Scanners \ {q} : holds[r] = {}
    BY <2>1 DEF LockInv
  <2>3. pc[q] \in Holding
    BY <2>1 DEF LockInv, Locked
  <2> QED
    BY <2>2, <2>3 DEF Waits, Available, Holding
<1> QED
  BY <1>1, <1>2

(* PostgreSQL: a scan that waits for a market another is writing.          *)
WaitsAt(p) ==
    /\ pc[p] = "market" /\ tx[p].todo # << >> /\ Head(tx[p].todo) \notin contracts
    /\ ~Available(p, ContractKey(Head(tx[p].todo)))

LEMMA WhoWaits ==
    ASSUME IInv, LockInv, dialect # "sqlite", NEW p \in Scanners, Waits(p)
    PROVE  \/ pc[p] = "upsert" /\ ~Available(p, EventRow(Head(scan[p].todo)))
           \/ WaitsAt(p)
<1>1. ASSUME NEW q \in Scanners, NEW row, row \in holds[q]
      PROVE  /\ pc[q] \in Holding
             /\ \/ row = EventRow(ThisEvent(q))
                \/ \E i \in 1..Written(q) : row = ContractKey(TheMarkets(q)[i])
  BY <1>1 DEF LockInv, Locked
<1>2. ASSUME NEW q \in Scanners, NEW row, row \in holds[q]
      PROVE  row # None /\ \A fp : row # FingerprintKey(fp)
  <2>1. pc[q] \in InEvent
    BY <1>1, <1>2 DEF Holding, InEvent
  <2>2. /\ ThisEvent(q) \in AllEvents /\ Judged(q) \in 0..Len(TheMarkets(q))
        /\ TheMarkets(q) \in Seq(AllMarkets) /\ Len(TheMarkets(q)) \in Nat
    BY <2>1, AtMarket
  <2>3. Written(q) <= Len(TheMarkets(q))
    <3>1. pc[q] = "insert" => tx[q].todo # << >> /\ tx[q].todo \in Seq(AllMarkets)
      BY <2>1, AtMarket, InScan DEF Session
    <3>2. pc[q] = "insert" => Len(tx[q].todo) \in Nat \ {0}
      BY <3>1
    <3> QED
      BY <2>2, <3>2 DEF Written, Judged
  <2>4. ThisEvent(q) \in DOMAIN EventOf
    BY <2>2, WeatherScanAssumption DEF AllEvents, ToSet
  <2>5. CASE row = EventRow(ThisEvent(q))
    BY <2>4, <2>5, WeatherScanAssumption DEF EventRow, FingerprintKey
  <2>6. CASE \E i \in 1..Written(q) : row = ContractKey(TheMarkets(q)[i])
    <3>1. PICK i \in 1..Written(q) : row = ContractKey(TheMarkets(q)[i])
      BY <2>6
    <3>2. TheMarkets(q)[i] \in DOMAIN MarketOf
      <4>1. i \in 1..Len(TheMarkets(q))
        BY <2>2, <2>3 DEF Written
      <4>2. TheMarkets(q)[i] \in AllMarkets
        BY <2>2, <4>1
      <4> QED
        BY <4>2, MarketsKnown
    <3> QED
      BY <3>1, <3>2, WeatherScanAssumption DEF ContractKey, FingerprintKey
  <2> QED
    BY <1>1, <1>2, <2>5, <2>6
<1>3. Available(p, None) /\ CanWriteElsewhere(None) /\ \A fp : Available(p, FingerprintKey(fp))
  BY <1>2 DEF Available, CanWriteElsewhere, ToWrite
<1> QED
  BY <1>3 DEF Waits, WaitsAt

LEMMA HolderWaits ==
    ASSUME IInv, LockInv, dialect # "sqlite", NEW p \in Scanners, NEW row, ~Available(p, row),
           \A q \in Scanners : pc[q] # "idle" => Waits(q)
    PROVE  \E q \in Scanners \ {p} :
              /\ WaitsAt(q) /\ row \in holds[q]
              /\ \/ row = EventRow(ThisEvent(q))
                 \/ \E i \in 1..Judged(q) : row = ContractKey(TheMarkets(q)[i])
<1>1. PICK q \in Scanners \ {p} : row \in holds[q]
  BY DEF Available, ToWrite
<1>2. pc[q] \in Holding
  BY <1>1 DEF LockInv, Locked
<1>3. Waits(q)
  BY <1>2 DEF Holding
<1>4. WaitsAt(q)
  BY <1>2, <1>3, WhoWaits DEF Holding
<1>5. Written(q) = Judged(q)
  BY <1>4 DEF WaitsAt, Written
<1> QED
  BY <1>1, <1>2, <1>4, <1>5 DEF LockInv, Locked

(* Where a session is that waits for a market.                             *)
LEMMA PlaceOfWait ==
    ASSUME IInv, LockInv, PassInv, NEW q \in Scanners, WaitsAt(q)
    PROVE  /\ Came(q) \in 0..(Len(Discovered) - 1) /\ Discovered[Came(q) + 1] = ThisEvent(q)
           /\ EventOf[ThisEvent(q)].route = "accepted"
           /\ Judged(q) \in 0..(Len(TheMarkets(q)) - 1) /\ Seen(q) = Judged(q)
           /\ Head(tx[q].todo) = TheMarkets(q)[Judged(q) + 1]
           /\ EventsBehind(q) /\ MarketsBehind(q) /\ (dialect # "sqlite" => RowsLocked(q))
<1>1. pc[q] = "market" /\ pc[q] \in InEvent /\ tx[q].todo # << >>
  BY DEF WaitsAt, InEvent
<1>2. EventsBehind(q) /\ MarketsBehind(q) /\ (dialect # "sqlite" => RowsLocked(q))
  BY <1>1, InMarkets
<1>3. scan[q].todo \in Seq(AllEvents) /\ scan[q].todo # << >>
  BY <1>1, InScan DEF Session
<1>4. Len(scan[q].todo) \in Nat \ {0} /\ Len(Discovered) \in Nat
  BY <1>3, DomainTypes
<1>5. Came(q) \in 0..(Len(Discovered) - 1)
  BY <1>2, <1>4 DEF EventsBehind, Came
<1>6. Discovered[Came(q) + 1] = ThisEvent(q)
  <2>1. 1 \in 1..Len(scan[q].todo) /\ ThisEvent(q) = scan[q].todo[1]
    BY <1>3, <1>4 DEF ThisEvent
  <2> QED
    BY <1>2, <2>1 DEF EventsBehind
<1>7. /\ Judged(q) \in 0..Len(TheMarkets(q)) /\ Len(TheMarkets(q)) \in Nat
      /\ Len(tx[q].todo) \in Nat \ {0} /\ Head(tx[q].todo) = TheMarkets(q)[Judged(q) + 1]
  BY <1>1, AtMarket, OneJudged
<1>8. Judged(q) \in 0..(Len(TheMarkets(q)) - 1)
  BY <1>7 DEF Judged
<1>9. EventOf[ThisEvent(q)].route = "accepted" /\ Seen(q) = Judged(q)
  BY <1>1, <1>2 DEF MarketsBehind, Seen, Following
<1> QED
  BY <1>2, <1>5, <1>6, <1>7, <1>8, <1>9

(* Whoever has the lock waits further on: in a later event, or at a later  *)
(* market of the same one.                                                 *)
LEMMA HolderIsAhead ==
    ASSUME IInv, LockInv, PassInv, dialect # "sqlite",
           NEW p \in Scanners, WaitsAt(p), NEW q \in Scanners \ {p}, WaitsAt(q),
           NEW m, m = Head(tx[p].todo), ContractKey(m) \in holds[q],
           NEW i \in 1..Judged(q), m = TheMarkets(q)[i]
    PROVE  \/ Came(p) < Came(q)
           \/ Came(p) = Came(q) /\ Judged(p) < Judged(q)
<1>1. /\ Came(p) \in Nat /\ Came(q) \in Nat /\ Judged(p) \in Nat /\ Judged(q) \in Nat
      /\ Judged(q) \in 0..(Len(TheMarkets(q)) - 1)
  BY PlaceOfWait
<1>2. m \notin contracts
  BY DEF WaitsAt
<1>3. ASSUME Came(q) < Came(p) PROVE FALSE
  <2>1. Came(q) + 1 \in 1..Came(p)
    BY <1>1, <1>3
  <2>2. /\ EventsBehind(p) /\ EventOf[ThisEvent(q)].route = "accepted"
        /\ Discovered[Came(q) + 1] = ThisEvent(q)
    BY PlaceOfWait
  <2>3. Covered(ThisEvent(q), Len(TheMarkets(q)), {})
    BY <2>1, <2>2 DEF EventsBehind, TheMarkets
  <2>4. Len(TheMarkets(q)) \in Nat
    BY AtMarket DEF WaitsAt, InEvent
  <2>5. i \in 1..Len(TheMarkets(q))
    BY <1>1, <2>4
  <2> QED
    BY <1>2, <2>2, <2>3, <2>5 DEF Covered, TheMarkets
<1>4. ASSUME Came(q) = Came(p), Judged(q) <= Judged(p) PROVE FALSE
  <2>1. ThisEvent(q) = ThisEvent(p)
    BY <1>4, PlaceOfWait
  <2>2. /\ Covered(ThisEvent(p), Judged(p), tx[p].rows.contracts) /\ RowsLocked(p)
        /\ EventOf[ThisEvent(p)].route = "accepted"
    BY PlaceOfWait DEF MarketsBehind
  <2>3. i \in 1..Judged(p)
    BY <1>1, <1>4
  <2>4. m \in tx[p].rows.contracts
    BY <1>2, <2>1, <2>2, <2>3 DEF Covered, TheMarkets
  <2>5. ContractKey(m) \in holds[p]
    BY <1>2, <2>2, <2>4 DEF RowsLocked
  <2> QED
    BY <2>5 DEF PassInv
<1> QED
  BY <1>1, <1>3, <1>4

(* PostgreSQL: of the scans that wait for a market, the one that is        *)
(* furthest, in the events and then in the markets, waits for nobody.      *)
LEMMA FurthestGoesOn ==
    ASSUME IInv, LockInv, PassInv, dialect # "sqlite"
    PROVE  NoCircle
<1> SUFFICES ASSUME NEW s \in Scanners, pc[s] # "idle",
                    \A q \in Scanners : pc[q] # "idle" => Waits(q)
             PROVE  FALSE
  BY DEF NoCircle
<1>1. PICK p \in Scanners : WaitsAt(p)
  <2>1. CASE WaitsAt(s)
    BY <2>1
  <2>2. CASE ~WaitsAt(s)
    <3>1. ~Available(s, EventRow(Head(scan[s].todo)))
      BY <2>2, WhoWaits
    <3> QED
      BY <3>1, HolderWaits
  <2> QED
    BY <2>1, <2>2
<1> DEFINE EventPlaces == {n \in 0..(Len(Discovered) - 1) :
                              \E q \in Scanners : WaitsAt(q) /\ n = Came(q)}
<1>2. PICK far \in EventPlaces : \A k \in EventPlaces : k <= far
  <2>1. Came(p) \in EventPlaces /\ Len(Discovered) \in Nat
    BY <1>1, PlaceOfWait, DomainTypes
  <2>2. IsFiniteSet(0..(Len(Discovered) - 1)) /\ 0..(Len(Discovered) - 1) \in SUBSET Int
    BY <2>1, FS_Interval
  <2>3. EventPlaces \subseteq 0..(Len(Discovered) - 1)
    OBVIOUS
  <2> HIDE DEF EventPlaces
  <2>4. IsFiniteSet(EventPlaces)
    BY <2>2, <2>3, FS_Subset
  <2>5. EventPlaces \in SUBSET Int /\ EventPlaces # {}
    BY <2>1, <2>2, <2>3
  <2> QED
    BY <2>4, <2>5, FiniteMax
<1>3. PICK r \in Scanners : WaitsAt(r) /\ Came(r) = far
  OBVIOUS
<1> DEFINE e == ThisEvent(r)
           last == Len(EventOf[e].markets) - 1
           MarketPlaces == {n \in 0..last :
                               \E q \in Scanners : WaitsAt(q) /\ Came(q) = far /\ n = Judged(q)}
<1>4. ASSUME NEW q \in Scanners, WaitsAt(q), Came(q) = far PROVE Judged(q) \in MarketPlaces
  <2>1. ThisEvent(q) = e
    BY <1>3, <1>4, PlaceOfWait
  <2> QED
    BY <1>4, <2>1, PlaceOfWait DEF TheMarkets
<1>5. PICK n \in MarketPlaces : \A k \in MarketPlaces : k <= n
  <2>1. Judged(r) \in MarketPlaces
    BY <1>3, <1>4
  <2>2. last \in Int
    <3>1. Len(EventOf[e].markets) \in Nat
      BY <1>3, AtMarket DEF WaitsAt, InEvent, TheMarkets
    <3> QED
      BY <3>1
  <2> HIDE DEF last
  <2>3. IsFiniteSet(0..last) /\ 0..last \in SUBSET Int
    BY <2>2, FS_Interval
  <2>4. MarketPlaces \subseteq 0..last
    OBVIOUS
  <2> HIDE DEF MarketPlaces
  <2>5. IsFiniteSet(MarketPlaces)
    BY <2>3, <2>4, FS_Subset
  <2>6. MarketPlaces \in SUBSET Int /\ MarketPlaces # {}
    BY <2>1, <2>3, <2>4
  <2> QED
    BY <2>5, <2>6, FiniteMax
<1>6. PICK q \in Scanners : WaitsAt(q) /\ Came(q) = far /\ Judged(q) = n
  OBVIOUS
<1> DEFINE m == Head(tx[q].todo)
<1>7. ~Available(q, ContractKey(m))
  BY <1>6 DEF WaitsAt
<1>8. PICK h \in Scanners \ {q} :
        /\ WaitsAt(h) /\ ContractKey(m) \in holds[h]
        /\ \/ ContractKey(m) = EventRow(ThisEvent(h))
           \/ \E i \in 1..Judged(h) : ContractKey(m) = ContractKey(TheMarkets(h)[i])
  BY <1>7, HolderWaits
<1>9. PICK i \in 1..Judged(h) : m = TheMarkets(h)[i]
  BY <1>8 DEF ContractKey, EventRow
<1>10. Came(q) < Came(h) \/ (Came(q) = Came(h) /\ Judged(q) < Judged(h))
  BY <1>6, <1>8, <1>9, HolderIsAhead
<1>11. Came(h) \in EventPlaces
  BY <1>8, PlaceOfWait
<1>12. Came(h) \in Int /\ Came(q) \in Int /\ Judged(h) \in Int /\ Judged(q) \in Int
  BY <1>6, <1>8, PlaceOfWait
<1>13. Came(h) <= far
  BY <1>2, <1>11
<1>14. Came(h) = far /\ Judged(q) < Judged(h)
  BY <1>6, <1>10, <1>12, <1>13
<1>15. Judged(h) <= n
  BY <1>4, <1>5, <1>8, <1>14
<1> QED
  BY <1>6, <1>12, <1>14, <1>15

(* Scans never wait in a circle, on SQLite for the writer lock nor on      *)
(* PostgreSQL for rows, where they lock the markets of an event in its     *)
(* order and the events in theirs (worker.py, scan_once).  This is the     *)
(* part of ScansGoOn that the provers can state; that whoever does not     *)
(* wait has a step is TLC's.                                               *)
THEOREM NobodyWaitsInACircle == Spec => []NoCircle
<1>1. Spec => []LockInv
  BY InitLocks, NextLocks, Invariance, PTL DEF Spec
<1>2. Spec => []PassInv
  BY <1>1, InitPasses, NextPasses, Invariance, PTL DEF Spec
<1>3. IInv /\ LockInv /\ PassInv => NoCircle
  BY WriterGoesOn, FurthestGoesOn
<1> QED
  BY <1>1, <1>2, <1>3, Invariance, PTL

-----------------------------------------------------------------------------
(* The journal                                                             *)

(* A scan has not broken off while a session works for it, every signal of *)
(* the scan is decided but the one it follows, and what it has not         *)
(* committed belongs to the scan.                                          *)
Owned(p) ==
    pc[p] # "idle" =>
        /\ scan[p].n \notin cut
        /\ \A s \in signals : s.scan = scan[p].n =>
              \/ pc[p] \in Following /\ s.fingerprint = tx[p].signal
              \/ s.fingerprint \in decided
        /\ \A r \in tx[p].rows.estimates \cup tx[p].rows.rejections : r[1] = scan[p].n

(* Scans have numbers of their own.                                        *)
JournalInv ==
    /\ cut \subseteq 1..scans /\ \A s \in signals : s.scan \in 1..scans
    /\ \A p, q \in Scanners :
          p # q /\ pc[p] # "idle" /\ pc[q] # "idle" => scan[p].n # scan[q].n
    /\ \A p \in Scanners : Owned(p)

(* What a step of one scan may change of the journal.                      *)
OwnChanges(p) ==
    /\ cut \subseteq cut' /\ cut' \subseteq cut \cup {scan[p].n}
    /\ \A s \in signals' : s \in signals \/ s.scan = scan[p].n
    /\ decided \subseteq decided' /\ alerted \subseteq alerted'

LEMMA JournalStep ==
    ASSUME IInv, JournalInv, NEW p \in Scanners, Alone(p), pc[p] # "idle", OwnChanges(p),
           scans' = scans, pc'[p] # "idle" => scan'[p].n = scan[p].n, Owned(p)'
    PROVE  JournalInv'
<1>1. scan[p].n \in 1..scans
  BY InScan
<1>2. cut' \subseteq 1..scans' /\ \A s \in signals' : s.scan \in 1..scans'
  BY <1>1 DEF JournalInv, OwnChanges
<1>3. ASSUME NEW q \in Scanners, NEW r \in Scanners, q # r, pc'[q] # "idle", pc'[r] # "idle"
      PROVE  scan'[q].n # scan'[r].n
  BY <1>3 DEF JournalInv, Alone
<1>4. ASSUME NEW q \in Scanners, q # p PROVE Owned(q)'
  <2>1. pc'[q] = pc[q] /\ scan'[q] = scan[q] /\ tx'[q] = tx[q] /\ Owned(q)
    BY <1>4 DEF Alone, JournalInv
  <2>2. pc[q] # "idle" => scan[q].n # scan[p].n
    BY <1>4 DEF JournalInv
  <2>3. decided \subseteq decided'
    BY DEF OwnChanges
  <2> QED
    BY <2>1, <2>2, <2>3 DEF Owned, OwnChanges
<1> QED
  BY <1>2, <1>3, <1>4 DEF JournalInv

LEMMA EndScanKeepsJournal ==
    ASSUME IInv, JournalInv, NEW p \in Scanners, pc[p] # "idle", EndScan(p), Alone(p),
           UNCHANGED <<scans, written, others>>, cut' \in {cut, cut \cup {scan[p].n}}
    PROVE  JournalInv'
<1>1. pc'[p] = "idle"
  BY DEF EndScan, Goto, IInv, ShapeOK
<1>2. Owned(p)' /\ OwnChanges(p)
  BY <1>1 DEF Owned, OwnChanges, written, others
<1> QED
  BY <1>1, <1>2, JournalStep

LEMMA RaiseKeepsJournal ==
    ASSUME IInv, JournalInv, NEW p \in Scanners, pc[p] # "idle", Raise(p), Alone(p)
    PROVE  JournalInv'
<1>1. /\ EndScan(p) /\ cut' = cut \cup {scan[p].n}
      /\ UNCHANGED <<scans, written, others>>
  BY DEF Raise
<1> QED
  BY <1>1, EndScanKeepsJournal

LEMMA BeginKeepsJournal ==
    ASSUME IInv, JournalInv, NEW p \in Scanners, Begin(p), Alone(p)
    PROVE  JournalInv'
<1>1. /\ pc[p] = "idle" /\ scans' = scans + 1 /\ scan'[p].n = scans + 1
      /\ tx'[p] = tx[p] /\ UNCHANGED <<signals, decided, alerted, cut>>
  BY DEF Begin, written, others, seen, IInv, ShapeOK
<1>2. scans \in Nat /\ 1..scans \subseteq 1..scans' /\ scans + 1 \notin 1..scans
  BY <1>1, DomainTypes DEF IInv, ShapeOK
<1>3. cut' \subseteq 1..scans' /\ \A s \in signals' : s.scan \in 1..scans'
  BY <1>1, <1>2 DEF JournalInv
<1>4. \A q \in Scanners \ {p} : pc[q] # "idle" => scan[q].n \in 1..scans
  BY InScan
<1>5. ASSUME NEW q \in Scanners, NEW r \in Scanners, q # r, pc'[q] # "idle", pc'[r] # "idle"
      PROVE  scan'[q].n # scan'[r].n
  BY <1>1, <1>2, <1>4, <1>5 DEF JournalInv, Alone
<1>6. Owned(p)'
  <2>1. tx[p] = NoTx
    BY <1>1 DEF IInv, Placed, Session, InEvent, Following
  <2>2. tx'[p].rows.estimates = {} /\ tx'[p].rows.rejections = {}
    BY <1>1, <2>1 DEF NoTx, NoRows
  <2> QED
    BY <1>1, <1>2, <2>2 DEF Owned, JournalInv
<1>7. ASSUME NEW q \in Scanners, q # p PROVE Owned(q)'
  <2>1. pc'[q] = pc[q] /\ scan'[q] = scan[q] /\ tx'[q] = tx[q] /\ Owned(q)
    BY <1>7 DEF Alone, JournalInv
  <2>2. decided \subseteq decided'
    BY <1>1
  <2> QED
    BY <1>1, <2>1, <2>2 DEF Owned
<1> QED
  BY <1>3, <1>5, <1>6, <1>7 DEF JournalInv

(* A session that follows no signal and commits nothing.                   *)
LEMMA QuietKeepsJournal ==
    ASSUME IInv, JournalInv, NEW p \in Scanners, Alone(p), pc[p] # "idle",
           pc[p] \notin Following,
           UNCHANGED <<scans, written, others, seen>>, scan'[p].n = scan[p].n,
           \A r \in (tx[p].rows.estimates)' \cup (tx[p].rows.rejections)' : r[1] = scan[p].n
    PROVE  JournalInv'
<1>1. UNCHANGED <<signals, decided, alerted, cut>>
  BY DEF written, others, seen
<1>2. decided \subseteq decided'
  BY <1>1
<1>3. \A s \in signals : s.scan = scan[p].n => s.fingerprint \in decided
  BY DEF JournalInv, Owned
<1>4. Owned(p)'
  BY <1>1, <1>2, <1>3 DEF Owned, JournalInv
<1>5. OwnChanges(p)
  BY <1>1 DEF OwnChanges
<1> QED
  BY <1>4, <1>5, JournalStep

LEMMA EarlyKeepsJournal ==
    ASSUME IInv, JournalInv, NEW p \in Scanners, Alone(p),
           Discover(p) \/ NextEvent(p) \/ Upsert(p) \/ GetBooks(p) \/ Forecast(p)
    PROVE  JournalInv'
<1>1. /\ pc[p] # "idle" /\ pc[p] \notin Following /\ UNCHANGED <<scans, written, others, seen>>
  BY DEF Discover, NextEvent, Upsert, GetBooks, Forecast, Following
<1>2. /\ TxShape(tx[p]) /\ tx[p].rows \in TxRows
      /\ \A r \in tx[p].rows.estimates \cup tx[p].rows.rejections : r[1] = scan[p].n
  BY <1>1, InScan DEF Session, TxShape, JournalInv, Owned
<1>3. scan'[p].n = scan[p].n
  <2>1. \/ scan' = scan \/ scan' = [scan EXCEPT ![p].todo = Tail(@)]
        \/ scan' = [scan EXCEPT ![p].todo = Discovered, ![p].weights = weights]
    BY DEF Discover, NextEvent, Upsert, GetBooks, Forecast
  <2> QED
    BY <1>1, <2>1, InScan DEF IInv, ShapeOK
<1>4. \A r \in (tx[p].rows.estimates)' \cup (tx[p].rows.rejections)' : r[1] = scan[p].n
  <2>1. CASE Discover(p)
    BY <1>2, <2>1 DEF Discover
  <2>2. CASE NextEvent(p)
    <3>1. tx' = tx \/ \E known, todo : tx' = [tx EXCEPT ![p] = [NoTx EXCEPT !.known = known,
                                                                            !.todo = todo]]
      BY <2>2 DEF NextEvent
    <3>2. CASE tx' = tx
      BY <1>2, <3>2
    <3>3. ASSUME NEW known, NEW todo,
                 tx' = [tx EXCEPT ![p] = [NoTx EXCEPT !.known = known, !.todo = todo]]
          PROVE  tx'[p].rows.estimates = {} /\ tx'[p].rows.rejections = {}
      BY <3>3 DEF IInv, ShapeOK, NoTx, NoRows
    <3> QED
      BY <3>1, <3>2, <3>3
  <2>3. CASE Upsert(p)
    <3> DEFINE e == Head(scan[p].todo)
               rejected == EventOf[e].route = "rejected"
               refusals == IF rejected THEN RejectAll(p, e) ELSE {}
               rest == IF rejected THEN << >> ELSE tx[p].todo
               rows == WithEvent(tx[p].rows, e, refusals)
    <3>1. tx' = [tx EXCEPT ![p].rows = rows, ![p].todo = rest]
      BY <2>3, Zenon DEF Upsert
    <3>2. \A r \in refusals : r[1] = scan[p].n
      BY DEF RejectAll
    <3>3. rows.estimates = tx[p].rows.estimates /\ rows.rejections = refusals
      <4> HIDE DEF e, refusals
      <4> QED
        BY <1>2 DEF WithEvent, TxRows
    <3> HIDE DEF rows, rest, refusals
    <3>4. tx'[p].rows = rows
      BY <1>2, <3>1 DEF IInv, ShapeOK, TxShape
    <3> QED
      BY <1>2, <3>2, <3>3, <3>4
  <2>4. CASE GetBooks(p) \/ Forecast(p)
    <3>1. \/ \E books : tx' = [tx EXCEPT ![p].books = books]
          \/ \E plan : tx' = [tx EXCEPT ![p].plan = plan]
      BY <2>4, Zenon DEF GetBooks, Forecast
    <3>2. tx'[p].rows = tx[p].rows
      BY <1>2, <3>1 DEF IInv, ShapeOK, TxShape
    <3> QED
      BY <1>2, <3>2
  <2> QED
    BY <2>1, <2>2, <2>3, <2>4
<1> QED
  BY <1>1, <1>3, <1>4, QuietKeepsJournal

LEMMA EvaluateKeepsJournal ==
    ASSUME IInv, JournalInv, NEW p \in Scanners, Alone(p), Evaluate(p)
    PROVE  JournalInv'
<1> DEFINE m == Head(tx[p].todo)
           estimated == WithEstimate(tx[p].rows, scan[p].n, m)
<1>1. /\ pc[p] = "market" /\ UNCHANGED <<scan, scans, written, others, seen>>
  BY DEF Evaluate
<1>2. /\ TxShape(tx[p]) /\ tx[p].rows \in TxRows
      /\ \A r \in tx[p].rows.estimates \cup tx[p].rows.rejections : r[1] = scan[p].n
  BY <1>1, InScan DEF Session, TxShape, JournalInv, Owned
<1>3. \E why, signal :
         \/ tx' = [tx EXCEPT ![p].rows = WithReason(estimated, {<<scan[p].n, m, why>>}),
                             ![p].todo = Tail(@)]
         \/ tx' = [tx EXCEPT ![p].rows = estimated, ![p].signal = signal]
  BY Zenon DEF Evaluate, Verdict
<1>4. /\ estimated.estimates = tx[p].rows.estimates \cup {<<scan[p].n, m>>}
      /\ estimated.rejections = tx[p].rows.rejections
      /\ \A why : LET new == WithReason(estimated, {<<scan[p].n, m, why>>}) IN
            /\ new.estimates = estimated.estimates
            /\ new.rejections = tx[p].rows.rejections \cup {<<scan[p].n, m, why>>}
  <2> HIDE DEF m
  <2> QED
    BY <1>2 DEF WithEstimate, WithReason, TxRows
<1> HIDE DEF m, estimated
<1>5. PICK why, signal :
         \/ tx' = [tx EXCEPT ![p].rows = WithReason(estimated, {<<scan[p].n, m, why>>}),
                             ![p].todo = Tail(@)]
         \/ tx' = [tx EXCEPT ![p].rows = estimated, ![p].signal = signal]
  BY <1>3
<1>6. \A r \in (tx[p].rows.estimates)' \cup (tx[p].rows.rejections)' : r[1] = scan[p].n
  <2> DEFINE n == scan[p].n
             refused == WithReason(estimated, {<<n, m, why>>})
  <2>1. tx'[p].rows = estimated \/ tx'[p].rows = refused
    BY <1>2, <1>5 DEF IInv, ShapeOK, TxShape
  <2>2. <<n, m>>[1] = n /\ <<n, m, why>>[1] = n
    <3> HIDE DEF n
    <3> QED
      OBVIOUS
  <2>3. /\ estimated.estimates = tx[p].rows.estimates \cup {<<n, m>>}
        /\ estimated.rejections = tx[p].rows.rejections
        /\ refused.estimates = tx[p].rows.estimates \cup {<<n, m>>}
        /\ refused.rejections = tx[p].rows.rejections \cup {<<n, m, why>>}
    BY <1>4
  <2>4. \A r \in tx[p].rows.estimates \cup tx[p].rows.rejections : r[1] = n
    BY <1>2
  <2> HIDE DEF n, refused
  <2>5. \A r \in estimated.estimates \cup estimated.rejections : r[1] = n
    BY <2>2, <2>3, <2>4
  <2>6. \A r \in refused.estimates \cup refused.rejections : r[1] = n
    BY <2>2, <2>3, <2>4
  <2> QED
    BY <2>1, <2>5, <2>6 DEF n
<1>7. pc[p] # "idle" /\ pc[p] \notin Following /\ scan'[p].n = scan[p].n
  BY <1>1 DEF Following
<1> QED
  BY <1>1, <1>6, <1>7, QuietKeepsJournal

(* The session commits, and has nothing uncommitted left.                  *)
LEMMA InsertSignalKeepsJournal ==
    ASSUME IInv, JournalInv, NEW p \in Scanners, Alone(p), InsertSignal(p)
    PROVE  /\ JournalInv'
           /\ WriteRows([tx[p].rows EXCEPT !.signals =
                            {[fingerprint |-> tx[p].signal, scan |-> scan[p].n]}])
<1> DEFINE signal == [fingerprint |-> tx[p].signal, scan |-> scan[p].n]
           rows == [tx[p].rows EXCEPT !.signals = {signal}]
<1>1. /\ pc[p] = "insert" /\ UNCHANGED <<scan, scans, others, seen>>
      /\ WriteRows([tx[p].rows EXCEPT !.signals = @ \cup {signal}])
      /\ tx' = [tx EXCEPT ![p].rows = NoRows] /\ pc' = [pc EXCEPT ![p] = "execute"]
  BY Zenon DEF InsertSignal, CommitSignal, Goto, ExecuteNext
<1>2. TxShape(tx[p]) /\ tx[p].rows \in TxRows
  BY <1>1, InScan DEF Session, TxShape
<1>3. WriteRows(rows) /\ rows.signals = {signal}
  <2> HIDE DEF signal
  <2>1. [tx[p].rows EXCEPT !.signals = @ \cup {signal}] = rows /\ rows.signals = {signal}
    BY <1>2 DEF TxRows
  <2> QED
    BY <1>1, <2>1
<1>4. /\ signals' = signals \cup {signal} /\ UNCHANGED <<decided, alerted, cut>>
  BY <1>1, <1>3 DEF WriteRows, others, seen
<1>5. /\ pc'[p] = "execute" /\ tx'[p].signal = tx[p].signal
      /\ tx'[p].rows.estimates = {} /\ tx'[p].rows.rejections = {}
  BY <1>1, <1>2 DEF IInv, ShapeOK, TxShape, NoRows
<1>6. Owned(p)'
  <2>1. decided \subseteq decided'
    BY <1>4
  <2>2. \A s \in signals : s.scan = scan[p].n => s.fingerprint \in decided
    BY <1>1 DEF JournalInv, Owned, Following
  <2>3. signal.fingerprint = tx[p].signal /\ scan' = scan /\ scan[p].n \notin cut
    BY <1>1 DEF JournalInv, Owned
  <2> HIDE DEF signal
  <2> QED
    BY <1>4, <1>5, <2>1, <2>2, <2>3 DEF Owned, Following
<1>7. OwnChanges(p)
  BY <1>4 DEF OwnChanges
<1> QED
  BY <1>1, <1>3, <1>6, <1>7, JournalStep

LEMMA EndEventKeepsJournal ==
    ASSUME IInv, JournalInv, NEW p \in Scanners, Alone(p), EndEvent(p)
    PROVE  JournalInv' /\ signals' = signals
<1>1. /\ pc[p] = "market" /\ UNCHANGED <<scans, others, seen>> /\ WriteRows(tx[p].rows)
      /\ tx' = [tx EXCEPT ![p] = NoTx] /\ pc' = [pc EXCEPT ![p] = "event"]
      /\ scan' = [scan EXCEPT ![p].todo = Tail(@)]
  BY DEF EndEvent, Goto
<1>2. tx[p].rows \in TxRows
  BY <1>1, InScan DEF Session, TxShape
<1>3. signals' = signals /\ UNCHANGED <<decided, alerted, cut>>
  BY <1>1, <1>2 DEF WriteRows, TxRows, others, seen
<1>4. /\ pc'[p] = "event" /\ scan'[p].n = scan[p].n
      /\ tx'[p].rows.estimates = {} /\ tx'[p].rows.rejections = {}
  BY <1>1, InScan DEF IInv, ShapeOK, NoTx, NoRows
<1>5. Owned(p)'
  <2>1. decided \subseteq decided'
    BY <1>3
  <2>2. \A s \in signals : s.scan = scan[p].n => s.fingerprint \in decided
    BY <1>1 DEF JournalInv, Owned, Following
  <2>3. scan[p].n \notin cut
    BY <1>1 DEF JournalInv, Owned
  <2> QED
    BY <1>3, <1>4, <2>1, <2>2, <2>3 DEF Owned
<1>6. OwnChanges(p)
  BY <1>3 DEF OwnChanges
<1> QED
  BY <1>1, <1>3, <1>4, <1>5, <1>6, JournalStep

(* The signal that is followed is the session's.                           *)
LEMMA FollowingKeepsJournal ==
    ASSUME IInv, JournalInv, NEW p \in Scanners, Alone(p),
           Execute(p) \/ AttemptFails(p) \/ Alert(p) \/ MarkAlerted(p)
    PROVE  JournalInv'
<1>1. /\ pc[p] \in Following /\ UNCHANGED <<scan, scans, written, cut>> /\ signals' = signals
      /\ decided \subseteq decided' /\ alerted \subseteq alerted'
  BY DEF Execute, AttemptFails, Alert, MarkAlerted, Following, others, seen, written
<1>2. /\ TxShape(tx[p]) /\ tx[p].rows = NoRows /\ scan[p].n \notin cut
      /\ \A s \in signals : s.scan = scan[p].n =>
            s.fingerprint = tx[p].signal \/ s.fingerprint \in decided
  BY <1>1, InScan DEF Session, Following, JournalInv, Owned
<1>3. decided \subseteq decided'
  BY <1>1
<1>a. PICK fp : fp = tx[p].signal
  OBVIOUS
<1>4. \/ tx'[p].signal = fp /\ pc'[p] \in Following
      \/ fp \in decided' /\ pc'[p] = "market"
  <2>1. CASE Execute(p)
    BY <1>a, <2>1 DEF Execute, Goto, IInv, ShapeOK, Following
  <2>2. CASE Alert(p)
    <3>1. fp \in decided /\ decided' = decided
      BY <1>a, <2>2 DEF Alert, IInv, Followed, others
    <3>2. CASE Telegram
      <4>1. tx' = tx /\ pc' = [pc EXCEPT ![p] = "mark"]
        BY <2>2, <3>2 DEF Alert, Goto
      <4> QED
        BY <1>a, <4>1 DEF IInv, ShapeOK, Following
    <3>3. CASE ~Telegram
      <4>1. pc' = [pc EXCEPT ![p] = "market"]
        BY <2>2, <3>3 DEF Alert, NextMarket, Goto
      <4> QED
        BY <3>1, <3>3, <4>1 DEF IInv, ShapeOK
    <3> QED
      BY <3>2, <3>3
  <2>3. CASE MarkAlerted(p)
    <3>1. /\ pc[p] = "mark" /\ pc' = [pc EXCEPT ![p] = "market"]
          /\ decided' = decided /\ alerted' = alerted \cup {fp}
      BY <1>a, <2>3 DEF MarkAlerted, NextMarket, Goto
    <3>2. fp \in decided
      BY <1>a, <3>1 DEF IInv, Followed
    <3> QED
      BY <3>1, <3>2 DEF IInv, ShapeOK
  <2>4. CASE AttemptFails(p)
    BY <1>2, <1>a, <2>4 DEF AttemptFails, IInv, ShapeOK, TxShape, Following
  <2> QED
    BY <2>1, <2>2, <2>3, <2>4
<1>5. tx'[p].rows = NoRows
  <2>1. \/ tx' = tx \/ tx' = [tx EXCEPT ![p].tries = @ + 1]
        \/ tx' = [tx EXCEPT ![p].todo = Tail(@), ![p].signal = None, ![p].tries = 0]
    BY DEF Execute, AttemptFails, Alert, MarkAlerted, NextMarket
  <2> QED
    BY <1>2, <2>1 DEF IInv, ShapeOK, TxShape
<1>6. Owned(p)'
  <2>1. tx'[p].rows.estimates = {} /\ tx'[p].rows.rejections = {}
    BY <1>5 DEF NoRows
  <2>2. \A s \in signals' : s.scan = scan'[p].n =>
           \/ pc'[p] \in Following /\ s.fingerprint = tx'[p].signal
           \/ s.fingerprint \in decided'
    BY <1>1, <1>2, <1>3, <1>4, <1>a
  <2> QED
    BY <1>1, <1>2, <2>1, <2>2 DEF Owned
<1>7. OwnChanges(p) /\ pc[p] # "idle"
  BY <1>1 DEF OwnChanges, Following
<1> QED
  BY <1>1, <1>6, <1>7, JournalStep

LEMMA InitJournal == Init => JournalInv
  BY DEF Init, JournalInv, Owned

LEMMA StillKeepsJournal ==
    ASSUME JournalInv, UNCHANGED <<session, scans, signals, decided, alerted, cut>>
    PROVE  JournalInv'
  BY DEF JournalInv, Owned, session

LEMMA NextJournal == IInv /\ JournalInv /\ [Next]_vars => JournalInv'
<1> SUFFICES ASSUME IInv, JournalInv, [Next]_vars PROVE JournalInv'
  OBVIOUS
<1>1. CASE UNCHANGED vars \/ Calibrate \/ Tick
  BY <1>1, StillKeepsJournal DEF vars, Calibrate, Tick, written, others, seen
<1>2. ASSUME NEW p \in Scanners, Begin(p) \/ Step(p) \/ LockTimeout(p) \/ Crash(p)
      PROVE  JournalInv'
  <2>1. Alone(p)
    BY <1>2, OneMoves
  <2>2. CASE Begin(p)
    BY <2>1, <2>2, BeginKeepsJournal
  <2>3. CASE DiscoverFails(p) \/ ScanDone(p)
    BY <2>1, <2>3, EndScanKeepsJournal DEF DiscoverFails, ScanDone, seen
  <2>4. CASE UpsertFails(p) \/ ForecastRaises(p) \/ InsertFails(p) \/ ExecuteRaises(p)
             \/ AlertRaises(p) \/ LockTimeout(p)
    BY <2>1, <2>4, RaiseKeepsJournal
       DEF UpsertFails, ForecastRaises, InsertFails, ExecuteRaises, AlertRaises, LockTimeout
  <2>5. CASE Crash(p)
    BY <2>1, <2>5, EndScanKeepsJournal DEF Crash
  <2>6. CASE Discover(p) \/ NextEvent(p) \/ Upsert(p) \/ GetBooks(p) \/ Forecast(p)
    BY <2>1, <2>6, EarlyKeepsJournal
  <2>7. CASE Evaluate(p) \/ InsertSignal(p) \/ EndEvent(p)
    BY <2>1, <2>7, EvaluateKeepsJournal, InsertSignalKeepsJournal, EndEventKeepsJournal
  <2>8. CASE Execute(p) \/ AttemptFails(p) \/ Alert(p) \/ MarkAlerted(p)
    BY <2>1, <2>8, FollowingKeepsJournal
  <2> QED
    BY <1>2, <2>2, <2>3, <2>4, <2>5, <2>6, <2>7, <2>8 DEF Step
<1> QED
  BY <1>1, <1>2 DEF Next

(* A scan with a session is one that has not broken off.                   *)
LEMMA Living ==
    ASSUME IInv, JournalInv, NEW p \in Scanners, pc[p] # "idle"
    PROVE  scan[p].n \in (1..MaxScans) \ cut
<1>1. scan[p].n \in 1..scans /\ scans \in 0..MaxScans
  BY InScan DEF IInv, ShapeOK
<1>2. MaxScans \in Nat
  BY DomainTypes
<1>3. scan[p].n \notin cut
  BY DEF JournalInv, Owned
<1> QED
  BY <1>1, <1>2, <1>3

LEMMA BreakOffRefines ==
    ASSUME IInv, JournalInv, NEW p \in Scanners, pc[p] # "idle",
           cut' = cut \cup {scan[p].n}, UNCHANGED <<written, others, sent>>
    PROVE  Journal!Next
<1>1. Journal!BreakOff(scan[p].n)
  BY DEF Journal!BreakOff, Journal!rows, Journal!marks, written, others
<1> QED
  BY <1>1, Living DEF Journal!Next

(* What a session commits is what it has written, all of its scan.         *)
LEMMA CommitRefines ==
    ASSUME IInv, JournalInv, NEW p \in Scanners, pc[p] \in {"market", "insert"},
           DecisionsComplete', UNCHANGED <<others, seen>>,
           estimates' = estimates \cup tx[p].rows.estimates,
           rejections' = rejections \cup tx[p].rows.rejections,
           \/ signals' = signals
           \/ \E s \in signals' \ signals :
                  /\ s.scan = scan[p].n /\ \A t \in signals : t.fingerprint # s.fingerprint
                  /\ signals' = signals \cup {s}
    PROVE  Journal!Next
<1> DEFINE n == scan[p].n
<1>1. pc[p] # "idle" /\ pc[p] \notin Following
  BY DEF Following
<1>2. n \in (1..MaxScans) \ cut
  BY <1>1, Living
<1>3. /\ \A s \in signals : s.scan = n => s.fingerprint \in decided
      /\ \A r \in tx[p].rows.estimates \cup tx[p].rows.rejections : r[1] = n
  BY <1>1 DEF JournalInv, Owned
<1>4. Journal!AddsOnly(n, estimates, estimates') /\ Journal!AddsOnly(n, rejections, rejections')
  BY <1>3 DEF Journal!AddsOnly
<1>5. estimates' = Journal!Judged(rejections', signals')
  BY DEF DecisionsComplete, Journal!Judged
<1>7. UNCHANGED <<Journal!marks, cut>>
  BY DEF others, seen, Journal!marks
<1>8. \/ signals' = signals
      \/ \E s \in signals' \ signals :
             /\ s.scan = n /\ \A t \in signals : t.fingerprint # s.fingerprint
             /\ signals' = signals \cup {s}
  OBVIOUS
<1>9. Journal!Commit(n)
  BY <1>3, <1>4, <1>5, <1>7, <1>8 DEF Journal!Commit
<1> QED
  BY <1>2, <1>9 DEF Journal!Next

LEMMA InsertSignalRefines ==
    ASSUME IInv, JournalInv, DecisionsComplete', NEW p \in Scanners, Alone(p), InsertSignal(p)
    PROVE  Journal!Next
<1> DEFINE s == [fingerprint |-> tx[p].signal, scan |-> scan[p].n]
<1>1. pc[p] = "insert" /\ UNCHANGED <<others, seen>> /\ ~Stored(tx[p].signal)
  BY DEF InsertSignal, FingerprintTaken
<1>2. WriteRows([tx[p].rows EXCEPT !.signals = {s}])
  BY InsertSignalKeepsJournal
<1>3. tx[p].rows \in TxRows
  BY <1>1, InScan DEF Session, TxShape
<1>4. s.fingerprint = tx[p].signal /\ s.scan = scan[p].n
  OBVIOUS
<1> HIDE DEF s
<1>5. /\ estimates' = estimates \cup tx[p].rows.estimates
      /\ rejections' = rejections \cup tx[p].rows.rejections
      /\ signals' = signals \cup {s}
  BY <1>2, <1>3 DEF WriteRows, TxRows
<1>6. s \in signals' \ signals /\ \A t \in signals : t.fingerprint # s.fingerprint
  BY <1>1, <1>4, <1>5 DEF Stored
<1> QED
  BY <1>1, <1>4, <1>5, <1>6, CommitRefines

LEMMA EndEventRefines ==
    ASSUME IInv, JournalInv, DecisionsComplete', NEW p \in Scanners, Alone(p), EndEvent(p)
    PROVE  Journal!Next
<1>1. pc[p] = "market" /\ UNCHANGED <<others, seen>> /\ WriteRows(tx[p].rows)
  BY DEF EndEvent
<1>2. signals' = signals
  BY EndEventKeepsJournal
<1> QED
  BY <1>1, <1>2, CommitRefines DEF WriteRows

(* The signal that a session follows is one of its scan.                   *)
LEMMA FollowingRefines ==
    ASSUME IInv, JournalInv, NEW p \in Scanners,
           Execute(p) \/ AttemptFails(p) \/ Alert(p) \/ MarkAlerted(p)
    PROVE  Journal!Next \/ UNCHANGED Journal!journalVars
<1> DEFINE n == scan[p].n
           s == [fingerprint |-> tx[p].signal, scan |-> n]
<1>1. pc[p] \in Following /\ UNCHANGED <<written, cut>>
  BY DEF Execute, AttemptFails, Alert, MarkAlerted, Following, seen
<1>2. n \in (1..MaxScans) \ cut
  BY <1>1, Living DEF Following
<1>3. s \in {t \in signals : t.scan = n} /\ s.fingerprint = tx[p].signal
  BY <1>1 DEF IInv, Followed
<1> HIDE DEF s, n
<1>4. Journal!Decide(s) \/ Journal!Alert(s) \/ Journal!Note(s) => Journal!Next
  BY <1>2, <1>3 DEF Journal!Next
<1>5. CASE Execute(p)
  <2>1. decided' = decided \cup {s.fingerprint} /\ UNCHANGED <<written, alerted, seen>>
    BY <1>3, <1>5 DEF Execute
  <2>2. CASE s.fingerprint \in decided
    BY <2>1, <2>2 DEF written, seen, Journal!journalVars, Journal!rows, Journal!marks
  <2>3. CASE s.fingerprint \notin decided
    BY <1>4, <2>1, <2>3 DEF written, seen, Journal!Decide, Journal!rows
  <2> QED
    BY <2>2, <2>3
<1>6. ASSUME pc[p] = "alert", Telegram, tx[p].tries <= MaxRetries, Deliver(p),
             UNCHANGED <<written, others, cut>>
      PROVE  Journal!Next
  <2>1. s.fingerprint \in decided \ alerted
    BY <1>3, <1>6 DEF IInv, Followed, Following
  <2>2. sent' = sent (+) SetToBag({s.fingerprint})
    BY <1>3, <1>6 DEF Deliver
  <2>3. BagIn(s.fingerprint, sent) => sent[s.fingerprint] < MaxRetries + 1
    <3>1. /\ Copies(s.fingerprint, sent) <= tx[p].tries
          /\ tx[p].tries \in Nat /\ MaxRetries \in Nat
      BY <1>3, <1>6, Tries DEF IInv, Followed
    <3>2. BagIn(s.fingerprint, sent) => sent[s.fingerprint] \in Nat
      BY DEF IInv, SentInOrder, IsABag, BagIn, BagToSet
    <3> QED
      BY <1>6, <3>1, <3>2 DEF Copies
  <2> QED
    BY <1>4, <1>6, <2>1, <2>2, <2>3
       DEF written, others, Journal!Alert, Journal!rows, BagIn, BagToSet, SetToBag, (+),
           Journal!BagIn, Journal!BagToSet, Journal!SetToBag, Journal!(+)
<1>7. CASE Alert(p)
  <2>1. pc[p] = "alert" /\ UNCHANGED <<written, others, cut>>
    BY <1>7 DEF Alert
  <2>2. CASE Telegram
    BY <1>6, <1>7, <2>1, <2>2 DEF Alert
  <2>3. CASE ~Telegram
    <3>1. sent' = sent
      BY <1>7, <2>3 DEF Alert
    <3> QED
      BY <2>1, <3>1 DEF written, others, Journal!journalVars, Journal!rows, Journal!marks
  <2> QED
    BY <2>2, <2>3
<1>8. CASE AttemptFails(p)
  <2>1. /\ pc[p] = "alert" /\ Telegram /\ tx[p].tries <= MaxRetries
        /\ UNCHANGED <<written, others, cut>> /\ (Deliver(p) \/ sent' = sent)
    BY <1>8 DEF AttemptFails
  <2>2. CASE Deliver(p)
    BY <1>6, <2>1, <2>2
  <2>3. CASE sent' = sent
    BY <2>1, <2>3 DEF written, others, Journal!journalVars, Journal!rows, Journal!marks
  <2> QED
    BY <2>1, <2>2, <2>3
<1>9. CASE MarkAlerted(p)
  <2>1. s.fingerprint \in BagToSet(sent)
    BY <1>3, <1>9 DEF MarkAlerted, IInv, Followed
  <2>2. alerted' = alerted \cup {s.fingerprint} /\ UNCHANGED <<written, decided, seen>>
    BY <1>3, <1>9 DEF MarkAlerted
  <2> QED
    BY <1>4, <2>1, <2>2 DEF written, seen, BagToSet, Journal!BagToSet, Journal!Note, Journal!rows
<1> QED
  BY <1>5, <1>7, <1>8, <1>9

LEMMA StillRefines ==
    ASSUME UNCHANGED <<written, decided, alerted, seen>>
    PROVE  UNCHANGED Journal!journalVars
  BY DEF written, seen, Journal!journalVars, Journal!rows, Journal!marks

LEMMA StepRefines ==
    IInv /\ JournalInv /\ DecisionsComplete' /\ [Next]_vars
        => [Journal!Next]_(Journal!journalVars)
<1> SUFFICES ASSUME IInv, JournalInv, DecisionsComplete', [Next]_vars
             PROVE  Journal!Next \/ UNCHANGED Journal!journalVars
  OBVIOUS
<1>1. CASE UNCHANGED vars \/ Calibrate \/ Tick
  BY <1>1, StillRefines DEF vars, Calibrate, Tick, others
<1>2. ASSUME NEW p \in Scanners, Begin(p) \/ Step(p) \/ LockTimeout(p) \/ Crash(p)
      PROVE  Journal!Next \/ UNCHANGED Journal!journalVars
  <2>1. Alone(p)
    BY <1>2, OneMoves
  <2>2. CASE \/ Begin(p) \/ DiscoverFails(p) \/ ScanDone(p) \/ Discover(p) \/ NextEvent(p)
             \/ Upsert(p) \/ GetBooks(p) \/ Forecast(p) \/ Evaluate(p)
    <3>1. UNCHANGED <<written, others, seen>>
      BY <2>2 DEF Begin, DiscoverFails, ScanDone, Discover, NextEvent, Upsert, GetBooks,
         Forecast, Evaluate
    <3> QED
      BY <3>1, StillRefines DEF others
  <2>3. CASE \/ UpsertFails(p) \/ ForecastRaises(p) \/ InsertFails(p) \/ ExecuteRaises(p)
             \/ AlertRaises(p) \/ LockTimeout(p) \/ Crash(p)
    <3>1. pc[p] # "idle" /\ cut' = cut \cup {scan[p].n} /\ UNCHANGED <<written, others, sent>>
      BY <2>3 DEF UpsertFails, ForecastRaises, InsertFails, ExecuteRaises, AlertRaises,
         LockTimeout, Crash, Raise
    <3> QED
      BY <3>1, BreakOffRefines
  <2>4. CASE InsertSignal(p) \/ EndEvent(p)
    BY <2>1, <2>4, InsertSignalRefines, EndEventRefines
  <2>5. CASE Execute(p) \/ AttemptFails(p) \/ Alert(p) \/ MarkAlerted(p)
    BY <2>5, FollowingRefines
  <2> QED
    BY <1>2, <2>2, <2>3, <2>4, <2>5 DEF Step
<1> QED
  BY <1>1, <1>2 DEF Next

(* Scans with their sessions, locks and failures do what the journal says. *)
THEOREM ImplementsJournal == Spec => JournalSpec
<1>1. Init => Journal!Init
  BY DEF Init, Journal!Init, EmptyBag, SetToBag, Journal!EmptyBag, Journal!SetToBag
<1>2. Spec => []JournalInv
  BY InitJournal, NextJournal, Invariance, PTL DEF Spec
<1>3. IInv => DecisionsComplete
  BY DEF IInv
<1> QED
  BY <1>1, <1>2, <1>3, StepRefines, Invariance, PTL DEF Spec, JournalSpec, Journal!Spec

-----------------------------------------------------------------------------
(* Wholes and their parts                                                  *)

(* A whole divided among the elements of a finite set, rounded down.       *)
Divides(parts, whole) ==
    /\ SumFunction(parts) \in Nat /\ SumFunction(parts) <= whole
    /\ whole <= SumFunction(parts) + Cardinality(DOMAIN parts)

LEMMA Division ==
    ASSUME NEW S, IsFiniteSet(S), NEW f, f \in [S -> Nat], NEW whole \in Nat,
           SumFunction(f) # 0
    PROVE  Divides([x \in S |-> (whole * f[x]) \div SumFunction(f)], whole)
<1> DEFINE total == SumFunctionOnSet(f, S)
           parts == [x \in S |-> (whole * f[x]) \div total]
           shared == SumFunctionOnSet(parts, S)
<1>1. SumFunction(f) = total /\ DOMAIN parts = S
  BY Zenon DEF SumFunction
<1>2. shared \in Nat /\ shared <= whole /\ whole <= shared + Cardinality(S)
  BY <1>1, SharesOfWhole, Zenon
<1>3. SumFunction(parts) = shared
  BY <1>1, Zenon DEF SumFunction
<1> QED
  BY <1>1, <1>2, <1>3, Zenon DEF Divides

(* The probabilities of a market's buckets divide one, whatever the models *)
(* forecast and however they are weighted, unless none of the forecasts    *)
(* falls into a bucket (calculate_probabilities).                          *)
THEOREM ProbabilitiesDivideOne ==
    ASSUME NEW fs \in Answers, NEW w, Weights(w)
    PROVE  LET chances == [l \in DOMAIN Buckets |-> Probability(fs, w, l)]
           IN  Divides(chances, One) \/ \A l \in DOMAIN Buckets : chances[l] = 0
<1> DEFINE shares == [l \in DOMAIN Buckets |-> Share(fs, w, l)]
           total == SumFunction(shares)
           chances == [l \in DOMAIN Buckets |-> Probability(fs, w, l)]
<1>1. \A l \in DOMAIN Buckets :
         chances[l] = IF total = 0 THEN 0 ELSE (One * shares[l]) \div total
  BY Zenon DEF Probability
<1>2. shares \in [DOMAIN Buckets -> Nat]
  BY ShareNat
<1>3. ASSUME total # 0 PROVE Divides(chances, One)
  <2> DEFINE parts == [l \in DOMAIN Buckets |-> (One * shares[l]) \div total]
  <2>1. chances = parts
    <3>1. \A l \in DOMAIN Buckets : Probability(fs, w, l) = (One * shares[l]) \div total
      BY <1>1, <1>3, Zenon
    <3> HIDE DEF shares, total
    <3> QED
      BY <3>1
  <2>2. IsFiniteSet(DOMAIN Buckets) /\ One \in Nat
    BY WeatherModelAssumption
  <2> HIDE DEF shares
  <2>3. Divides(parts, One)
    BY <1>2, <1>3, <2>2, Division, Zenon
  <2> QED
    BY <2>1, <2>3, Zenon
<1>4. ASSUME total = 0 PROVE \A l \in DOMAIN Buckets : chances[l] = 0
  BY <1>1, <1>4, Zenon
<1> QED
  BY <1>3, <1>4, Zenon

(* No weights, or parts of the whole weight.                               *)
Whole(w) == w = << >> \/ Divides(w, Unit)

(* So do the weights that a calibration promotes divide the whole weight,  *)
(* whatever the settled signals hold (compute_weights).                    *)
LEMMA PromotedDivideUnit ==
    ASSUME NEW samples \in Samples, ComputeWeights(samples) # Missing
    PROVE  Whole(ComputeWeights(samples))
<1> DEFINE models == DOMAIN samples
           perfect == {m \in models : Penalties(samples, m) = 0}
           inverses == [m \in models |-> InverseBrier(samples, m)]
           total == SumFunction(inverses)
           best == CHOOSE k \in perfect : TRUE
           alone == [m \in models |-> IF m = best THEN Unit ELSE 0]
           shared == [m \in models |-> (Unit * InverseBrier(samples, m)) \div total]
<1>1. /\ ~TooFew(samples)
      /\ \/ perfect # {} /\ ComputeWeights(samples) = alone
         \/ perfect = {} /\ ComputeWeights(samples) = shared
  BY Zenon DEF ComputeWeights
<1>2. Unit \in Nat /\ Unit \in Int /\ IsFiniteSet(models) /\ Cardinality(models) \in Nat
  BY FS_CardinalityType, WeatherModelAssumption, WeatherScanAssumption
<1>3. ASSUME perfect # {} PROVE Divides(alone, Unit)
  <2>1. best \in models
    BY <1>3
  <2> HIDE DEF best, perfect
  <2> DEFINE none == [m \in models |-> 0]
  <2>2. none \in [models -> Int] /\ alone \in [models -> Int]
    BY <1>2
  <2>3. /\ \A m \in models \ {best} : alone[m] = none[m]
        /\ alone[best] = Unit /\ none[best] = 0 /\ \A m \in models : none[m] = 0
    BY <2>1
  <2>4. DOMAIN alone = models
    OBVIOUS
  <2> HIDE DEF none, alone
  <2>5. SumFunctionOnSet(none, models) = 0
    BY <1>2, <2>2, <2>3, SumOfZeros, Zenon
  <2>6. SumFunctionOnSet(alone, models) =
           SumFunctionOnSet(none, models) + alone[best] - none[best]
    <3>1. best \in models /\ \A m \in models \ {best} : alone[m] = none[m]
      BY <2>1, <2>3
    <3> HIDE DEF models
    <3> QED
      BY ONLY <1>2, <2>2, <3>1, SumChanges
  <2>7. SumFunction(alone) = SumFunctionOnSet(alone, models)
    BY <2>4, Zenon DEF SumFunction
  <2>8. SumFunction(alone) = Unit
    BY <1>2, <2>3, <2>5, <2>6, <2>7
  <2> QED
    BY <1>2, <2>4, <2>8 DEF Divides
<1>5. ASSUME models = {} PROVE shared = << >>
  BY <1>5
<1>4. ASSUME perfect = {}, models # {} PROVE Divides(shared, Unit)
  <2>1. /\ inverses \in [models -> Nat]
        /\ \A m \in models : /\ inverses[m] = InverseBrier(samples, m)
                             /\ inverses[m] # 0
    BY <1>1, <1>4, InverseBrierNat
  <2>3. total # 0
    <3> HIDE DEF inverses
    <3>1. total \in Nat /\ \A m \in models : inverses[m] <= total
      BY <1>2, <2>1, SumBounds, Zenon
    <3> HIDE DEF total
    <3> QED
      BY <1>4, <2>1, <3>1
  <2> DEFINE parts == [m \in models |-> (Unit * inverses[m]) \div total]
  <2>4. shared = parts
    <3> HIDE DEF total
    <3> QED
      BY <2>1
  <2> HIDE DEF inverses
  <2>5. Divides(parts, Unit)
    BY <1>2, <2>1, <2>3, Division, Zenon
  <2> QED
    BY <2>4, <2>5, Zenon
<1> QED
  BY <1>1, <1>3, <1>4, <1>5, Zenon DEF Whole

WholeInv == Whole(weights) /\ \A p \in Scanners : pc[p] # "idle" => Whole(scan[p].weights)

(* Where a scan has its weights from.                                      *)
LEMMA WeightsRead ==
    ASSUME IInv, NEW p \in Scanners, Begin(p) \/ Step(p) \/ LockTimeout(p) \/ Crash(p)
    PROVE  /\ weights' = weights
           /\ \/ pc'[p] = "idle"
              \/ scan'[p].weights \in {<< >>, weights}
              \/ pc[p] # "idle" /\ scan'[p].weights = scan[p].weights
<1>1. CASE Begin(p)
  BY <1>1 DEF Begin, others, IInv, ShapeOK
<1>2. CASE EndScan(p) /\ UNCHANGED others
  BY <1>2 DEF EndScan, Goto, others, IInv, ShapeOK
<1>3. CASE \/ DiscoverFails(p) \/ ScanDone(p) \/ UpsertFails(p) \/ ForecastRaises(p)
           \/ InsertFails(p) \/ ExecuteRaises(p) \/ AlertRaises(p) \/ LockTimeout(p) \/ Crash(p)
  BY <1>2, <1>3 DEF DiscoverFails, ScanDone, UpsertFails, ForecastRaises, InsertFails,
     ExecuteRaises, AlertRaises, LockTimeout, Crash, Raise
<1>4. CASE Discover(p)
  <2> DEFINE new == [scan[p] EXCEPT !.todo = Discovered, !.weights = weights]
  <2>1. scan'[p] = new /\ weights' = weights /\ pc[p] # "idle"
    BY <1>4 DEF Discover, others, IInv, ShapeOK
  <2>2. new.weights = weights
    BY <2>1, InScan
  <2> QED
    BY <2>1, <2>2
<1>5. CASE NextEvent(p) \/ EndEvent(p)
  <2>1. /\ pc[p] # "idle" /\ weights' = weights
        /\ scan' = scan \/ scan' = [scan EXCEPT ![p].todo = Tail(@)]
    BY <1>5 DEF NextEvent, EndEvent, others
  <2>2. scan'[p].weights = scan[p].weights
    BY <2>1, InScan DEF IInv, ShapeOK
  <2> QED
    BY <2>1, <2>2
<1>6. CASE \/ Upsert(p) \/ GetBooks(p) \/ Forecast(p) \/ Evaluate(p) \/ InsertSignal(p)
           \/ Execute(p) \/ AttemptFails(p) \/ Alert(p) \/ MarkAlerted(p)
  BY <1>6 DEF Upsert, GetBooks, Forecast, Evaluate, InsertSignal, Execute, AttemptFails, Alert,
     MarkAlerted, others
<1> QED
  BY <1>1, <1>3, <1>4, <1>5, <1>6 DEF Step

LEMMA InitWhole == Init => WholeInv
  BY DEF Init, WholeInv, Whole

LEMMA NextWhole == IInv /\ WholeInv /\ [Next]_vars => WholeInv'
<1> SUFFICES ASSUME IInv, WholeInv, [Next]_vars PROVE WholeInv'
  OBVIOUS
<1>1. \A p \in Scanners : pc[p] # "idle" => Whole(scan[p].weights)
  BY DEF WholeInv
<1>2. Whole(weights) /\ Whole(<< >>)
  BY DEF WholeInv, Whole
<1>3. CASE UNCHANGED vars \/ Tick
  BY <1>3 DEF vars, Tick, session, others, WholeInv, Whole
<1>4. CASE Calibrate
  <2>1. PICK samples \in Samples :
           ComputeWeights(samples) # Missing /\ weights' = ComputeWeights(samples)
    BY <1>4, Zenon DEF Calibrate
  <2>2. Whole(ComputeWeights(samples))
    BY <2>1, PromotedDivideUnit
  <2>3. Whole(weights')
    BY <2>1, <2>2, Zenon
  <2> QED
    BY <1>4, <1>1, <2>3 DEF Calibrate, session, WholeInv, Whole
<1>5. ASSUME NEW p \in Scanners, Begin(p) \/ Step(p) \/ LockTimeout(p) \/ Crash(p)
      PROVE  WholeInv'
  <2>1. Alone(p)
    BY <1>5, OneMoves
  <2>2. /\ weights' = weights
        /\ \/ pc'[p] = "idle"
           \/ scan'[p].weights \in {<< >>, weights}
           \/ pc[p] # "idle" /\ scan'[p].weights = scan[p].weights
    BY <1>5, WeightsRead
  <2>3. ASSUME NEW q \in Scanners, pc'[q] # "idle" PROVE Whole(scan'[q].weights)
    BY <1>1, <1>2, <2>1, <2>2, <2>3 DEF Alone
  <2>4. Whole(weights')
    BY <1>2, <2>2, Zenon
  <2> QED
    BY <2>3, <2>4 DEF WholeInv, Whole
<1> QED
  BY <1>3, <1>4, <1>5 DEF Next

(* The weights stored, and those a scan works with, are none at all or     *)
(* divide the whole weight: "weights still sum to 1" (model_weights.py:61).*)
THEOREM WeightsDivideUnit == Spec => []WholeInv
  BY InitWhole, NextWhole, Invariance, PTL DEF Spec
====
