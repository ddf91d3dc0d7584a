---- MODULE CryptoPipelineProofs ----
(***************************************************************************)
(* Proofs about CryptoPipeline, for every set of scanners, markets, series *)
(* and books, on both databases.                                           *)
(*                                                                         *)
(* What is stored rests on what a scan found in steps of its own, between  *)
(* which the others go on.  The strengthening says what is still true of   *)
(* it at each place of the scan: the contract of the market is on record,  *)
(* whether or not another scan has come to reject it, a row that was       *)
(* looked up is there, one the scan has inserted is its own until it       *)
(* commits, and the candidate it has chosen was priced with the edge the   *)
(* settings demand.                                                        *)
(***************************************************************************)
EXTENDS CryptoPipeline, FoldProofs, SequenceTheorems

-----------------------------------------------------------------------------
(* The inductive invariant                                                 *)

Labels == {"idle", "market", "route", "fetch", "evidence", "addEvidence", "prediction",
           "addPrediction", "record", "books", "signal", "addSignal", "execute"}

Sessions == Scanners \X {"scan", "run"}

SeriesSet == [at : 0..MaxClock, latest : DOMAIN Paths, raw : Int]
Inputs == [market : Markets, series : SeriesSet]
Fingerprints == [input : Inputs, books : BookPairs, time : Int, side : {"YES", "NO"}]

OnRecord(m) == m \in DOMAIN contracts

HasEdge(f) == EdgeOf[f.input.market][f.input.series.latest][f.books][f.side]
                  >= MarketOf[f.input.market].minimum * (MinEdge + Costs)

WorldShape == clock \in 0..MaxClock /\ (cache = None \/ cache \in SeriesSet)

ScannerShape ==
    /\ pc \in [Scanners -> Labels] /\ todo \in [Scanners -> Seq(Markets)]
    /\ captured \in [Scanners -> 0..MaxClock]
    /\ run = [p \in Scanners |-> [series |-> run[p].series, known |-> run[p].known,
                                  signal |-> run[p].signal]]

HoldsShape == holds = [s \in Sessions |-> holds[s]]

SessionShape ==
    /\ tx = [p \in Scanners |-> [contracts |-> tx[p].contracts, evidence |-> tx[p].evidence,
                                  predictions |-> tx[p].predictions]]
    /\ HoldsShape
    /\ open \in [Scanners -> SUBSET Markets]

ShapeOK ==
    /\ WorldShape /\ ScannerShape /\ SessionShape
    /\ contracts = [m \in DOMAIN contracts |-> contracts[m]]

(* No two sessions hold the same lock, and SQLite has only one.            *)
LocksOK ==
    /\ \A s, t \in Sessions : s # t => holds[s] \cap holds[t] = {}
    /\ dialect = "sqlite" => \A s \in Sessions : holds[s] \subseteq {Writer}

Idle(p) ==
    pc[p] = "idle" => /\ run[p] = NoRun /\ todo[p] = << >>
                      /\ \A k \in {"scan", "run"} : holds[<<p, k>>] = {}

OfMarket(p) ==
    /\ pc[p] \notin {"idle", "market"} => todo[p] # << >> /\ OnRecord(Market(p))
    /\ pc[p] \notin {"idle", "market", "route"} => Contract(p).public
    /\ pc[p] \notin {"idle", "market", "route", "fetch"} => run[p].series \in SeriesSet

(* What the scan has looked up or inserted of its evidence and prediction. *)
OfRecord(p) ==
    /\ pc[p] = "addEvidence" /\ run[p].known => Input(p) \in evidence
    /\ pc[p] = "addPrediction" /\ run[p].known => Input(p) \in Predicted
    /\ pc[p] \in {"prediction", "addPrediction", "record"} =>
          Input(p) \in evidence \cup tx[p].evidence /\ tx[p].evidence \subseteq {Input(p)}
    /\ pc[p] = "record" =>
          Input(p) \in Predicted \cup tx[p].predictions /\ tx[p].predictions \subseteq {Input(p)}
    /\ pc[p] \in {"books", "signal", "addSignal", "execute"} => Input(p) \in Predicted

(* The places of the transaction of evidence and prediction.               *)
Inserting == {"addEvidence", "prediction", "addPrediction", "record"}

(* What it has inserted and not committed, nobody else has.                *)
Uncommitted(p) ==
    /\ tx[p].contracts \subseteq Markets
    /\ pc[p] \notin Inserting => tx[p].contracts = {}
    /\ pc[p] \notin {"prediction", "addPrediction", "record"} => tx[p].evidence = {}
    /\ pc[p] # "record" => tx[p].predictions = {}
    /\ \A i \in tx[p].predictions :
          i \notin Predicted /\ ToWrite(Row("prediction", i)) \in holds[<<p, "run">>]

OfSignal(p) ==
    pc[p] \in {"signal", "addSignal", "execute"} =>
       LET f == run[p].signal IN
       f \in Fingerprints /\ f.input = Input(p) /\ f.time <= captured[p] /\ HasEdge(f)

ScannerOK(p) == Idle(p) /\ OfMarket(p) /\ OfRecord(p) /\ Uncommitted(p) /\ OfSignal(p)

Recordings ==
    /\ DOMAIN contracts \subseteq Markets
    /\ evidence \subseteq Inputs /\ Predicted \subseteq evidence
    /\ features = [i \in Predicted |-> 2]

SignalOK(s) ==
    /\ s.fingerprint \in Fingerprints /\ s.fingerprint.input \in Predicted
    /\ OnRecord(s.fingerprint.input.market)
    /\ s.at \in 0..MaxClock /\ s.fingerprint.time <= s.at /\ HasEdge(s.fingerprint)

SignalsOK ==
    /\ \A s \in signals : SignalOK(s)
    /\ \A s, t \in signals : s.fingerprint = t.fingerprint => s = t

IInv ==
    /\ ShapeOK /\ LocksOK
    /\ \A p \in Scanners : ScannerOK(p)
    /\ Recordings /\ SignalsOK /\ EntryJustified
-----------------------------------------------------------------------------
(* What a sequence of levels adds up to                                    *)

Level == Nat \X Nat

DepthFold(asks, iter) ==
    iter = [s \in SUBSET DOMAIN asks |->
              IF s = {} THEN 0 ELSE iter[s \ {Max(s)}] + asks[Max(s)][2]]

(* The depth of a book is a number.                                        *)
LEMMA DepthIs ==
    ASSUME NEW book, book.asks \in Seq(Level)
    PROVE  Depth(book) \in Nat
<1> DEFINE asks == book.asks
           add == [x \in Nat \X Level |-> x[1] + x[2][2]]
           iter == CHOOSE i : DepthFold(asks, i)
<1>1. Depth(book) = iter[DOMAIN asks]
  BY DEF Depth, FoldLeft, MapThenFoldSet, DepthFold
<1>2. asks \in Seq(Level) /\ Len(asks) \in Nat /\ DOMAIN asks = 1..Len(asks)
      /\ \A i \in DOMAIN asks : asks[i] \in Level
  OBVIOUS
<1> HIDE DEF asks
<1>3. ASSUME NEW s \in SUBSET DOMAIN asks, s # {}
      PROVE  Max(s) \in s /\ asks[Max(s)] \in Level /\ asks[Max(s)][2] \in Nat
             /\ s \ {Max(s)} \in SUBSET DOMAIN asks
  <2>1. Max(s) \in s
    BY <1>2, <1>3, MaxIs
  <2>2. asks[Max(s)] \in Level
    BY <1>2, <2>1
  <2> QED
    BY <2>1, <2>2 DEF Level
<1>4. \E i : DepthFold(asks, i)
  <2>1. add \in [Nat \X Level -> Nat]
    BY DEF Level
  <2> HIDE DEF add
  <2>2. PICK i \in [SUBSET DOMAIN asks -> Nat] : SeqFolds(asks, 0, add, i)
    BY <1>2, <2>1, SeqFoldExists
  <2>3. ASSUME NEW s \in SUBSET DOMAIN asks
        PROVE  i[s] = IF s = {} THEN 0 ELSE i[s \ {Max(s)}] + asks[Max(s)][2]
    <3>1. i[s] = IF s = {} THEN 0 ELSE add[<<i[s \ {Max(s)}], asks[Max(s)]>>]
      BY <2>2, Zenon DEF SeqFolds
    <3>2. s # {} => i[s \ {Max(s)}] \in Nat /\ asks[Max(s)] \in Level
      BY <1>3
    <3> QED
      BY <3>1, <3>2 DEF add
  <2>4. i = [s \in SUBSET DOMAIN asks |->
               IF s = {} THEN 0 ELSE i[s \ {Max(s)}] + asks[Max(s)][2]]
    <3>1. i = [s \in SUBSET DOMAIN asks |-> i[s]]
      OBVIOUS
    <3> QED
      BY <2>3, <3>1, Zenon
  <2> QED
    BY <2>4, Zenon DEF DepthFold
<1>5. DepthFold(asks, iter)
  BY <1>4
<1> HIDE DEF iter
<1>6. ASSUME NEW s \in SUBSET DOMAIN asks
      PROVE  iter[s] = IF s = {} THEN 0 ELSE iter[s \ {Max(s)}] + asks[Max(s)][2]
  BY <1>5, Zenon DEF DepthFold
<1>7. \A s \in SUBSET (1..Len(asks)) : iter[s] \in Nat
  <2>1. iter[{}] \in Nat
    <3>1. iter[{}] = 0
      BY <1>6, Zenon
    <3> QED
      BY <3>1
  <2>2. ASSUME NEW s \in SUBSET (1..Len(asks)), s # {}, iter[s \ {Max(s)}] \in Nat
        PROVE  iter[s] \in Nat
    <3>1. s \in SUBSET DOMAIN asks
      BY <1>2
    <3>2. iter[s] = iter[s \ {Max(s)}] + asks[Max(s)][2]
      BY <1>6, <2>2, <3>1, Zenon
    <3>3. asks[Max(s)][2] \in Nat
      BY <1>3, <2>2, <3>1
    <3> QED
      BY <2>2, <3>2, <3>3
  <2> QED
    BY <1>2, <2>1, <2>2, SeqFoldStaysIn
<1> QED
  BY <1>1, <1>2, <1>7

Filling == [left : Nat, cost : Nat]

LEMMA FillIs ==
    ASSUME NEW acc \in Filling, NEW level \in Level
    PROVE  Fill(acc, level) \in Filling
<1>1. acc.left \in Nat /\ acc.cost \in Nat /\ level[1] \in Nat /\ level[2] \in Nat
  BY DEF Filling, Level
<1> DEFINE filled == Lesser(acc.left, level[2])
<1>2. filled \in Nat /\ filled <= acc.left
  BY <1>1 DEF Lesser
<1>3. filled * level[1] \in Nat
  BY <1>1, <1>2
<1>4. Fill(acc, level) = [left |-> acc.left - filled, cost |-> acc.cost + filled * level[1]]
  BY DEF Fill
<1> HIDE DEF filled
<1>5. acc.left - filled \in Nat /\ acc.cost + filled * level[1] \in Nat
  BY <1>1, <1>2, <1>3
<1> QED
  BY <1>4, <1>5 DEF Filling

CostFold(asks, size, iter) ==
    iter = [s \in SUBSET DOMAIN asks |->
              IF s = {} THEN [left |-> size, cost |-> 0]
              ELSE Fill(iter[s \ {Max(s)}], asks[Max(s)])]

(* What the book offers of a size costs a number.                          *)
LEMMA CostIs ==
    ASSUME NEW book, book.asks \in Seq(Level), NEW size \in Nat
    PROVE  PartialCost(book, size) \in Nat
<1> DEFINE asks == book.asks
           none == [left |-> size, cost |-> 0]
           fill == [x \in Filling \X Level |-> Fill(x[1], x[2])]
           iter == CHOOSE i : CostFold(asks, size, i)
<1>1. PartialCost(book, size) = iter[DOMAIN asks].cost
  BY DEF PartialCost, FoldLeft, MapThenFoldSet, CostFold
<1>2. asks \in Seq(Level) /\ Len(asks) \in Nat /\ DOMAIN asks = 1..Len(asks)
      /\ \A i \in DOMAIN asks : asks[i] \in Level
  OBVIOUS
<1> HIDE DEF asks
<1>3. ASSUME NEW s \in SUBSET DOMAIN asks, s # {}
      PROVE  Max(s) \in s /\ asks[Max(s)] \in Level /\ s \ {Max(s)} \in SUBSET DOMAIN asks
  <2>1. Max(s) \in s
    BY <1>2, <1>3, MaxIs
  <2> QED
    BY <1>2, <2>1
<1>4. \E i : CostFold(asks, size, i)
  <2>1. fill \in [Filling \X Level -> Filling] /\ none \in Filling
    BY FillIs DEF Filling
  <2>2. \A a \in Filling, l \in Level : fill[<<a, l>>] = Fill(a, l)
    OBVIOUS
  <2> HIDE DEF fill
  <2>3. PICK i \in [SUBSET DOMAIN asks -> Filling] : SeqFolds(asks, none, fill, i)
    BY <1>2, <2>1, SeqFoldExists
  <2>4. ASSUME NEW s \in SUBSET DOMAIN asks
        PROVE  i[s] = IF s = {} THEN none ELSE Fill(i[s \ {Max(s)}], asks[Max(s)])
    <3>1. i[s] = IF s = {} THEN none ELSE fill[<<i[s \ {Max(s)}], asks[Max(s)]>>]
      BY <2>3, Zenon DEF SeqFolds
    <3>2. s # {} => i[s \ {Max(s)}] \in Filling /\ asks[Max(s)] \in Level
      BY <1>3
    <3> QED
      BY <2>2, <3>1, <3>2, Zenon
  <2>5. i = [s \in SUBSET DOMAIN asks |->
               IF s = {} THEN none ELSE Fill(i[s \ {Max(s)}], asks[Max(s)])]
    <3>1. i = [s \in SUBSET DOMAIN asks |-> i[s]]
      OBVIOUS
    <3> QED
      BY <2>4, <3>1, Zenon
  <2> QED
    BY <2>5, Zenon DEF CostFold
<1>5. CostFold(asks, size, iter)
  BY <1>4
<1> HIDE DEF iter
<1>6. ASSUME NEW s \in SUBSET DOMAIN asks
      PROVE  iter[s] = IF s = {} THEN none ELSE Fill(iter[s \ {Max(s)}], asks[Max(s)])
  BY <1>5, Zenon DEF CostFold
<1>7. \A s \in SUBSET (1..Len(asks)) : iter[s] \in Filling
  <2>1. iter[{}] \in Filling
    <3>1. iter[{}] = none
      BY <1>6, Zenon
    <3> QED
      BY <3>1 DEF Filling
  <2>2. ASSUME NEW s \in SUBSET (1..Len(asks)), s # {}, iter[s \ {Max(s)}] \in Filling
        PROVE  iter[s] \in Filling
    <3>1. s \in SUBSET DOMAIN asks
      BY <1>2
    <3>2. iter[s] = Fill(iter[s \ {Max(s)}], asks[Max(s)])
      BY <1>6, <2>2, <3>1, Zenon
    <3>3. asks[Max(s)] \in Level
      BY <1>3, <2>2, <3>1
    <3> QED
      BY <2>2, <3>2, <3>3, FillIs
  <2> QED
    BY <1>2, <2>1, <2>2, SeqFoldStaysIn
<1>8. iter[DOMAIN asks] \in Filling
  BY <1>2, <1>7
<1> QED
  BY <1>1, <1>8 DEF Filling

-----------------------------------------------------------------------------
(* The edge of the candidate                                               *)

LEMMA FractionIs ==
    ASSUME NEW c, NEW k, NEW paths \in Seq(Nat), paths # << >>
    PROVE  Fraction(c, k, paths) \in Nat
<1> DEFINE hits == {i \in DOMAIN paths : EventHit(c, (Closes[k] * paths[i]) \div 100)}
<1>1. Len(paths) \in Nat \ {0} /\ DOMAIN paths = 1..Len(paths)
  OBVIOUS
<1>2. IsFiniteSet(DOMAIN paths)
  BY <1>1, FS_Interval
<1>3. Cardinality(hits) \in Nat
  BY <1>2, FS_Subset, FS_CardinalityType
<1>4. Fraction(c, k, paths) = (Cardinality(hits) * One) \div Len(paths)
  BY DEF Fraction
<1> HIDE DEF hits
<1>5. Cardinality(hits) * One \in Nat
  BY <1>3 DEF One
<1> QED
  BY <1>1, <1>4, <1>5

LEMMA EstimateIs ==
    ASSUME NEW c, NEW k \in DOMAIN Paths
    PROVE  /\ Estimate(c, k).probability \in Int /\ Estimate(c, k).disagreement \in Nat
           /\ \A side : Chance(side, Estimate(c, k)) \in Int
<1> DEFINE b == Fraction(c, k, Paths[k].bootstrap)
           g == Fraction(c, k, Paths[k].gauss)
<1>1. b \in Nat /\ g \in Nat
  BY SignalAssumption, FractionIs
<1>2. Estimate(c, k) = [probability |-> (b + g) \div 2, disagreement |-> Distance(b, g)]
  BY DEF Estimate
<1> HIDE DEF b, g
<1>3. (b + g) \div 2 \in Int /\ Distance(b, g) \in Nat
  BY <1>1 DEF Distance
<1> QED
  BY <1>2, <1>3 DEF Chance, One

(* The buffers are at least the costs.                                     *)
LEMMA BuffersAre ==
    ASSUME NEW estimate, estimate.disagreement \in Nat,
           NEW book, book.asks \in Seq(Level), book.minimum \in Nat, book.tick \in Nat
    PROVE  Buffers(estimate, book) \in Nat /\ Buffers(estimate, book) >= Costs
<1> DEFINE depth == Depth(book)
           due == book.minimum * book.tick
           doubt == estimate.disagreement \div 2
           thin == IF depth = 0 THEN One ELSE Lesser(One, due \div depth)
           unsure == Lesser(One, Uncertainty + doubt)
<1>1. depth \in Nat /\ due \in Nat /\ doubt \in Nat
  BY DepthIs
<1>2. Buffers(estimate, book) = Costs + unsure + thin
  BY DEF Buffers
<1> HIDE DEF depth, due, doubt
<1>3. depth # 0 => due \div depth \in Nat
  BY <1>1
<1>4. thin \in Nat /\ unsure \in Nat
  BY <1>1, <1>3, SignalAssumption DEF Lesser, One
<1> HIDE DEF thin, unsure
<1> QED
  BY <1>2, <1>4, SignalAssumption

(* The edge of a candidate is that of the order, less the buffers.         *)
LEMMA CandidateIs ==
    ASSUME NEW m \in DOMAIN MarketOf, NEW k \in DOMAIN Paths, NEW books \in BookPairs,
           Matched(MarketOf[m], books), NEW side \in {"YES", "NO"}
    PROVE  LET c == MarketOf[m]
               x == SideCandidate(c, Estimate(c, k), books, side)
           IN  /\ x.side = side /\ Rank(x) \in Int
               /\ x.usable # Refused =>
                     x.usable \in Int /\ EdgeOf[m][k][books][side] \in Int
                     /\ EdgeOf[m][k][books][side] >= x.usable + c.minimum * Costs
<1> DEFINE c == MarketOf[m]
           e == Estimate(c, k)
           book == books[side]
           cost == ExecutionCost(book, c.minimum)
           gain == c.minimum * Chance(side, e)
           buffer == c.minimum * Buffers(e, book)
           asked == IF cost = Refused THEN c.minimum * book.asks[1][1] ELSE cost
           x == SideCandidate(c, e, books, side)
<1>1. c.minimum \in Nat \ {0} /\ side \in DOMAIN books /\ book.asks \in Seq(Level)
      /\ book.minimum \in Nat /\ book.tick \in Nat /\ book.asks # << >>
  BY PipelineAssumption DEF Matched, ValidBook, Level
<1>2. cost # Refused => cost \in Nat
  BY <1>1, CostIs DEF ExecutionCost
<1>3. book.asks[1][1] \in Nat
  BY <1>1 DEF Level
<1>4. Chance(side, e) \in Int /\ e.disagreement \in Nat
  BY EstimateIs
<1>5. Buffers(e, book) \in Nat /\ Buffers(e, book) >= Costs
  BY <1>1, <1>4, BuffersAre
<1>6. x = [side |-> side, executable |-> cost # Refused, raw |-> gain - asked,
           usable |-> IF cost = Refused THEN Refused ELSE (gain - asked) - buffer]
  BY Zenon DEF SideCandidate
<1>7. EdgeOf[m][k][books][side] = IF cost = Refused THEN -One ELSE gain - cost
  BY Zenon DEF EdgeOf
<1>8. x.side = side /\ x.raw = gain - asked
      /\ x.usable = IF cost = Refused THEN Refused ELSE (gain - asked) - buffer
  BY <1>6
<1> HIDE DEF x
<1>9. Costs \in Nat
  BY SignalAssumption
<1>10. gain \in Int /\ buffer \in Nat /\ buffer >= c.minimum * Costs /\ asked \in Nat
       /\ c.minimum * Costs \in Nat
  <2>1. ASSUME NEW a \in Nat, NEW b \in Nat, NEW n \in Nat, a >= b PROVE n * a >= n * b
    BY <2>1
  <2>2. buffer >= c.minimum * Costs
    BY <1>1, <1>5, <1>9, <2>1
  <2>3. asked \in Nat
    BY <1>1, <1>2, <1>3
  <2> QED
    BY <1>1, <1>4, <1>5, <1>9, <2>2, <2>3
<1> DEFINE least == c.minimum * Costs
<1> HIDE DEF c, e, book, cost, gain, buffer, least
<1>11. Rank(x) \in Int
  BY <1>8, <1>10 DEF Rank
<1>12. x.usable # Refused => x.usable \in Int /\ EdgeOf[m][k][books][side] \in Int
          /\ EdgeOf[m][k][books][side] >= x.usable + least
  BY <1>7, <1>8, <1>10 DEF least
<1> QED
  BY <1>8, <1>11, <1>12 DEF x, c, e, least

LEMMA ChosenIs ==
    ASSUME NEW m \in DOMAIN MarketOf, NEW k \in DOMAIN Paths, NEW books \in BookPairs,
           Matched(MarketOf[m], books)
    PROVE  LET c == MarketOf[m]
               x == Chosen(c, Estimate(c, k), books)
           IN  /\ x.side \in {"YES", "NO"}
               /\ x.usable # Refused =>
                     x.usable \in Int /\ EdgeOf[m][k][books][x.side] \in Int
                     /\ EdgeOf[m][k][books][x.side] >= x.usable + c.minimum * Costs
<1> DEFINE c == MarketOf[m]
           e == Estimate(c, k)
           of(i) == SideCandidate(c, e, books, c.outcomes[i])
           better(i, j) == Rank(of(i)) > Rank(of(j)) \/ (Rank(of(i)) = Rank(of(j)) /\ i <= j)
           best == CHOOSE i \in 1..2 : \A j \in 1..2 : better(i, j)
<1>1. ASSUME NEW i \in 1..2
      PROVE  c.outcomes[i] \in {"YES", "NO"} /\ Rank(of(i)) \in Int
  <2>1. c.outcomes \in {<<"YES", "NO">>, <<"NO", "YES">>}
    BY PipelineAssumption
  <2>2. i = 1 \/ i = 2
    OBVIOUS
  <2>3. c.outcomes[i] \in {"YES", "NO"}
    BY <2>1, <2>2
  <2> HIDE DEF c
  <2> QED
    BY <2>3, CandidateIs DEF c
<1>2. \E i \in 1..2 : \A j \in 1..2 : better(i, j)
  <2> DEFINE r(i) == Rank(of(i))
  <2>1. r(1) \in Int /\ r(2) \in Int
    BY <1>1
  <2> HIDE DEF r
  <2>2. \A i, j \in 1..2 : better(i, j) <=> (r(i) > r(j) \/ (r(i) = r(j) /\ i <= j))
    BY Zenon DEF r
  <2> HIDE DEF better
  <2>3. CASE r(1) >= r(2)
    <3>1. \A j \in 1..2 : better(1, j)
      BY <2>1, <2>2, <2>3
    <3> QED
      BY <3>1
  <2>4. CASE r(2) > r(1)
    <3>1. \A j \in 1..2 : better(2, j)
      BY <2>1, <2>2, <2>4
    <3> QED
      BY <3>1
  <2> QED
    BY <2>1, <2>3, <2>4
<1>3. best \in 1..2
  <2> HIDE DEF better
  <2> QED
    BY <1>2
<1>4. Chosen(c, e, books) = of(best)
  BY Zenon DEF Chosen
<1> HIDE DEF best
<1>5. c.outcomes[best] \in {"YES", "NO"}
  BY <1>1, <1>3
<1> QED
  BY <1>4, <1>5, CandidateIs

(* What a signal without a reason against it has.                          *)
LEMMA WithoutReasons ==
    ASSUME NEW m \in DOMAIN MarketOf, NEW k \in DOMAIN Paths, NEW books \in BookPairs,
           NEW time \in Int, NEW now \in Int,
           NEW chosen, chosen = ChosenOf[m][k][books],
           Matched(MarketOf[m], books),
           SignalReasons(MarketOf[m], books, time, chosen, now) = {}
    PROVE  /\ time <= now /\ chosen.side \in {"YES", "NO"}
           /\ EdgeOf[m][k][books][chosen.side] >= MarketOf[m].minimum * (MinEdge + Costs)
<1> DEFINE c == MarketOf[m]
<1>1. chosen = Chosen(c, Estimate(c, k), books)
  BY Zenon DEF ChosenOf
<1>2. ~(time > now) /\ chosen.usable # Refused /\ ~(chosen.usable < c.minimum * MinEdge)
  <2>1. /\ (IF time > now THEN {"order_book_clock_skew"} ELSE {}) = {}
        /\ (IF chosen.usable = Refused THEN {"usable_edge_below_minimum"}
             ELSE IF chosen.usable < c.minimum * MinEdge THEN {"usable_edge_below_minimum"}
             ELSE {}) = {}
    BY DEF SignalReasons
  <2> QED
    BY <2>1
<1>3. chosen.side \in {"YES", "NO"} /\ chosen.usable \in Int
      /\ EdgeOf[m][k][books][chosen.side] \in Int
      /\ EdgeOf[m][k][books][chosen.side] >= chosen.usable + c.minimum * Costs
  BY <1>1, <1>2, ChosenIs
<1>4. c.minimum \in Nat /\ MinEdge \in Nat /\ Costs \in Nat
  BY PipelineAssumption, SignalAssumption
<1> DEFINE least == c.minimum * MinEdge
           costs == c.minimum * Costs
           edge == EdgeOf[m][k][books][chosen.side]
<1>5. least \in Nat /\ costs \in Nat /\ c.minimum * (MinEdge + Costs) = least + costs
  BY <1>4
<1> HIDE DEF c
<1>6. edge >= least + costs
  <2>1. chosen.usable \in Int /\ edge \in Int /\ edge >= chosen.usable + costs
        /\ ~(chosen.usable < least)
    BY <1>2, <1>3
  <2> HIDE DEF edge, least, costs
  <2> QED
    BY <1>5, <2>1
<1> QED
  BY <1>2, <1>3, <1>5, <1>6 DEF c

-----------------------------------------------------------------------------
(* Series and markets                                                      *)

(* A series ends with a candle there are paths for.                        *)
LEMMA SeriesIs ==
    ASSUME NEW now \in 0..MaxClock, clock \in 0..MaxClock
    PROVE  SeriesAt(now) \in SeriesSet
<1> DEFINE complete == Complete(Response, now)
<1>1. Interval \in Nat \ {0} /\ MaxClock \in Nat
  BY CandlesAssumption, PipelineAssumption
<1>2. DOMAIN Closes \subseteq Int /\ IsFiniteSet(DOMAIN Closes) /\ 0 \in DOMAIN Closes
  BY SignalAssumption
<1>3. DOMAIN Response = {j \in DOMAIN Closes : (j - 1) * Interval <= clock}
  BY DEF Response
<1>4. complete = {k \in DOMAIN Response : k * Interval <= now}
  BY DEF Complete
<1>5. 0 \in complete
  <2>1. (0 - 1) * Interval <= clock /\ 0 * Interval <= now
    BY <1>1
  <2> QED
    BY <1>2, <1>3, <1>4, <2>1
<1>6. complete \subseteq DOMAIN Closes
  BY <1>3, <1>4
<1> HIDE DEF complete
<1>7. PICK k \in complete : \A j \in complete : j <= k
  BY <1>2, <1>5, <1>6, FS_Subset, FiniteMax
<1>8. LastOf(complete) \in complete /\ \A j \in complete : j <= LastOf(complete)
  BY <1>7 DEF LastOf
<1>9. LastOf(complete) >= 0
  BY <1>2, <1>5, <1>6, <1>8
<1>10. LastOf(complete) \in DOMAIN Paths
  BY <1>6, <1>8, <1>9, SignalAssumption
<1>11. SeriesAt(now) = [at |-> now, latest |-> LastOf(complete), raw |-> clock]
  BY DEF SeriesAt, complete
<1> QED
  BY <1>1, <1>10, <1>11 DEF SeriesSet

LEMMA MarketsAre ==
    Markets \subseteq DOMAIN MarketOf /\ Discovered \in Seq(Markets)
<1>1. Discovered \in Seq(DOMAIN MarketOf)
  BY PipelineAssumption
<1>2. Markets = {Discovered[i] : i \in DOMAIN Discovered}
  BY DEF Markets, ToSet
<1>3. DOMAIN Discovered = 1..Len(Discovered) /\ Len(Discovered) \in Nat
      /\ \A i \in DOMAIN Discovered : Discovered[i] \in DOMAIN MarketOf
  BY <1>1
<1>4. Discovered = [i \in 1..Len(Discovered) |-> Discovered[i]]
  BY <1>1
<1> QED
  BY <1>2, <1>3, <1>4

LEMMA MarketIs ==
    ASSUME ShapeOK, NEW p \in Scanners, todo[p] # << >>
    PROVE  /\ Market(p) \in Markets /\ Market(p) \in DOMAIN MarketOf
           /\ Tail(todo[p]) \in Seq(Markets)
           /\ run[p].series \in SeriesSet => Input(p) \in Inputs
<1>1. todo[p] \in Seq(Markets)
  BY DEF ShapeOK, ScannerShape
<1>2. Market(p) \in Markets /\ Tail(todo[p]) \in Seq(Markets)
  BY <1>1 DEF Market
<1> QED
  BY <1>2, MarketsAre DEF Input, Inputs

-----------------------------------------------------------------------------
(* What a step leaves alone                                                *)

Still(q) ==
    /\ pc'[q] = pc[q] /\ todo'[q] = todo[q] /\ captured'[q] = captured[q]
    /\ run'[q] = run[q] /\ tx'[q] = tx[q]
    /\ \A k \in {"scan", "run"} : holds'[<<q, k>>] = holds[<<q, k>>]

Alone(p) == \A q \in Scanners \ {p} : Still(q)

RowsGrow ==
    /\ dialect' = dialect
    /\ evidence \subseteq evidence' /\ Predicted \subseteq Predicted'
    /\ DOMAIN contracts \subseteq DOMAIN contracts'

LEMMA Bystander ==
    ASSUME ShapeOK, NEW q \in Scanners, ScannerOK(q), Still(q), RowsGrow,
           \A i \in tx[q].predictions : i \notin Predicted'
    PROVE  ScannerOK(q)'
<1>1. Market(q)' = Market(q) /\ Contract(q)' = Contract(q) /\ Input(q)' = Input(q)
  BY DEF Still, Market, Contract, Input
<1>2. Idle(q)'
  BY DEF ScannerOK, Idle, Still
<1>3. OfMarket(q)'
  BY <1>1 DEF ScannerOK, OfMarket, Still, RowsGrow, OnRecord
<1>4. OfRecord(q)'
  BY <1>1 DEF ScannerOK, OfRecord, Still, RowsGrow
<1>5. Uncommitted(q)'
  <2>1. \A i : ToWrite(Row("prediction", i))' = ToWrite(Row("prediction", i))
    BY DEF RowsGrow, ToWrite, Row, Writer
  <2> QED
    BY <2>1 DEF ScannerOK, Uncommitted, Inserting, Still, RowsGrow
<1>6. OfSignal(q)'
  BY <1>1 DEF ScannerOK, OfSignal, Still, HasEdge
<1> QED
  BY <1>2, <1>3, <1>4, <1>5, <1>6 DEF ScannerOK

LEMMA SignalStays ==
    ASSUME NEW s, SignalOK(s), RowsGrow
    PROVE  SignalOK(s)'
  BY DEF SignalOK, RowsGrow, OnRecord, HasEdge

LEMMA StepKeeps ==
    ASSUME IInv, NEW p \in Scanners, Alone(p), RowsGrow,
           \A q \in Scanners \ {p} : \A i \in tx[q].predictions : i \notin Predicted',
           ShapeOK', LocksOK', ScannerOK(p)', Recordings', SignalsOK', EntryJustified'
    PROVE  IInv'
<1>1. ASSUME NEW q \in Scanners \ {p} PROVE ScannerOK(q)'
  BY Bystander DEF IInv, Alone
<1>2. \A q \in Scanners : ScannerOK(q)'
  BY <1>1
<1> QED
  BY <1>2 DEF IInv

(* A step that stores no evidence, prediction, signal or decision.         *)
LEMMA QuietStep ==
    ASSUME IInv, NEW p \in Scanners, Alone(p),
           dialect' = dialect, evidence' = evidence, features' = features,
           signals' = signals, decisions' = decisions,
           DOMAIN contracts \subseteq DOMAIN contracts',
           (DOMAIN contracts)' \subseteq Markets,
           ShapeOK', LocksOK', ScannerOK(p)'
    PROVE  IInv'
<1>1. Predicted' = Predicted
  BY DEF Predicted
<1>2. RowsGrow
  BY <1>1 DEF RowsGrow
<1>3. ASSUME NEW q \in Scanners \ {p}, NEW i \in tx[q].predictions PROVE i \notin Predicted'
  BY <1>1 DEF IInv, ScannerOK, Uncommitted, Inserting
<1>4. Recordings'
  BY <1>1 DEF IInv, Recordings
<1>5. SignalsOK'
  BY <1>2, SignalStays DEF IInv, SignalsOK
<1>6. EntryJustified'
  BY DEF IInv, EntryJustified
<1> QED
  BY <1>2, <1>3, <1>4, <1>5, <1>6, StepKeeps

-----------------------------------------------------------------------------
(* Sessions                                                                *)

LEMMA SessionsAre ==
    ASSUME ShapeOK
    PROVE  /\ DOMAIN holds = Sessions
           /\ \A p \in Scanners, k \in {"scan", "run"} : <<p, k>> \in Sessions
           /\ \A s \in Sessions : s[1] \in Scanners /\ s[2] \in {"scan", "run"}
                                  /\ s = <<s[1], s[2]>>
  BY DEF ShapeOK, SessionShape, HoldsShape, Sessions

LEMMA LocksShrink ==
    ASSUME LocksOK, dialect' = dialect, \A s \in Sessions : holds'[s] \subseteq holds[s]
    PROVE  LocksOK'
  BY DEF LocksOK, Writer

LEMMA TakeIs ==
    ASSUME ShapeOK, LocksOK, dialect' = dialect, NEW s \in Sessions, NEW row, Take(s, row)
    PROVE  /\ LocksOK' /\ HoldsShape'
           /\ holds'[s] = holds[s] \cup {ToWrite(row)}
           /\ \A t \in Sessions \ {s} : holds'[t] = holds[t]
<1>1. holds' = [holds EXCEPT ![s] = @ \cup {ToWrite(row)}] /\ DOMAIN holds = Sessions
  BY SessionsAre DEF Take
<1>2. holds = [t \in Sessions |-> holds[t]]
  BY DEF ShapeOK, SessionShape, HoldsShape
<1>3. holds'[s] = holds[s] \cup {ToWrite(row)} /\ \A t \in Sessions \ {s} : holds'[t] = holds[t]
  BY <1>1, <1>2
<1>4. \A t \in Sessions \ {s} : ToWrite(row) \notin holds[t]
  BY <1>1 DEF Take, Available
<1>5. \A t, u \in Sessions : t # u => holds'[t] \cap holds'[u] = {}
  <2> SUFFICES ASSUME NEW t \in Sessions, NEW u \in Sessions, t # u
               PROVE  holds'[t] \cap holds'[u] = {}
    OBVIOUS
  <2>1. holds[t] \cap holds[u] = {}
    BY DEF LocksOK
  <2>2. CASE t = s
    BY <1>3, <1>4, <2>1, <2>2
  <2>3. CASE u = s
    BY <1>3, <1>4, <2>1, <2>3
  <2>4. CASE t # s /\ u # s
    BY <1>3, <2>1, <2>4
  <2> QED
    BY <2>2, <2>3, <2>4
<1>6. dialect = "sqlite" => \A t \in Sessions : holds'[t] \subseteq {Writer}
  <2>1. dialect = "sqlite" => ToWrite(row) = Writer
    BY DEF ToWrite
  <2> QED
    BY <1>3, <2>1 DEF LocksOK
<1>7. LocksOK'
  BY <1>5, <1>6 DEF LocksOK, Writer
<1>8. HoldsShape'
  BY <1>1, <1>2, Zenon DEF HoldsShape
<1> QED
  BY <1>3, <1>7, <1>8

LEMMA ReleaseIs ==
    ASSUME ShapeOK, LocksOK, dialect' = dialect, NEW s \in Sessions, Release(s)
    PROVE  /\ LocksOK' /\ HoldsShape'
           /\ holds'[s] = {} /\ \A t \in Sessions \ {s} : holds'[t] = holds[t]
<1>1. holds' = [holds EXCEPT ![s] = {}] /\ holds = [t \in Sessions |-> holds[t]]
  BY DEF Release, ShapeOK, SessionShape, HoldsShape
<1>2. holds'[s] = {} /\ \A t \in Sessions \ {s} : holds'[t] = holds[t]
  BY <1>1
<1>3. LocksOK'
  BY <1>2, LocksShrink
<1>4. HoldsShape'
  BY <1>1, Zenon DEF HoldsShape
<1> QED
  BY <1>2, <1>3, <1>4

-----------------------------------------------------------------------------
(* What a step does to its scanner                                         *)

ScannerAlone(p) ==
    \A q \in Scanners \ {p} :
       pc'[q] = pc[q] /\ todo'[q] = todo[q] /\ captured'[q] = captured[q] /\ run'[q] = run[q]

SessionAlone(p) ==
    \A q \in Scanners \ {p} :
       tx'[q] = tx[q] /\ \A k \in {"scan", "run"} : holds'[<<q, k>>] = holds[<<q, k>>]

LEMMA AloneIs ==
    ASSUME NEW p \in Scanners, ScannerAlone(p), SessionAlone(p)
    PROVE  Alone(p)
  BY DEF Alone, Still, ScannerAlone, SessionAlone

LEMMA SameSession ==
    ASSUME ShapeOK, LocksOK, dialect' = dialect, session' = session, NEW p \in Scanners
    PROVE  SessionShape' /\ SessionAlone(p) /\ LocksOK'
<1>1. holds' = holds /\ tx' = tx /\ open' = open
  BY DEF session
<1>2. LocksOK'
  BY <1>1, LocksShrink
<1> QED
  BY <1>1, <1>2 DEF ShapeOK, SessionShape, HoldsShape, SessionAlone

LEMMA GotoIs ==
    ASSUME ShapeOK, NEW p \in Scanners, NEW l \in Labels, Goto(p, l),
           todo' = todo, captured' = captured, run' = run
    PROVE  ScannerShape' /\ ScannerAlone(p) /\ pc'[p] = l
<1>1. pc' = [pc EXCEPT ![p] = l] /\ pc \in [Scanners -> Labels]
  BY DEF Goto, ShapeOK, ScannerShape
<1>2. pc' \in [Scanners -> Labels] /\ pc'[p] = l /\ \A q \in Scanners \ {p} : pc'[q] = pc[q]
  BY <1>1
<1>3. ScannerShape'
  BY <1>2 DEF ShapeOK, ScannerShape
<1> QED
  BY <1>2, <1>3 DEF ScannerAlone

RunWith(p, r) ==
    /\ ScannerShape' /\ ScannerAlone(p) /\ run'[p] = r
    /\ todo'[p] = todo[p] /\ captured'[p] = captured[p]

LEMMA RunIs ==
    ASSUME ShapeOK, NEW p \in Scanners, NEW l \in Labels, Goto(p, l),
           todo' = todo, captured' = captured,
           NEW x, NEW y, NEW z,
           run' = [run EXCEPT ![p] = [series |-> x, known |-> y, signal |-> z]]
    PROVE  RunWith(p, [series |-> x, known |-> y, signal |-> z]) /\ pc'[p] = l
<1> DEFINE r == [series |-> x, known |-> y, signal |-> z]
<1>1. pc' = [pc EXCEPT ![p] = l] /\ pc \in [Scanners -> Labels]
  BY DEF Goto, ShapeOK, ScannerShape
<1>2. pc' \in [Scanners -> Labels] /\ pc'[p] = l /\ \A q \in Scanners \ {p} : pc'[q] = pc[q]
  BY <1>1
<1>3. run = [q \in Scanners |-> [series |-> run[q].series, known |-> run[q].known,
                                  signal |-> run[q].signal]]
  BY DEF ShapeOK, ScannerShape
<1>4. DOMAIN run' = Scanners /\ run'[p] = r /\ \A q \in Scanners \ {p} : run'[q] = run[q]
  BY <1>3
<1>5. ASSUME NEW q \in Scanners
      PROVE  run'[q] = [series |-> run'[q].series, known |-> run'[q].known,
                        signal |-> run'[q].signal]
  <2>1. CASE q = p
    BY <1>4, <2>1
  <2>2. CASE q # p
    BY <1>3, <1>4, <2>2
  <2> QED
    BY <2>1, <2>2
<1>6. run' = [q \in Scanners |-> run'[q]]
  BY <1>3
<1>7. run' = [q \in Scanners |-> [series |-> run'[q].series, known |-> run'[q].known,
                                   signal |-> run'[q].signal]]
  BY <1>5, <1>6, Zenon
<1>8. ScannerShape'
  BY <1>2, <1>7 DEF ShapeOK, ScannerShape
<1> QED
  BY <1>2, <1>4, <1>8 DEF RunWith, ScannerAlone

(* An update of one field of what the pipeline has got.                    *)
LEMMA FieldIs ==
    ASSUME ShapeOK, NEW p \in Scanners, NEW v
    PROVE  /\ [run EXCEPT ![p].known = v]
                 = [run EXCEPT ![p] = [series |-> run[p].series, known |-> v,
                                       signal |-> run[p].signal]]
           /\ [run EXCEPT ![p].series = v]
                 = [run EXCEPT ![p] = [series |-> v, known |-> run[p].known,
                                       signal |-> run[p].signal]]
           /\ [run EXCEPT ![p].signal = v]
                 = [run EXCEPT ![p] = [series |-> run[p].series, known |-> run[p].known,
                                       signal |-> v]]
<1>1. run = [q \in Scanners |-> [series |-> run[q].series, known |-> run[q].known,
                                  signal |-> run[q].signal]]
  BY DEF ShapeOK, ScannerShape
<1>2. run[p] = [series |-> run[p].series, known |-> run[p].known, signal |-> run[p].signal]
  BY <1>1
<1> DEFINE r == run[p]
           a == run[p].series
           b == run[p].known
           c == run[p].signal
<1>3. r = [series |-> a, known |-> b, signal |-> c]
  BY <1>2
<1>4. /\ [run EXCEPT ![p].known = v] = [run EXCEPT ![p] = [r EXCEPT !.known = v]]
      /\ [run EXCEPT ![p].series = v] = [run EXCEPT ![p] = [r EXCEPT !.series = v]]
      /\ [run EXCEPT ![p].signal = v] = [run EXCEPT ![p] = [r EXCEPT !.signal = v]]
  OBVIOUS
<1> HIDE DEF r, a, b, c
<1>5. /\ [r EXCEPT !.known = v] = [series |-> a, known |-> v, signal |-> c]
      /\ [r EXCEPT !.series = v] = [series |-> v, known |-> b, signal |-> c]
      /\ [r EXCEPT !.signal = v] = [series |-> a, known |-> b, signal |-> v]
  BY <1>3
<1> QED
  BY <1>4, <1>5, Zenon DEF a, b, c

LEMMA KnownIs ==
    ASSUME IInv, NEW p \in Scanners, NEW l \in Labels, NEW present,
           run' = [run EXCEPT ![p].known = present], Goto(p, l),
           todo' = todo, captured' = captured
    PROVE  /\ RunWith(p, [series |-> run[p].series, known |-> present, signal |-> run[p].signal])
           /\ pc'[p] = l
<1>1. /\ run' = [run EXCEPT ![p].known = present] /\ Goto(p, l)
      /\ todo' = todo /\ captured' = captured /\ ShapeOK
  BY DEF IInv
<1>2. run' = [run EXCEPT ![p] = [series |-> run[p].series, known |-> present,
                                 signal |-> run[p].signal]]
  BY <1>1, FieldIs, Zenon
<1>3. ASSUME NEW x, NEW z,
             run' = [run EXCEPT ![p] = [series |-> x, known |-> present, signal |-> z]]
      PROVE  RunWith(p, [series |-> x, known |-> present, signal |-> z]) /\ pc'[p] = l
  <2>1. Goto(p, l) /\ ShapeOK /\ todo' = todo /\ captured' = captured
    BY <1>1
  <2>2. pc'[p] = l
    BY <2>1 DEF Goto, ShapeOK, ScannerShape
  <2>3. RunWith(p, [series |-> x, known |-> present, signal |-> z])
    BY <2>1, <1>3, RunIs
  <2> QED
    BY <2>2, <2>3
<1> QED
  BY <1>2, <1>3

LEMMA LookUpIs ==
    ASSUME IInv, NEW p \in Scanners, NEW l \in Labels, NEW present, LookUp(p, present, l)
    PROVE  /\ RunWith(p, [series |-> run[p].series, known |-> present, signal |-> run[p].signal])
           /\ pc'[p] = l
<1>1. /\ run' = [run EXCEPT ![p].known = present] /\ Goto(p, l)
      /\ todo' = todo /\ captured' = captured
  BY DEF LookUp
<1> QED
  BY <1>1, KnownIs

LEMMA NextMarketIs ==
    ASSUME ShapeOK, NEW p \in Scanners, todo[p] # << >>, NextMarket(p)
    PROVE  ScannerShape' /\ ScannerAlone(p) /\ pc'[p] = "market"
<1>1. todo \in [Scanners -> Seq(Markets)] /\ todo' = [todo EXCEPT ![p] = Tail(@)]
      /\ Goto(p, "market") /\ captured' = captured /\ run' = [run EXCEPT ![p] = NoRun]
  BY DEF NextMarket, ShapeOK, ScannerShape
<1>2. todo' \in [Scanners -> Seq(Markets)] /\ \A q \in Scanners \ {p} : todo'[q] = todo[q]
  BY <1>1, MarketIs
<1>3. pc' \in [Scanners -> Labels] /\ pc'[p] = "market"
      /\ \A q \in Scanners \ {p} : pc'[q] = pc[q]
  BY <1>1 DEF Goto, ShapeOK, ScannerShape, Labels
<1>4. run = [q \in Scanners |-> [series |-> run[q].series, known |-> run[q].known,
                                  signal |-> run[q].signal]]
  BY DEF ShapeOK, ScannerShape
<1>5. ASSUME NEW q \in Scanners
      PROVE  /\ run'[q] = [series |-> run'[q].series, known |-> run'[q].known,
                           signal |-> run'[q].signal]
             /\ q # p => run'[q] = run[q]
  BY <1>1, <1>4 DEF NoRun
<1>6. run' = [q \in Scanners |-> run'[q]]
  BY <1>1, <1>4
<1>7. run' = [q \in Scanners |-> [series |-> run'[q].series, known |-> run'[q].known,
                                   signal |-> run'[q].signal]]
  BY <1>5, <1>6, Zenon
<1>8. captured' \in [Scanners -> 0..MaxClock]
  BY <1>1 DEF ShapeOK, ScannerShape
<1>9. ScannerShape'
  BY <1>2, <1>3, <1>7, <1>8 DEF ScannerShape
<1> QED
  BY <1>1, <1>2, <1>3, <1>5, <1>9 DEF ScannerAlone

LEMMA EndScanIs ==
    ASSUME ShapeOK, LocksOK, dialect' = dialect, NEW p \in Scanners, EndScan(p)
    PROVE  /\ ScannerShape' /\ SessionShape' /\ LocksOK' /\ Alone(p)
           /\ (Idle(p) /\ OfMarket(p) /\ OfRecord(p) /\ Uncommitted(p) /\ OfSignal(p))'
<1>1. /\ pc' = [pc EXCEPT ![p] = "idle"] /\ todo' = [todo EXCEPT ![p] = << >>]
      /\ captured' = [captured EXCEPT ![p] = 0] /\ run' = [run EXCEPT ![p] = NoRun]
      /\ tx' = [tx EXCEPT ![p] = NoTx] /\ open' = [open EXCEPT ![p] = {}]
      /\ holds' = [s \in DOMAIN holds |-> IF s[1] = p THEN {} ELSE holds[s]]
  BY DEF EndScan, Goto
<1>2. /\ pc \in [Scanners -> Labels] /\ todo \in [Scanners -> Seq(Markets)]
      /\ captured \in [Scanners -> 0..MaxClock] /\ MaxClock \in Nat
  BY PipelineAssumption DEF ShapeOK, ScannerShape
<1>3. /\ pc' \in [Scanners -> Labels] /\ todo' \in [Scanners -> Seq(Markets)]
      /\ captured' \in [Scanners -> 0..MaxClock]
      /\ pc'[p] = "idle" /\ todo'[p] = << >>
      /\ \A q \in Scanners \ {p} :
            pc'[q] = pc[q] /\ todo'[q] = todo[q] /\ captured'[q] = captured[q]
  BY <1>1, <1>2 DEF Labels
<1>4. run = [q \in Scanners |-> [series |-> run[q].series, known |-> run[q].known,
                                  signal |-> run[q].signal]]
  BY DEF ShapeOK, ScannerShape
<1>5. ASSUME NEW q \in Scanners
      PROVE  /\ run'[q] = [series |-> run'[q].series, known |-> run'[q].known,
                           signal |-> run'[q].signal]
             /\ q # p => run'[q] = run[q]
             /\ q = p => run'[q] = NoRun
  BY <1>1, <1>4 DEF NoRun
<1>6. run' = [q \in Scanners |-> run'[q]]
  BY <1>1, <1>4
<1>7. run' = [q \in Scanners |-> [series |-> run'[q].series, known |-> run'[q].known,
                                   signal |-> run'[q].signal]]
  BY <1>5, <1>6, Zenon
<1>8. tx = [q \in Scanners |-> [contracts |-> tx[q].contracts, evidence |-> tx[q].evidence,
                                 predictions |-> tx[q].predictions]]
  BY DEF ShapeOK, SessionShape
<1>9. ASSUME NEW q \in Scanners
      PROVE  /\ tx'[q] = [contracts |-> tx'[q].contracts, evidence |-> tx'[q].evidence,
                           predictions |-> tx'[q].predictions]
             /\ q # p => tx'[q] = tx[q]
             /\ q = p => tx'[q] = NoTx
  BY <1>1, <1>8 DEF NoTx
<1>10. tx' = [q \in Scanners |-> tx'[q]]
  BY <1>1, <1>8
<1>11. tx' = [q \in Scanners |-> [contracts |-> tx'[q].contracts, evidence |-> tx'[q].evidence,
                                   predictions |-> tx'[q].predictions]]
  BY <1>9, <1>10, Zenon
<1>12. open' \in [Scanners -> SUBSET Markets]
  BY <1>1 DEF ShapeOK, SessionShape
<1>13. HoldsShape' /\ \A s \in Sessions : holds'[s] = IF s[1] = p THEN {} ELSE holds[s]
  BY <1>1, SessionsAre, Zenon DEF HoldsShape
<1>14. LocksOK'
  BY <1>13, LocksShrink
<1>15. \A k \in {"scan", "run"} : holds'[<<p, k>>] = {}
       /\ \A q \in Scanners \ {p} : holds'[<<q, k>>] = holds[<<q, k>>]
  BY <1>13, SessionsAre
<1>16. ScannerShape'
  BY <1>3, <1>7 DEF ScannerShape
<1>17. SessionShape'
  BY <1>11, <1>12, <1>13 DEF SessionShape
<1>18. Alone(p)
  BY <1>3, <1>5, <1>9, <1>15 DEF Alone, Still
<1>19. (Idle(p) /\ OfMarket(p) /\ OfRecord(p) /\ Uncommitted(p) /\ OfSignal(p))'
  <2>1. /\ run'[p] = NoRun /\ tx'[p].contracts = {}
        /\ tx'[p].evidence = {} /\ tx'[p].predictions = {}
    <3>1. run'[p] = NoRun /\ tx'[p] = NoTx
      BY <1>5, <1>9
    <3> QED
      BY <3>1 DEF NoTx
  <2>2. Idle(p)'
    BY <1>3, <1>15, <2>1 DEF Idle, NoRun
  <2>3. OfMarket(p)' /\ OfRecord(p)' /\ OfSignal(p)'
    BY <1>3 DEF OfMarket, OfRecord, OfSignal
  <2>4. Uncommitted(p)'
    BY <2>1 DEF Uncommitted, Inserting
  <2> QED
    BY <2>2, <2>3, <2>4
<1> QED
  BY <1>14, <1>16, <1>17, <1>18, <1>19

-----------------------------------------------------------------------------
(* Steps of the pipeline that store nothing                                *)

(* A step that only the scanner itself sees.                               *)
LEMMA Advance ==
    ASSUME IInv, NEW p \in Scanners, ScannerShape', ScannerAlone(p), WorldShape',
           dialect' = dialect, session' = session, rows' = rows, ScannerOK(p)'
    PROVE  IInv'
<1>1. ShapeOK /\ LocksOK /\ DOMAIN contracts \subseteq Markets
  BY DEF IInv, Recordings
<1>2. /\ contracts' = contracts /\ evidence' = evidence /\ features' = features
      /\ signals' = signals /\ decisions' = decisions
  BY DEF rows, outcomes
<1>3. SessionShape' /\ SessionAlone(p) /\ LocksOK'
  BY <1>1, SameSession
<1>4. Alone(p)
  BY <1>3, AloneIs
<1>5. ShapeOK'
  BY <1>1, <1>2, <1>3 DEF ShapeOK
<1>6. DOMAIN contracts \subseteq DOMAIN contracts'
  BY <1>2 DEF OnRecord
<1> QED
  BY <1>1, <1>2, <1>3, <1>4, <1>5, <1>6, QuietStep

(* What a scan is looking at stays the same while it moves on.             *)
LEMMA SameMarket ==
    ASSUME NEW p \in Scanners, todo'[p] = todo[p]
    PROVE  /\ Market(p)' = Market(p) /\ Contract(p)' = Contract(p)
           /\ run'[p].series = run[p].series => Input(p)' = Input(p)
  BY DEF Market, Contract, Input

(* A lookup keeps everything but what it has found out.                    *)
LEMMA LookUpKeeps ==
    ASSUME IInv, NEW p \in Scanners, NEW l \in Labels, NEW present, LookUp(p, present, l),
           pc[p] \in {"prediction", "signal"},
           l = "addPrediction" => pc[p] = "prediction" /\ present = (Input(p) \in Predicted),
           l \in {"execute", "addSignal"} => pc[p] = "signal",
           l \in {"addPrediction", "execute", "addSignal"}
    PROVE  IInv'
<1>1. RunWith(p, [series |-> run[p].series, known |-> present, signal |-> run[p].signal])
      /\ pc'[p] = l
  BY LookUpIs
<1>2. /\ ScannerShape' /\ ScannerAlone(p) /\ todo'[p] = todo[p] /\ captured'[p] = captured[p]
      /\ run'[p].series = run[p].series /\ run'[p].known = present
      /\ run'[p].signal = run[p].signal
  BY <1>1 DEF RunWith
<1>3. /\ dialect' = dialect /\ session' = session /\ rows' = rows
      /\ clock' = clock /\ cache' = cache
  BY DEF LookUp, world
<1>4. /\ contracts' = contracts /\ evidence' = evidence /\ features' = features
      /\ tx' = tx /\ holds' = holds
  BY <1>3 DEF rows, outcomes, session
<1>5. Market(p)' = Market(p) /\ Contract(p)' = Contract(p) /\ Input(p)' = Input(p)
      /\ Predicted' = Predicted
  BY <1>2, <1>4, SameMarket DEF Predicted
<1>6. ScannerOK(p)
  BY DEF IInv
<1>7. Idle(p)'
  BY <1>1 DEF Idle
<1>8. OfMarket(p)'
  BY <1>1, <1>2, <1>4, <1>5, <1>6 DEF ScannerOK, OfMarket, OnRecord
<1>9. OfRecord(p)'
  BY <1>1, <1>2, <1>4, <1>5, <1>6 DEF ScannerOK, OfRecord
<1>10. Uncommitted(p)'
  BY <1>1, <1>3, <1>4, <1>5, <1>6 DEF ScannerOK, Uncommitted, Inserting, ToWrite, Row, Writer
<1>11. OfSignal(p)'
  BY <1>1, <1>2, <1>5, <1>6 DEF ScannerOK, OfSignal, HasEdge
<1>12. ScannerOK(p)'
  BY <1>7, <1>8, <1>9, <1>10, <1>11 DEF ScannerOK
<1>13. WorldShape'
  BY <1>3 DEF IInv, ShapeOK, WorldShape
<1> QED
  BY <1>2, <1>3, <1>12, <1>13, Advance

LEMMA FindsKeep ==
    ASSUME IInv, NEW p \in Scanners, FindPrediction(p) \/ FindSignal(p)
    PROVE  IInv'
<1>1. CASE FindPrediction(p)
  <2>1. pc[p] = "prediction" /\ LookUp(p, Input(p) \in Predicted, "addPrediction")
    BY <1>1 DEF FindPrediction
  <2> QED
    BY <2>1, LookUpKeeps DEF Labels
<1>2. CASE FindSignal(p)
  <2> DEFINE l == IF Stored(run[p].signal) THEN "execute" ELSE "addSignal"
  <2>1. pc[p] = "signal" /\ LookUp(p, Stored(run[p].signal), l)
    BY <1>2 DEF FindSignal
  <2>2. l \in {"execute", "addSignal"} /\ l \in Labels
    BY DEF Labels
  <2> HIDE DEF l
  <2> QED
    BY <2>1, <2>2, LookUpKeeps
<1> QED
  BY <1>1, <1>2

(* A write of the pipeline's session locks the row and is kept in it.      *)
LEMMA WriteIs ==
    ASSUME IInv, dialect' = dialect, open' = open, NEW p \in Scanners, NEW row,
           NEW c, NEW e, NEW f, NEW uncommitted,
           uncommitted = [contracts |-> c, evidence |-> e, predictions |-> f],
           Take(<<p, "run">>, row), tx' = [tx EXCEPT ![p] = uncommitted]
    PROVE  /\ SessionShape' /\ SessionAlone(p) /\ LocksOK' /\ tx'[p] = uncommitted
           /\ holds'[<<p, "run">>] = holds[<<p, "run">>] \cup {ToWrite(row)}
<1>1. ShapeOK /\ LocksOK
  BY DEF IInv
<1>2. <<p, "run">> \in Sessions /\ \A q \in Scanners, k \in {"scan", "run"} :
          <<q, k>> \in Sessions /\ (q # p => <<q, k>> # <<p, "run">>)
  BY DEF Sessions
<1>3. /\ LocksOK' /\ HoldsShape'
      /\ holds'[<<p, "run">>] = holds[<<p, "run">>] \cup {ToWrite(row)}
      /\ \A t \in Sessions \ {<<p, "run">>} : holds'[t] = holds[t]
  BY <1>1, <1>2, TakeIs
<1>4. tx = [q \in Scanners |-> [contracts |-> tx[q].contracts, evidence |-> tx[q].evidence,
                                 predictions |-> tx[q].predictions]]
  BY <1>1 DEF ShapeOK, SessionShape
<1>5. DOMAIN tx' = Scanners /\ tx'[p] = uncommitted /\ \A q \in Scanners \ {p} : tx'[q] = tx[q]
  BY <1>4
<1>6. tx' = [q \in Scanners |-> tx'[q]]
  BY <1>4
<1>7. ASSUME NEW q \in Scanners
      PROVE  tx'[q] = [contracts |-> tx'[q].contracts, evidence |-> tx'[q].evidence,
                       predictions |-> tx'[q].predictions]
  <2>1. CASE q = p
    BY <1>5, <2>1
  <2>2. CASE q # p
    BY <1>4, <1>5, <2>2
  <2> QED
    BY <2>1, <2>2
<1>8. tx' = [q \in Scanners |-> [contracts |-> tx'[q].contracts, evidence |-> tx'[q].evidence,
                                  predictions |-> tx'[q].predictions]]
  BY <1>6, <1>7, Zenon
<1>9. SessionShape'
  BY <1>1, <1>3, <1>8 DEF ShapeOK, SessionShape
<1>10. SessionAlone(p)
  BY <1>2, <1>3, <1>5 DEF SessionAlone
<1> QED
  BY <1>3, <1>5, <1>9, <1>10

(* Inserting a row locks it, unless it is known or has been stored.        *)
LEMMA InsertIs ==
    ASSUME IInv, dialect' = dialect, open' = open, NEW p \in Scanners,
           NEW row, NEW stored, NEW c, NEW e, NEW f, NEW uncommitted,
           uncommitted = [contracts |-> c, evidence |-> e, predictions |-> f],
           Insert(p, row, stored, uncommitted)
    PROVE  /\ SessionShape' /\ SessionAlone(p) /\ LocksOK'
           /\ \/ tx'[p] = tx[p] /\ holds'[<<p, "run">>] = holds[<<p, "run">>]
                    /\ (run[p].known \/ stored)
              \/ /\ ~run[p].known /\ ~stored /\ tx'[p] = uncommitted
                 /\ holds'[<<p, "run">>] = holds[<<p, "run">>] \cup {ToWrite(row)}
<1>1. ShapeOK /\ LocksOK
  BY DEF IInv
<1>2. \/ holds' = holds /\ tx' = tx /\ (run[p].known \/ stored)
      \/ /\ ~run[p].known /\ ~stored /\ Take(<<p, "run">>, row)
         /\ tx' = [tx EXCEPT ![p] = uncommitted]
  BY DEF Insert
<1>3. CASE holds' = holds /\ tx' = tx /\ (run[p].known \/ stored)
  <2>1. session' = session
    BY <1>3 DEF session
  <2> QED
    BY <1>1, <1>3, <2>1, SameSession
<1>4. CASE ~run[p].known /\ ~stored /\ Take(<<p, "run">>, row)
           /\ tx' = [tx EXCEPT ![p] = uncommitted]
  <2>1. /\ SessionShape' /\ SessionAlone(p) /\ LocksOK' /\ tx'[p] = uncommitted
        /\ holds'[<<p, "run">>] = holds[<<p, "run">>] \cup {ToWrite(row)}
    <3>1. Take(<<p, "run">>, row) /\ tx' = [tx EXCEPT ![p] = uncommitted]
      BY <1>4
    <3>2. ASSUME NEW w, w = uncommitted,
                 Take(<<p, "run">>, row) /\ tx' = [tx EXCEPT ![p] = w] /\ open' = open
                 /\ dialect' = dialect /\ w = [contracts |-> c, evidence |-> e, predictions |-> f]
          PROVE  /\ SessionShape' /\ SessionAlone(p) /\ LocksOK' /\ tx'[p] = w
                 /\ holds'[<<p, "run">>] = holds[<<p, "run">>] \cup {ToWrite(row)}
      BY <3>2, WriteIs
    <3> QED
      BY <3>1, <3>2
  <2> QED
    BY <1>4, <2>1
<1> QED
  BY <1>2, <1>3, <1>4

(* The contract is accepted again at the head of the transaction, if it    *)
(* must be.                                                                *)
LEMMA FindEvidenceKeeps ==
    ASSUME IInv, NEW p \in Scanners, FindEvidence(p)
    PROVE  IInv'
<1> DEFINE known == Input(p) \in evidence
           m == Market(p)
           row == Row("contract", m)
<1>1. /\ pc[p] = "evidence" /\ Goto(p, "addEvidence")
      /\ run' = [run EXCEPT ![p].known = known]
      /\ world' = world /\ cache' = cache /\ todo' = todo /\ captured' = captured
      /\ open' = open /\ rows' = rows
      /\ \/ Take(<<p, "run">>, row) /\ tx' = [tx EXCEPT ![p].contracts = {m}]
         \/ holds' = holds /\ tx' = tx
  BY DEF FindEvidence
<1>2. ShapeOK /\ LocksOK /\ ScannerOK(p) /\ DOMAIN contracts \subseteq Markets
      /\ "addEvidence" \in Labels
  BY DEF IInv, Recordings, Labels
<1>3. /\ dialect' = dialect /\ clock' = clock
      /\ contracts' = contracts /\ evidence' = evidence /\ features' = features
      /\ signals' = signals /\ decisions' = decisions
  BY <1>1 DEF world, rows, outcomes
<1>4. todo[p] # << >> /\ OnRecord(m) /\ Contract(p).public /\ run[p].series \in SeriesSet
  BY <1>1, <1>2 DEF ScannerOK, OfMarket
<1>5. m \in Markets
  BY <1>2, <1>4, MarketIs
<1>6. /\ RunWith(p, [series |-> run[p].series, known |-> known, signal |-> run[p].signal])
      /\ pc'[p] = "addEvidence"
  <2>1. ASSUME NEW present, run' = [run EXCEPT ![p].known = present]
        PROVE  RunWith(p, [series |-> run[p].series, known |-> present, signal |-> run[p].signal])
               /\ pc'[p] = "addEvidence"
    BY <1>1, <1>2, <2>1, KnownIs
  <2> QED
    BY <1>1, <2>1
<1>7. /\ ScannerShape' /\ ScannerAlone(p) /\ todo'[p] = todo[p]
      /\ run'[p].series = run[p].series /\ run'[p].known = known
  <2> HIDE DEF known
  <2> QED
    BY <1>6 DEF RunWith
<1>8. Market(p)' = m /\ Contract(p)' = Contract(p) /\ Input(p)' = Input(p)
  BY <1>7, SameMarket
<1>9. tx[p].contracts = {} /\ tx[p].evidence = {} /\ tx[p].predictions = {}
  BY <1>1, <1>2 DEF ScannerOK, Uncommitted, Inserting
<1>10. /\ SessionShape' /\ SessionAlone(p) /\ LocksOK'
       /\ tx'[p].contracts \subseteq {m} /\ tx'[p].evidence = {} /\ tx'[p].predictions = {}
  <2>1. CASE Take(<<p, "run">>, row) /\ tx' = [tx EXCEPT ![p].contracts = {m}]
    <3> DEFINE c == {m}
               written == [contracts |-> c, evidence |-> {}, predictions |-> {}]
    <3>1. tx[p] = [contracts |-> {}, evidence |-> {}, predictions |-> {}]
      BY <1>2, <1>9 DEF ShapeOK, SessionShape
    <3>2. tx' = [tx EXCEPT ![p] = [tx[p] EXCEPT !.contracts = c]]
      BY <2>1
    <3> HIDE DEF c
    <3>3. [tx[p] EXCEPT !.contracts = c] = written
      BY <3>1
    <3>4. tx' = [tx EXCEPT ![p] = written]
      BY <3>2, <3>3, Zenon
    <3>5. written.contracts = c /\ written.evidence = {} /\ written.predictions = {}
      OBVIOUS
    <3> HIDE DEF row
    <3>6. SessionShape' /\ SessionAlone(p) /\ LocksOK' /\ tx'[p] = written
      <4>1. ASSUME NEW w, w = written PROVE
               Take(<<p, "run">>, row) /\ tx' = [tx EXCEPT ![p] = w] /\ open' = open
               /\ dialect' = dialect /\ w = [contracts |-> c, evidence |-> {}, predictions |-> {}]
        BY <1>1, <1>3, <2>1, <3>4, <4>1
      <4> HIDE DEF written
      <4>2. ASSUME NEW w, w = written PROVE
               SessionShape' /\ SessionAlone(p) /\ LocksOK' /\ tx'[p] = w
        BY <4>1, <4>2, WriteIs
      <4> QED
        BY <4>2
    <3> HIDE DEF written
    <3> QED
      BY <3>5, <3>6 DEF c
  <2>2. CASE holds' = holds /\ tx' = tx
    <3>1. session' = session
      BY <1>1, <2>2 DEF session
    <3> QED
      BY <1>2, <1>3, <1>9, <2>2, <3>1, SameSession
  <2> QED
    BY <1>1, <2>1, <2>2
<1>11. ScannerOK(p)'
  <2>1. Idle(p)' /\ OfSignal(p)'
    BY <1>6 DEF Idle, OfSignal
  <2>2. OfMarket(p)'
    BY <1>3, <1>4, <1>6, <1>7, <1>8 DEF OfMarket, OnRecord
  <2>3. OfRecord(p)'
    BY <1>3, <1>6, <1>7, <1>8 DEF OfRecord
  <2>4. Uncommitted(p)'
    BY <1>5, <1>6, <1>10 DEF Uncommitted, Inserting
  <2> QED
    BY <2>1, <2>2, <2>3, <2>4 DEF ScannerOK
<1>12. Alone(p)
  BY <1>7, <1>10, AloneIs
<1>13. ShapeOK'
  BY <1>1, <1>2, <1>3, <1>7, <1>10 DEF ShapeOK, WorldShape
<1>14. DOMAIN contracts \subseteq DOMAIN contracts' /\ (DOMAIN contracts)' \subseteq Markets
  BY <1>2, <1>3
<1> QED
  BY <1>3, <1>10, <1>11, <1>12, <1>13, <1>14, QuietStep

(* An insert moves on to the next place.                                   *)
LEMMA InsertKeeps ==
    ASSUME IInv, NEW p \in Scanners, NEW l \in {"prediction", "record"}, Goto(p, l),
           world' = world, cache' = cache, todo' = todo, captured' = captured, run' = run,
           rows' = rows, pc[p] \notin {"idle", "market", "route", "fetch"},
           SessionShape', SessionAlone(p), LocksOK', OfRecord(p)', Uncommitted(p)'
    PROVE  IInv'
<1>1. ShapeOK /\ ScannerOK(p) /\ DOMAIN contracts \subseteq Markets
  BY DEF IInv, Recordings
<1>2. l \in Labels
  BY DEF Labels
<1>3. ScannerShape' /\ ScannerAlone(p) /\ pc'[p] = l
  BY <1>1, <1>2, GotoIs
<1>4. /\ dialect' = dialect /\ clock' = clock
      /\ contracts' = contracts /\ evidence' = evidence /\ features' = features
      /\ signals' = signals /\ decisions' = decisions
  BY DEF world, rows, outcomes
<1>5. Market(p)' = Market(p) /\ Contract(p)' = Contract(p) /\ Input(p)' = Input(p)
  BY SameMarket
<1>6. Idle(p)' /\ OfSignal(p)'
  BY <1>3 DEF Idle, OfSignal
<1>7. OfMarket(p)'
  BY <1>1, <1>3, <1>4, <1>5 DEF ScannerOK, OfMarket, OnRecord
<1>8. ScannerOK(p)'
  BY <1>6, <1>7 DEF ScannerOK
<1>9. Alone(p)
  BY <1>3, AloneIs
<1>10. ShapeOK'
  BY <1>1, <1>3, <1>4 DEF ShapeOK, WorldShape
<1>11. DOMAIN contracts \subseteq DOMAIN contracts'
  BY <1>4 DEF OnRecord
<1> QED
  BY <1>1, <1>4, <1>8, <1>9, <1>10, <1>11, QuietStep

LEMMA AddEvidenceKeeps ==
    ASSUME IInv, NEW p \in Scanners, AddEvidence(p)
    PROVE  IInv'
<1> DEFINE row == Row("evidence", Input(p))
           stored == Input(p) \in evidence
           new == [tx[p] EXCEPT !.evidence = {Input(p)}]
<1>1. /\ pc[p] = "addEvidence" /\ Insert(p, row, stored, new) /\ Goto(p, "prediction")
      /\ world' = world /\ cache' = cache /\ todo' = todo /\ captured' = captured /\ run' = run
      /\ open' = open /\ rows' = rows
  BY DEF AddEvidence
<1>2. ShapeOK /\ ScannerOK(p) /\ dialect' = dialect
  BY <1>1 DEF IInv, world
<1>3. tx[p] = [contracts |-> tx[p].contracts, evidence |-> tx[p].evidence,
               predictions |-> tx[p].predictions]
  BY <1>2 DEF ShapeOK, SessionShape
<1>4. tx[p].contracts \subseteq Markets /\ tx[p].evidence = {} /\ tx[p].predictions = {}
  BY <1>1, <1>2 DEF ScannerOK, Uncommitted, Inserting
<1>5. new = [contracts |-> tx[p].contracts, evidence |-> {Input(p)}, predictions |-> {}]
  BY <1>3, <1>4
<1> HIDE DEF new
<1>6. open' = open /\ dialect' = dialect
  BY <1>1, <1>2
<1>7. /\ SessionShape' /\ SessionAlone(p) /\ LocksOK'
      /\ \/ tx'[p] = tx[p] /\ (run[p].known \/ stored)
         \/ ~run[p].known /\ ~stored /\ tx'[p] = new
  <2> DEFINE same == tx'[p] = tx[p] /\ holds'[<<p, "run">>] = holds[<<p, "run">>]
                        /\ (run[p].known \/ stored)
             taken == /\ ~run[p].known /\ ~stored /\ tx'[p] = new
                      /\ holds'[<<p, "run">>] = holds[<<p, "run">>] \cup {ToWrite(row)}
             c == tx[p].contracts
             e == {Input(p)}
  <2>1. new = [contracts |-> c, evidence |-> e, predictions |-> {}]
    BY <1>5
  <2>2. Insert(p, row, stored, new)
    BY <1>1
  <2> HIDE DEF row, stored, c, e
  <2>3. SessionShape' /\ SessionAlone(p) /\ LocksOK' /\ (same \/ taken)
    BY <2>1, <2>2, <1>6, InsertIs
  <2> QED
    BY <2>3
<1>8. Input(p)' = Input(p) /\ evidence' = evidence /\ pc'[p] = "prediction"
  BY <1>1, <1>2, SameMarket DEF rows, outcomes, Goto, ShapeOK, ScannerShape
<1>9. OfRecord(p)'
  <2>1. tx'[p].evidence \subseteq {Input(p)} /\ (Input(p) \in evidence \/ Input(p) \in tx'[p].evidence)
    BY <1>1, <1>2, <1>4, <1>5, <1>7 DEF ScannerOK, OfRecord
  <2> QED
    BY <1>8, <2>1 DEF OfRecord
<1>10. Uncommitted(p)'
  <2>1. tx'[p].contracts \subseteq Markets /\ tx'[p].predictions = {}
    BY <1>4, <1>5, <1>7
  <2> QED
    BY <1>8, <2>1 DEF Uncommitted, Inserting
<1>11. pc[p] \notin {"idle", "market", "route", "fetch"}
  BY <1>1
<1> QED
  BY <1>1, <1>7, <1>9, <1>10, <1>11, InsertKeeps

LEMMA AddPredictionKeeps ==
    ASSUME IInv, NEW p \in Scanners, AddPrediction(p)
    PROVE  IInv'
<1> DEFINE row == Row("prediction", Input(p))
           stored == Input(p) \in Predicted
           new == [tx[p] EXCEPT !.predictions = {Input(p)}]
<1>1. /\ pc[p] = "addPrediction" /\ Insert(p, row, stored, new) /\ Goto(p, "record")
      /\ world' = world /\ cache' = cache /\ todo' = todo /\ captured' = captured /\ run' = run
      /\ open' = open /\ rows' = rows
  BY DEF AddPrediction
<1>2. ShapeOK /\ ScannerOK(p) /\ dialect' = dialect
  BY <1>1 DEF IInv, world
<1>3. tx[p] = [contracts |-> tx[p].contracts, evidence |-> tx[p].evidence,
               predictions |-> tx[p].predictions]
  BY <1>2 DEF ShapeOK, SessionShape
<1>4. /\ tx[p].contracts \subseteq Markets /\ tx[p].predictions = {} /\ tx[p].evidence \subseteq {Input(p)}
      /\ Input(p) \in evidence \cup tx[p].evidence
      /\ run[p].known => stored
  BY <1>1, <1>2 DEF ScannerOK, Uncommitted, Inserting, OfRecord
<1>5. new = [contracts |-> tx[p].contracts, evidence |-> tx[p].evidence,
             predictions |-> {Input(p)}]
  BY <1>3
<1> HIDE DEF new
<1>6. open' = open /\ dialect' = dialect
  BY <1>1, <1>2
<1> DEFINE same == tx'[p] = tx[p] /\ holds'[<<p, "run">>] = holds[<<p, "run">>]
                      /\ (run[p].known \/ stored)
           taken == /\ ~run[p].known /\ ~stored /\ tx'[p] = new
                    /\ holds'[<<p, "run">>] = holds[<<p, "run">>] \cup {ToWrite(row)}
<1>7. SessionShape' /\ SessionAlone(p) /\ LocksOK' /\ (same \/ taken)
  <2> DEFINE c == tx[p].contracts
             e == tx[p].evidence
             f == {Input(p)}
  <2>1. new = [contracts |-> c, evidence |-> e, predictions |-> f]
    BY <1>5
  <2>2. Insert(p, row, stored, new)
    BY <1>1
  <2> HIDE DEF row, stored, c, e, f
  <2> QED
    BY <2>1, <2>2, <1>6, InsertIs
<1>8. Input(p)' = Input(p) /\ evidence' = evidence /\ Predicted' = Predicted /\ pc'[p] = "record"
      /\ dialect' = dialect
  BY <1>1, <1>2, SameMarket DEF rows, outcomes, Goto, ShapeOK, ScannerShape, Predicted
<1>9. OfRecord(p)'
  <2>1. /\ tx'[p].evidence = tx[p].evidence /\ tx'[p].predictions \subseteq {Input(p)}
        /\ Input(p) \in Predicted \/ Input(p) \in tx'[p].predictions
    BY <1>4, <1>5, <1>7
  <2> QED
    BY <1>4, <1>8, <2>1 DEF OfRecord
<1>10. Uncommitted(p)'
  <2>1. CASE same
    BY <1>4, <1>8, <2>1 DEF Uncommitted, Inserting
  <2>2. CASE taken
    <3>1. /\ tx'[p].contracts \subseteq Markets
          /\ tx'[p].predictions = {Input(p)} /\ Input(p) \notin Predicted
          /\ ToWrite(Row("prediction", Input(p))) \in holds'[<<p, "run">>]
      BY <1>4, <1>5, <2>2
    <3>2. \A i : ToWrite(Row("prediction", i))' = ToWrite(Row("prediction", i))
      BY <1>8 DEF ToWrite, Row, Writer
    <3> HIDE DEF taken
    <3> QED
      BY <1>8, <3>1, <3>2 DEF Uncommitted, Inserting
  <2> QED
    BY <1>7, <2>1, <2>2
<1>11. pc[p] \notin {"idle", "market", "route", "fetch"}
  BY <1>1
<1> HIDE DEF same, taken
<1> QED
  BY <1>1, <1>7, <1>9, <1>10, <1>11, InsertKeeps

-----------------------------------------------------------------------------
(* Rejections                                                              *)

LEMMA RecordedIs ==
    ASSUME NEW S, NEW v, contracts' = Recorded(S, v)
    PROVE  /\ (contracts = [m \in DOMAIN contracts |-> contracts[m]])'
           /\ DOMAIN contracts' = S \cup DOMAIN contracts
           /\ \A m \in S : contracts'[m] = v
           /\ \A m \in DOMAIN contracts \ S : contracts'[m] = contracts[m]
<1>1. contracts' = [m \in S \cup DOMAIN contracts |-> IF m \in S THEN v ELSE contracts[m]]
  BY DEF Recorded
<1> QED
  BY <1>1

(* At the head of its list a scan has found out nothing yet.               *)
LEMMA AtMarket ==
    ASSUME NEW p \in Scanners, pc'[p] = "market",
           tx'[p].contracts = {}, tx'[p].evidence = {}, tx'[p].predictions = {}
    PROVE  ScannerOK(p)'
  BY DEF ScannerOK, Idle, OfMarket, OfRecord, Uncommitted, Inserting, OfSignal

(* A rejection of the contract leaves it on record.                        *)
LEMMA RejectKeeps ==
    ASSUME IInv, NEW p \in Scanners, pc[p] \in {"route", "fetch"}, NEW why,
           RejectContract(p, why), dialect' = dialect, WorldShape'
    PROVE  IInv'
<1> DEFINE m == Market(p)
           verdict == why # "unsupported_public_source"
<1>1. ShapeOK /\ LocksOK /\ ScannerOK(p) /\ DOMAIN contracts \subseteq Markets
  BY DEF IInv, Recordings
<1>2. todo[p] # << >>
  BY <1>1 DEF ScannerOK, OfMarket
<1>3. m \in Markets
  BY <1>1, <1>2, MarketIs
<1>4. /\ contracts' = Recorded({m}, verdict) /\ NextMarket(p) /\ session' = session
      /\ evidence' = evidence /\ features' = features /\ signals' = signals
      /\ decisions' = decisions
  BY DEF RejectContract
<1>5. ScannerShape' /\ ScannerAlone(p) /\ pc'[p] = "market"
  BY <1>1, <1>2, <1>4, NextMarketIs
<1>6. SessionShape' /\ SessionAlone(p) /\ LocksOK'
  BY <1>1, <1>4, SameSession
<1>7. Alone(p)
  BY <1>5, <1>6, AloneIs
<1>8. ScannerOK(p)'
  <2>1. tx'[p].contracts = {} /\ tx'[p].evidence = {} /\ tx'[p].predictions = {}
    BY <1>1, <1>4 DEF ScannerOK, Uncommitted, Inserting, session
  <2> QED
    BY <1>5, <2>1, AtMarket
<1>9. /\ (contracts = [x \in DOMAIN contracts |-> contracts[x]])'
      /\ DOMAIN contracts' = {m} \cup DOMAIN contracts
      /\ contracts'[m] = verdict
      /\ \A x \in DOMAIN contracts \ {m} : contracts'[x] = contracts[x]
  <2>1. ASSUME NEW v, contracts' = Recorded({m}, v)
        PROVE  /\ (contracts = [x \in DOMAIN contracts |-> contracts[x]])'
               /\ DOMAIN contracts' = {m} \cup DOMAIN contracts
               /\ contracts'[m] = v
               /\ \A x \in DOMAIN contracts \ {m} : contracts'[x] = contracts[x]
    <3> DEFINE S == {m}
    <3>1. contracts' = Recorded(S, v) /\ m \in S
      BY <2>1
    <3> HIDE DEF S
    <3>2. /\ (contracts = [x \in DOMAIN contracts |-> contracts[x]])'
          /\ DOMAIN contracts' = S \cup DOMAIN contracts
          /\ \A x \in S : contracts'[x] = v
          /\ \A x \in DOMAIN contracts \ S : contracts'[x] = contracts[x]
      BY <3>1, RecordedIs
    <3> QED
      BY <3>1, <3>2 DEF S
  <2> HIDE DEF m, verdict
  <2> QED
    BY <1>4, <2>1
<1>10. ShapeOK'
  BY <1>5, <1>6, <1>9 DEF ShapeOK
<1>11. DOMAIN contracts \subseteq DOMAIN contracts'
  BY <1>9
<1>12. (DOMAIN contracts)' \subseteq Markets
  BY <1>1, <1>3, <1>9
<1> QED
  BY <1>4, <1>6, <1>7, <1>8, <1>10, <1>11, <1>12, QuietStep

LEMMA NotRefused ==
    ASSUME IInv, NEW p \in Scanners, pc[p] = "route"
    PROVE  Refusal(Contract(p), captured[p]) = None => Contract(p).public
<1>1. todo[p] # << >>
  BY DEF IInv, ScannerOK, OfMarket
<1>2. Contract(p).public \in BOOLEAN
  BY <1>1, MarketIs, PipelineAssumption DEF IInv, Contract
<1> DEFINE c == Contract(p)
           now == captured[p]
<1>3. Refusal(c, now) = CASE ~c.public                   -> "unsupported_public_source"
                          [] c.public /\ c.expiry <= now -> "expired_contract"
                          [] OTHER -> IF c.metadata THEN None ELSE "market_metadata_mismatch"
  BY DEF Refusal
<1>4. None \notin {"unsupported_public_source", "expired_contract", "market_metadata_mismatch"}
  BY PipelineAssumption
<1> HIDE DEF c
<1>5. ~c.public => Refusal(c, now) = "unsupported_public_source"
  BY <1>3
<1> QED
  BY <1>4, <1>5 DEF c

LEMMA RefuseKeeps ==
    ASSUME IInv, NEW p \in Scanners, Refuse(p)
    PROVE  IInv'
<1> DEFINE why == Refusal(Contract(p), captured[p])
<1>1. pc[p] = "route" /\ RejectContract(p, why) /\ world' = world /\ cache' = cache
  BY DEF Refuse
<1>2. dialect' = dialect /\ WorldShape'
  BY <1>1 DEF world, IInv, ShapeOK, WorldShape
<1> HIDE DEF why
<1> QED
  BY <1>1, <1>2, RejectKeeps

LEMMA GotSeriesKeeps ==
    ASSUME IInv, NEW p \in Scanners, pc[p] \in {"route", "fetch"}, Contract(p).public,
           NEW series \in SeriesSet, GotSeries(p, series), dialect' = dialect, WorldShape'
    PROVE  IInv'
<1>1. CASE HorizonSupported(Contract(p), series.latest)
  <2>1. /\ run' = [run EXCEPT ![p].series = series] /\ Goto(p, "evidence")
        /\ todo' = todo /\ captured' = captured /\ session' = session /\ rows' = rows
    BY <1>1 DEF GotSeries
  <2>2. ShapeOK /\ ScannerOK(p) /\ "evidence" \in Labels
    BY DEF IInv, Labels
  <2>3. run' = [run EXCEPT ![p] = [series |-> series, known |-> run[p].known,
                                   signal |-> run[p].signal]]
    BY <2>1, <2>2, FieldIs
  <2>4. ASSUME NEW y, NEW z,
               run' = [run EXCEPT ![p] = [series |-> series, known |-> y, signal |-> z]]
        PROVE  RunWith(p, [series |-> series, known |-> y, signal |-> z]) /\ pc'[p] = "evidence"
    <3>1. Goto(p, "evidence") /\ ShapeOK /\ todo' = todo /\ captured' = captured
          /\ "evidence" \in Labels
      BY <2>1, <2>2
    <3>2. pc'[p] = "evidence"
      BY <2>4, <3>1, RunIs
    <3>3. RunWith(p, [series |-> series, known |-> y, signal |-> z])
      BY <2>4, <3>1, RunIs
    <3> QED
      BY <3>2, <3>3
  <2>5. RunWith(p, [series |-> series, known |-> run[p].known, signal |-> run[p].signal])
        /\ pc'[p] = "evidence"
    BY <2>3, <2>4
  <2>6. /\ ScannerShape' /\ ScannerAlone(p) /\ todo'[p] = todo[p] /\ run'[p].series = series
    BY <2>5 DEF RunWith
  <2>7. Market(p)' = Market(p) /\ Contract(p)' = Contract(p) /\ tx' = tx /\ contracts' = contracts
    BY <2>1, <2>6, SameMarket DEF session, rows
  <2>8. Idle(p)' /\ OfRecord(p)' /\ OfSignal(p)'
    BY <2>5 DEF Idle, OfRecord, OfSignal
  <2>9. OfMarket(p)'
    BY <2>2, <2>5, <2>6, <2>7 DEF ScannerOK, OfMarket, OnRecord
  <2>10. Uncommitted(p)'
    BY <2>2, <2>5, <2>7 DEF ScannerOK, Uncommitted, Inserting
  <2>11. ScannerOK(p)'
    BY <2>8, <2>9, <2>10 DEF ScannerOK
  <2> QED
    BY <2>1, <2>6, <2>11, Advance
<1>2. CASE ~HorizonSupported(Contract(p), series.latest)
  <2>1. RejectContract(p, "unsupported_horizon")
    BY <1>2 DEF GotSeries
  <2> QED
    BY <2>1, RejectKeeps
<1> QED
  BY <1>1, <1>2

LEMMA UseCacheKeeps ==
    ASSUME IInv, NEW p \in Scanners, UseCache(p)
    PROVE  IInv'
<1>1. /\ pc[p] = "route" /\ Refusal(Contract(p), captured[p]) = None /\ cache # None
      /\ GotSeries(p, cache) /\ world' = world /\ cache' = cache
  BY DEF UseCache, CacheValid
<1>2. Contract(p).public
  BY <1>1, NotRefused
<1>3. dialect' = dialect /\ WorldShape' /\ cache \in SeriesSet
  BY <1>1 DEF world, IInv, ShapeOK, WorldShape
<1> QED
  BY <1>1, <1>2, <1>3, GotSeriesKeeps

LEMMA RequestKeeps ==
    ASSUME IInv, NEW p \in Scanners, Request(p)
    PROVE  IInv'
<1>1. /\ pc[p] = "route" /\ Refusal(Contract(p), captured[p]) = None
      /\ Goto(p, "fetch") /\ world' = world /\ cache' = cache /\ todo' = todo
      /\ captured' = captured /\ run' = run /\ session' = session /\ rows' = rows
  BY DEF Request
<1>2. Contract(p).public
  BY <1>1, NotRefused
<1>3. ShapeOK /\ ScannerOK(p) /\ "fetch" \in Labels
  BY DEF IInv, Labels
<1>4. ScannerShape' /\ ScannerAlone(p) /\ pc'[p] = "fetch"
  BY <1>1, <1>3, GotoIs
<1>5. dialect' = dialect /\ WorldShape' /\ tx' = tx /\ contracts' = contracts
  BY <1>1, <1>3 DEF world, ShapeOK, WorldShape, session, rows
<1>6. Market(p)' = Market(p) /\ Contract(p)' = Contract(p)
  BY <1>1, SameMarket
<1>7. Idle(p)' /\ OfRecord(p)' /\ OfSignal(p)'
  BY <1>4 DEF Idle, OfRecord, OfSignal
<1>8. OfMarket(p)'
  BY <1>1, <1>2, <1>3, <1>4, <1>5, <1>6 DEF ScannerOK, OfMarket, OnRecord
<1>9. Uncommitted(p)'
  BY <1>1, <1>3, <1>4, <1>5 DEF ScannerOK, Uncommitted, Inserting
<1>10. ScannerOK(p)'
  BY <1>7, <1>8, <1>9 DEF ScannerOK
<1> QED
  BY <1>1, <1>4, <1>5, <1>10, Advance

LEMMA FetchKeeps ==
    ASSUME IInv, NEW p \in Scanners, Fetched(p) \/ FetchFails(p)
    PROVE  IInv'
<1>1. pc[p] = "fetch" /\ dialect' = dialect /\ clock' = clock
  BY DEF Fetched, FetchFails, world
<1>2. Contract(p).public /\ clock \in 0..MaxClock /\ captured[p] \in 0..MaxClock
  BY <1>1 DEF IInv, ScannerOK, OfMarket, ShapeOK, WorldShape, ScannerShape
<1>3. CASE Fetched(p) /\ Normalized(Response, captured[p])
  <2> DEFINE series == SeriesAt(captured[p])
  <2>1. cache' = series /\ GotSeries(p, series)
    BY <1>3 DEF Fetched
  <2>2. series \in SeriesSet
    BY <1>2, SeriesIs
  <2>3. WorldShape'
    BY <1>1, <1>2, <2>1, <2>2 DEF WorldShape
  <2> HIDE DEF series
  <2> QED
    BY <1>1, <1>2, <2>1, <2>2, <2>3, GotSeriesKeeps
<1>4. CASE Fetched(p) /\ ~Normalized(Response, captured[p])
  <2>1. RejectContract(p, "market_data_invalid") /\ cache' = cache
    BY <1>4 DEF Fetched
  <2>2. WorldShape'
    BY <1>1, <2>1 DEF IInv, ShapeOK, WorldShape
  <2> QED
    BY <1>1, <2>1, <2>2, RejectKeeps
<1>5. CASE FetchFails(p)
  <2>1. RejectContract(p, "market_data_unavailable") /\ cache' = cache
    BY <1>5 DEF FetchFails
  <2>2. WorldShape'
    BY <1>1, <2>1 DEF IInv, ShapeOK, WorldShape
  <2> QED
    BY <1>1, <2>1, <2>2, RejectKeeps
<1> QED
  BY <1>3, <1>4, <1>5

-----------------------------------------------------------------------------
(* scan_markets                                                            *)

LEMMA BeginKeeps ==
    ASSUME IInv, NEW p \in Scanners, Begin(p)
    PROVE  IInv'
<1>1. /\ pc[p] = "idle" /\ captured' = [captured EXCEPT ![p] = clock]
      /\ todo' = [todo EXCEPT ![p] = Discovered] /\ pc' = [pc EXCEPT ![p] = "market"]
      /\ dialect' = dialect /\ clock' = clock /\ cache' = cache /\ run' = run
      /\ session' = session /\ rows' = rows
  BY DEF Begin, Goto
<1>2. ShapeOK /\ ScannerOK(p)
  BY DEF IInv
<1>3. /\ pc \in [Scanners -> Labels] /\ todo \in [Scanners -> Seq(Markets)]
      /\ captured \in [Scanners -> 0..MaxClock] /\ clock \in 0..MaxClock
  BY <1>2 DEF ShapeOK, ScannerShape, WorldShape
<1>4. /\ pc' \in [Scanners -> Labels] /\ todo' \in [Scanners -> Seq(Markets)]
      /\ captured' \in [Scanners -> 0..MaxClock] /\ pc'[p] = "market"
      /\ \A q \in Scanners \ {p} :
            pc'[q] = pc[q] /\ todo'[q] = todo[q] /\ captured'[q] = captured[q]
  BY <1>1, <1>3, MarketsAre DEF Labels
<1>5. ScannerShape' /\ ScannerAlone(p)
  BY <1>1, <1>2, <1>4 DEF ShapeOK, ScannerShape, ScannerAlone
<1>6. tx'[p].contracts = {} /\ tx'[p].evidence = {} /\ tx'[p].predictions = {}
  BY <1>1, <1>2 DEF ScannerOK, Uncommitted, Inserting, session
<1>7. ScannerOK(p)'
  BY <1>4, <1>6, AtMarket
<1>8. WorldShape'
  BY <1>1, <1>2 DEF ShapeOK, WorldShape
<1> QED
  BY <1>1, <1>5, <1>7, <1>8, Advance

LEMMA OpenIs ==
    ASSUME ShapeOK, NEW p \in Scanners, NEW S \in SUBSET Markets,
           open' = [open EXCEPT ![p] = S]
    PROVE  open' \in [Scanners -> SUBSET Markets]
  BY DEF ShapeOK, SessionShape

LEMMA PersistAcceptedKeeps ==
    ASSUME IInv, NEW p \in Scanners, PersistAccepted(p)
    PROVE  IInv'
<1> DEFINE m == Market(p)
<1>1. /\ pc[p] = "market" /\ todo[p] # << >>
      /\ contracts' = [Recorded(open[p] \cup {m}, FALSE) EXCEPT ![m] = TRUE]
      /\ open' = [open EXCEPT ![p] = {}] /\ Release(<<p, "scan">>) /\ Goto(p, "route")
      /\ dialect' = dialect /\ clock' = clock /\ cache' = cache
      /\ todo' = todo /\ captured' = captured /\ run' = run /\ tx' = tx
      /\ evidence' = evidence /\ features' = features /\ signals' = signals
      /\ decisions' = decisions
  BY DEF PersistAccepted, CommitContract, world, outcomes
<1>2. ShapeOK /\ LocksOK /\ ScannerOK(p) /\ DOMAIN contracts \subseteq Markets
      /\ "route" \in Labels /\ <<p, "scan">> \in Sessions
  BY DEF IInv, Recordings, Labels, Sessions
<1>3. m \in Markets /\ open[p] \in SUBSET Markets
  BY <1>1, <1>2, MarketIs DEF ShapeOK, SessionShape
<1>4. ScannerShape' /\ ScannerAlone(p) /\ pc'[p] = "route"
  BY <1>1, <1>2, GotoIs
<1>5. /\ LocksOK' /\ HoldsShape' /\ \A t \in Sessions \ {<<p, "scan">>} : holds'[t] = holds[t]
  BY <1>1, <1>2, ReleaseIs
<1>6. SessionAlone(p)
  BY <1>1, <1>5 DEF SessionAlone, Sessions
<1>7. SessionShape'
  <2>1. open' \in [Scanners -> SUBSET Markets]
    BY <1>1, <1>2, OpenIs
  <2> QED
    BY <1>1, <1>2, <1>5, <2>1 DEF ShapeOK, SessionShape
<1>8. contracts' = [x \in (open[p] \cup {m}) \cup DOMAIN contracts |->
                      IF x = m THEN TRUE ELSE IF x \in open[p] THEN FALSE ELSE contracts[x]]
  BY <1>1 DEF Recorded
<1> HIDE DEF m
<1>9. /\ (contracts = [x \in DOMAIN contracts |-> contracts[x]])'
      /\ DOMAIN contracts' \subseteq Markets
      /\ m \in DOMAIN contracts' /\ DOMAIN contracts \subseteq DOMAIN contracts'
  BY <1>2, <1>3, <1>8
<1>10. ShapeOK'
  BY <1>1, <1>2, <1>4, <1>7, <1>9 DEF ShapeOK, WorldShape
<1>11. DOMAIN contracts \subseteq DOMAIN contracts'
  BY <1>9
<1>12. Market(p)' = m /\ Contract(p)' = Contract(p)
  BY <1>1, SameMarket DEF m
<1>13. ScannerOK(p)'
  <2>1. Idle(p)' /\ OfRecord(p)' /\ OfSignal(p)'
    BY <1>4 DEF Idle, OfRecord, OfSignal
  <2>2. OfMarket(p)'
    BY <1>1, <1>4, <1>9, <1>12 DEF OfMarket, OnRecord
  <2>3. Uncommitted(p)'
    BY <1>1, <1>2, <1>4 DEF ScannerOK, Uncommitted, Inserting
  <2> QED
    BY <2>1, <2>2, <2>3 DEF ScannerOK
<1>14. Alone(p)
  BY <1>4, <1>6, AloneIs
<1>15. (DOMAIN contracts)' \subseteq Markets
  BY <1>9
<1> QED
  BY <1>1, <1>5, <1>10, <1>11, <1>13, <1>14, <1>15, QuietStep

LEMMA PersistRejectedKeeps ==
    ASSUME IInv, NEW p \in Scanners, PersistRejected(p)
    PROVE  IInv'
<1> DEFINE m == Market(p)
           row == Row("contract", m)
<1>1. /\ pc[p] = "market" /\ todo[p] # << >>
      /\ NextMarket(p) /\ dialect' = dialect /\ clock' = clock /\ cache' = cache
      /\ tx' = tx /\ contracts' = contracts
      /\ evidence' = evidence /\ features' = features /\ signals' = signals
      /\ decisions' = decisions
      /\ \/ Take(<<p, "scan">>, row) /\ open' = [open EXCEPT ![p] = @ \cup {m}]
         \/ holds' = holds /\ open' = open
  BY DEF PersistRejected, world, outcomes
<1>2. ShapeOK /\ LocksOK /\ ScannerOK(p) /\ DOMAIN contracts \subseteq Markets
      /\ <<p, "scan">> \in Sessions
  BY DEF IInv, Recordings, Sessions
<1>3. m \in Markets /\ open[p] \in SUBSET Markets
  BY <1>1, <1>2, MarketIs DEF ShapeOK, SessionShape, Contract
<1>4. ScannerShape' /\ ScannerAlone(p) /\ pc'[p] = "market"
  BY <1>1, <1>2, NextMarketIs
<1>5. LocksOK' /\ SessionAlone(p) /\ SessionShape'
  <2>1. CASE Take(<<p, "scan">>, row) /\ open' = [open EXCEPT ![p] = @ \cup {m}]
    <3>1. LocksOK' /\ HoldsShape' /\ \A t \in Sessions \ {<<p, "scan">>} : holds'[t] = holds[t]
      BY <1>1, <1>2, <2>1, TakeIs
    <3>2. SessionAlone(p)
      BY <1>1, <3>1 DEF SessionAlone, Sessions
    <3>3. open' = [open EXCEPT ![p] = open[p] \cup {m}] /\ open[p] \cup {m} \in SUBSET Markets
      BY <1>3, <2>1
    <3>4. open' \in [Scanners -> SUBSET Markets]
      BY <1>2, <3>3, OpenIs
    <3> QED
      BY <1>1, <1>2, <3>1, <3>2, <3>4 DEF ShapeOK, SessionShape
  <2>2. CASE holds' = holds /\ open' = open
    <3>1. session' = session
      BY <1>1, <2>2 DEF session
    <3> QED
      BY <1>1, <1>2, <3>1, SameSession
  <2> QED
    BY <1>1, <2>1, <2>2
<1>6. ScannerOK(p)'
  BY <1>1, <1>2, <1>4, AtMarket DEF ScannerOK, Uncommitted, Inserting
<1>7. Alone(p)
  BY <1>4, <1>5, AloneIs
<1>8. ShapeOK'
  BY <1>1, <1>2, <1>4, <1>5 DEF ShapeOK, WorldShape
<1>9. DOMAIN contracts \subseteq DOMAIN contracts'
  BY <1>1 DEF OnRecord
<1>10. (DOMAIN contracts)' \subseteq Markets
  BY <1>1, <1>2
<1> QED
  BY <1>1, <1>5, <1>6, <1>7, <1>8, <1>9, <1>10, QuietStep

(* A scan that ends, whatever it commits of the rejected contracts.        *)
LEMMA EndKeeps ==
    ASSUME IInv, NEW p \in Scanners, EndScan(p),
           contracts' = contracts \/ contracts' = Recorded(open[p], FALSE),
           dialect' = dialect, clock' = clock, cache' = cache,
           evidence' = evidence, features' = features, signals' = signals,
           decisions' = decisions
    PROVE  IInv'
<1>1. ShapeOK /\ LocksOK /\ DOMAIN contracts \subseteq Markets
  BY DEF IInv, Recordings
<1>2. /\ ScannerShape' /\ SessionShape' /\ LocksOK' /\ Alone(p)
      /\ (Idle(p) /\ OfMarket(p) /\ OfRecord(p) /\ Uncommitted(p) /\ OfSignal(p))'
  BY <1>1, EndScanIs
<1>3. open[p] \in SUBSET Markets
  BY <1>1 DEF ShapeOK, SessionShape
<1>4. /\ (contracts = [m \in DOMAIN contracts |-> contracts[m]])'
      /\ DOMAIN contracts' \subseteq Markets
      /\ DOMAIN contracts \subseteq DOMAIN contracts'
  <2>1. CASE contracts' = contracts
    BY <1>1, <2>1 DEF ShapeOK
  <2>2. CASE contracts' = Recorded(open[p], FALSE)
    <3> DEFINE S == open[p]
    <3>1. contracts' = [m \in S \cup DOMAIN contracts |-> IF m \in S THEN FALSE ELSE contracts[m]]
      BY <2>2 DEF Recorded
    <3>2. S \subseteq Markets
      BY <1>3
    <3> HIDE DEF S
    <3>3. DOMAIN contracts' \subseteq Markets
      BY <1>1, <3>1, <3>2
    <3>4. contracts' = [m \in DOMAIN contracts' |-> contracts'[m]]
      BY <3>1
    <3>5. DOMAIN contracts \subseteq DOMAIN contracts'
      BY <3>1
    <3> QED
      BY <3>3, <3>4, <3>5 DEF S
  <2> QED
    BY <2>1, <2>2
<1>5. ShapeOK'
  BY <1>1, <1>2, <1>4 DEF ShapeOK, WorldShape
<1>6. ScannerOK(p)'
  BY <1>2 DEF ScannerOK
<1>7. DOMAIN contracts \subseteq DOMAIN contracts'
  BY <1>4
<1>8. (DOMAIN contracts)' \subseteq Markets
  BY <1>4
<1>9. LocksOK' /\ Alone(p)
  BY <1>2
<1> QED
  BY <1>5, <1>6, <1>7, <1>8, <1>9, QuietStep

LEMMA EndsKeep ==
    ASSUME IInv, NEW p \in Scanners, ScanDone(p) \/ ExecuteRaises(p) \/ LockTimeout(p)
    PROVE  IInv'
<1>1. /\ EndScan(p) /\ dialect' = dialect /\ clock' = clock /\ cache' = cache
      /\ evidence' = evidence /\ features' = features /\ signals' = signals
      /\ decisions' = decisions
      /\ contracts' = contracts \/ contracts' = Recorded(open[p], FALSE)
  BY DEF ScanDone, ExecuteRaises, LockTimeout, world, rows, outcomes
<1> QED
  BY <1>1, EndKeeps

-----------------------------------------------------------------------------
(* What the pipeline stores                                                *)

(* The scan that inserted a prediction is the only one to add its          *)
(* features.                                                               *)
LEMMA CommitRecordKeeps ==
    ASSUME IInv, NEW p \in Scanners, CommitRecord(p)
    PROVE  IInv'
<1> DEFINE c == tx[p].contracts
           e == tx[p].evidence
           f == tx[p].predictions
           i0 == Input(p)
<1>1. /\ pc[p] = "record" /\ contracts' = Recorded(c, TRUE) /\ evidence' = evidence \cup e
      /\ features' = [i \in Predicted \cup f |-> (IF i \in Predicted THEN features[i] ELSE 0)
                                                  + (IF i \in f THEN 2 ELSE 0)]
      /\ tx' = [tx EXCEPT ![p] = NoTx] /\ Release(<<p, "run">>) /\ Goto(p, "books")
      /\ dialect' = dialect /\ clock' = clock /\ cache' = cache
      /\ todo' = todo /\ captured' = captured /\ run' = run /\ open' = open
      /\ signals' = signals /\ decisions' = decisions
  BY DEF CommitRecord, AddsFeatures, world
<1>2. ShapeOK /\ LocksOK /\ ScannerOK(p) /\ Recordings /\ "books" \in Labels
      /\ <<p, "run">> \in Sessions
  BY DEF IInv, Labels, Sessions
<1>3. /\ todo[p] # << >> /\ run[p].series \in SeriesSet /\ OnRecord(Market(p))
      /\ c \subseteq Markets
      /\ e \subseteq {i0} /\ f \subseteq {i0} /\ i0 \in evidence \cup e /\ i0 \in Predicted \cup f
      /\ \A i \in f : i \notin Predicted /\ ToWrite(Row("prediction", i)) \in holds[<<p, "run">>]
  BY <1>1, <1>2 DEF ScannerOK, OfMarket, OfRecord, Uncommitted, Inserting
<1>4. i0 \in Inputs
  BY <1>2, <1>3, MarketIs
<1>5. ScannerShape' /\ ScannerAlone(p) /\ pc'[p] = "books"
  BY <1>1, <1>2, GotoIs
<1>6. /\ LocksOK' /\ HoldsShape' /\ \A t \in Sessions \ {<<p, "run">>} : holds'[t] = holds[t]
  BY <1>1, <1>2, ReleaseIs
<1>7. /\ tx'[p] = NoTx /\ \A q \in Scanners \ {p} : tx'[q] = tx[q]
      /\ tx' = [q \in Scanners |-> [contracts |-> tx'[q].contracts, evidence |-> tx'[q].evidence,
                                    predictions |-> tx'[q].predictions]]
  <2>1. tx = [q \in Scanners |-> [contracts |-> tx[q].contracts, evidence |-> tx[q].evidence,
                                 predictions |-> tx[q].predictions]]
    BY <1>2 DEF ShapeOK, SessionShape
  <2>2. ASSUME NEW q \in Scanners
        PROVE  /\ tx'[q] = [contracts |-> tx'[q].contracts, evidence |-> tx'[q].evidence,
                             predictions |-> tx'[q].predictions]
               /\ q # p => tx'[q] = tx[q]
               /\ q = p => tx'[q] = NoTx
    BY <1>1, <2>1 DEF NoTx
  <2>3. tx' = [q \in Scanners |-> tx'[q]]
    BY <1>1, <2>1
  <2>4. tx' = [q \in Scanners |-> [contracts |-> tx'[q].contracts, evidence |-> tx'[q].evidence,
                                    predictions |-> tx'[q].predictions]]
    BY <2>2, <2>3, Zenon
  <2> QED
    BY <2>2, <2>4
<1>8. SessionAlone(p)
  BY <1>6, <1>7 DEF SessionAlone, Sessions
<1>9. Alone(p)
  BY <1>5, <1>8, AloneIs
<1>20. /\ (contracts = [m \in DOMAIN contracts |-> contracts[m]])'
       /\ DOMAIN contracts \subseteq DOMAIN contracts' /\ (DOMAIN contracts)' \subseteq Markets
  <2>1. /\ (contracts = [m \in DOMAIN contracts |-> contracts[m]])'
        /\ DOMAIN contracts' = c \cup DOMAIN contracts
    <3>1. ASSUME NEW v, v = TRUE
          PROVE  /\ (contracts = [m \in DOMAIN contracts |-> contracts[m]])'
                 /\ DOMAIN contracts' = c \cup DOMAIN contracts
      <4>1. contracts' = Recorded(c, v)
        BY <1>1, <3>1
      <4> HIDE DEF c
      <4> QED
        BY <4>1, RecordedIs
    <3> QED
      BY <3>1
  <2> QED
    BY <1>2, <1>3, <2>1 DEF Recordings
<1>10. ShapeOK'
  <2>1. SessionShape'
    BY <1>1, <1>2, <1>6, <1>7 DEF ShapeOK, SessionShape
  <2> QED
    BY <1>1, <1>2, <1>5, <1>20, <2>1 DEF ShapeOK, WorldShape
<1>11. Predicted' = Predicted \cup f /\ features' = [i \in Predicted' |-> 2]
  <2>1. features = [i \in Predicted |-> 2]
    BY <1>2 DEF Recordings
  <2>2. DOMAIN features' = Predicted \cup f
    BY <1>1
  <2>3. ASSUME NEW i \in Predicted \cup f PROVE features'[i] = 2
    <3>1. CASE i \in Predicted
      <4>1. i \notin f /\ features[i] = 2
        BY <1>3, <2>1, <3>1
      <4> QED
        BY <1>1, <3>1, <4>1
    <3>2. CASE i \notin Predicted
      BY <1>1, <3>2
    <3> QED
      BY <3>1, <3>2
  <2>4. features' = [i \in Predicted \cup f |-> features'[i]]
    BY <1>1
  <2>5. features' = [i \in Predicted \cup f |-> 2]
    BY <2>3, <2>4, Zenon
  <2> QED
    BY <2>2, <2>5 DEF Predicted
<1>12. Recordings'
  <2>1. evidence' \subseteq Inputs /\ Predicted' \subseteq evidence'
    BY <1>1, <1>2, <1>3, <1>4, <1>11 DEF Recordings
  <2> QED
    BY <1>1, <1>2, <1>11, <1>20, <2>1 DEF Recordings
<1>13. RowsGrow
  BY <1>1, <1>11, <1>20 DEF RowsGrow
<1>14. ASSUME NEW q \in Scanners \ {p}, NEW i \in tx[q].predictions
       PROVE  i \notin Predicted'
  <2>1. i \notin Predicted /\ ToWrite(Row("prediction", i)) \in holds[<<q, "run">>]
    BY DEF IInv, ScannerOK, Uncommitted, Inserting
  <2>2. <<q, "run">> \in Sessions /\ <<q, "run">> # <<p, "run">>
    BY DEF Sessions
  <2>3. holds[<<q, "run">>] \cap holds[<<p, "run">>] = {}
    BY <1>2, <2>2 DEF LocksOK
  <2>4. i \notin f
    BY <1>3, <2>1, <2>3
  <2> QED
    BY <1>11, <2>1, <2>4
<1>15. SignalsOK'
  BY <1>1, <1>13, SignalStays DEF IInv, SignalsOK
<1>16. EntryJustified'
  BY <1>1 DEF IInv, EntryJustified
<1>17. ScannerOK(p)'
  <2>1. Market(p)' = Market(p) /\ Contract(p)' = Contract(p) /\ Input(p)' = i0
    BY <1>1, SameMarket
  <2>2. Idle(p)' /\ OfSignal(p)'
    BY <1>5 DEF Idle, OfSignal
  <2>3. OfMarket(p)'
    BY <1>1, <1>2, <1>5, <1>20, <2>1 DEF ScannerOK, OfMarket, OnRecord
  <2>4. OfRecord(p)'
    BY <1>3, <1>5, <1>11, <2>1 DEF OfRecord
  <2>5. Uncommitted(p)'
    BY <1>5, <1>7 DEF Uncommitted, Inserting, NoTx
  <2> QED
    BY <2>2, <2>3, <2>4, <2>5 DEF ScannerOK
<1>18. LocksOK'
  BY <1>6
<1>19. \A q \in Scanners \ {p} : \A i \in tx[q].predictions : i \notin Predicted'
  BY <1>14
<1> QED
  BY <1>9, <1>10, <1>12, <1>13, <1>15, <1>16, <1>17, <1>18, <1>19, StepKeeps

(* A scan that goes on to its next market.                                 *)
LEMMA OnwardsKeeps ==
    ASSUME IInv, NEW p \in Scanners, pc[p] \in {"books", "execute"}, NextMarket(p),
           session' = session, dialect' = dialect, clock' = clock, cache' = cache,
           contracts' = contracts, evidence' = evidence, features' = features,
           signals' = signals, EntryJustified'
    PROVE  IInv'
<1>1. ShapeOK /\ LocksOK /\ ScannerOK(p) /\ Recordings
  BY DEF IInv
<1>2. todo[p] # << >>
  BY <1>1 DEF ScannerOK, OfMarket
<1>3. ScannerShape' /\ ScannerAlone(p) /\ pc'[p] = "market"
  BY <1>1, <1>2, NextMarketIs
<1>4. SessionShape' /\ SessionAlone(p) /\ LocksOK'
  BY <1>1, SameSession
<1>5. Alone(p)
  BY <1>3, <1>4, AloneIs
<1>6. ShapeOK'
  BY <1>1, <1>3, <1>4 DEF ShapeOK, WorldShape
<1>7. ScannerOK(p)'
  <2>1. tx'[p].contracts = {} /\ tx'[p].evidence = {} /\ tx'[p].predictions = {}
    BY <1>1 DEF ScannerOK, Uncommitted, Inserting, session
  <2> QED
    BY <1>3, <2>1, AtMarket
<1>8. Predicted' = Predicted
  BY DEF Predicted
<1>9. RowsGrow
  BY <1>8 DEF RowsGrow, OnRecord
<1>10. Recordings'
  BY <1>1, <1>8 DEF Recordings
<1>11. SignalsOK'
  BY <1>9, SignalStays DEF IInv, SignalsOK
<1>12. \A q \in Scanners \ {p} : \A i \in tx[q].predictions : i \notin Predicted'
  BY <1>8 DEF IInv, ScannerOK, Uncommitted, Inserting
<1> QED
  BY <1>4, <1>5, <1>6, <1>7, <1>9, <1>10, <1>11, <1>12, StepKeeps

LEMMA BooksFailKeeps ==
    ASSUME IInv, NEW p \in Scanners, BooksFail(p)
    PROVE  IInv'
<1>1. /\ pc[p] = "books" /\ NextMarket(p) /\ session' = session
      /\ dialect' = dialect /\ clock' = clock /\ cache' = cache
      /\ contracts' = contracts /\ evidence' = evidence /\ features' = features
      /\ signals' = signals /\ decisions' = decisions
  BY DEF BooksFail, RejectSignal
<1>2. EntryJustified'
  BY <1>1 DEF IInv, EntryJustified
<1> QED
  BY <1>1, <1>2, OnwardsKeeps

(* A candidate without a reason against it has the edge, and its books are *)
(* not from later than the scan began.                                     *)
LEMMA PricedKeeps ==
    ASSUME IInv, NEW p \in Scanners, Priced(p)
    PROVE  IInv'
<1>1. /\ pc[p] = "books" /\ world' = world /\ cache' = cache /\ session' = session
      /\ contracts' = contracts /\ evidence' = evidence /\ features' = features
      /\ signals' = signals /\ decisions' = decisions /\ dialect' = dialect /\ clock' = clock
  BY DEF Priced, world
<1>2. PICK books \in BookPairs, time \in 0..clock :
         LET chosen == ChosenOf[Market(p)][run[p].series.latest][books]
             why == IF chosen = None THEN {"order_book_mismatch"}
                    ELSE SignalReasons(Contract(p), books, time, chosen, captured[p])
         IN  IF why # {}
             THEN RejectSignal(p, <<books, time>>, why)
             ELSE /\ run' = [run EXCEPT ![p].signal = [input |-> Input(p), books |-> books,
                                                       time |-> time, side |-> chosen.side]]
                  /\ Goto(p, "signal")
                  /\ todo' = todo /\ captured' = captured /\ rejections' = rejections
  BY <1>1 DEF Priced
<1> DEFINE k == run[p].series.latest
           chosen == ChosenOf[Market(p)][k][books]
           why == IF chosen = None THEN {"order_book_mismatch"}
                  ELSE SignalReasons(Contract(p), books, time, chosen, captured[p])
           f == [input |-> Input(p), books |-> books, time |-> time, side |-> chosen.side]
<1>3. ShapeOK /\ ScannerOK(p) /\ "signal" \in Labels
  BY DEF IInv, Labels
<1>4. /\ todo[p] # << >> /\ run[p].series \in SeriesSet /\ Contract(p).public
      /\ Input(p) \in Predicted
  BY <1>1, <1>3 DEF ScannerOK, OfMarket, OfRecord
<1>5. /\ Market(p) \in DOMAIN MarketOf /\ Input(p) \in Inputs /\ k \in DOMAIN Paths
      /\ captured[p] \in Int /\ time \in Int
  BY <1>3, <1>4, MarketIs DEF SeriesSet, ShapeOK, WorldShape, ScannerShape
<1>6. CASE why # {}
  <2>1. NextMarket(p)
    BY <1>2, <1>6 DEF RejectSignal
  <2>2. EntryJustified'
    BY <1>1 DEF IInv, EntryJustified
  <2> QED
    BY <1>1, <2>1, <2>2, OnwardsKeeps
<1>7. CASE why = {}
  <2>1. /\ run' = [run EXCEPT ![p].signal = f] /\ Goto(p, "signal")
        /\ todo' = todo /\ captured' = captured /\ rejections' = rejections
    BY <1>2, <1>7
  <2>2. chosen # None /\ SignalReasons(MarketOf[Market(p)], books, time, chosen, captured[p]) = {}
    BY <1>7 DEF Contract
  <2>3. Matched(MarketOf[Market(p)], books)
    <3>1. chosen = IF Matched(MarketOf[Market(p)], books)
                   THEN Chosen(MarketOf[Market(p)], Estimate(MarketOf[Market(p)], k), books)
                   ELSE None
      BY <1>5, Zenon DEF ChosenOf
    <3> QED
      BY <2>2, <3>1
  <2>4. /\ time <= captured[p] /\ chosen.side \in {"YES", "NO"}
        /\ EdgeOf[Market(p)][k][books][chosen.side]
              >= MarketOf[Market(p)].minimum * (MinEdge + Costs)
    <3>1. ASSUME NEW m, m = Market(p), NEW l, l = k, NEW x, x = chosen, NEW now, now = captured[p]
          PROVE  /\ time <= now /\ x.side \in {"YES", "NO"}
                 /\ EdgeOf[m][l][books][x.side] >= MarketOf[m].minimum * (MinEdge + Costs)
      <4>1. x = ChosenOf[m][l][books]
        BY <3>1, Zenon
      <4> HIDE DEF k, chosen, why, f
      <4>2. m \in DOMAIN MarketOf /\ l \in DOMAIN Paths /\ now \in Int /\ time \in Int
        BY <1>5, <3>1
      <4>3. Matched(MarketOf[m], books) /\ SignalReasons(MarketOf[m], books, time, x, now) = {}
        BY <2>2, <2>3, <3>1, Zenon
      <4> QED
        BY <4>1, <4>2, <4>3, WithoutReasons
    <3> HIDE DEF k, chosen, why, f
    <3> QED
      BY <3>1
  <2>5. /\ f \in Fingerprints /\ f.input = Input(p) /\ f.time <= captured[p] /\ HasEdge(f)
    <3>1. f \in Fingerprints
      BY <1>5, <2>4 DEF Fingerprints
    <3>2. /\ f.input = Input(p) /\ f.input.market = Market(p) /\ f.input.series.latest = k
          /\ f.books = books /\ f.time = time /\ f.side = chosen.side
      BY DEF Input
    <3> HIDE DEF f
    <3> QED
      BY <2>4, <3>1, <3>2 DEF HasEdge
  <2> HIDE DEF chosen, k, f, why
  <2>6. run' = [run EXCEPT ![p] = [series |-> run[p].series, known |-> run[p].known,
                                   signal |-> f]]
    BY <1>3, <2>1, FieldIs
  <2>7. ASSUME NEW x, NEW y, NEW z,
               run' = [run EXCEPT ![p] = [series |-> x, known |-> y, signal |-> z]]
        PROVE  RunWith(p, [series |-> x, known |-> y, signal |-> z]) /\ pc'[p] = "signal"
    <3>1. Goto(p, "signal") /\ ShapeOK /\ todo' = todo /\ captured' = captured
          /\ "signal" \in Labels
      BY <1>3, <2>1
    <3>2. pc'[p] = "signal"
      BY <2>7, <3>1, RunIs
    <3>3. RunWith(p, [series |-> x, known |-> y, signal |-> z])
      BY <2>7, <3>1, RunIs
    <3> QED
      BY <3>2, <3>3
  <2>8. RunWith(p, [series |-> run[p].series, known |-> run[p].known, signal |-> f])
        /\ pc'[p] = "signal"
    BY <2>6, <2>7
  <2>9. /\ ScannerShape' /\ ScannerAlone(p) /\ todo'[p] = todo[p] /\ captured'[p] = captured[p]
        /\ run'[p].series = run[p].series /\ run'[p].signal = f
    BY <2>8 DEF RunWith
  <2>10. Market(p)' = Market(p) /\ Contract(p)' = Contract(p) /\ Input(p)' = Input(p)
         /\ Predicted' = Predicted
    BY <1>1, <2>9, SameMarket DEF Predicted
  <2>11. Idle(p)'
    BY <2>8 DEF Idle
  <2>12. OfMarket(p)'
    BY <1>1, <1>3, <1>4, <2>8, <2>9, <2>10 DEF ScannerOK, OfMarket, OnRecord
  <2>13. OfRecord(p)'
    BY <1>4, <2>8, <2>10 DEF OfRecord
  <2>14. Uncommitted(p)'
    BY <1>1, <1>3, <2>8 DEF ScannerOK, Uncommitted, Inserting, session
  <2>15. OfSignal(p)'
    BY <2>5, <2>8, <2>9, <2>10 DEF OfSignal, HasEdge
  <2>16. ScannerOK(p)'
    BY <2>11, <2>12, <2>13, <2>14, <2>15 DEF ScannerOK
  <2>17. WorldShape' /\ rows' = rows
    BY <1>1, <1>3, <2>1 DEF ShapeOK, WorldShape, rows, outcomes
  <2> QED
    BY <1>1, <2>9, <2>16, <2>17, Advance
<1> QED
  BY <1>6, <1>7

LEMMA AddSignalKeeps ==
    ASSUME IInv, NEW p \in Scanners, AddSignal(p)
    PROVE  IInv'
<1> DEFINE f == run[p].signal
           new == [fingerprint |-> f, at |-> captured[p]]
<1>1. /\ pc[p] = "addSignal" /\ Goto(p, "execute")
      /\ signals' = IF Stored(f) THEN signals ELSE signals \cup {new}
      /\ dialect' = dialect /\ clock' = clock /\ cache' = cache
      /\ todo' = todo /\ captured' = captured /\ run' = run /\ session' = session
      /\ contracts' = contracts /\ evidence' = evidence /\ features' = features
      /\ decisions' = decisions
  BY DEF AddSignal, world
<1>2. ShapeOK /\ LocksOK /\ ScannerOK(p) /\ Recordings /\ "execute" \in Labels
  BY DEF IInv, Labels
<1>3. /\ todo[p] # << >> /\ OnRecord(Market(p)) /\ Input(p) \in Predicted
      /\ f \in Fingerprints /\ f.input = Input(p) /\ f.time <= captured[p] /\ HasEdge(f)
  BY <1>1, <1>2 DEF ScannerOK, OfMarket, OfRecord, OfSignal
<1>4. Market(p) \in Markets /\ captured[p] \in 0..MaxClock
  BY <1>2, <1>3, MarketIs DEF ShapeOK, ScannerShape
<1>5. ScannerShape' /\ ScannerAlone(p) /\ pc'[p] = "execute"
  BY <1>1, <1>2, GotoIs
<1>6. SessionShape' /\ SessionAlone(p) /\ LocksOK'
  BY <1>1, <1>2, SameSession
<1>7. Alone(p)
  BY <1>5, <1>6, AloneIs
<1>8. ShapeOK'
  BY <1>1, <1>2, <1>5, <1>6 DEF ShapeOK, WorldShape
<1>9. Predicted' = Predicted
  BY <1>1 DEF Predicted
<1>10. RowsGrow
  BY <1>1, <1>9 DEF RowsGrow, OnRecord
<1>11. SignalOK(new)
  <2>1. new.fingerprint = f /\ new.at = captured[p]
    OBVIOUS
  <2>2. f.input.market = Market(p)
    BY <1>3 DEF Input
  <2> HIDE DEF new
  <2> QED
    BY <1>3, <1>4, <2>1, <2>2 DEF SignalOK
<1>12. SignalsOK'
  <2>1. ASSUME NEW s \in signals' PROVE SignalOK(s)
    BY <1>1, <1>11, <2>1 DEF IInv, SignalsOK
  <2>2. ASSUME NEW s \in signals' PROVE SignalOK(s)'
    BY <1>10, <2>1, SignalStays
  <2>3. ASSUME NEW s \in signals', NEW t \in signals', s.fingerprint = t.fingerprint
        PROVE  s = t
    <3>1. CASE s \in signals /\ t \in signals
      BY <2>3, <3>1 DEF IInv, SignalsOK
    <3>2. CASE ~(s \in signals /\ t \in signals)
      <4>1. ~Stored(f) /\ signals' = signals \cup {new}
        BY <1>1, <3>2
      <4>2. new.fingerprint = f
        OBVIOUS
      <4> HIDE DEF new
      <4>3. \A x \in signals : x.fingerprint # f
        BY <4>1 DEF Stored
      <4> QED
        BY <2>3, <3>2, <4>1, <4>2, <4>3
    <3> QED
      BY <3>1, <3>2
  <2> QED
    BY <2>2, <2>3 DEF SignalsOK
<1>13. Recordings'
  BY <1>1, <1>2, <1>9 DEF Recordings
<1>14. EntryJustified'
  BY <1>1 DEF IInv, EntryJustified
<1>15. ScannerOK(p)'
  <2>1. Market(p)' = Market(p) /\ Contract(p)' = Contract(p) /\ Input(p)' = Input(p)
    BY <1>1, SameMarket
  <2>2. Idle(p)'
    BY <1>5 DEF Idle
  <2>3. OfMarket(p)'
    BY <1>1, <1>2, <1>5, <2>1 DEF ScannerOK, OfMarket, OnRecord
  <2>4. OfRecord(p)'
    BY <1>3, <1>5, <1>9, <2>1 DEF OfRecord
  <2>5. Uncommitted(p)'
    BY <1>1, <1>2, <1>5 DEF ScannerOK, Uncommitted, Inserting, session
  <2>6. OfSignal(p)'
    BY <1>1, <1>3, <1>5, <2>1 DEF OfSignal, HasEdge
  <2> QED
    BY <2>2, <2>3, <2>4, <2>5, <2>6 DEF ScannerOK
<1>16. \A q \in Scanners \ {p} : \A i \in tx[q].predictions : i \notin Predicted'
  BY <1>9 DEF IInv, ScannerOK, Uncommitted, Inserting
<1>17. LocksOK'
  BY <1>6
<1> QED
  BY <1>7, <1>8, <1>10, <1>12, <1>13, <1>14, <1>15, <1>16, <1>17, StepKeeps

(* An eligible signal is from before the entry, and so are its books and   *)
(* its candles.                                                            *)
LEMMA EligibleIs ==
    ASSUME NEW s, SignalOK(s), NEW now \in 0..MaxClock, Eligible(s, now)
    PROVE  LET f == s.fingerprint IN
           /\ s.at <= now /\ f.time <= now
           /\ f.input.series.at <= now /\ f.input.series.latest * Interval <= now
           /\ now < MarketOf[f.input.market].expiry
<1>1. /\ s.at <= now /\ MarketOf[s.fingerprint.input.market].expiry > now
      /\ EvidenceUsable(s.fingerprint.input, now)
  BY DEF Eligible
<1>2. s.fingerprint.time <= s.at /\ s.at \in Int /\ s.fingerprint.time \in Int
  BY DEF SignalOK, Fingerprints
<1>3. s.fingerprint.time <= now
  BY <1>1, <1>2
<1>4. s.fingerprint.input.series.at <= now /\ s.fingerprint.input.series.latest * Interval <= now
  BY <1>1 DEF EvidenceUsable
<1>5. s.fingerprint.input.market \in DOMAIN MarketOf
  BY MarketsAre DEF SignalOK, Fingerprints, Inputs
<1>6. now < MarketOf[s.fingerprint.input.market].expiry
  BY <1>1, <1>5, PipelineAssumption
<1> QED
  BY <1>1, <1>3, <1>4, <1>6

LEMMA ExecuteKeeps ==
    ASSUME IInv, NEW p \in Scanners, Execute(p)
    PROVE  IInv'
<1>1. /\ pc[p] = "execute" /\ NextMarket(p) /\ session' = session
      /\ dialect' = dialect /\ clock' = clock /\ cache' = cache
      /\ contracts' = contracts /\ evidence' = evidence /\ features' = features
      /\ signals' = signals
  BY DEF Execute, world
<1>2. PICK s \in signals, allowed \in BOOLEAN :
         decisions' = IF Decided(s.fingerprint) THEN decisions
                      ELSE decisions \cup {[signal |-> s, now |-> captured[p],
                                            approved |-> allowed /\ Eligible(s, captured[p])]}
  BY DEF Execute
<1> DEFINE now == captured[p]
           ok == allowed /\ Eligible(s, now)
           new == [signal |-> s, now |-> now, approved |-> ok]
<1>3. SignalOK(s) /\ now \in 0..MaxClock
  BY DEF IInv, SignalsOK, ShapeOK, ScannerShape
<1>4. ASSUME NEW d \in decisions', d.approved, d \notin decisions
      PROVE  d.signal = s /\ d.now = now /\ Eligible(s, now)
  <2>1. d = new
    BY <1>2, <1>4
  <2>2. new.approved = ok /\ new.signal = s /\ new.now = now
    OBVIOUS
  <2>3. ok
    <3>1. new.approved
      BY <1>4, <2>1
    <3> HIDE DEF new, ok
    <3> QED
      BY <2>2, <3>1, Zenon
  <2> QED
    BY <2>1, <2>2, <2>3
<1>5. EntryJustified'
  <2> SUFFICES ASSUME NEW d \in decisions', d.approved
               PROVE  LET f == d.signal.fingerprint
                          m == f.input.market
                          series == f.input.series
                      IN  /\ d.signal.at <= d.now /\ f.time <= d.now
                          /\ series.at <= d.now /\ series.latest * Interval <= d.now
                          /\ d.now < MarketOf[m].expiry
                          /\ EdgeOf[m][series.latest][f.books][f.side]
                                >= MarketOf[m].minimum * (MinEdge + Costs)
    BY DEF EntryJustified
  <2>1. CASE d \in decisions
    BY <2>1 DEF IInv, EntryJustified
  <2>2. CASE d \notin decisions
    <3>1. d.signal = s /\ d.now = now /\ Eligible(s, now)
      BY <1>4, <2>2
    <3> HIDE DEF now
    <3>2. HasEdge(s.fingerprint)
      BY <1>3 DEF SignalOK
    <3> QED
      BY <1>3, <3>1, <3>2, EligibleIs DEF HasEdge
  <2> QED
    BY <2>1, <2>2
<1> QED
  BY <1>1, <1>5, OnwardsKeeps

-----------------------------------------------------------------------------
(* Around the scans                                                        *)

(* Nothing but the clock and the cache changes.                            *)
LEMMA WorldKeeps ==
    ASSUME IInv, dialect' = dialect, scanner' = scanner, session' = session, rows' = rows,
           WorldShape'
    PROVE  IInv'
<1>1. ShapeOK /\ LocksOK
  BY DEF IInv
<1>2. /\ pc' = pc /\ todo' = todo /\ captured' = captured /\ run' = run
      /\ holds' = holds /\ tx' = tx /\ open' = open
      /\ contracts' = contracts /\ evidence' = evidence /\ features' = features
      /\ signals' = signals /\ decisions' = decisions
  BY DEF scanner, session, rows, outcomes
<1>3. Predicted' = Predicted
  BY <1>2 DEF Predicted
<1>4. RowsGrow
  BY <1>2, <1>3 DEF RowsGrow, OnRecord
<1>5. ASSUME NEW q \in Scanners PROVE ScannerOK(q)'
  <2>1. Still(q) /\ ScannerOK(q)
    BY <1>2 DEF Still, IInv
  <2>2. \A i \in tx[q].predictions : i \notin Predicted'
    BY <1>3, <2>1 DEF ScannerOK, Uncommitted, Inserting
  <2> QED
    BY <1>1, <1>4, <2>1, <2>2, Bystander
<1>6. ShapeOK'
  BY <1>1, <1>2 DEF ShapeOK, ScannerShape, SessionShape, HoldsShape
<1>7. LocksOK'
  BY <1>1, <1>2, LocksShrink
<1>8. Recordings'
  BY <1>2, <1>3 DEF IInv, Recordings
<1>9. SignalsOK'
  BY <1>2, <1>4, SignalStays DEF IInv, SignalsOK
<1>10. EntryJustified'
  BY <1>2 DEF IInv, EntryJustified
<1> QED
  BY <1>5, <1>6, <1>7, <1>8, <1>9, <1>10 DEF IInv

LEMMA SettlementFetchesKeeps ==
    ASSUME IInv, SettlementFetches
    PROVE  IInv'
<1>1. /\ cache' = SeriesAt(clock) /\ dialect' = dialect /\ clock' = clock
      /\ scanner' = scanner /\ session' = session /\ rows' = rows
  BY DEF SettlementFetches, world
<1>2. clock \in 0..MaxClock
  BY DEF IInv, ShapeOK, WorldShape
<1>3. WorldShape'
  BY <1>1, <1>2, SeriesIs DEF WorldShape
<1> QED
  BY <1>1, <1>3, WorldKeeps

LEMMA TickKeeps ==
    ASSUME IInv, Tick
    PROVE  IInv'
<1>1. /\ clock < MaxClock /\ clock' = clock + 1 /\ cache' = cache /\ dialect' = dialect
      /\ scanner' = scanner /\ session' = session /\ rows' = rows
  BY DEF Tick
<1>2. WorldShape'
  BY <1>1, PipelineAssumption DEF IInv, ShapeOK, WorldShape
<1> QED
  BY <1>1, <1>2, WorldKeeps

LEMMA CrashKeeps ==
    ASSUME IInv, Crash
    PROVE  IInv'
<1>1. /\ cache' = None /\ dialect' = dialect /\ clock' = clock
      /\ pc' = [p \in Scanners |-> "idle"] /\ todo' = [p \in Scanners |-> << >>]
      /\ captured' = [p \in Scanners |-> 0] /\ run' = [p \in Scanners |-> NoRun]
      /\ holds' = [s \in DOMAIN holds |-> {}] /\ tx' = [p \in Scanners |-> NoTx]
      /\ open' = [p \in Scanners |-> {}]
      /\ contracts' = contracts /\ evidence' = evidence /\ features' = features
      /\ signals' = signals /\ decisions' = decisions
  BY DEF Crash, rows, outcomes
<1>2. ShapeOK /\ DOMAIN holds = Sessions /\ MaxClock \in Nat
  BY SessionsAre, PipelineAssumption DEF IInv
<1>3. ScannerShape'
  BY <1>1, <1>2 DEF ScannerShape, NoRun, Labels
<1>4. SessionShape'
  BY <1>1, <1>2 DEF SessionShape, HoldsShape, NoTx
<1>5. ShapeOK'
  BY <1>1, <1>2, <1>3, <1>4 DEF ShapeOK, WorldShape
<1>6. LocksOK'
  BY <1>1, <1>2 DEF LocksOK, Writer
<1>7. ASSUME NEW p \in Scanners PROVE ScannerOK(p)'
  <2>1. /\ pc'[p] = "idle" /\ todo'[p] = << >> /\ run'[p] = NoRun /\ tx'[p] = NoTx
        /\ \A k \in {"scan", "run"} : holds'[<<p, k>>] = {}
    BY <1>1, <1>2 DEF Sessions
  <2>2. Idle(p)'
    BY <2>1 DEF Idle, NoRun
  <2>3. OfMarket(p)' /\ OfRecord(p)' /\ OfSignal(p)'
    BY <2>1 DEF OfMarket, OfRecord, OfSignal
  <2>4. Uncommitted(p)'
    BY <2>1 DEF Uncommitted, Inserting, NoTx
  <2> QED
    BY <2>2, <2>3, <2>4 DEF ScannerOK
<1>8. Predicted' = Predicted
  BY <1>1 DEF Predicted
<1>9. RowsGrow
  BY <1>1, <1>8 DEF RowsGrow, OnRecord
<1>10. Recordings'
  BY <1>1, <1>8 DEF IInv, Recordings
<1>11. SignalsOK'
  BY <1>1, <1>9, SignalStays DEF IInv, SignalsOK
<1>12. EntryJustified'
  BY <1>1 DEF IInv, EntryJustified
<1> QED
  BY <1>5, <1>6, <1>7, <1>10, <1>11, <1>12 DEF IInv

-----------------------------------------------------------------------------
(* The theorems                                                            *)

LEMMA InitInvariant == Init => IInv
<1> SUFFICES ASSUME Init PROVE IInv
  OBVIOUS
<1>1. MaxClock \in Nat
  BY PipelineAssumption
<1>2. ShapeOK
  <2>1. WorldShape /\ ScannerShape /\ SessionShape
    BY <1>1 DEF Init, WorldShape, ScannerShape, SessionShape, HoldsShape, Sessions, NoRun, NoTx,
                Labels
  <2>2. contracts = [m \in DOMAIN contracts |-> contracts[m]]
    BY DEF Init
  <2> QED
    BY <2>1, <2>2 DEF ShapeOK
<1>3. LocksOK
  BY DEF Init, LocksOK, Sessions
<1>4. ASSUME NEW p \in Scanners PROVE ScannerOK(p)
  <2>1. /\ pc[p] = "idle" /\ todo[p] = << >> /\ run[p] = NoRun /\ tx[p] = NoTx
        /\ \A k \in {"scan", "run"} : holds[<<p, k>>] = {}
    BY DEF Init
  <2>2. Idle(p) /\ OfMarket(p) /\ OfRecord(p) /\ OfSignal(p)
    BY <2>1 DEF Idle, OfMarket, OfRecord, OfSignal
  <2>3. Uncommitted(p)
    BY <2>1 DEF Uncommitted, Inserting, NoTx
  <2> QED
    BY <2>2, <2>3 DEF ScannerOK
<1>5. Recordings
  BY DEF Init, Recordings, Predicted
<1>6. SignalsOK /\ EntryJustified
  BY DEF Init, SignalsOK, EntryJustified
<1> QED
  BY <1>2, <1>3, <1>4, <1>5, <1>6 DEF IInv

LEMMA NextInvariant == IInv /\ [Next]_vars => IInv'
<1> SUFFICES ASSUME IInv, [Next]_vars PROVE IInv'
  OBVIOUS
<1>1. ASSUME NEW p \in Scanners, Begin(p) PROVE IInv'
  BY <1>1, BeginKeeps
<1>2. ASSUME NEW p \in Scanners, PersistAccepted(p) PROVE IInv'
  BY <1>2, PersistAcceptedKeeps
<1>3. ASSUME NEW p \in Scanners, PersistRejected(p) PROVE IInv'
  BY <1>3, PersistRejectedKeeps
<1>4. ASSUME NEW p \in Scanners, ScanDone(p) \/ ExecuteRaises(p) \/ LockTimeout(p) PROVE IInv'
  BY <1>4, EndsKeep
<1>5. ASSUME NEW p \in Scanners, Refuse(p) PROVE IInv'
  BY <1>5, RefuseKeeps
<1>6. ASSUME NEW p \in Scanners, UseCache(p) PROVE IInv'
  BY <1>6, UseCacheKeeps
<1>7. ASSUME NEW p \in Scanners, Request(p) PROVE IInv'
  BY <1>7, RequestKeeps
<1>8. ASSUME NEW p \in Scanners, Fetched(p) \/ FetchFails(p) PROVE IInv'
  BY <1>8, FetchKeeps
<1>9. ASSUME NEW p \in Scanners, FindEvidence(p) \/ FindPrediction(p) \/ FindSignal(p) PROVE IInv'
  BY <1>9, FindEvidenceKeeps, FindsKeep
<1>10. ASSUME NEW p \in Scanners, AddEvidence(p) PROVE IInv'
  BY <1>10, AddEvidenceKeeps
<1>11. ASSUME NEW p \in Scanners, AddPrediction(p) PROVE IInv'
  BY <1>11, AddPredictionKeeps
<1>12. ASSUME NEW p \in Scanners, CommitRecord(p) PROVE IInv'
  BY <1>12, CommitRecordKeeps
<1>13. ASSUME NEW p \in Scanners, BooksFail(p) PROVE IInv'
  BY <1>13, BooksFailKeeps
<1>14. ASSUME NEW p \in Scanners, Priced(p) PROVE IInv'
  BY <1>14, PricedKeeps
<1>15. ASSUME NEW p \in Scanners, AddSignal(p) PROVE IInv'
  BY <1>15, AddSignalKeeps
<1>16. ASSUME NEW p \in Scanners, Execute(p) PROVE IInv'
  BY <1>16, ExecuteKeeps
<1>17. ASSUME SettlementFetches PROVE IInv'
  BY <1>17, SettlementFetchesKeeps
<1>18. ASSUME Crash PROVE IInv'
  BY <1>18, CrashKeeps
<1>19. ASSUME Tick PROVE IInv'
  BY <1>19, TickKeeps
<1>20. ASSUME UNCHANGED vars PROVE IInv'
  <2>1. /\ dialect' = dialect /\ clock' = clock /\ cache' = cache
        /\ scanner' = scanner /\ session' = session /\ rows' = rows
    BY <1>20 DEF vars, world
  <2>2. WorldShape'
    BY <2>1 DEF IInv, ShapeOK, WorldShape
  <2> QED
    BY <2>1, <2>2, WorldKeeps
<1> QED
  BY <1>1, <1>2, <1>3, <1>4, <1>5, <1>6, <1>7, <1>8, <1>9, <1>10, <1>11, <1>12, <1>13, <1>14,
     <1>15, <1>16, <1>17, <1>18, <1>19, <1>20 DEF Next, Step

(* At every step of the scans, whatever fails or races, the inductive      *)
(* invariant holds.                                                        *)
THEOREM Invariance == Spec => []IInv
<1>1. Init => IInv
  BY InitInvariant
<1>2. IInv /\ [Next]_vars => IInv'
  BY NextInvariant
<1> QED
  BY <1>1, <1>2, PTL DEF Spec

ListingsOK == \A p \in Scanners : rejects[p] \in Listings \cup {{}}

LEMMA TypeFollows == IInv /\ ListingsOK => TypeOK
<1> SUFFICES ASSUME IInv, ListingsOK PROVE TypeOK
  OBVIOUS
<1>1. ShapeOK /\ LocksOK /\ Recordings /\ DOMAIN holds = Sessions
  BY SessionsAre DEF IInv
<1>2. ASSUME NEW p \in Scanners, pc[p] = "idle"
      PROVE  run[p] = NoRun /\ todo[p] = << >> /\ tx[p] = NoTx
  <2>1. /\ run[p] = NoRun /\ todo[p] = << >> /\ tx[p].contracts = {}
        /\ tx[p].evidence = {} /\ tx[p].predictions = {}
    BY <1>2 DEF IInv, ScannerOK, Idle, Uncommitted, Inserting
  <2>2. tx[p] = [contracts |-> tx[p].contracts, evidence |-> tx[p].evidence,
                 predictions |-> tx[p].predictions]
    BY <1>1 DEF ShapeOK, SessionShape
  <2> QED
    BY <2>1, <2>2 DEF NoTx
<1>3. ASSUME NEW s \in DOMAIN holds, pc[s[1]] = "idle" PROVE holds[s] = {}
  <2>1. s[1] \in Scanners /\ s[2] \in {"scan", "run"} /\ s = <<s[1], s[2]>>
    BY <1>1, SessionsAre
  <2> QED
    BY <1>3, <2>1 DEF IInv, ScannerOK, Idle
<1>4. \A i \in evidence : i.market \in Markets /\ i.series.at \in 0..MaxClock
  BY <1>1 DEF Recordings, Inputs, SeriesSet
<1>5. \A i \in DOMAIN features : features[i] \in Nat
  BY <1>1 DEF Recordings, Predicted
<1>6. \A s \in signals : s.at \in 0..MaxClock
  BY DEF IInv, SignalsOK, SignalOK
<1>7. dialect = "sqlite" => Cardinality({s \in DOMAIN holds : holds[s] # {}}) <= 1
  <2> DEFINE busy == {s \in DOMAIN holds : holds[s] # {}}
  <2> SUFFICES ASSUME dialect = "sqlite" PROVE Cardinality(busy) <= 1
    OBVIOUS
  <2>1. CASE busy = {}
    BY <2>1, FS_EmptySet
  <2>2. CASE busy # {}
    <3>1. PICK s \in busy : TRUE
      BY <2>2
    <3>2. ASSUME NEW t \in busy PROVE t = s
      <4>1. Writer \in holds[s] /\ Writer \in holds[t]
        BY <1>1, <3>1 DEF LocksOK
      <4> QED
        BY <1>1, <3>1, <4>1 DEF LocksOK
    <3>3. busy = {s}
      BY <3>1, <3>2
    <3>4. Cardinality({s}) = 1
      BY FS_Singleton
    <3> HIDE DEF busy
    <3> QED
      BY <3>3, <3>4
  <2> QED
    BY <2>1, <2>2
<1> QED
  BY <1>1, <1>2, <1>3, <1>4, <1>5, <1>6, <1>7 DEF TypeOK, ListingsOK, Recordings

(* The rows have their types, a scan that is over has left neither a       *)
(* transaction nor a lock behind, and SQLite lets one session write.       *)
THEOREM TypeCorrect == Spec => []TypeOK
<1> DEFINE Lists == rejects \in [Scanners -> Listings \cup {{}}]
<1>1. Init => Lists
  BY DEF Init
<1>2. Lists /\ [Next]_vars => Lists'
  <2> SUFFICES ASSUME Lists, [Next]_vars PROVE Lists'
    OBVIOUS
  <2>1. CASE rejects' = rejects
    BY <2>1
  <2>2. CASE \E p \in Scanners, listing \in Listings \cup {{}} :
                rejects' = [rejects EXCEPT ![p] = listing]
    BY <2>2
  <2>3. CASE Crash
    BY <2>3 DEF Crash
  <2>4. CASE SettlementFetches \/ Tick \/ UNCHANGED vars
    BY <2>1, <2>4 DEF SettlementFetches, Tick, vars, scanner
  <2>5. ASSUME NEW p \in Scanners, Begin(p) \/ ScanDone(p) \/ ExecuteRaises(p) \/ LockTimeout(p)
        PROVE  Lists'
    <3>1. \E listing \in Listings \cup {{}} : rejects' = [rejects EXCEPT ![p] = listing]
      BY <2>5 DEF Begin, ScanDone, ExecuteRaises, LockTimeout, EndScan
    <3> QED
      BY <2>2, <3>1
  <2>6. ASSUME NEW p \in Scanners, Step(p), ~ScanDone(p), ~ExecuteRaises(p)
        PROVE  rejects' = rejects
    <3>1. CASE PersistAccepted(p) \/ PersistRejected(p)
      BY <3>1 DEF PersistAccepted, PersistRejected, NextMarket
    <3>2. CASE Refuse(p) \/ UseCache(p) \/ Request(p) \/ Fetched(p) \/ FetchFails(p)
      BY <3>2 DEF Refuse, UseCache, Request, Fetched, FetchFails, GotSeries, RejectContract,
                  NextMarket
    <3>3. CASE \/ FindEvidence(p) \/ AddEvidence(p) \/ FindPrediction(p) \/ AddPrediction(p)
               \/ CommitRecord(p) \/ FindSignal(p) \/ AddSignal(p)
      BY <3>3 DEF FindEvidence, AddEvidence, FindPrediction, AddPrediction, CommitRecord,
                  FindSignal, AddSignal, LookUp
    <3>4. CASE BooksFail(p) \/ Priced(p) \/ Execute(p)
      BY <3>4 DEF BooksFail, Priced, RejectSignal, Execute, NextMarket
    <3> QED
      BY <2>6, <3>1, <3>2, <3>3, <3>4 DEF Step
  <2> QED
    BY <2>1, <2>3, <2>4, <2>5, <2>6 DEF Next
<1>3. Lists => ListingsOK
  BY DEF ListingsOK
<1> QED
  BY <1>1, <1>2, <1>3, Invariance, TypeFollows, PTL DEF Spec

(* What a signal was derived from is all on record: its evidence, one      *)
(* prediction with its two features, and the contract, which another scan  *)
(* may have come to reject since.                                          *)
THEOREM AllOnRecord == Spec => []Provenance
<1>1. IInv => Provenance
  BY DEF IInv, Recordings, SignalsOK, SignalOK, OnRecord, Provenance
<1> QED
  BY <1>1, Invariance, PTL

(* An approved entry is justified by what was known at its time, and its   *)
(* books leave the edge the settings demand.                               *)
THEOREM EntriesJustified == Spec => []EntryJustified
<1>1. IInv => EntryJustified
  BY DEF IInv
<1> QED
  BY <1>1, Invariance, PTL

-----------------------------------------------------------------------------
(* Locks                                                                   *)

(* How far a scan has got in the list it was given.                        *)
Place(p) == Len(Discovered) - Len(todo[p])

(* It has come there from the head of the list, and what it has written    *)
(* and not committed is behind it.                                         *)
OnTheWay(p) ==
    pc[p] # "idle" =>
       /\ Len(todo[p]) <= Len(Discovered)
       /\ \A i \in 1..Len(todo[p]) : todo[p][i] = Discovered[Place(p) + i]
       /\ open[p] \subseteq {Discovered[i] : i \in 1..Place(p)}

(* Where a scan may hold locks; on PostgreSQL, of which rows.              *)
Locked(p) ==
    /\ pc[p] # "market" => open[p] = {} /\ holds[<<p, "scan">>] = {}
    /\ pc[p] \notin Inserting => holds[<<p, "run">>] = {}
    /\ dialect # "sqlite" =>
          /\ holds[<<p, "scan">>] = {Row("contract", m) : m \in open[p]}
          /\ pc[p] \in Inserting =>
                \A row \in holds[<<p, "run">>] :
                   \/ row = Row("contract", Market(p))
                   \/ row = Row("evidence", Input(p)) /\ pc[p] # "addEvidence"
                   \/ row = Row("prediction", Input(p)) /\ pc[p] = "record"

LockInv == \A p \in Scanners : Locked(p) /\ OnTheWay(p)

Same(q) ==
    /\ pc'[q] = pc[q] /\ todo'[q] = todo[q] /\ run'[q] = run[q] /\ open'[q] = open[q]
    /\ \A k \in {"scan", "run"} : holds'[<<q, k>>] = holds[<<q, k>>]

LEMMA SameKeeps ==
    ASSUME LockInv, NEW q \in Scanners, Same(q), dialect' = dialect
    PROVE  Locked(q)' /\ OnTheWay(q)'
<1>1. Input(q)' = Input(q) /\ Market(q)' = Market(q) /\ Place(q)' = Place(q)
  BY DEF Same, Input, Market, Place
<1>2. Locked(q)'
  BY <1>1 DEF LockInv, Locked, Same, Row
<1>3. OnTheWay(q)'
  BY <1>1 DEF LockInv, OnTheWay, Same
<1> QED
  BY <1>2, <1>3

LEMMA LocksStep ==
    ASSUME LockInv, NEW p \in Scanners, \A q \in Scanners \ {p} : Same(q), dialect' = dialect,
           Locked(p)', OnTheWay(p)'
    PROVE  LockInv'
<1>1. ASSUME NEW q \in Scanners \ {p} PROVE Locked(q)' /\ OnTheWay(q)'
  BY SameKeeps
<1> QED
  BY <1>1 DEF LockInv

(* Past a market, or staying there.                                        *)
LEMMA WayStays ==
    ASSUME NEW p, OnTheWay(p), pc[p] # "idle", todo'[p] = todo[p], open'[p] \subseteq open[p]
    PROVE  OnTheWay(p)'
<1>1. Place(p)' = Place(p)
  BY DEF Place
<1> QED
  BY <1>1 DEF OnTheWay

LEMMA WayGoesOn ==
    ASSUME ShapeOK, NEW p \in Scanners, OnTheWay(p), pc[p] # "idle", todo[p] # << >>,
           todo'[p] = Tail(todo[p]), open'[p] \subseteq open[p] \cup {Market(p)}
    PROVE  OnTheWay(p)'
<1> DEFINE n == Place(p)
<1>1. todo[p] \in Seq(Markets) /\ Discovered \in Seq(Markets)
  BY MarketsAre DEF ShapeOK, ScannerShape
<1>2. /\ Len(todo[p]) \in Nat \ {0} /\ Len(Discovered) \in Nat
      /\ Len(todo'[p]) = Len(todo[p]) - 1 /\ Market(p) = todo[p][1]
      /\ \A i \in 1..Len(todo'[p]) : todo'[p][i] = todo[p][i + 1]
  BY <1>1 DEF Market
<1>3. /\ Len(todo[p]) <= Len(Discovered)
      /\ \A i \in 1..Len(todo[p]) : todo[p][i] = Discovered[n + i]
      /\ open[p] \subseteq {Discovered[i] : i \in 1..n}
  BY DEF OnTheWay
<1>4. n = Len(Discovered) - Len(todo[p]) /\ n \in Nat
  BY <1>2, <1>3 DEF Place
<1>5. Place(p)' = n + 1
  <2>1. Place(p)' = Len(Discovered) - Len(todo'[p])
    BY DEF Place
  <2> QED
    BY <1>2, <1>4, <2>1
<1> HIDE DEF n
<1>6. Market(p) = Discovered[n + 1]
  <2>1. 1 \in 1..Len(todo[p])
    BY <1>2
  <2> QED
    BY <1>2, <1>3, <2>1
<1>7. \A i \in 1..Len(todo'[p]) : todo'[p][i] = Discovered[n + 1 + i]
  <2> SUFFICES ASSUME NEW i \in 1..Len(todo'[p]) PROVE todo'[p][i] = Discovered[n + 1 + i]
    OBVIOUS
  <2>1. todo'[p][i] = todo[p][i + 1] /\ i + 1 \in 1..Len(todo[p])
    BY <1>2
  <2>2. n + (i + 1) = n + 1 + i
    BY <1>2, <1>4
  <2> QED
    BY <1>3, <2>1, <2>2
<1>8. open'[p] \subseteq {Discovered[i] : i \in 1..(n + 1)}
  <2>1. n + 1 \in 1..(n + 1) /\ \A i \in 1..n : i \in 1..(n + 1)
    BY <1>4
  <2> QED
    BY <1>3, <1>6, <2>1
<1>9. Len(todo'[p]) <= Len(Discovered)
  BY <1>2, <1>3
<1> QED
  BY <1>5, <1>7, <1>8, <1>9 DEF OnTheWay

-----------------------------------------------------------------------------
(* Steps while the pipeline holds no lock                                  *)

Quiet == {"route", "fetch", "books", "signal", "addSignal", "execute"}

ScanElsewhere(p) ==
    \A q \in Scanners \ {p} : pc'[q] = pc[q] /\ todo'[q] = todo[q] /\ run'[q] = run[q]

MovesOn(p) ==
    /\ pc[p] \in Quiet /\ pc'[p] \notin {"idle"} \cup Inserting
    /\ todo'[p] \in {todo[p], Tail(todo[p])}
    /\ ScanElsewhere(p)
    /\ session' = session /\ dialect' = dialect

LEMMA QuietLocks ==
    ASSUME IInv, LockInv, NEW p \in Scanners, MovesOn(p)
    PROVE  LockInv'
<1>1. /\ pc[p] \in Quiet /\ pc'[p] \notin {"idle"} \cup Inserting /\ dialect' = dialect
      /\ holds' = holds /\ open' = open
  BY DEF MovesOn, session
<1>2. \A q \in Scanners \ {p} : Same(q)
  BY <1>1 DEF MovesOn, ScanElsewhere, Same
<1>3. /\ open[p] = {} /\ holds[<<p, "scan">>] = {} /\ holds[<<p, "run">>] = {} /\ OnTheWay(p)
  BY <1>1 DEF LockInv, Locked, Quiet, Inserting
<1>4. Locked(p)'
  BY <1>1, <1>3 DEF Locked
<1>5. OnTheWay(p)'
  <2>1. ShapeOK /\ pc[p] # "idle" /\ todo[p] # << >>
    BY <1>1 DEF IInv, ScannerOK, OfMarket, Quiet
  <2>2. CASE todo'[p] = todo[p]
    BY <1>1, <1>3, <2>1, <2>2, WayStays
  <2>3. CASE todo'[p] = Tail(todo[p])
    BY <1>1, <1>3, <2>1, <2>3, WayGoesOn
  <2> QED
    BY <2>2, <2>3 DEF MovesOn
<1> QED
  BY <1>1, <1>2, <1>4, <1>5, LocksStep

LEMMA ToNextMarket ==
    ASSUME ShapeOK, NEW p \in Scanners, pc[p] \in Quiet, NextMarket(p), session' = session,
           dialect' = dialect
    PROVE  MovesOn(p)
<1>1. /\ todo' = [todo EXCEPT ![p] = Tail(@)] /\ pc' = [pc EXCEPT ![p] = "market"]
      /\ run' = [run EXCEPT ![p] = NoRun]
  BY DEF NextMarket, Goto
<1>2. DOMAIN pc = Scanners /\ DOMAIN todo = Scanners /\ DOMAIN run = Scanners
  BY DEF ShapeOK, ScannerShape
<1>3. pc'[p] = "market" /\ todo'[p] = Tail(todo[p]) /\ ScanElsewhere(p)
  BY <1>1, <1>2 DEF ScanElsewhere
<1> QED
  BY <1>3 DEF MovesOn, Inserting

LEMMA ToNextPlace ==
    ASSUME ShapeOK, NEW p \in Scanners, pc[p] \in Quiet,
           NEW l, l \notin {"idle"} \cup Inserting, Goto(p, l),
           todo' = todo, \A q \in Scanners \ {p} : run'[q] = run[q], session' = session,
           dialect' = dialect
    PROVE  MovesOn(p)
<1>1. pc' = [pc EXCEPT ![p] = l] /\ DOMAIN pc = Scanners
  BY DEF Goto, ShapeOK, ScannerShape
<1>2. pc'[p] = l /\ \A q \in Scanners \ {p} : pc'[q] = pc[q]
  BY <1>1
<1> QED
  BY <1>2 DEF MovesOn, ScanElsewhere

LEMMA RunElsewhere ==
    ASSUME ShapeOK, NEW p \in Scanners, NEW v,
           \/ run' = [run EXCEPT ![p].series = v] \/ run' = [run EXCEPT ![p].known = v]
           \/ run' = [run EXCEPT ![p].signal = v]
    PROVE  \A q \in Scanners \ {p} : run'[q] = run[q]
<1>1. DOMAIN run = Scanners
  BY DEF ShapeOK, ScannerShape
<1>2. PICK r : run' = [run EXCEPT ![p] = r]
  BY FieldIs
<1> QED
  BY <1>1, <1>2

LEMMA RejectLocks ==
    ASSUME IInv, LockInv, NEW p \in Scanners, pc[p] \in {"route", "fetch"}, NEW why,
           RejectContract(p, why), dialect' = dialect
    PROVE  LockInv'
<1>1. NextMarket(p) /\ session' = session
  BY DEF RejectContract
<1>2. ShapeOK /\ pc[p] \in Quiet
  BY DEF IInv, Quiet
<1> QED
  BY <1>1, <1>2, ToNextMarket, QuietLocks

LEMMA GotSeriesLocks ==
    ASSUME IInv, LockInv, NEW p \in Scanners, pc[p] \in {"route", "fetch"}, NEW series,
           GotSeries(p, series), dialect' = dialect
    PROVE  LockInv'
<1>1. CASE HorizonSupported(Contract(p), series.latest)
  <2>1. /\ run' = [run EXCEPT ![p].series = series] /\ Goto(p, "evidence")
        /\ todo' = todo /\ session' = session
    BY <1>1 DEF GotSeries
  <2>2. ShapeOK /\ pc[p] \in Quiet /\ "evidence" \notin {"idle"} \cup Inserting
    BY DEF IInv, Quiet, Inserting
  <2>3. \A q \in Scanners \ {p} : run'[q] = run[q]
    BY <2>1, <2>2, RunElsewhere
  <2> QED
    BY <2>1, <2>2, <2>3, ToNextPlace, QuietLocks
<1>2. CASE ~HorizonSupported(Contract(p), series.latest)
  BY <1>2, RejectLocks DEF GotSeries
<1> QED
  BY <1>1, <1>2

LEMMA SeriesLocks ==
    ASSUME IInv, LockInv, NEW p \in Scanners,
           Refuse(p) \/ UseCache(p) \/ Request(p) \/ Fetched(p) \/ FetchFails(p)
    PROVE  LockInv'
<1>1. CASE Refuse(p)
  <2> DEFINE why == Refusal(Contract(p), captured[p])
  <2>1. pc[p] = "route" /\ RejectContract(p, why) /\ dialect' = dialect
    BY <1>1 DEF Refuse, world
  <2> HIDE DEF why
  <2> QED
    BY <2>1, RejectLocks
<1>2. CASE UseCache(p)
  <2>1. pc[p] = "route" /\ GotSeries(p, cache) /\ dialect' = dialect
    BY <1>2 DEF UseCache, world
  <2> QED
    BY <2>1, GotSeriesLocks
<1>3. CASE Request(p)
  <2>1. /\ pc[p] = "route" /\ Goto(p, "fetch") /\ todo' = todo /\ run' = run
        /\ session' = session /\ dialect' = dialect
    BY <1>3 DEF Request, world
  <2>2. ShapeOK /\ pc[p] \in Quiet /\ "fetch" \notin {"idle"} \cup Inserting
    BY <2>1 DEF IInv, Quiet, Inserting
  <2> QED
    BY <2>1, <2>2, ToNextPlace, QuietLocks
<1>4. CASE Fetched(p)
  <2> DEFINE series == SeriesAt(captured[p])
  <2>1. /\ pc[p] = "fetch" /\ dialect' = dialect
        /\ GotSeries(p, series) \/ RejectContract(p, "market_data_invalid")
    BY <1>4 DEF Fetched, world
  <2> HIDE DEF series
  <2> QED
    BY <2>1, GotSeriesLocks, RejectLocks
<1>5. CASE FetchFails(p)
  <2>1. pc[p] = "fetch" /\ dialect' = dialect /\ RejectContract(p, "market_data_unavailable")
    BY <1>5 DEF FetchFails
  <2> QED
    BY <2>1, RejectLocks
<1> QED
  BY <1>1, <1>2, <1>3, <1>4, <1>5

LEMMA SignalLocks ==
    ASSUME IInv, LockInv, NEW p \in Scanners,
           BooksFail(p) \/ Priced(p) \/ FindSignal(p) \/ AddSignal(p) \/ Execute(p)
    PROVE  LockInv'
<1>1. ShapeOK
  BY DEF IInv
<1>2. CASE FindSignal(p)
  <2> DEFINE present == Stored(run[p].signal)
             l == IF present THEN "execute" ELSE "addSignal"
  <2>1. pc[p] = "signal" /\ LookUp(p, present, l)
    BY <1>2 DEF FindSignal
  <2>2. pc[p] \in Quiet /\ l \notin {"idle"} \cup Inserting
    BY <2>1 DEF Quiet, Inserting
  <2> HIDE DEF present, l
  <2>3. /\ run' = [run EXCEPT ![p].known = present] /\ Goto(p, l) /\ todo' = todo
        /\ session' = session /\ dialect' = dialect
    BY <2>1 DEF LookUp, world
  <2>4. \A q \in Scanners \ {p} : run'[q] = run[q]
    BY <1>1, <2>3, RunElsewhere
  <2> QED
    BY <1>1, <2>2, <2>3, <2>4, ToNextPlace, QuietLocks
<1>3. CASE BooksFail(p) \/ Execute(p)
  <2>1. /\ pc[p] \in {"books", "execute"} /\ NextMarket(p) /\ session' = session
        /\ dialect' = dialect
    BY <1>3 DEF BooksFail, RejectSignal, Execute, world
  <2>2. pc[p] \in Quiet
    BY <2>1 DEF Quiet
  <2> QED
    BY <1>1, <2>1, <2>2, ToNextMarket, QuietLocks
<1>4. CASE Priced(p)
  <2>1. /\ pc[p] = "books" /\ session' = session /\ dialect' = dialect
        /\ \/ NextMarket(p)
           \/ /\ \E f : run' = [run EXCEPT ![p].signal = f]
              /\ Goto(p, "signal") /\ todo' = todo
    BY <1>4 DEF Priced, RejectSignal, world
  <2>2. pc[p] \in Quiet /\ "signal" \notin {"idle"} \cup Inserting
    BY <2>1 DEF Quiet, Inserting
  <2>3. CASE NextMarket(p)
    BY <1>1, <2>1, <2>2, <2>3, ToNextMarket, QuietLocks
  <2>4. CASE (\E f : run' = [run EXCEPT ![p].signal = f]) /\ Goto(p, "signal") /\ todo' = todo
    <3>1. \A q \in Scanners \ {p} : run'[q] = run[q]
      BY <1>1, <2>4, RunElsewhere
    <3> QED
      BY <1>1, <2>1, <2>2, <2>4, <3>1, ToNextPlace, QuietLocks
  <2> QED
    BY <2>1, <2>3, <2>4
<1>5. CASE AddSignal(p)
  <2>1. /\ pc[p] = "addSignal" /\ Goto(p, "execute") /\ todo' = todo /\ run' = run
        /\ session' = session /\ dialect' = dialect
    BY <1>5 DEF AddSignal, world
  <2>2. pc[p] \in Quiet /\ "execute" \notin {"idle"} \cup Inserting
    BY <2>1 DEF Quiet, Inserting
  <2> QED
    BY <1>1, <2>1, <2>2, ToNextPlace, QuietLocks
<1> QED
  BY <1>2, <1>3, <1>4, <1>5
-----------------------------------------------------------------------------
(* Steps that take locks, and that release them                            *)

(* A step of the transaction of the pipeline.                              *)
LEMMA InsertingLocks ==
    ASSUME IInv, LockInv, NEW p \in Scanners, pc[p] \in {"evidence"} \cup Inserting,
           pc'[p] \notin {"idle", "market"},
           ScannerAlone(p), SessionAlone(p), todo'[p] = todo[p],
           run'[p].series = run[p].series, open' = open, dialect' = dialect,
           holds'[<<p, "scan">>] = holds[<<p, "scan">>],
           pc'[p] \notin Inserting => holds'[<<p, "run">>] = {},
           dialect # "sqlite" =>
              \A row \in holds'[<<p, "run">>] :
                 \/ row = Row("contract", Market(p))
                 \/ row = Row("evidence", Input(p)) /\ pc'[p] # "addEvidence"
                 \/ row = Row("prediction", Input(p)) /\ pc'[p] = "record"
    PROVE  LockInv'
<1>1. \A q \in Scanners \ {p} : Same(q)
  BY DEF ScannerAlone, SessionAlone, Same
<1>2. Input(p)' = Input(p) /\ Market(p)' = Market(p)
  BY SameMarket
<1>3. /\ open[p] = {} /\ holds[<<p, "scan">>] = {} /\ OnTheWay(p) /\ pc[p] # "idle"
      /\ pc[p] # "market"
  BY DEF LockInv, Locked, Inserting
<1>4. dialect # "sqlite" => holds[<<p, "scan">>] = {Row("contract", m) : m \in open[p]}
  BY DEF LockInv, Locked
<1>5. Locked(p)'
  BY <1>2, <1>3 DEF Locked, Row
<1>6. OnTheWay(p)'
  BY <1>2, <1>3, WayStays
<1> QED
  BY <1>1, <1>2, <1>5, <1>6, LocksStep

(* The contract, if it must be written again, is the first row of the      *)
(* transaction.                                                            *)
LEMMA FindEvidenceLocks ==
    ASSUME IInv, LockInv, NEW p \in Scanners, FindEvidence(p)
    PROVE  LockInv'
<1> DEFINE known == Input(p) \in evidence
           row == Row("contract", Market(p))
<1>1. /\ pc[p] = "evidence" /\ Goto(p, "addEvidence")
      /\ run' = [run EXCEPT ![p].known = known]
      /\ dialect' = dialect /\ todo' = todo /\ captured' = captured /\ open' = open
      /\ \/ Take(<<p, "run">>, row) /\ tx' = [tx EXCEPT ![p].contracts = {Market(p)}]
         \/ holds' = holds /\ tx' = tx
  BY DEF FindEvidence, world
<1>2. ShapeOK /\ LocksOK /\ <<p, "run">> \in Sessions /\ "addEvidence" \in Labels
      /\ DOMAIN tx = Scanners
  BY DEF IInv, Sessions, Labels, ShapeOK, SessionShape
<1>3. ScannerAlone(p) /\ run'[p].series = run[p].series /\ pc'[p] = "addEvidence"
  <2>1. ASSUME NEW present, run' = [run EXCEPT ![p].known = present]
        PROVE  RunWith(p, [series |-> run[p].series, known |-> present, signal |-> run[p].signal])
               /\ pc'[p] = "addEvidence"
    BY <1>1, <1>2, <2>1, KnownIs
  <2> HIDE DEF known
  <2>2. /\ RunWith(p, [series |-> run[p].series, known |-> known, signal |-> run[p].signal])
        /\ pc'[p] = "addEvidence"
    BY <1>1, <2>1
  <2> QED
    BY <2>2 DEF RunWith
<1>4. holds[<<p, "run">>] = {}
  BY <1>1 DEF LockInv, Locked, Inserting
<1>5. /\ \A t \in Sessions \ {<<p, "run">>} : holds'[t] = holds[t]
      /\ dialect # "sqlite" => holds'[<<p, "run">>] \subseteq {row}
  <2>1. CASE Take(<<p, "run">>, row)
    <3>1. /\ holds'[<<p, "run">>] = holds[<<p, "run">>] \cup {ToWrite(row)}
          /\ \A t \in Sessions \ {<<p, "run">>} : holds'[t] = holds[t]
      <4> HIDE DEF row
      <4> QED
        BY <1>1, <1>2, <2>1, TakeIs
    <3> HIDE DEF row
    <3> QED
      BY <1>4, <3>1 DEF ToWrite
  <2>2. CASE holds' = holds
    BY <1>4, <2>2
  <2> QED
    BY <1>1, <2>1, <2>2
<1>6. \A q \in Scanners \ {p} : tx'[q] = tx[q]
  BY <1>1, <1>2
<1>7. SessionAlone(p) /\ holds'[<<p, "scan">>] = holds[<<p, "scan">>]
  BY <1>5, <1>6 DEF SessionAlone, Sessions
<1>8. pc'[p] \in Inserting /\ pc[p] \in {"evidence"} \cup Inserting
      /\ pc'[p] \notin {"idle", "market"} /\ todo'[p] = todo[p]
  BY <1>1, <1>3 DEF Inserting
<1>9. dialect # "sqlite" =>
         \A r \in holds'[<<p, "run">>] :
            \/ r = Row("contract", Market(p))
            \/ r = Row("evidence", Input(p)) /\ pc'[p] # "addEvidence"
            \/ r = Row("prediction", Input(p)) /\ pc'[p] = "record"
  BY <1>5
<1> QED
  BY <1>1, <1>3, <1>7, <1>8, <1>9, InsertingLocks

LEMMA FindPredictionLocks ==
    ASSUME IInv, LockInv, NEW p \in Scanners, FindPrediction(p)
    PROVE  LockInv'
<1>1. pc[p] = "prediction" /\ LookUp(p, Input(p) \in Predicted, "addPrediction")
  BY DEF FindPrediction
<1>2. /\ session' = session /\ dialect' = dialect /\ todo' = todo
      /\ holds' = holds /\ open' = open
  BY <1>1 DEF LookUp, world, session
<1>3. ASSUME NEW present, LookUp(p, present, "addPrediction")
      PROVE  ScannerAlone(p) /\ run'[p].series = run[p].series /\ pc'[p] = "addPrediction"
  <2>1. /\ RunWith(p, [series |-> run[p].series, known |-> present, signal |-> run[p].signal])
        /\ pc'[p] = "addPrediction"
    BY <1>3, LookUpIs DEF Labels
  <2> QED
    BY <2>1 DEF RunWith
<1>4. ScannerAlone(p) /\ run'[p].series = run[p].series /\ pc'[p] = "addPrediction"
  BY <1>1, <1>3
<1>5. SessionAlone(p)
  BY <1>2, SameSession DEF IInv
<1>6. dialect # "sqlite" =>
         \A row \in holds[<<p, "run">>] :
            \/ row = Row("contract", Market(p))
            \/ row = Row("evidence", Input(p)) /\ pc'[p] # "addEvidence"
            \/ row = Row("prediction", Input(p)) /\ pc'[p] = "record"
  BY <1>1, <1>4 DEF LockInv, Locked, Inserting
<1> QED
  BY <1>1, <1>2, <1>4, <1>5, <1>6, InsertingLocks DEF Inserting

LEMMA InsertElsewhere ==
    ASSUME ShapeOK, NEW p \in Scanners, NEW row, NEW stored, NEW uncommitted,
           Insert(p, row, stored, uncommitted)
    PROVE  holds'[<<p, "scan">>] = holds[<<p, "scan">>]
<1>1. DOMAIN holds = Sessions /\ <<p, "scan">> \in Sessions /\ <<p, "scan">> # <<p, "run">>
  BY SessionsAre
<1>2. holds' = holds \/ \E h : holds' = [holds EXCEPT ![<<p, "run">>] = h]
  BY DEF Insert, Take
<1> QED
  BY <1>1, <1>2

LEMMA AddLocks ==
    ASSUME IInv, LockInv, NEW p \in Scanners, AddEvidence(p) \/ AddPrediction(p)
    PROVE  LockInv'
<1>1. ShapeOK /\ <<p, "run">> \in Sessions /\ <<p, "scan">> \in Sessions
  BY DEF IInv, Sessions
<1>2. tx = [q \in Scanners |-> [contracts |-> tx[q].contracts, evidence |-> tx[q].evidence,
                                 predictions |-> tx[q].predictions]]
  BY <1>1 DEF ShapeOK, SessionShape
<1>3. CASE AddEvidence(p)
  <2> DEFINE row == Row("evidence", Input(p))
             known == Input(p) \in evidence
  <2>1. /\ pc[p] = "addEvidence" /\ Goto(p, "prediction") /\ dialect' = dialect
        /\ todo' = todo /\ captured' = captured /\ run' = run /\ open' = open
        /\ Insert(p, row, known, [tx[p] EXCEPT !.evidence = {Input(p)}])
    BY <1>3 DEF AddEvidence, world
  <2>2. [tx[p] EXCEPT !.evidence = {Input(p)}]
           = [contracts |-> tx[p].contracts, evidence |-> {Input(p)},
              predictions |-> tx[p].predictions]
    BY <1>2
  <2>3. ScannerAlone(p) /\ pc'[p] = "prediction"
    BY <1>1, <2>1, GotoIs DEF Labels
  <2> HIDE DEF row, known
  <2>4. /\ SessionAlone(p)
        /\ \/ holds'[<<p, "run">>] = holds[<<p, "run">>]
           \/ holds'[<<p, "run">>] = holds[<<p, "run">>] \cup {ToWrite(row)}
    BY <2>1, <2>2, InsertIs
  <2>5. holds'[<<p, "scan">>] = holds[<<p, "scan">>]
    BY <1>1, <2>1, InsertElsewhere
  <2>6. dialect # "sqlite" =>
           \A r \in holds[<<p, "run">>] : r = Row("contract", Market(p))
    BY <2>1 DEF LockInv, Locked, Inserting, Row
  <2>7. dialect # "sqlite" =>
           \A r \in holds'[<<p, "run">>] :
              r = Row("contract", Market(p)) \/ r = Row("evidence", Input(p))
    BY <2>4, <2>6 DEF ToWrite, row
  <2> QED
    BY <2>1, <2>3, <2>4, <2>5, <2>7, InsertingLocks DEF Inserting
<1>4. CASE AddPrediction(p)
  <2> DEFINE row == Row("prediction", Input(p))
             known == Input(p) \in Predicted
  <2>1. /\ pc[p] = "addPrediction" /\ Goto(p, "record") /\ dialect' = dialect
        /\ todo' = todo /\ captured' = captured /\ run' = run /\ open' = open
        /\ Insert(p, row, known, [tx[p] EXCEPT !.predictions = {Input(p)}])
    BY <1>4 DEF AddPrediction, world
  <2>2. [tx[p] EXCEPT !.predictions = {Input(p)}]
           = [contracts |-> tx[p].contracts, evidence |-> tx[p].evidence,
              predictions |-> {Input(p)}]
    BY <1>2
  <2>3. ScannerAlone(p) /\ pc'[p] = "record"
    BY <1>1, <2>1, GotoIs DEF Labels
  <2> HIDE DEF row, known
  <2>4. /\ SessionAlone(p)
        /\ \/ holds'[<<p, "run">>] = holds[<<p, "run">>]
           \/ holds'[<<p, "run">>] = holds[<<p, "run">>] \cup {ToWrite(row)}
    BY <2>1, <2>2, InsertIs
  <2>5. holds'[<<p, "scan">>] = holds[<<p, "scan">>]
    BY <1>1, <2>1, InsertElsewhere
  <2>6. dialect # "sqlite" =>
           \A r \in holds[<<p, "run">>] :
              r = Row("contract", Market(p)) \/ r = Row("evidence", Input(p))
    BY <2>1 DEF LockInv, Locked, Inserting
  <2>7. dialect # "sqlite" =>
           \A r \in holds'[<<p, "run">>] :
              \/ r = Row("contract", Market(p)) \/ r = Row("evidence", Input(p))
              \/ r = Row("prediction", Input(p))
    BY <2>4, <2>6 DEF ToWrite, row
  <2> QED
    BY <2>1, <2>3, <2>4, <2>5, <2>7, InsertingLocks DEF Inserting
<1> QED
  BY <1>3, <1>4

LEMMA CommitRecordLocks ==
    ASSUME IInv, LockInv, NEW p \in Scanners, CommitRecord(p)
    PROVE  LockInv'
<1>1. /\ pc[p] = "record" /\ tx' = [tx EXCEPT ![p] = NoTx] /\ Release(<<p, "run">>)
      /\ Goto(p, "books") /\ dialect' = dialect /\ todo' = todo /\ captured' = captured
      /\ run' = run /\ open' = open
  BY DEF CommitRecord, world
<1>2. ShapeOK /\ LocksOK /\ <<p, "run">> \in Sessions /\ "books" \in Labels
  BY DEF IInv, Sessions, Labels
<1>3. ScannerAlone(p) /\ pc'[p] = "books"
  BY <1>1, <1>2, GotoIs
<1>4. holds'[<<p, "run">>] = {} /\ \A t \in Sessions \ {<<p, "run">>} : holds'[t] = holds[t]
  BY <1>1, <1>2, ReleaseIs
<1>5. DOMAIN tx = Scanners
  BY <1>2 DEF ShapeOK, SessionShape
<1>6. SessionAlone(p) /\ holds'[<<p, "scan">>] = holds[<<p, "scan">>]
  BY <1>1, <1>4, <1>5 DEF SessionAlone, Sessions
<1> QED
  BY <1>1, <1>3, <1>4, <1>6, InsertingLocks DEF Inserting

LEMMA PersistAcceptedLocks ==
    ASSUME IInv, LockInv, NEW p \in Scanners, PersistAccepted(p)
    PROVE  LockInv'
<1>1. /\ pc[p] = "market"
      /\ open' = [open EXCEPT ![p] = {}] /\ Release(<<p, "scan">>) /\ Goto(p, "route")
      /\ dialect' = dialect /\ todo' = todo /\ captured' = captured /\ run' = run /\ tx' = tx
  BY DEF PersistAccepted, CommitContract, world
<1>2. ShapeOK /\ LocksOK /\ <<p, "scan">> \in Sessions /\ "route" \in Labels
  BY DEF IInv, Sessions, Labels
<1>3. ScannerAlone(p) /\ pc'[p] = "route"
  BY <1>1, <1>2, GotoIs
<1>4. holds'[<<p, "scan">>] = {} /\ \A t \in Sessions \ {<<p, "scan">>} : holds'[t] = holds[t]
  BY <1>1, <1>2, ReleaseIs
<1>5. DOMAIN open = Scanners
  BY <1>2 DEF ShapeOK, SessionShape
<1>6. open'[p] = {} /\ \A q \in Scanners \ {p} : open'[q] = open[q]
  BY <1>1, <1>5
<1>7. \A q \in Scanners \ {p} : Same(q)
  BY <1>3, <1>4, <1>6 DEF Same, ScannerAlone, Sessions
<1>8. holds'[<<p, "run">>] = {}
  <2>1. holds[<<p, "run">>] = {}
    BY <1>1 DEF LockInv, Locked, Inserting
  <2> QED
    BY <1>4, <2>1 DEF Sessions
<1>9. Locked(p)'
  BY <1>3, <1>4, <1>6, <1>8 DEF Locked, Inserting
<1>10. OnTheWay(p)'
  BY <1>1, <1>6, WayStays DEF LockInv
<1> QED
  BY <1>1, <1>7, <1>9, <1>10, LocksStep

LEMMA PersistRejectedLocks ==
    ASSUME IInv, LockInv, NEW p \in Scanners, PersistRejected(p)
    PROVE  LockInv'
<1> DEFINE m == Market(p)
           row == Row("contract", m)
<1>1. /\ pc[p] = "market" /\ todo[p] # << >>
      /\ NextMarket(p) /\ dialect' = dialect /\ tx' = tx
      /\ \/ Take(<<p, "scan">>, row) /\ open' = [open EXCEPT ![p] = @ \cup {m}]
         \/ holds' = holds /\ open' = open
  BY DEF PersistRejected, world
<1>2. ShapeOK /\ LocksOK /\ <<p, "scan">> \in Sessions /\ DOMAIN open = Scanners
  BY DEF IInv, Sessions, ShapeOK, SessionShape
<1>3. ScannerAlone(p) /\ pc'[p] = "market" /\ todo'[p] = Tail(todo[p])
  <2>1. todo' = [todo EXCEPT ![p] = Tail(@)] /\ DOMAIN todo = Scanners
    BY <1>1, <1>2 DEF NextMarket, ShapeOK, ScannerShape
  <2> QED
    BY <1>1, <1>2, <2>1, NextMarketIs
<1>4. Locked(p) /\ OnTheWay(p)
  BY DEF LockInv
<1>5. holds[<<p, "run">>] = {}
  BY <1>1, <1>4 DEF Locked, Inserting
<1>6. CASE Take(<<p, "scan">>, row) /\ open' = [open EXCEPT ![p] = @ \cup {m}]
  <2>1. /\ holds'[<<p, "scan">>] = holds[<<p, "scan">>] \cup {ToWrite(row)}
        /\ \A t \in Sessions \ {<<p, "scan">>} : holds'[t] = holds[t]
    BY <1>1, <1>2, <1>6, TakeIs
  <2>2. open'[p] = open[p] \cup {m} /\ \A q \in Scanners \ {p} : open'[q] = open[q]
    BY <1>2, <1>6
  <2>3. \A q \in Scanners \ {p} : Same(q)
    BY <1>3, <2>1, <2>2 DEF Same, ScannerAlone, Sessions
  <2>4. holds'[<<p, "run">>] = {}
    BY <1>5, <2>1 DEF Sessions
  <2>5. dialect # "sqlite" => holds'[<<p, "scan">>] = {Row("contract", x) : x \in open'[p]}
    BY <1>4, <2>1, <2>2 DEF Locked, ToWrite
  <2>6. Locked(p)'
    BY <1>1, <1>3, <2>4, <2>5 DEF Locked, Inserting, Row
  <2>7. OnTheWay(p)'
    BY <1>1, <1>2, <1>3, <1>4, <2>2, WayGoesOn
  <2> QED
    BY <1>1, <2>3, <2>6, <2>7, LocksStep
<1>7. CASE holds' = holds /\ open' = open
  <2>1. \A q \in Scanners \ {p} : Same(q)
    BY <1>3, <1>7 DEF Same, ScannerAlone
  <2>2. Locked(p)'
    BY <1>1, <1>3, <1>4, <1>5, <1>7 DEF Locked, Inserting, Row
  <2>3. OnTheWay(p)'
    BY <1>1, <1>2, <1>3, <1>4, <1>7, WayGoesOn
  <2> QED
    BY <1>1, <2>1, <2>2, <2>3, LocksStep
<1> QED
  BY <1>1, <1>6, <1>7

LEMMA EndLocks ==
    ASSUME IInv, LockInv, NEW p \in Scanners, ScanDone(p) \/ ExecuteRaises(p) \/ LockTimeout(p)
    PROVE  LockInv'
<1>1. EndScan(p) /\ dialect' = dialect
  BY DEF ScanDone, ExecuteRaises, LockTimeout, world
<1>2. ShapeOK /\ LocksOK /\ DOMAIN open = Scanners /\ DOMAIN pc = Scanners
  BY DEF IInv, ShapeOK, SessionShape, ScannerShape
<1>3. Alone(p) /\ Idle(p)'
  BY <1>1, <1>2, EndScanIs
<1>4. pc'[p] = "idle" /\ open'[p] = {} /\ \A q \in Scanners \ {p} : open'[q] = open[q]
  BY <1>1, <1>2 DEF EndScan, Goto
<1>5. \A q \in Scanners \ {p} : Same(q)
  BY <1>3, <1>4 DEF Alone, Still, Same
<1>6. Locked(p)'
  BY <1>3, <1>4 DEF Idle, Locked, Inserting
<1>7. OnTheWay(p)'
  BY <1>4 DEF OnTheWay
<1> QED
  BY <1>1, <1>5, <1>6, <1>7, LocksStep

LEMMA BeginLocks ==
    ASSUME IInv, LockInv, NEW p \in Scanners, Begin(p)
    PROVE  LockInv'
<1>1. /\ pc[p] = "idle" /\ todo' = [todo EXCEPT ![p] = Discovered]
      /\ pc' = [pc EXCEPT ![p] = "market"] /\ dialect' = dialect /\ run' = run
      /\ holds' = holds /\ open' = open
  BY DEF Begin, Goto, session
<1>2. DOMAIN todo = Scanners /\ DOMAIN pc = Scanners
  BY DEF IInv, ShapeOK, ScannerShape
<1>3. /\ pc'[p] = "market" /\ todo'[p] = Discovered
      /\ \A q \in Scanners \ {p} : pc'[q] = pc[q] /\ todo'[q] = todo[q]
  BY <1>1, <1>2
<1>4. \A q \in Scanners \ {p} : Same(q)
  BY <1>1, <1>3 DEF Same
<1>5. open[p] = {} /\ holds[<<p, "scan">>] = {} /\ holds[<<p, "run">>] = {}
  BY <1>1 DEF LockInv, Locked, Inserting
<1>6. Locked(p)'
  BY <1>1, <1>3, <1>5 DEF Locked, Inserting
<1>7. OnTheWay(p)'
  <2>1. Len(Discovered) \in Nat
    BY MarketsAre
  <2>2. Place(p)' = 0
    BY <1>3, <2>1 DEF Place
  <2>3. \A i \in 1..Len(Discovered) : Discovered[i] = Discovered[0 + i]
    BY <2>1
  <2> QED
    BY <1>1, <1>3, <1>5, <2>1, <2>2, <2>3 DEF OnTheWay
<1> QED
  BY <1>1, <1>4, <1>6, <1>7, LocksStep

LEMMA CrashLocks ==
    ASSUME IInv, LockInv, Crash
    PROVE  LockInv'
<1>1. /\ pc' = [p \in Scanners |-> "idle"] /\ open' = [p \in Scanners |-> {}]
      /\ holds' = [s \in DOMAIN holds |-> {}]
  BY DEF Crash
<1>2. DOMAIN holds = Sessions
  BY SessionsAre DEF IInv
<1>3. ASSUME NEW p \in Scanners PROVE Locked(p)' /\ OnTheWay(p)'
  <2>1. /\ pc'[p] = "idle" /\ open'[p] = {}
        /\ holds'[<<p, "scan">>] = {} /\ holds'[<<p, "run">>] = {}
    BY <1>1, <1>2 DEF Sessions
  <2> QED
    BY <2>1 DEF Locked, Inserting, OnTheWay
<1> QED
  BY <1>3 DEF LockInv

LEMMA InitLocks == Init => LockInv
<1> SUFFICES ASSUME Init PROVE LockInv
  OBVIOUS
<1>1. ASSUME NEW p \in Scanners PROVE Locked(p) /\ OnTheWay(p)
  <2>1. /\ pc[p] = "idle" /\ open[p] = {}
        /\ holds[<<p, "scan">>] = {} /\ holds[<<p, "run">>] = {}
    BY DEF Init
  <2> QED
    BY <2>1 DEF Locked, Inserting, OnTheWay
<1> QED
  BY <1>1 DEF LockInv

LEMMA NextLocks == IInv /\ LockInv /\ [Next]_vars => LockInv'
<1> SUFFICES ASSUME IInv, LockInv, [Next]_vars PROVE LockInv'
  OBVIOUS
<1>1. CASE SettlementFetches \/ Tick \/ UNCHANGED vars
  <2>1. /\ dialect' = dialect /\ pc' = pc /\ todo' = todo /\ run' = run /\ open' = open
        /\ holds' = holds
    BY <1>1 DEF SettlementFetches, Tick, vars, world, scanner, session
  <2>2. \A q \in Scanners : Same(q)
    BY <2>1 DEF Same
  <2> QED
    BY <2>1, <2>2, SameKeeps DEF LockInv
<1>2. CASE Crash
  BY <1>2, CrashLocks
<1>3. ASSUME NEW p \in Scanners, Begin(p) \/ Step(p) \/ LockTimeout(p)
      PROVE  LockInv'
  <2>1. CASE Begin(p) \/ PersistAccepted(p) \/ PersistRejected(p)
    BY <2>1, BeginLocks, PersistAcceptedLocks, PersistRejectedLocks
  <2>2. CASE ScanDone(p) \/ ExecuteRaises(p) \/ LockTimeout(p)
    BY <2>2, EndLocks
  <2>3. CASE Refuse(p) \/ UseCache(p) \/ Request(p) \/ Fetched(p) \/ FetchFails(p)
    BY <2>3, SeriesLocks
  <2>4. CASE BooksFail(p) \/ Priced(p) \/ FindSignal(p) \/ AddSignal(p) \/ Execute(p)
    BY <2>4, SignalLocks
  <2>5. CASE \/ FindEvidence(p) \/ AddEvidence(p) \/ FindPrediction(p) \/ AddPrediction(p)
             \/ CommitRecord(p)
    BY <2>5, FindEvidenceLocks, FindPredictionLocks, AddLocks, CommitRecordLocks
  <2> QED
    BY <1>3, <2>1, <2>2, <2>3, <2>4, <2>5 DEF Step
<1> QED
  BY <1>1, <1>2, <1>3 DEF Next

(* SQLite: the session that has the writer lock goes on.                   *)
LEMMA WriterGoesOn ==
    ASSUME IInv, LockInv, dialect = "sqlite"
    PROVE  NoCircle
<1> SUFFICES ASSUME NEW p \in Scanners, pc[p] # "idle"
             PROVE  \E q \in Scanners : pc[q] # "idle" /\ ~Waits(q)
  BY DEF NoCircle
<1>1. DOMAIN holds = Sessions /\ LocksOK
  BY SessionsAre DEF IInv
<1>2. CASE \A s \in Sessions : Writer \notin holds[s]
  BY <1>1, <1>2 DEF Waits, Available, ToWrite
<1>3. CASE \E s \in Sessions : Writer \in holds[s]
  <2>1. PICK q \in Scanners, k \in {"scan", "run"} : Writer \in holds[<<q, k>>]
    BY <1>3 DEF Sessions
  <2>2. \A s \in Sessions \ {<<q, k>>} : Writer \notin holds[s]
    BY <1>1, <2>1 DEF LocksOK, Sessions
  <2>3. \A row : Available(<<q, k>>, row)
    BY <1>1, <2>2 DEF Available, ToWrite
  <2>4. CASE k = "scan"
    <3>1. pc[q] = "market"
      BY <2>1, <2>4 DEF LockInv, Locked
    <3> QED
      BY <2>3, <2>4, <3>1 DEF Waits
  <2>5. CASE k = "run"
    <3>1. pc[q] \in Inserting
      BY <2>1, <2>5 DEF LockInv, Locked
    <3> QED
      BY <2>3, <2>5, <3>1 DEF Waits, Inserting
  <2> QED
    BY <2>4, <2>5
<1> QED
  BY <1>2, <1>3

(* PostgreSQL: a row that cannot be had is held by a scan that inserts it  *)
(* or has written it on its way.                                           *)
LEMMA WhoHolds ==
    ASSUME IInv, LockInv, dialect # "sqlite", NEW s, NEW row, ~Available(s, row)
    PROVE  \E q \in Scanners :
              \/ pc[q] = "market" /\ \E m \in open[q] : row = Row("contract", m)
              \/ pc[q] \in Inserting /\ row = Row("contract", Market(q))
              \/ /\ pc[q] \in Inserting \ {"addEvidence"}
                 /\ row = Row("evidence", Input(q))
              \/ pc[q] = "record" /\ row = Row("prediction", Input(q))
<1>1. PICK t \in Sessions : row \in holds[t]
  BY SessionsAre DEF IInv, Available, ToWrite
<1>2. PICK q \in Scanners, k \in {"scan", "run"} : t = <<q, k>>
  BY DEF Sessions
<1>3. CASE k = "scan"
  <2>1. pc[q] = "market" /\ holds[<<q, "scan">>] = {Row("contract", m) : m \in open[q]}
    BY <1>1, <1>2, <1>3 DEF LockInv, Locked
  <2> QED
    BY <1>1, <1>2, <1>3, <2>1
<1>4. CASE k = "run"
  <2>1. pc[q] \in Inserting
    BY <1>1, <1>2, <1>4 DEF LockInv, Locked
  <2>2. \/ row = Row("contract", Market(q))
        \/ row = Row("evidence", Input(q)) /\ pc[q] # "addEvidence"
        \/ row = Row("prediction", Input(q)) /\ pc[q] = "record"
    BY <1>1, <1>2, <1>4, <2>1 DEF LockInv, Locked
  <2> QED
    BY <2>1, <2>2
<1> QED
  BY <1>3, <1>4

(* A scan that waits in its list for a contract another one holds.         *)
WaitsAt(p) ==
    /\ pc[p] = "market" /\ todo[p] # << >>
    /\ ~Available(<<p, "scan">>, Row("contract", Market(p)))

(* PostgreSQL: if everybody waits, nobody is in the transaction of         *)
(* evidence and prediction, where the last to hold a row would go on.      *)
LEMMA NobodyInserts ==
    ASSUME IInv, LockInv, dialect # "sqlite", \A q \in Scanners : pc[q] # "idle" => Waits(q),
           NEW p \in Scanners
    PROVE  pc[p] \notin Inserting
<1>1. ASSUME NEW q \in Scanners PROVE pc[q] \notin {"prediction", "record"}
  BY DEF Waits
<1>2. ASSUME NEW q \in Scanners, pc[q] = "addPrediction" PROVE FALSE
  <2>1. ~Available(<<q, "run">>, Row("prediction", Input(q)))
    BY <1>2 DEF Waits
  <2>2. PICK r \in Scanners : pc[r] = "record"
    BY <2>1, WhoHolds DEF Row
  <2> QED
    BY <1>1, <2>2
<1>3. ASSUME NEW q \in Scanners, pc[q] = "addEvidence" PROVE FALSE
  <2>1. ~Available(<<q, "run">>, Row("evidence", Input(q)))
    BY <1>3 DEF Waits
  <2>2. PICK r \in Scanners : pc[r] \in Inserting \ {"addEvidence"}
    BY <2>1, WhoHolds DEF Row
  <2> QED
    BY <1>1, <1>2, <2>2 DEF Inserting
<1> QED
  BY <1>1, <1>2, <1>3 DEF Inserting

(* PostgreSQL: if everybody waits, a contract somebody waits for is held   *)
(* by a scan that has written it on its way and waits in its list.         *)
LEMMA WhoWaits ==
    ASSUME IInv, LockInv, dialect # "sqlite", \A q \in Scanners : pc[q] # "idle" => Waits(q)
    PROVE  /\ \A s, m : ~Available(s, Row("contract", m)) =>
                 \E q \in Scanners : WaitsAt(q) /\ m \in open[q]
           /\ \A p \in Scanners : pc[p] # "idle" =>
                 \E s, m : ~Available(s, Row("contract", m))
<1>1. ASSUME NEW s, NEW m, ~Available(s, Row("contract", m))
      PROVE  \E q \in Scanners : WaitsAt(q) /\ m \in open[q]
  <2>1. PICK q \in Scanners : pc[q] = "market" /\ m \in open[q]
    BY <1>1, NobodyInserts, WhoHolds DEF Row
  <2>2. WaitsAt(q)
    BY <2>1 DEF Waits, WaitsAt
  <2> QED
    BY <2>1, <2>2
<1>2. ASSUME NEW s, NEW fingerprint PROVE Available(s, Row("signal", fingerprint))
  BY WhoHolds DEF Row
<1>3. ASSUME NEW p \in Scanners, pc[p] # "idle" PROVE \E s, m : ~Available(s, Row("contract", m))
  <2>1. pc[p] \notin {"addEvidence", "addPrediction"}
    BY NobodyInserts DEF Inserting
  <2>2. \/ ~Available(<<p, "scan">>, Row("contract", Market(p)))
        \/ ~Available(<<p, "run">>, Row("contract", Market(p)))
    BY <1>2, <1>3, <2>1 DEF Waits
  <2> QED
    BY <2>2
<1> QED
  BY <1>1, <1>3

(* PostgreSQL: of those that wait for a contract, the one that is furthest *)
(* on its list waits for nobody that waits.                                *)
LEMMA FurthestGoesOn ==
    ASSUME IInv, LockInv, dialect # "sqlite"
    PROVE  NoCircle
<1> SUFFICES ASSUME NEW p \in Scanners, pc[p] # "idle",
                    \A q \in Scanners : pc[q] # "idle" => Waits(q)
             PROVE  FALSE
  BY DEF NoCircle
<1>1. ASSUME NEW s, NEW m, ~Available(s, Row("contract", m))
      PROVE  \E q \in Scanners : WaitsAt(q) /\ m \in open[q]
  BY <1>1, WhoWaits
<1>2. PICK first \in Scanners : WaitsAt(first)
  BY <1>1, WhoWaits
<1>4. ASSUME NEW q \in Scanners, WaitsAt(q)
      PROVE  /\ Place(q) + 1 \in 1..Len(Discovered) /\ Place(q) \in 0..Len(Discovered)
             /\ Market(q) = Discovered[Place(q) + 1]
  <2>1. /\ todo[q] \in Seq(Markets) /\ Discovered \in Seq(Markets) /\ todo[q] # << >>
        /\ OnTheWay(q) /\ pc[q] # "idle"
    BY <1>4, MarketsAre DEF IInv, ShapeOK, ScannerShape, WaitsAt, LockInv
  <2>2. /\ Len(todo[q]) \in Nat \ {0} /\ Len(Discovered) \in Nat /\ Market(q) = todo[q][1]
    BY <2>1 DEF Market
  <2>3. /\ Len(todo[q]) <= Len(Discovered)
        /\ \A i \in 1..Len(todo[q]) : todo[q][i] = Discovered[Place(q) + i]
    BY <2>1 DEF OnTheWay
  <2>4. 1 \in 1..Len(todo[q])
    BY <2>2
  <2>5. Market(q) = Discovered[Place(q) + 1]
    BY <2>2, <2>3, <2>4
  <2>6. Place(q) + 1 \in 1..Len(Discovered) /\ Place(q) \in 0..Len(Discovered)
    BY <2>2, <2>3 DEF Place
  <2> QED
    BY <2>5, <2>6
<1> DEFINE Places == {n \in 0..Len(Discovered) : \E q \in Scanners : WaitsAt(q) /\ n = Place(q)}
<1>5. IsFiniteSet(Places) /\ Places \in SUBSET Int /\ Places # {}
  <2>1. Len(Discovered) \in Nat /\ Place(first) \in Places
    BY <1>2, <1>4, MarketsAre
  <2>2. IsFiniteSet(0..Len(Discovered)) /\ Places \subseteq 0..Len(Discovered)
    BY <2>1, FS_Interval
  <2> HIDE DEF Places
  <2>3. IsFiniteSet(Places)
    BY <2>2, FS_Subset
  <2>4. Places \in SUBSET Int
    BY <2>2
  <2> QED
    BY <2>1, <2>3, <2>4
<1>6. PICK n \in Places : \A k \in Places : k <= n
  <2> HIDE DEF Places
  <2> QED
    BY <1>5, FiniteMax
<1>7. PICK q \in Scanners : WaitsAt(q) /\ n = Place(q)
  OBVIOUS
<1> DEFINE m == Market(q)
<1>8. PICK r \in Scanners : WaitsAt(r) /\ m \in open[r]
  BY <1>1, <1>7 DEF WaitsAt
<1>9. Place(r) \in Places
  BY <1>4, <1>8
<1>10. PICK i \in 1..Place(r) : m = Discovered[i]
  <2>1. pc[r] # "idle"
    BY <1>8 DEF WaitsAt
  <2> QED
    BY <1>8, <2>1 DEF LockInv, OnTheWay
<1>11. m = Discovered[n + 1] /\ n + 1 \in 1..Len(Discovered)
  BY <1>4, <1>7
<1>12. i <= n /\ i \in 1..Len(Discovered) /\ n \in Int
  <2>1. Place(r) <= n /\ Place(r) \in 0..Len(Discovered) /\ n \in Int /\ Len(Discovered) \in Nat
    BY <1>4, <1>5, <1>6, <1>8, <1>9, MarketsAre
  <2> HIDE DEF Places, m
  <2> QED
    BY <1>10, <2>1
<1>13. \A j, k \in 1..Len(Discovered) : Discovered[j] = Discovered[k] => j = k
  <2>1. DOMAIN Discovered = 1..Len(Discovered)
    BY MarketsAre
  <2> QED
    BY <2>1, PipelineAssumption
<1>14. i = n + 1
  <2> HIDE DEF Places, m
  <2> QED
    BY <1>10, <1>11, <1>12, <1>13
<1> QED
  BY <1>12, <1>14

(* Scans never wait in a circle, on SQLite for the writer lock nor on      *)
(* PostgreSQL for rows, though what one accepts another may be rejecting:  *)
(* whoever runs the pipeline has committed its contracts first, and the    *)
(* rejected ones are written in the order of the list                      *)
(* (services/application.py, scan_markets), in which a market is once.     *)
(* This is the part of ScansGoOn that the provers can state; that whoever  *)
(* does not wait has a step is TLC's.                                      *)
THEOREM NobodyWaitsInACircle == Spec => []NoCircle
<1>1. Spec => []LockInv
  BY InitLocks, NextLocks, Invariance, PTL DEF Spec
<1>2. IInv /\ LockInv => NoCircle
  BY WriterGoesOn, FurthestGoesOn
<1> QED
  BY <1>1, <1>2, Invariance, PTL
====
