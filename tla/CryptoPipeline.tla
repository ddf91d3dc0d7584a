---- MODULE CryptoPipeline ----
(***************************************************************************)
(* The crypto scan: scan_markets records the contract of every market it   *)
(* is given and runs the pipeline on the accepted crypto ones              *)
(* (services/application.py, services/crypto_pipeline.py), which records   *)
(* the evidence and the prediction, prices the two tokens and stores a     *)
(* signal, or a rejection, and executes the signal on paper                *)
(* (PaperLifecycle).                                                       *)
(*                                                                         *)
(* The scans are tasks of one process, which share its candle cache with   *)
(* the settlement job; processes with caches of their own never share a    *)
(* fingerprint below that of a contract, since the time a series is        *)
(* retrieved is part of every one.  A scan has two sessions: its own,      *)
(* which holds what it has not committed yet, and the pipeline's.          *)
(***************************************************************************)
EXTENDS CryptoSignal

CONSTANTS Scanners, Dialects,
          Discovered,    \* the markets of a scan, in order
          MarketOf,      \* what a market says
          Listings,      \* each the set of the markets the registry rejects, as
                         \* a listing has them
          BookPairs,     \* the answers of the order book provider but for
                         \* their times, {} for none
          CacheTtl,
          MaxClock, MaxScans, MaxFailures, MaxCrashes  \* bounds

CONSTANT None

ASSUME PipelineAssumption ==
    /\ Dialects \subseteq {"sqlite", "postgresql"}
    /\ Discovered \in Seq(DOMAIN MarketOf)
    /\ \A i, j \in DOMAIN Discovered : Discovered[i] = Discovered[j] => i = j
    /\ Listings \subseteq SUBSET DOMAIN MarketOf
    /\ \A m \in DOMAIN MarketOf : LET c == MarketOf[m] IN
          /\ c.public \in BOOLEAN /\ c.metadata \in BOOLEAN
          /\ c.expiry \in Int /\ c.minimum \in Nat \ {0}
          /\ c.outcomes \in {<<"YES", "NO">>, <<"NO", "YES">>}
    /\ \A books \in BookPairs : \A side \in DOMAIN books : LET book == books[side] IN
          /\ book.asks \in Seq(Nat \X Nat) /\ book.minimum \in Nat /\ book.tick \in Nat
    /\ None \notin {"unsupported_public_source", "expired_contract", "market_metadata_mismatch"}
    /\ CacheTtl \in Nat /\ MaxClock \in Nat /\ MaxScans \in Nat
    /\ MaxFailures \in Nat /\ MaxCrashes \in Nat

VARIABLES dialect, clock, crashes,
          failures,  \* answers that failed
          scans,     \* scans begun
          cache,     \* the series last fetched, or None
          pc,        \* where each scanner is
          todo,      \* markets its scan has left
          captured,  \* the time its scan began
          rejects,   \* the markets its listing makes the registry reject
          run,       \* what the pipeline has got for the market
          holds,     \* the locks of each session, <<scanner, "scan" or "run">>
          tx,        \* what the pipeline's session has not committed
          open,      \* rejected contracts written, not yet committed
          (* ------------------------------------------------------------- *)
          contracts, \* accepted, per market recorded
          evidence,  \* EvidenceSnapshot rows, by fingerprint
          features,  \* PredictionFeature rows of each PredictionRun
          signals, rejections, decisions

scanner == <<pc, todo, captured, rejects, run>>
session == <<holds, tx, open>>
outcomes == <<evidence, features, signals, rejections, decisions>>
rows == <<contracts, outcomes>>
world == <<dialect, clock, crashes, failures, scans>>
vars == <<world, cache, scanner, session, rows>>

Goto(p, label) == pc' = [pc EXCEPT ![p] = label]

NoRun == [series |-> None, known |-> FALSE, signal |-> None]
NoTx == [contracts |-> {}, evidence |-> {}, predictions |-> {}]

(* Nothing has been recorded yet.                                          *)
Init ==
    /\ dialect \in Dialects /\ clock = 0 /\ crashes = 0 /\ failures = 0 /\ scans = 0
    /\ cache = None
    /\ pc = [p \in Scanners |-> "idle"] /\ todo = [p \in Scanners |-> << >>]
    /\ captured = [p \in Scanners |-> 0] /\ rejects = [p \in Scanners |-> {}]
    /\ run = [p \in Scanners |-> NoRun]
    /\ holds = [s \in Scanners \X {"scan", "run"} |-> {}]
    /\ tx = [p \in Scanners |-> NoTx] /\ open = [p \in Scanners |-> {}]
    /\ contracts = << >> /\ evidence = {} /\ features = << >>
    /\ signals = {} /\ rejections = {} /\ decisions = {}

Market(p) == Head(todo[p])
Contract(p) == MarketOf[Market(p)]

-----------------------------------------------------------------------------
(* Sessions                                                                *)

Writer == <<"writer", None>>
Row(kind, key) == <<kind, key>>

(* What a write to this row locks.                                         *)
ToWrite(row) == IF dialect = "sqlite" THEN Writer ELSE row

Available(s, row) == \A other \in DOMAIN holds \ {s} : ToWrite(row) \notin holds[other]

Take(s, row) ==
    /\ Available(s, row)
    /\ holds' = [holds EXCEPT ![s] = @ \cup {ToWrite(row)}]

Release(s) == holds' = [holds EXCEPT ![s] = {}]

NextMarket(p) ==
    /\ todo' = [todo EXCEPT ![p] = Tail(@)]
    /\ run' = [run EXCEPT ![p] = NoRun]
    /\ Goto(p, "market")
    /\ UNCHANGED <<captured, rejects>>

(* Faulty: an exception leaves the sessions open.                          *)
KeepLocks(p) ==
    /\ Goto(p, "idle")
    /\ todo' = [todo EXCEPT ![p] = << >>]
    /\ captured' = [captured EXCEPT ![p] = 0]
    /\ rejects' = [rejects EXCEPT ![p] = {}]
    /\ run' = [run EXCEPT ![p] = NoRun]
    /\ UNCHANGED session

(* The scan returns or raises: what is not committed is lost.              *)
EndScan(p) ==
    /\ Goto(p, "idle")
    /\ todo' = [todo EXCEPT ![p] = << >>]
    /\ captured' = [captured EXCEPT ![p] = 0]
    /\ rejects' = [rejects EXCEPT ![p] = {}]
    /\ run' = [run EXCEPT ![p] = NoRun]
    /\ tx' = [tx EXCEPT ![p] = NoTx]
    /\ open' = [open EXCEPT ![p] = {}]
    /\ holds' = [s \in DOMAIN holds |-> IF s[1] = p THEN {} ELSE holds[s]]

-----------------------------------------------------------------------------
(* scan_markets                                                            *)

(* scheduled_crypto_scan, once the markets are discovered.                 *)
Begin(p) ==
    /\ pc[p] = "idle" /\ scans < MaxScans
    /\ scans' = scans + 1
    /\ captured' = [captured EXCEPT ![p] = clock]
    /\ \E listing \in Listings : rejects' = [rejects EXCEPT ![p] = listing]
    /\ todo' = [todo EXCEPT ![p] = Discovered]
    /\ Goto(p, "market")
    /\ UNCHANGED <<dialect, clock, crashes, failures, cache, run, session, rows>>

(* persist_domain_contract writes a row that is new or changed; one that   *)
(* another session has just inserted is read again and updated.            *)
ContractChanges(m, verdict) == m \notin DOMAIN contracts \/ contracts[m] # verdict

Recorded(ms, verdict) ==
    [m \in ms \cup DOMAIN contracts |-> IF m \in ms THEN verdict ELSE contracts[m]]

(* Faulty: the session is not committed before the pipeline runs.          *)
FlushOnly(p, m) ==
    /\ Take(<<p, "scan">>, Row("contract", m))
    /\ UNCHANGED <<contracts, open>>

(* The contract is committed with the rejected ones before it, so that no  *)
(* lock is held while the pipeline runs.                                   *)
CommitContract(p, m) ==
    /\ ContractChanges(m, TRUE) => Available(<<p, "scan">>, Row("contract", m))
    /\ contracts' = [Recorded(open[p] \cup {m}, FALSE) EXCEPT ![m] = TRUE]
    /\ open' = [open EXCEPT ![p] = {}]
    /\ Release(<<p, "scan">>)

PersistAccepted(p) ==
    /\ pc[p] = "market" /\ todo[p] # << >> /\ Market(p) \notin rejects[p]
    /\ CommitContract(p, Market(p))
    /\ Goto(p, "route")
    /\ UNCHANGED <<world, cache, todo, captured, rejects, run, tx, outcomes>>

(* A contract the registry rejects is written but not committed yet.       *)
PersistRejected(p) ==
    /\ pc[p] = "market" /\ todo[p] # << >> /\ Market(p) \in rejects[p]
    /\ IF ContractChanges(Market(p), FALSE)
       THEN /\ Take(<<p, "scan">>, Row("contract", Market(p)))
            /\ open' = [open EXCEPT ![p] = @ \cup {Market(p)}]
       ELSE UNCHANGED <<holds, open>>
    /\ NextMarket(p)
    /\ UNCHANGED <<world, cache, tx, contracts, outcomes>>

ScanDone(p) ==
    /\ pc[p] = "market" /\ todo[p] = << >>
    /\ contracts' = Recorded(open[p], FALSE)
    /\ EndScan(p)
    /\ UNCHANGED <<world, cache, outcomes>>

-----------------------------------------------------------------------------
(* run: the contract and the series                                        *)

(* What run refuses before it asks for data; _gamma_market is abstracted   *)
(* to whether the metadata is sound.                                       *)
Refusal(c, now) ==
    CASE ~c.public                     -> "unsupported_public_source"
      [] c.public /\ c.expiry <= now   -> "expired_contract"
      [] OTHER                         -> IF c.metadata THEN None ELSE "market_metadata_mismatch"

(* What the fingerprint of a rejection is made of.                         *)
Rejection(m, series, books, why) ==
    [input |-> [market |-> m, series |-> series], books |-> books, reasons |-> why]

(* _reject_contract, in one transaction; the copy of the route made for an *)
(* unsupported source is not accepted.                                     *)
RejectContract(p, why) ==
    LET m == Market(p)
        verdict == why # "unsupported_public_source"
        rejection == Rejection(m, None, None, {why})
    IN  /\ ContractChanges(m, verdict) => Available(<<p, "run">>, Row("contract", m))
        /\ rejection \notin rejections => Available(<<p, "run">>, Row("rejection", rejection))
        /\ contracts' = Recorded({m}, verdict)
        /\ rejections' = rejections \cup {rejection}
        /\ NextMarket(p)
        /\ UNCHANGED <<session, evidence, features, signals, decisions>>

Refuse(p) ==
    /\ pc[p] = "route" /\ Refusal(Contract(p), captured[p]) # None
    /\ RejectContract(p, Refusal(Contract(p), captured[p]))
    /\ UNCHANGED <<world, cache>>

(* The age of the cached series is taken from the time the scan began: a   *)
(* series fetched later, by the settlement job or by another scan, counts  *)
(* as fresh.                                                               *)
CacheValid(now) == cache # None /\ now - cache.at < CacheTtl

GotSeries(p, series) ==
    IF HorizonSupported(Contract(p), series.latest)
    THEN /\ run' = [run EXCEPT ![p].series = series]
         /\ Goto(p, "evidence")
         /\ UNCHANGED <<todo, captured, rejects, session, rows>>
    ELSE RejectContract(p, "unsupported_horizon")

UseCache(p) ==
    /\ pc[p] = "route" /\ Refusal(Contract(p), captured[p]) = None /\ CacheValid(captured[p])
    /\ GotSeries(p, cache)
    /\ UNCHANGED <<world, cache>>

Request(p) ==
    /\ pc[p] = "route" /\ Refusal(Contract(p), captured[p]) = None /\ ~CacheValid(captured[p])
    /\ Goto(p, "fetch")
    /\ UNCHANGED <<world, cache, todo, captured, rejects, run, session, rows>>

(* A response holds the candles so far, the open one included.             *)
Response == [k \in {j \in DOMAIN Closes : (j - 1) * Interval <= clock} |-> Closes[k]]

SeriesAt(now) == [at |-> now, latest |-> LastOf(Complete(Response, now)), raw |-> clock]

(* normalize_candles judges the response by the time the scan began, and   *)
(* refuses one with a candle that opened since.                            *)
Fetched(p) ==
    /\ pc[p] = "fetch"
    /\ IF Normalized(Response, captured[p])
       THEN /\ cache' = SeriesAt(captured[p])
            /\ GotSeries(p, SeriesAt(captured[p]))
       ELSE /\ RejectContract(p, "market_data_invalid")
            /\ UNCHANGED cache
    /\ UNCHANGED <<world>>

FetchFails(p) ==
    /\ pc[p] = "fetch" /\ failures < MaxFailures
    /\ RejectContract(p, "market_data_unavailable")
    /\ failures' = failures + 1
    /\ UNCHANGED <<dialect, clock, crashes, scans, cache>>

-----------------------------------------------------------------------------
(* run: the evidence and the prediction, in one transaction                *)

(* The fingerprints of the evidence and of the prediction's input: all     *)
(* else in them follows from the market and the series.                    *)
Input(p) == [market |-> Market(p), series |-> run[p].series]

(* Every get-or-insert is a lookup, here, and an insert under a savepoint. *)
LookUp(p, present, next) ==
    /\ run' = [run EXCEPT ![p].known = present]
    /\ Goto(p, next)
    /\ UNCHANGED <<world, cache, todo, captured, rejects, session, rows>>

(* At the head of the transaction the contract is accepted again if a scan *)
(* with another listing has come to reject it.                             *)
FindEvidence(p) ==
    /\ pc[p] = "evidence"
    /\ IF ContractChanges(Market(p), TRUE)
       THEN /\ Take(<<p, "run">>, Row("contract", Market(p)))
            /\ tx' = [tx EXCEPT ![p].contracts = {Market(p)}]
       ELSE UNCHANGED <<holds, tx>>
    /\ run' = [run EXCEPT ![p].known = Input(p) \in evidence]
    /\ Goto(p, "addEvidence")
    /\ UNCHANGED <<world, cache, todo, captured, rejects, open, rows>>

(* The insert waits for another one of the same key; when that has been    *)
(* committed, the row is read after all.                                   *)
Insert(p, row, stored, uncommitted) ==
    IF run[p].known
    THEN UNCHANGED <<holds, tx>>
    ELSE /\ Available(<<p, "run">>, row)
         /\ IF stored THEN UNCHANGED <<holds, tx>>
            ELSE /\ Take(<<p, "run">>, row)
                 /\ tx' = [tx EXCEPT ![p] = uncommitted]

AddEvidence(p) ==
    /\ pc[p] = "addEvidence"
    /\ Insert(p, Row("evidence", Input(p)), Input(p) \in evidence,
              [tx[p] EXCEPT !.evidence = {Input(p)}])
    /\ Goto(p, "prediction")
    /\ UNCHANGED <<world, cache, todo, captured, rejects, run, open, rows>>

Predicted == DOMAIN features

FindPrediction(p) ==
    /\ pc[p] = "prediction"
    /\ LookUp(p, Input(p) \in Predicted, "addPrediction")

AddPrediction(p) ==
    /\ pc[p] = "addPrediction"
    /\ Insert(p, Row("prediction", Input(p)), Input(p) \in Predicted,
              [tx[p] EXCEPT !.predictions = {Input(p)}])
    /\ Goto(p, "record")
    /\ UNCHANGED <<world, cache, todo, captured, rejects, run, open, rows>>

(* Faulty: whoever wanted the prediction adds the two features.            *)
AddedByAll(p) == {Input(p)}

(* Only the session that inserted the prediction adds its features.        *)
AddsFeatures(p) == tx[p].predictions

CommitRecord(p) ==
    /\ pc[p] = "record"
    /\ contracts' = Recorded(tx[p].contracts, TRUE)
    /\ evidence' = evidence \cup tx[p].evidence
    /\ features' = [i \in Predicted \cup tx[p].predictions |->
                      (IF i \in Predicted THEN features[i] ELSE 0)
                          + (IF i \in AddsFeatures(p) THEN 2 ELSE 0)]
    /\ tx' = [tx EXCEPT ![p] = NoTx]
    /\ Release(<<p, "run">>)
    /\ Goto(p, "books")
    /\ UNCHANGED <<world, cache, todo, captured, rejects, run, open, signals, rejections, decisions>>

-----------------------------------------------------------------------------
(* run: the books, and the signal or the rejection                         *)

(* _reject_signal, in one transaction: an insert that clashes reads again. *)
RejectSignal(p, books, why) ==
    LET rejection == Rejection(Market(p), run[p].series, books, why)
    IN  /\ rejection \notin rejections => Available(<<p, "run">>, Row("rejection", rejection))
        /\ rejections' = rejections \cup {rejection}
        /\ NextMarket(p)

BooksFail(p) ==
    /\ pc[p] = "books" /\ failures < MaxFailures
    /\ RejectSignal(p, None, {"order_book_unavailable"})
    /\ failures' = failures + 1
    /\ UNCHANGED <<dialect, clock, crashes, scans, cache, session, contracts, evidence,
                   features, signals, decisions>>

(* The candidate chosen, for each market, newest candle and pair of books. *)
ChosenOf ==
    [m \in DOMAIN MarketOf |-> [k \in DOMAIN Paths |-> [books \in BookPairs |->
        IF Matched(MarketOf[m], books)
        THEN Chosen(MarketOf[m], Estimate(MarketOf[m], k), books) ELSE None]]]

(* The books bear a time up to that of the answer, and are judged by the   *)
(* time the scan began.                                                    *)
Priced(p) ==
    /\ pc[p] = "books"
    /\ \E books \in BookPairs, time \in 0..clock :
       LET chosen == ChosenOf[Market(p)][run[p].series.latest][books]
           why == IF chosen = None THEN {"order_book_mismatch"}
                  ELSE SignalReasons(Contract(p), books, time, chosen, captured[p])
       IN  IF why # {}
           THEN RejectSignal(p, <<books, time>>, why)
           ELSE /\ run' = [run EXCEPT ![p].signal = [input |-> Input(p), books |-> books,
                                                     time |-> time, side |-> chosen.side]]
                /\ Goto(p, "signal")
                /\ UNCHANGED <<todo, captured, rejects, rejections>>
    /\ UNCHANGED <<world, cache, session, contracts, evidence, features, signals, decisions>>

Stored(fingerprint) == \E s \in signals : s.fingerprint = fingerprint

FindSignal(p) ==
    /\ pc[p] = "signal"
    /\ LookUp(p, Stored(run[p].signal), IF Stored(run[p].signal) THEN "execute" ELSE "addSignal")

(* _accept_signal, up to its commit.                                       *)
AddSignal(p) ==
    /\ pc[p] = "addSignal"
    /\ Available(<<p, "run">>, Row("signal", run[p].signal))
    /\ signals' = IF Stored(run[p].signal) THEN signals
                  ELSE signals \cup {[fingerprint |-> run[p].signal, at |-> captured[p]]}
    /\ Goto(p, "execute")
    /\ UNCHANGED <<world, cache, todo, captured, rejects, run, session, contracts, evidence,
                   features, rejections, decisions>>

(* Faulty: the times of the evidence are not looked at.                    *)
AnyEvidence(i, now) == TRUE

EvidenceUsable(i, now) ==
    LET newest == i.series.latest * Interval IN
    i.series.at <= now /\ newest <= now /\ (i.series.at - newest) + (now - i.series.at) <= Freshness

(* _eligibility_reasons; the prediction bears the time of its evidence.    *)
Eligible(s, now) ==
    LET i == s.fingerprint.input
    IN  /\ contracts[i.market] /\ MarketOf[i.market].expiry > now
        /\ s.at <= now /\ (s.at - s.fingerprint.time) + (now - s.at) <= BookFreshness
        /\ EvidenceUsable(i, now)

Decided(fingerprint) == \E d \in decisions : d.signal.fingerprint = fingerprint

(* execute_signal, at the time the scan began; an existing decision is     *)
(* returned, and the pause or the sizing may refuse an eligible signal.    *)
Execute(p) ==
    /\ pc[p] = "execute" /\ Available(<<p, "paper">>, Row("signal", run[p].signal))
    /\ \E s \in signals, allowed \in BOOLEAN :
          /\ s.fingerprint = run[p].signal
          /\ decisions' = IF Decided(s.fingerprint) THEN decisions
                          ELSE decisions \cup {[signal |-> s, now |-> captured[p],
                                                approved |-> allowed /\ Eligible(s, captured[p])]}
    /\ NextMarket(p)
    /\ UNCHANGED <<world, cache, session, contracts, evidence, features, signals, rejections>>

(* The exception ends the scan; the signal stays without a decision until  *)
(* a scan finds the same series and the same books.                        *)
ExecuteRaises(p) ==
    /\ pc[p] = "execute" /\ failures < MaxFailures
    /\ failures' = failures + 1
    /\ EndScan(p)
    /\ UNCHANGED <<dialect, clock, crashes, scans, cache, rows>>

-----------------------------------------------------------------------------
(* Around the scans                                                        *)

Step(p) ==
    \/ PersistAccepted(p) \/ PersistRejected(p) \/ ScanDone(p)
    \/ Refuse(p) \/ UseCache(p) \/ Request(p) \/ Fetched(p) \/ FetchFails(p)
    \/ FindEvidence(p) \/ AddEvidence(p) \/ FindPrediction(p) \/ AddPrediction(p)
    \/ CommitRecord(p) \/ BooksFail(p) \/ Priced(p) \/ FindSignal(p) \/ AddSignal(p)
    \/ Execute(p) \/ ExecuteRaises(p)

Writes == {"market", "route", "fetch", "evidence", "addEvidence", "addPrediction", "books",
           "addSignal", "execute"}

(* SQLite gives up on a lock another session holds too long.               *)
LockTimeout(p) ==
    /\ dialect = "sqlite" /\ pc[p] \in Writes
    /\ \E s \in DOMAIN holds : s[1] # p /\ Writer \in holds[s]
    /\ EndScan(p)
    /\ UNCHANGED <<world, cache, rows>>

(* The settlement job fetches the same series, at a time of its own.       *)
SettlementFetches ==
    /\ ~CacheValid(clock) /\ Normalized(Response, clock)
    /\ cache' = SeriesAt(clock)
    /\ UNCHANGED <<world, scanner, session, rows>>

(* The process dies, and its cache and its transactions with it.           *)
Crash ==
    /\ crashes < MaxCrashes /\ \E p \in Scanners : pc[p] # "idle"
    /\ crashes' = crashes + 1
    /\ cache' = None
    /\ pc' = [p \in Scanners |-> "idle"] /\ todo' = [p \in Scanners |-> << >>]
    /\ captured' = [p \in Scanners |-> 0] /\ rejects' = [p \in Scanners |-> {}]
    /\ run' = [p \in Scanners |-> NoRun]
    /\ holds' = [s \in DOMAIN holds |-> {}] /\ tx' = [p \in Scanners |-> NoTx]
    /\ open' = [p \in Scanners |-> {}]
    /\ UNCHANGED <<dialect, clock, failures, scans, rows>>

Tick ==
    /\ clock < MaxClock
    /\ clock' = clock + 1
    /\ UNCHANGED <<dialect, crashes, failures, scans, cache, scanner, session, rows>>

Next ==
    \/ \E p \in Scanners : Begin(p) \/ Step(p) \/ LockTimeout(p)
    \/ SettlementFetches \/ Crash \/ Tick

Spec == Init /\ [][Next]_vars

-----------------------------------------------------------------------------
(* Properties                                                              *)

Markets == ToSet(Discovered)

(* Every variable has its type.                                            *)
TypeOK ==
    /\ \A p \in Scanners : pc[p] = "idle" => run[p] = NoRun /\ todo[p] = << >> /\ tx[p] = NoTx
    /\ \A p \in Scanners : rejects[p] \in Listings \cup {{}}
    /\ \A s \in DOMAIN holds : pc[s[1]] = "idle" => holds[s] = {}
    /\ DOMAIN contracts \subseteq Markets
    /\ \A i \in evidence : i.market \in Markets /\ i.series.at \in 0..MaxClock
    /\ \A i \in DOMAIN features : features[i] \in Nat
    /\ \A s \in signals : s.at \in 0..MaxClock
    /\ dialect = "sqlite" => Cardinality({s \in DOMAIN holds : holds[s] # {}}) <= 1

(* Whatever races, failures and crashes there were, what a signal was      *)
(* derived from is all on record: its evidence, a prediction with its two  *)
(* features once, and the contract, which need not be accepted any more.   *)
Provenance ==
    /\ Predicted \subseteq evidence
    /\ \A i \in Predicted : features[i] = 2
    /\ \A s, t \in signals : s.fingerprint = t.fingerprint => s = t
    /\ \A s \in signals : LET i == s.fingerprint.input IN
          i \in Predicted /\ i.market \in DOMAIN contracts

(* What the minimum order leaves of the probability, times its size.       *)
EdgeOf ==
    [m \in DOMAIN MarketOf |-> [k \in DOMAIN Paths |-> [books \in BookPairs |->
     [side \in {"YES", "NO"} |->
        LET c == MarketOf[m]
            cost == ExecutionCost(books[side], c.minimum)
        IN  IF cost = Refused THEN -One ELSE c.minimum * Chance(side, Estimate(c, k)) - cost]]]]

(* An entry is justified by what was known at the time it is dated: the    *)
(* books, the candles and the signal are not from later, though the scan   *)
(* takes its time and its cache may be newer than itself; and the cost of  *)
(* the whole minimum order leaves the edge the settings demand.            *)
EntryJustified ==
    \A d \in decisions :
       LET f == d.signal.fingerprint
           m == f.input.market
           series == f.input.series
       IN  d.approved =>
              /\ d.signal.at <= d.now /\ f.time <= d.now
              /\ series.at <= d.now /\ series.latest * Interval <= d.now
              /\ d.now < MarketOf[m].expiry
              /\ EdgeOf[m][series.latest][f.books][f.side]
                    >= MarketOf[m].minimum * (MinEdge + Costs)

(* Another session holds what the scan needs to go on.                     *)
Waits(p) ==
    \/ /\ pc[p] = "market" /\ todo[p] # << >>
       /\ ContractChanges(Market(p), Market(p) \notin rejects[p])
       /\ ~Available(<<p, "scan">>, Row("contract", Market(p)))
    \/ pc[p] \in {"route", "fetch"} /\ ~Available(<<p, "run">>, Row("contract", Market(p)))
    \/ /\ pc[p] = "evidence" /\ ContractChanges(Market(p), TRUE)
       /\ ~Available(<<p, "run">>, Row("contract", Market(p)))
    \/ pc[p] = "addEvidence" /\ ~Available(<<p, "run">>, Row("evidence", Input(p)))
    \/ pc[p] = "addPrediction" /\ ~Available(<<p, "run">>, Row("prediction", Input(p)))
    \/ pc[p] \in {"books", "addSignal"} /\ ~Available(<<p, "run">>, Row("signal", run[p].signal))
    \/ pc[p] = "execute" /\ ~Available(<<p, "paper">>, Row("signal", run[p].signal))

NoCircle == (\E p \in Scanners : pc[p] # "idle") => \E p \in Scanners : pc[p] # "idle" /\ ~Waits(p)

(* Scans never wait for each other in a circle, nor one for a lock that    *)
(* its own other session holds; and nothing but a lock keeps a scan from   *)
(* its next step.                                                          *)
ScansGoOn ==
    /\ NoCircle
    /\ \A p \in Scanners : pc[p] # "idle" /\ ~Waits(p) => ENABLED Step(p)
====
