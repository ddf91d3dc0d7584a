---- MODULE Settlement ----
(***************************************************************************)
(* How due positions get their evidence (services/settlement.py,           *)
(* SettlementWorker in paper.py) from what the other jobs of main.py leave *)
(* behind: the observations ingested for the weather markets, and the      *)
(* candle series that the crypto scan of the same process shares through   *)
(* the cache of crypto_data.py.  Settling itself, its rows and its locks   *)
(* are PaperLifecycle's; here a settlement keeps what it was based on.     *)
(*                                                                         *)
(* A process runs one settlement job and one ingest job at a time.  The    *)
(* weather contracts are of one station and one day.  Time passes in       *)
(* hours of that day, of which a candle lasts Interval.                    *)
(***************************************************************************)
EXTENDS WeatherDay, CryptoCandles

CONSTANTS Settlers,     \* processes whose settlement and scan jobs are followed
          Ingesters,    \* processes whose ingest jobs are followed
          Portfolios,   \* sequences of positions that may be open, by id
          ContractOf,   \* ContractOf[p]: domain, expiry, and what decides it
          Edited,       \* positions whose market may come to be rejected by a scan
          Prices, Moves,      \* bound: hours in which the price may change
          Readings, Late,     \* what the station may report, and of which hours late
          Limit,        \* candles in a response
          CacheTtl,     \* age up to which a cached series is used
          BlendHours, MinObservations,
          MaxClock, MaxCrashes  \* bounds

ASSUME SettlementAssumption ==
    /\ \A p \in DOMAIN ContractOf :
          LET c == ContractOf[p] IN
          /\ c.domain \in {"weather", "crypto"} /\ c.expiry \in Nat
          /\ c.domain = "crypto" =>
                /\ c.comparison \in {"above", "below", "up", "down"} /\ c.inclusive \in BOOLEAN
                /\ c.reference \in Nat /\ c.increment \in Nat \ {0}
          /\ c.domain = "weather" =>
                /\ c.method \in Methods /\ c.start \in Int /\ c.end \in Int
                /\ c.start..c.end - 1 \subseteq DOMAIN Readings
    /\ \A p, q \in DOMAIN ContractOf :
          ContractOf[p].domain = "weather" /\ ContractOf[q].domain = "weather" =>
             ContractOf[p].start = ContractOf[q].start /\ ContractOf[p].end = ContractOf[q].end
    /\ Portfolios \subseteq Seq(DOMAIN ContractOf) /\ Edited \subseteq DOMAIN ContractOf
    /\ Prices \subseteq Nat \ {0}
    /\ DOMAIN Readings \subseteq Nat /\ \A h \in DOMAIN Readings : Readings[h] \subseteq Int
    /\ Limit \in Nat \ {0} /\ CacheTtl \in Nat /\ MaxClock \in Nat /\ MaxCrashes \in Nat
    /\ None \notin [value : Int, rows : {<< >>} \cup [DOMAIN Readings -> Seq(Int)],
                    seen : SUBSET Int]

VARIABLES clock,
          price,        \* the price of the open candle
          closes,       \* closes[k]: the closing price of candle k
          cache,        \* each process: its cached series
          rows,         \* the stored observations
          ingest,       \* each process: what its ingest job is about to store
          pc, due,      \* each process: its settlement job, the positions it has
                        \* left by their place in positions,
          asked,        \* when it asked a source,
          evidence,     \* and what it is to settle with
          positions,    \* the positions, by id
          accepted,     \* positions whose contract is accepted
          settled,      \* settled[p]: the outcome and what decided it, or None
          blended,      \* temperatures that scans have put into forecasts
          crashes

market == <<price, closes>>
stored == <<rows, blended>>
job == <<pc, due, asked, evidence>>
vars == <<clock, market, cache, stored, ingest, job, positions, accepted, settled, crashes>>

Weather == {p \in ToSet(positions) : ContractOf[p].domain = "weather"}
Crypto == {p \in ToSet(positions) : ContractOf[p].domain = "crypto"}

Goto(w, label) == pc' = [pc EXCEPT ![w] = label]

Init ==
    /\ clock = 0
    /\ price \in Prices /\ closes = << >>
    /\ cache = [w \in Settlers |-> None]
    /\ rows = [h \in DOMAIN Readings |-> << >>]
    /\ ingest = [w \in Ingesters |-> None]
    /\ pc = [w \in Settlers |-> "idle"]
    /\ due = [w \in Settlers |-> {}]
    /\ asked = [w \in Settlers |-> 0]
    /\ evidence = [w \in Settlers |-> None]
    /\ positions \in Portfolios
    /\ accepted = DOMAIN ContractOf
    /\ settled = [p \in DOMAIN ContractOf |-> None]
    /\ blended = {}
    /\ crashes = 0

-----------------------------------------------------------------------------
(* The world: time and prices                                              *)

Tick ==
    /\ clock < MaxClock
    /\ clock' = clock + 1
    /\ \E last \in (IF clock \in Moves /\ Crypto # {} THEN Prices ELSE {price}) :
          /\ price' = last
          /\ closes' = IF clock' % Interval = 0 THEN Append(closes, last) ELSE closes
    /\ UNCHANGED <<cache, stored, ingest, job, positions, accepted, settled, crashes>>

(* What a source answers now: the last candles, the open one among them.   *)
Response ==
    LET open == Len(closes) + 1
        first == IF open > Limit THEN open - Limit + 1 ELSE 1
    IN  [k \in first..open |-> IF k = open THEN price ELSE closes[k]]

-----------------------------------------------------------------------------
(* fetch_series, called by the settlement job and by the crypto scan       *)

Cached(w, now) == cache[w] # None /\ now - cache[w].at < CacheTtl

Series(now) == [at |-> now, response |-> Response]

(* A scan takes its time once and may wait before it fetches; a candle     *)
(* that began in between is refused as one of the future.  Without a       *)
(* crypto position to settle nothing here depends on it.                   *)
ScanFetches(w) ==
    \E now \in {clock, clock - 1} \cap Nat :
       /\ Crypto # {} /\ ~Cached(w, now) /\ Normalized(Response, now)
       /\ cache' = [cache EXCEPT ![w] = Series(now)]
       /\ UNCHANGED <<clock, market, stored, ingest, job, positions, accepted, settled, crashes>>

-----------------------------------------------------------------------------
(* scheduled_observation_ingest and ingest_observations                    *)

(* Until an hour after the local day of some contract.                     *)
IngestOpen ==
    \E p \in Weather :
       /\ ContractOf[p].expiry - clock <= BlendHours
       /\ clock <= ContractOf[p].end + 1

(* A reading may be corrected later, and late ones missing.                *)
Reports ==
    LET past == {h \in DOMAIN Readings : h <= clock}
    IN  {got \in UNION {[hours -> UNION {Readings[h] : h \in past}] : hours \in {past, past \ Late}} :
            \A h \in DOMAIN got : got[h] \in Readings[h]}

(* The hours already stored are looked up; no constraint refuses those     *)
(* that another process stores before the commit.                          *)
IngestReads(w) ==
    /\ ingest[w] = None /\ IngestOpen
    /\ \E got \in Reports :
          LET fresh == {h \in DOMAIN got : rows[h] = << >>}
          IN  /\ fresh # {}
              /\ ingest' = [ingest EXCEPT ![w] = [h \in fresh |-> got[h]]]
    /\ UNCHANGED <<clock, market, cache, stored, job, positions, accepted, settled, crashes>>

IngestCommits(w) ==
    /\ ingest[w] # None
    /\ rows' = [h \in DOMAIN rows |->
                  IF h \in DOMAIN ingest[w] THEN Append(rows[h], ingest[w][h]) ELSE rows[h]]
    /\ ingest' = [ingest EXCEPT ![w] = None]
    /\ UNCHANGED <<clock, market, cache, blended, job, positions, accepted, settled, crashes>>

(* The blend of a weather scan.                                            *)
Blend ==
    \E p \in Weather :
       LET c == ContractOf[p]
           applied == {h \in DayHours(rows, c) : h <= clock}
       IN  /\ c.expiry - clock <= BlendHours
           /\ Cardinality(applied) >= MinObservations
           /\ blended' = blended \cup BlendedPast(rows, c, clock)
           /\ UNCHANGED <<clock, market, cache, rows, ingest, job, positions, accepted, settled, crashes>>

(* A scan that finds the market edited writes the contract of the position *)
(* again, as accepted or not.                                              *)
Rescan ==
    /\ \E p \in Edited \cap ToSet(positions) :
          accepted' \in {accepted \cup {p}, accepted \ {p}}
    /\ UNCHANGED <<clock, market, cache, stored, ingest, job, positions, settled, crashes>>

-----------------------------------------------------------------------------
(* run_due and ProductionSettlementFetcher                                 *)

(* In order of their ids.                                                  *)
First(w) == Earliest(due[w])
Current(w) == positions[First(w)]

RunDue(w) ==
    /\ pc[w] = "idle"
    /\ due' = [due EXCEPT ![w] =
                 {i \in DOMAIN positions : /\ settled[positions[i]] = None
                                          /\ ContractOf[positions[i]].expiry <= clock}]
    /\ due'[w] # {}
    /\ Goto(w, "fetch")
    /\ UNCHANGED <<clock, market, cache, stored, ingest, asked, evidence, positions, accepted, settled, crashes>>

(* Faulty: an error ends the run.                                          *)
StopRun(w) ==
    /\ due' = [due EXCEPT ![w] = {}]
    /\ Goto(w, "idle")

(* Faulty: the last position is not taken off the list.                    *)
KeepLast(w) ==
    /\ due' = [due EXCEPT ![w] = IF @ = {First(w)} THEN @ ELSE @ \ {First(w)}]
    /\ Goto(w, IF due[w] = {First(w)} THEN "idle" ELSE "fetch")

(* A position settled or refused, the run goes on with the next.           *)
Continue(w) ==
    /\ due' = [due EXCEPT ![w] = @ \ {First(w)}]
    /\ Goto(w, IF due[w] = {First(w)} THEN "idle" ELSE "fetch")

Failed(w) == Continue(w)

(* Faulty: the open candle of a series from before the expiry will do.     *)
AnyTime(c, retrieved) == TRUE

Timely(c, retrieved) == retrieved >= c.expiry

(* The candles of a series, as evidence or as an error.                    *)
CryptoEvidence(w, series) ==
    LET c == ContractOf[Current(w)]
        value == ClosingPrice(series.response, c.expiry)
    IN  IF value # Refused /\ Timely(c, series.at)
        THEN /\ evidence' = [evidence EXCEPT ![w] = [value |-> value, rows |-> << >>, seen |-> {}]]
             /\ Goto(w, "settle")
             /\ UNCHANGED due
        ELSE /\ Failed(w)
             /\ UNCHANGED evidence

FetchCrypto(w) ==
    /\ pc[w] = "fetch" /\ Current(w) \in Crypto
    /\ IF Cached(w, clock)
       THEN /\ CryptoEvidence(w, cache[w])
            /\ UNCHANGED asked
       ELSE /\ asked' = [asked EXCEPT ![w] = clock]
            /\ Goto(w, "request")
            /\ UNCHANGED <<due, evidence>>
    /\ UNCHANGED <<clock, market, cache, stored, ingest, positions, accepted, settled, crashes>>

SourceAnswers(w) ==
    /\ pc[w] = "request" /\ Normalized(Response, asked[w])
    /\ cache' = [cache EXCEPT ![w] = Series(asked[w])]
    /\ CryptoEvidence(w, Series(asked[w]))
    /\ asked' = [asked EXCEPT ![w] = 0]
    /\ UNCHANGED <<clock, market, stored, ingest, positions, accepted, settled, crashes>>

(* The source fails, or what it answers is refused.                        *)
SourceFails(w) ==
    /\ pc[w] = "request"
    /\ Failed(w)
    /\ asked' = [asked EXCEPT ![w] = 0]
    /\ UNCHANGED <<clock, market, cache, stored, ingest, evidence, positions, accepted, settled, crashes>>

FetchWeather(w) ==
    /\ pc[w] = "fetch" /\ Current(w) \in Weather
    /\ LET c == ContractOf[Current(w)]
           hours == DayHours(rows, c)
       IN  IF clock >= c.end /\ hours # {} /\ BucketOf(c.buckets, EvidenceDegrees(rows, c)) # None
           THEN /\ evidence' = [evidence EXCEPT ![w] =
                                  [value |-> EvidenceDegrees(rows, c), rows |-> rows,
                                   seen |-> blended]]
                /\ Goto(w, "settle")
                /\ UNCHANGED due
           ELSE /\ Failed(w)
                /\ UNCHANGED evidence
    /\ UNCHANGED <<clock, market, cache, stored, ingest, asked, positions, accepted, settled, crashes>>

CryptoOutcome(c, value) == IF ResolvedYes(c, value) THEN "YES" ELSE "NO"

Outcome(p, e) ==
    IF p \in Weather THEN WeatherOutcome(e.rows, ContractOf[p], e.value)
                     ELSE CryptoOutcome(ContractOf[p], e.value)

(* settle_position: a position settled meanwhile answers with its          *)
(* settlement or a conflict; a contract that is not accepted any more and  *)
(* evidence without an outcome are refused.                                *)
Settle(w) ==
    /\ pc[w] = "settle"
    /\ LET p == Current(w)
           outcome == Outcome(p, evidence[w])
       IN  IF settled[p] # None \/ p \notin accepted \/ outcome = None
           THEN /\ Failed(w)
                /\ UNCHANGED settled
           ELSE /\ settled' = [settled EXCEPT ![p] = [outcome |-> outcome, value |-> evidence[w].value,
                                                      seen |-> evidence[w].seen]]
                /\ Continue(w)
    /\ evidence' = [evidence EXCEPT ![w] = None]
    /\ UNCHANGED <<clock, market, cache, stored, ingest, asked, positions, accepted, crashes>>

(* Of a process that dies its jobs and its cache are gone.                 *)
SettlerDies(w) ==
    /\ crashes < MaxCrashes
    /\ crashes' = crashes + 1
    /\ cache' = [cache EXCEPT ![w] = None]
    /\ due' = [due EXCEPT ![w] = {}]
    /\ evidence' = [evidence EXCEPT ![w] = None]
    /\ asked' = [asked EXCEPT ![w] = 0]
    /\ Goto(w, "idle")
    /\ UNCHANGED <<clock, market, stored, ingest, positions, accepted, settled>>

IngesterDies(w) ==
    /\ crashes < MaxCrashes /\ ingest[w] # None
    /\ crashes' = crashes + 1
    /\ ingest' = [ingest EXCEPT ![w] = None]
    /\ UNCHANGED <<clock, market, cache, stored, job, positions, accepted, settled>>

Work(w) == RunDue(w) \/ FetchCrypto(w) \/ SourceFails(w) \/ FetchWeather(w) \/ Settle(w)

Next ==
    \/ Tick \/ Blend \/ Rescan
    \/ \E w \in Settlers :
          ScanFetches(w) \/ Work(w) \/ SourceAnswers(w) \/ SettlerDies(w)
    \/ \E w \in Ingesters : IngestReads(w) \/ IngestCommits(w) \/ IngesterDies(w)

(* Time passes, the scheduler runs its jobs, and a source that is asked    *)
(* again and again answers in the end.                                     *)
Spec ==
    /\ Init /\ [][Next]_vars
    /\ WF_vars(Tick)
    /\ \A w \in Settlers : WF_vars(Work(w)) /\ SF_vars(SourceAnswers(w))

-----------------------------------------------------------------------------
(* Properties                                                              *)

Temperatures == UNION {Readings[h] : h \in DOMAIN Readings}

(* Every variable has its type.                                            *)
TypeOK ==
    /\ clock \in 0..MaxClock /\ price \in Prices
    /\ Len(closes) = clock \div Interval /\ ToSet(closes) \subseteq Prices
    /\ \A h \in DOMAIN rows : ToSet(rows[h]) \subseteq Readings[h]
    /\ \A w \in Settlers :
          /\ (pc[w] = "idle") = (due[w] = {})
          /\ pc[w] = "settle" => evidence[w] # None
    /\ \A p \in ToSet(positions) : settled[p] # None => settled[p].outcome \in {"YES", "NO"}
    /\ blended \subseteq Temperatures /\ DOMAIN ContractOf \ accepted \subseteq Edited

(* A crypto position is settled at the final price of its last candle and  *)
(* for the event the model priced, whatever the age of the series that a   *)
(* scan left in the cache, which still holds that candle open.             *)
FinalClose ==
    \A p \in Crypto : settled[p] # None =>
        LET c == ContractOf[p] IN
        /\ c.expiry <= clock
        /\ settled[p].value = closes[c.expiry \div Interval]
        /\ (settled[p].outcome = "YES") = EventHit(c, closes[c.expiry \div Interval])

(* A weather position never settles below a temperature that the forecast  *)
(* behind a signal took for observed, however late readings come, are      *)
(* corrected or are stored twice.                                          *)
BlendsSettled ==
    \A p \in Weather : settled[p] # None =>
        \A t \in settled[p].seen :
           RoundTemperature(t, ContractOf[p].method) <= settled[p].value

(* The evidence for this position would do: its last candle is still in    *)
(* what the source returns, or its day is covered.                         *)
Provable(p) ==
    LET c == ContractOf[p] IN
    /\ p \in ToSet(positions) /\ c.expiry <= clock
    /\ p \in Crypto =>
          c.expiry % Interval = 0 /\ c.expiry \div Interval \in DOMAIN Response
    /\ p \in Weather =>
          /\ clock >= c.end /\ DayHours(rows, c) # {}
          /\ WeatherOutcome(rows, c, EvidenceDegrees(rows, c)) # None

(* A position whose evidence is there while its contract stays accepted    *)
(* gets settled, though other positions keep failing, the contracts of     *)
(* others are rejected, the cache holds a series from before the expiry,   *)
(* and processes restart.                                                  *)
DueSettles ==
    \A p \in DOMAIN ContractOf :
        []<>(Provable(p) /\ p \in accepted => settled[p] # None)

(* docs/superpowers/specs/2026-08-06-forecastfoundry-completion-design.md: *)
(* 62: ingest_observations "upserts into the existing `observations`       *)
(* table", so that an hour of a station is there once.                     *)
ObservedOnce == \A h \in DOMAIN rows : Len(rows[h]) <= 1
====
