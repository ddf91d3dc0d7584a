---- MODULE WeatherScan ----
(***************************************************************************)
(* The weather scan (worker.py): scan_once discovers the temperature       *)
(* events, and writes each in a session that stays open across the calls   *)
(* to the order book and forecast providers.  A market that passes the     *)
(* policy becomes a signal, which is committed, executed on paper in       *)
(* another session (PaperLifecycle) and alerted.                           *)
(*                                                                         *)
(* One scheduler runs one scan at a time; two of them (main.py starts one  *)
(* in every process unless told otherwise) scan concurrently.  What a      *)
(* session has not committed is in tx and is lost when the scan raises or  *)
(* its process dies.  SQLite has one writer lock, taken by the first       *)
(* write, and gives up waiting for it after a while; PostgreSQL locks the  *)
(* rows written.  ProviderError rows, which no service reads, are left out. *)
(***************************************************************************)
EXTENDS WeatherModel, SequencesExt, Bags

CONSTANTS Scanners, Dialects,
          Discovered,    \* the ids discover_temperature_events returns, in order
          EventOf,       \* what an event says: its route, markets, end
          MarketOf,      \* what a market says
          Asks,          \* best asks an order book may show
          Forecasts,     \* daily maxima a model may forecast
          Samples,       \* samples the settled signals may hold
          Balance,       \* the paper balance the policy compares with
          BlendHours, MinObservations,
          Telegram,      \* an alert channel is configured
          MaxRetries,    \* of a request, after its first attempt
          Crashes,       \* processes may die
          MaxScans, MaxClock  \* bounds

(* What calibrations may store.                                            *)
WeightTables ==
    UNION {[models -> 0..Unit] : models \in SUBSET UNION {DOMAIN samples : samples \in Samples}}

ASSUME WeatherScanAssumption ==
    /\ Dialects \subseteq {"sqlite", "postgresql"}
    /\ Discovered \in Seq(DOMAIN EventOf)
    /\ \A e \in DOMAIN EventOf : EventOf[e].markets \in Seq(DOMAIN MarketOf)
    /\ \A i \in DOMAIN Discovered :
          EventOf[Discovered[i]].route \in {"other", "rejected", "accepted"}
    /\ \A m \in DOMAIN MarketOf : MarketOf[m].bucket \in DOMAIN Buckets
    /\ Forecasts \subseteq Seq(Int \cup {Missing})
    /\ \A samples \in Samples :
          /\ IsFiniteSet(DOMAIN samples)
          /\ \A m \in DOMAIN samples : samples[m] \in Seq([probability: 0..One, won: BOOLEAN])
    /\ None \notin {"event", "contract"} \X (DOMAIN EventOf \cup DOMAIN MarketOf)
    /\ None \notin [n: Nat, now: Nat, todo: Seq(DOMAIN EventOf), weights: WeightTables]
    /\ BlendHours \in Nat /\ MinObservations \in Nat
    /\ MaxClock \in Nat /\ MaxScans \in Nat /\ MaxRetries \in Nat
    /\ Telegram \in BOOLEAN /\ Crashes \in BOOLEAN

VARIABLES dialect, clock,
          pc,        \* where each scanner is
          scan,      \* its scan: number, now, events left, weights
          tx,        \* what its session has read and not yet committed
          holds,     \* the locks of its session
          scans,     \* scans begun
          (* ------------------------------------------------------------- *)
          events,    \* events recorded with their markets, outcomes and rules
          contracts, \* markets with a DomainContract row
          estimates, rejections, signals,
          observed,  \* the hours of the day ingested so far
          weights,   \* the stored model weights
          decided,   \* signals with a paper decision
          alerted,   \* signals with alerted_at
          (* ------------------------------------------------------------- *)
          sent,      \* the bag of the alerts delivered
          cut        \* scans that raised or died

session == <<pc, scan, tx, holds>>
written == <<events, contracts, estimates, rejections, signals>>
others == <<observed, weights, decided, alerted>>
seen == <<sent, cut>>
vars == <<dialect, clock, session, scans, written, others, seen>>

Goto(p, label) == pc' = [pc EXCEPT ![p] = label]

NoRows == [events |-> {}, contracts |-> {}, estimates |-> {},
           rejections |-> {}, signals |-> {}]
NoTx == [known |-> FALSE, books |-> FALSE, plan |-> None, todo |-> << >>, signal |-> None,
         tries |-> 0, rows |-> NoRows]

(* The events that scans have recorded before, if there were any.          *)
Recordable == {e \in ToSet(Discovered) : EventOf[e].route # "other" /\ EventOf[e].wellFormed}

Init ==
    /\ dialect \in Dialects /\ clock = 0
    /\ pc = [p \in Scanners |-> "idle"]
    /\ scan = [p \in Scanners |-> None]
    /\ tx = [p \in Scanners |-> NoTx]
    /\ holds = [p \in Scanners |-> {}]
    /\ scans = 0
    /\ events \in {{}, Recordable}
    /\ contracts = UNION {ToSet(EventOf[e].markets) : e \in {d \in events : EventOf[d].route = "accepted"}}
    /\ estimates = {} /\ rejections = {} /\ signals = {}
    /\ observed = {} /\ weights = << >>
    /\ decided = {} /\ alerted = {}
    /\ sent = EmptyBag /\ cut = {}

-----------------------------------------------------------------------------
(* Sessions                                                                *)

Writer == <<"writer", None>>
EventRow(e) == <<"event", e>>
ContractKey(m) == <<"contract", m>>
FingerprintKey(fp) == <<"fingerprint", fp>>

(* What a write to this row locks.                                         *)
ToWrite(row) == IF dialect = "sqlite" THEN Writer ELSE row

Available(p, row) == \A q \in Scanners \ {p} : ToWrite(row) \notin holds[q]

Take(p, row) ==
    /\ Available(p, row)
    /\ holds' = [holds EXCEPT ![p] = @ \cup {ToWrite(row)}]

(* The other session that execute_signal opens needs a lock.               *)
CanWriteElsewhere(row) == \A q \in Scanners : ToWrite(row) \notin holds[q]

Release(p) == holds' = [holds EXCEPT ![p] = {}]

WriteRows(rows) ==
    /\ events' = events \cup rows.events
    /\ contracts' = contracts \cup rows.contracts
    /\ estimates' = estimates \cup rows.estimates
    /\ rejections' = rejections \cup rows.rejections
    /\ signals' = signals \cup rows.signals

EndScan(p) ==
    /\ Goto(p, "idle")
    /\ scan' = [scan EXCEPT ![p] = None]
    /\ tx' = [tx EXCEPT ![p] = NoTx]
    /\ Release(p)

(* The exception leaves scan_once: nothing more of this scan is written.   *)
Raise(p) ==
    /\ EndScan(p)
    /\ cut' = cut \cup {scan[p].n}
    /\ UNCHANGED <<dialect, clock, scans, written, others, sent>>

-----------------------------------------------------------------------------
(* scan_once                                                               *)

Begin(p) ==
    /\ pc[p] = "idle" /\ scans < MaxScans
    /\ scans' = scans + 1
    /\ scan' = [scan EXCEPT ![p] = [n |-> scans + 1, now |-> clock, todo |-> << >>,
                                    weights |-> << >>]]
    /\ Goto(p, "discover")
    /\ UNCHANGED <<dialect, clock, tx, holds, written, others, seen>>

DiscoverFails(p) ==
    /\ pc[p] = "discover" /\ Available(p, None)
    /\ EndScan(p)
    /\ UNCHANGED <<dialect, clock, scans, written, others, seen>>

Discover(p) ==
    /\ pc[p] = "discover"
    /\ scan' = [scan EXCEPT ![p].todo = Discovered, ![p].weights = weights]
    /\ Goto(p, "event")
    /\ UNCHANGED <<dialect, clock, tx, holds, scans, written, others, seen>>

NextEvent(p) ==
    /\ pc[p] = "event" /\ scan[p].todo # << >>
    /\ LET e == Head(scan[p].todo) IN
       IF EventOf[e].route = "other"
       THEN /\ scan' = [scan EXCEPT ![p].todo = Tail(@)]
            /\ UNCHANGED <<pc, tx>>
       ELSE /\ tx' = [tx EXCEPT ![p] = [NoTx EXCEPT !.known = e \in events,
                                                    !.todo = EventOf[e].markets]]
            /\ Goto(p, "upsert")
            /\ UNCHANGED scan
    /\ UNCHANGED <<dialect, clock, holds, scans, written, others, seen>>

ScanDone(p) ==
    /\ pc[p] = "event" /\ scan[p].todo = << >>
    /\ EndScan(p)
    /\ UNCHANGED <<dialect, clock, scans, written, others, seen>>

(* The row was absent when it was looked up and has been inserted since.   *)
InsertClash(p, e) == ~tx[p].known /\ e \in events

(* zip(strict=True) or the missing YES outcome raises ValueError.          *)
Malformed(e) == ~EventOf[e].wellFormed

RejectAll(p, e) == {<<scan[p].n, m, "route">> : m \in ToSet(EventOf[e].markets)}

WithEvent(rows, e, refusals) == [rows EXCEPT !.events = {e}, !.rejections = refusals]

UpsertFails(p) ==
    /\ pc[p] = "upsert"
    /\ LET e == Head(scan[p].todo) IN
       /\ Available(p, EventRow(e))
       /\ InsertClash(p, e) \/ Malformed(e)
    /\ Raise(p)

(* An event seen before is written only if it changed.                     *)
Upsert(p) ==
    /\ pc[p] = "upsert"
    /\ LET e == Head(scan[p].todo)
           rejected == EventOf[e].route = "rejected"
       IN  /\ ~InsertClash(p, e) /\ ~Malformed(e)
           /\ \/ Take(p, EventRow(e))
              \/ tx[p].known /\ UNCHANGED holds
           /\ tx' = [tx EXCEPT
                 ![p].rows = WithEvent(@, e, IF rejected THEN RejectAll(p, e) ELSE {}),
                 ![p].todo = IF rejected THEN << >> ELSE @]
           /\ Goto(p, IF rejected THEN "market" ELSE "books")
    /\ UNCHANGED <<dialect, clock, scan, scans, written, others, seen>>

(* get_order_books fails, or returns the books looked up below.            *)
GetBooks(p) ==
    /\ pc[p] = "books"
    /\ \E books \in BOOLEAN : tx' = [tx EXCEPT ![p].books = books]
    /\ Goto(p, "forecast")
    /\ UNCHANGED <<dialect, clock, scan, holds, scans, written, others, seen>>

-----------------------------------------------------------------------------
(* Forecasts and the blend with the day's observations                     *)

WithinBlend(p, e) == EventOf[e].ends - scan[p].now <= BlendHours

(* Observations ingested since the scan began are later than its now.      *)
Applied(p) == {hour \in observed : hour <= scan[p].now}

Blended(p, e) == WithinBlend(p, e) /\ Cardinality(Applied(p)) >= MinObservations

Answers == UNION {[answered -> Forecasts] : answered \in SUBSET Models}

Weighted(fs, p) == ~NoWeight(fs, scan[p].weights)

(* fs holds the daily maxima of the points, the blended ones when the      *)
(* observations apply.                                                     *)
Forecast(p) ==
    /\ pc[p] = "forecast"
    /\ \E fs \in Answers :
       LET e == Head(scan[p].todo) IN
       /\ Weighted(fs, p)
       /\ tx' = [tx EXCEPT ![p].plan =
                  [probability |-> [l \in DOMAIN Buckets |->
                                       Probability(fs, scan[p].weights, l)],
                   members |-> MemberCount(fs),
                   window |-> WithinBlend(p, e), blended |-> Blended(p, e)]]
    /\ Goto(p, "market")
    /\ UNCHANGED <<dialect, clock, scan, holds, scans, written, others, seen>>

(* "model weights must have a positive sum" ends the scan.                 *)
ForecastRaises(p) ==
    /\ pc[p] = "forecast"
    /\ \E fs \in Answers : ~Weighted(fs, p)
    /\ Raise(p)

-----------------------------------------------------------------------------
(* One market                                                              *)

Candidate(p, m, ask) ==
    LET e == Head(scan[p].todo) IN
    [active |-> MarketOf[m].active, closes |-> MarketOf[m].closes, at |-> scan[p].now,
     confidence |-> EventOf[e].confidence, ask |-> ask, spread |-> MarketOf[m].spread,
     liquidity |-> MarketOf[m].liquidity, minimum |-> MarketOf[m].minimum, balance |-> Balance,
     probability |-> tx[p].plan.probability[MarketOf[m].bucket],
     members |-> tx[p].plan.members, window |-> tx[p].plan.window,
     blended |-> tx[p].plan.blended]

(* The edge follows from the other two.                                    *)
Fingerprint(m, c) == <<m, c.probability, c.ask>>

Stored(fp) == \E s \in signals : s.fingerprint = fp

Duplicate(p, fp) == Stored(fp) \/ \E s \in tx[p].rows.signals : s.fingerprint = fp

(* The book of the YES token, if it was among the answers.                 *)
Book(p, ask) == ask = Missing \/ tx[p].books

(* Faulty: a duplicate is passed over silently.                            *)
NoVerdict(p, m, why) == {}

Verdict(p, m, why) == {<<scan[p].n, m, why>>}

WithEstimate(rows, n, m) ==
    [rows EXCEPT !.contracts = @ \cup {m}, !.estimates = @ \cup {<<n, m>>}]

WithReason(rows, refusals) == [rows EXCEPT !.rejections = @ \cup refusals]

(* The contract and the estimate are written whatever becomes of the       *)
(* market.                                                                 *)
Evaluate(p) ==
    /\ pc[p] = "market" /\ tx[p].todo # << >>
    /\ \E ask \in Asks \cup {Missing} :
       LET m == Head(tx[p].todo)
           c == Candidate(p, m, ask)
           refused == Reasons(c) # {}
           why == IF refused THEN "policy" ELSE "duplicate_signal"
           rows == WithEstimate(tx[p].rows, scan[p].n, m)
       IN  /\ Book(p, ask)
           /\ IF dialect = "sqlite" \/ m \notin contracts THEN Take(p, ContractKey(m))
                                                          ELSE UNCHANGED holds
           /\ IF refused \/ Duplicate(p, Fingerprint(m, c))
              THEN /\ tx' = [tx EXCEPT ![p].rows = WithReason(rows, Verdict(p, m, why)),
                                      ![p].todo = Tail(@)]
                   /\ UNCHANGED pc
              ELSE /\ tx' = [tx EXCEPT ![p].rows = rows, ![p].signal = Fingerprint(m, c)]
                   /\ Goto(p, "insert")
    /\ UNCHANGED <<dialect, clock, scan, scans, written, others, seen>>

(* Faulty: signals.fingerprint is not unique.                              *)
NotUnique(fp) == FALSE

FingerprintTaken(fp) == Stored(fp)

(* The flush of the signal meets the unique fingerprint.                   *)
InsertFails(p) ==
    /\ pc[p] = "insert"
    /\ Available(p, FingerprintKey(tx[p].signal)) /\ FingerprintTaken(tx[p].signal)
    /\ Raise(p)

(* Faulty: the session is not committed before the signal is executed.     *)
FlushSignal(p, rows) ==
    /\ Take(p, FingerprintKey(tx[p].signal))
    /\ tx' = [tx EXCEPT ![p].rows = rows]
    /\ UNCHANGED written

(* The signal is flushed and all the session has written is committed.     *)
CommitSignal(p, rows) ==
    /\ Available(p, FingerprintKey(tx[p].signal))
    /\ WriteRows(rows)
    /\ tx' = [tx EXCEPT ![p].rows = NoRows]
    /\ Release(p)

(* Faulty: the alert goes out before the signal is executed.               *)
AlertNext == "alert"

ExecuteNext == "execute"

InsertSignal(p) ==
    /\ pc[p] = "insert" /\ ~FingerprintTaken(tx[p].signal)
    /\ LET signal == [fingerprint |-> tx[p].signal, scan |-> scan[p].n] IN
       CommitSignal(p, [tx[p].rows EXCEPT !.signals = @ \cup {signal}])
    /\ Goto(p, ExecuteNext)
    /\ UNCHANGED <<dialect, clock, scan, scans, others, seen>>

(* execute_signal decides the signal in a session of its own, or raises.   *)
Execute(p) ==
    /\ pc[p] = "execute" /\ CanWriteElsewhere(None)
    /\ decided' = decided \cup {tx[p].signal}
    /\ Goto(p, "alert")
    /\ UNCHANGED <<dialect, clock, scan, tx, holds, scans, written, observed, weights, alerted,
                   seen>>

(* The signal is done with, and its market.                                *)
NextMarket(p) ==
    /\ tx' = [tx EXCEPT ![p].todo = Tail(@), ![p].signal = None, ![p].tries = 0]
    /\ Goto(p, "market")

(* Faulty: a failed execution is passed over and the scan goes on.         *)
ExecuteSkipped(p) ==
    /\ pc[p] = "execute" /\ CanWriteElsewhere(None)
    /\ NextMarket(p)
    /\ UNCHANGED <<dialect, clock, scan, holds, scans, written, others, seen>>

ExecuteRaises(p) ==
    /\ pc[p] = "execute" /\ CanWriteElsewhere(None)
    /\ Raise(p)

Deliver(p) == sent' = sent (+) SetToBag({tx[p].signal})

(* send_signal posts through request_json: an attempt it makes again, or   *)
(* gives up after, may have been delivered all the same.                   *)
AttemptFails(p) ==
    /\ pc[p] = "alert" /\ Telegram /\ tx[p].tries <= MaxRetries
    /\ Deliver(p) \/ UNCHANGED sent
    /\ tx' = [tx EXCEPT ![p].tries = @ + 1]
    /\ UNCHANGED <<dialect, clock, pc, scan, holds, scans, written, others, cut>>

Alert(p) ==
    /\ pc[p] = "alert"
    /\ IF Telegram
       THEN /\ tx[p].tries <= MaxRetries
            /\ Deliver(p)
            /\ Goto(p, "mark") /\ UNCHANGED tx
       ELSE NextMarket(p) /\ UNCHANGED sent
    /\ UNCHANGED <<dialect, clock, scan, holds, scans, written, others, cut>>

(* The retries are used up, the answer is invalid or the circuit is open.  *)
AlertRaises(p) ==
    /\ pc[p] = "alert" /\ Telegram
    /\ Raise(p)

MarkAlerted(p) ==
    /\ pc[p] = "mark" /\ Available(p, None)
    /\ alerted' = alerted \cup {tx[p].signal}
    /\ NextMarket(p)
    /\ UNCHANGED <<dialect, clock, scan, holds, scans, written, observed, weights, decided, seen>>

EndEvent(p) ==
    /\ pc[p] = "market" /\ tx[p].todo = << >> /\ Available(p, None)
    /\ WriteRows(tx[p].rows)
    /\ tx' = [tx EXCEPT ![p] = NoTx]
    /\ scan' = [scan EXCEPT ![p].todo = Tail(@)]
    /\ Release(p)
    /\ Goto(p, "event")
    /\ UNCHANGED <<dialect, clock, scans, others, seen>>

-----------------------------------------------------------------------------
(* Around the scans                                                        *)

(* SQLite gives up on a lock another session holds too long.               *)
LockTimeout(p) ==
    /\ dialect = "sqlite" /\ pc[p] \in {"discover", "upsert", "market", "execute", "mark"}
    /\ \E q \in Scanners \ {p} : Writer \in holds[q]
    /\ Raise(p)

Crash(p) ==
    /\ Crashes /\ pc[p] # "idle"
    /\ EndScan(p)
    /\ cut' = cut \cup {scan[p].n}
    /\ UNCHANGED <<dialect, clock, scans, written, others, sent>>

(* run_calibration after a settlement job.  What no scan within MaxScans    *)
(* can read any more is left out here and in Tick.                         *)
Calibrate ==
    /\ scans < MaxScans
    /\ \E samples \in Samples :
          LET promoted == ComputeWeights(samples) IN
          promoted # Missing /\ weights' = promoted
    /\ UNCHANGED <<dialect, clock, session, scans, written, observed, decided, alerted, seen>>

(* An hour passes, and its observation may have been ingested.             *)
Tick ==
    /\ scans < MaxScans /\ clock < MaxClock
    /\ clock' = clock + 1
    /\ observed' \in {observed, observed \cup {clock + 1}}
    /\ UNCHANGED <<dialect, session, scans, written, weights, decided, alerted, seen>>

Step(p) ==
    \/ DiscoverFails(p) \/ Discover(p) \/ NextEvent(p) \/ ScanDone(p)
    \/ Upsert(p) \/ UpsertFails(p) \/ GetBooks(p) \/ Forecast(p) \/ ForecastRaises(p)
    \/ Evaluate(p) \/ InsertSignal(p) \/ InsertFails(p)
    \/ Execute(p) \/ ExecuteRaises(p)
    \/ AttemptFails(p) \/ Alert(p) \/ AlertRaises(p) \/ MarkAlerted(p)
    \/ EndEvent(p)

Next ==
    \/ \E p \in Scanners : Begin(p) \/ Step(p) \/ LockTimeout(p) \/ Crash(p)
    \/ Calibrate \/ Tick

Spec == Init /\ [][Next]_vars

-----------------------------------------------------------------------------
(* Properties                                                              *)

AllEvents == ToSet(Discovered)
AllMarkets == UNION {ToSet(EventOf[e].markets) : e \in AllEvents}
Fingerprints == AllMarkets \X (0..One) \X Asks

(* Every variable has its type.                                            *)
TypeOK ==
    /\ \A p \in Scanners : (scan[p] = None) = (pc[p] = "idle")
    /\ events \subseteq AllEvents /\ contracts \subseteq AllMarkets
    /\ estimates \subseteq (1..MaxScans) \X AllMarkets
    /\ \A s \in signals : s.fingerprint \in Fingerprints /\ s.scan \in 1..MaxScans
    /\ \A m \in DOMAIN weights : weights[m] \in 0..Unit
    /\ observed \subseteq 0..MaxClock /\ cut \subseteq 1..MaxScans

(* However scanners race to insert a signal and wherever they die, what    *)
(* is delivered of its alert are attempts of one request: no more than     *)
(* that request may make, and never those of a second scan on top.         *)
AlertsBounded == \A fp \in BagToSet(sent) : sent[fp] <= MaxRetries + 1

(* A signal is stored, then decided, then alerted; and a stored signal is  *)
(* left undecided only by a scan that raised or died: no other scan takes  *)
(* it up again, as its fingerprint is a duplicate to them.                 *)
FollowThrough ==
    /\ alerted \subseteq BagToSet(sent) /\ BagToSet(sent) \subseteq decided
    /\ \A fp \in decided : Stored(fp)
    /\ \A s \in signals :
          \/ s.fingerprint \in decided \/ s.scan \in cut
          \/ \E p \in Scanners : pc[p] = "execute" /\ scan[p].n = s.scan

(* Whenever a commit falls, at a signal in the middle of an event or at    *)
(* its end, the markets with an estimate of a scan are those it turned     *)
(* into a signal or rejected with a reason.                                *)
DecisionsComplete ==
    estimates = {<<r[1], r[2]>> : r \in {r \in rejections : r[3] # "route"}}
                    \cup {<<s.scan, s.fingerprint[1]>> : s \in signals}

(* The sessions of the scans, their commits between calls and the sessions *)
(* that execute and mark a signal implement the journal: a scan has its    *)
(* signal decided before it writes more, touches no other scan's signal,   *)
(* and does not take up what one that broke off has left.                  *)
Journal == INSTANCE SignalJournal WITH Scans <- 1..MaxScans, Attempts <- MaxRetries + 1
JournalSpec == Journal!Spec

(* A scan whose next step needs a lock that a session has.                 *)
Waits(p) ==
    \/ /\ pc[p] = "upsert"
       /\ LET e == Head(scan[p].todo) IN
          /\ ~Available(p, EventRow(e))
          /\ ~tx[p].known \/ InsertClash(p, e) \/ Malformed(e)
    \/ /\ pc[p] = "market" /\ tx[p].todo # << >>
       /\ dialect = "sqlite" \/ Head(tx[p].todo) \notin contracts
       /\ ~Available(p, ContractKey(Head(tx[p].todo)))
    \/ pc[p] = "market" /\ tx[p].todo = << >> /\ ~Available(p, None)
    \/ pc[p] = "insert" /\ ~Available(p, FingerprintKey(tx[p].signal))
    \/ pc[p] = "execute" /\ ~CanWriteElsewhere(None)
    \/ pc[p] = "mark" /\ ~Available(p, None)

NoCircle == (\E p \in Scanners : pc[p] # "idle") => \E p \in Scanners : pc[p] # "idle" /\ ~Waits(p)

(* Scans never wait for each other in a circle, nor one for a lock of its  *)
(* own session while execute_signal writes in another; and nothing but a   *)
(* lock keeps a scan from its next step.                                   *)
ScansGoOn ==
    /\ NoCircle
    /\ \A p \in Scanners : pc[p] # "idle" /\ ~Waits(p) => ENABLED Step(p)

(* docs/superpowers/plans/2026-08-02-weatheredge-initial-milestone.md:346: *)
(* "Each event is isolated so one malformed event records a provider/data  *)
(* error and scanning continues".                                          *)
EventsIsolated ==
    [][\A p \in Scanners : pc[p] # "idle" /\ pc'[p] = "idle" =>
          \A e \in ToSet(scan[p].todo) : EventOf[e].route = "other" \/ e \in events]_vars
====
