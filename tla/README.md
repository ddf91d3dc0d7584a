# ForecastFoundry in TLA+

ForecastFoundry scans prediction markets (weather and crypto), prices them,
stores accepted signals, enters paper positions for them, settles the positions
from evidence, and lets an operator pause entries.  This directory holds TLA+
modules of its core, the TLC configurations that check them, and the theorems
TLAPS proves about them.

## The system

| component | state it keeps | operations | what makes it correct |
| --- | --- | --- | --- |
| paper lifecycle (`services/paper.py`) | decision, order, fill, position and settlement rows; the balance row | `execute_signal`, `settle_position`, `mark_position`, `SettlementWorker.run_due` | books balance; one decision, one position, one settlement per signal; caps hold when an entry commits |
| risk sizing (`services/risk.py`) | none | `size_order` | an approved size stays within the caps and the balance |
| execution control (`services/execution_control.py`) | control row, request rows, audit events | `set_paused`, `snapshot` | a request id is applied once, revisions are consecutive, the audit trail is complete |
| live executor (`services/executor.py`) | order rows, reconciliation events | `submit`, `reconcile` | no order is placed twice or while paused; an unknown order stops entries |
| HTTP client (`services/http.py`) | breaker state, next request time | `request_json` | requests keep their distance and end; the breaker opens and is tried again |
| weather scan (`worker.py`) | events, markets, forecasts, signals | `scan_once` | a signal is alerted by one scan and after its execution; no estimate goes without a verdict |
| crypto pipeline (`services/crypto_pipeline.py`, `crypto_data.py`) | contracts, evidence, predictions, signals | `run` | what a signal rests on is on record once; an entry rests on nothing later than its date |
| settlement evidence (`services/settlement.py`) | none | `ProductionSettlementFetcher` | a position settles on final data, and in the end if that data exists |
| observations (`services/observations.py`) | observation rows | `ingest_observations`, `apply_observations_to_points` | a settlement is not below what a forecast took for observed; an hour is there once |
| contracts (`services/contracts.py`) | contract rows | `persist_domain_contract` | one row per market or fingerprint |
| operator authentication (`services/operator_auth.py`) | credential rows | `authenticate`, `rotate` | failures are counted and block |
| provider health (`services/provider_health.py`) | snapshots | `check` | a snapshot is refreshed when it is stale |
| model weights, calibration (`services/model_weights.py`, `calibration.py`) | one setting row | `compute_weights`, `walk_forward_calibration` | weights are a distribution; no sample is scored by its own future |
| service (`main.py`, `scheduler.py`, `websocket.py`) | jobs, the socket's books | lifespan, jobs | a job runs once at a time |

The API, the command line, the MCP server and the scheduled jobs all call the
application services, each call in a database session of its own; they share
state through the database only.  Entries consult execution control, read what
scans stored and write the portfolio; settlements write the portfolio; scans
change what entries may do (a contract can stop being accepted).  The same code
runs on PostgreSQL and on SQLite, whose locking differs, and much of what is
hard here is that difference.

Hard behaviours: interleavings of transactions on two databases, calls retried
with a request id, calls that die in the middle, locks taken in different
orders, values read long before they are used, sessions that stay open over
network calls, a cache shared by jobs with clocks of their own, one failing item
that ends or delays the others.  `PROJECT.json` lists them with
their lines under `hazards`.

## Modules

| module | models |
| --- | --- |
| `PaperRisk` | `size_order` in exact integer arithmetic |
| `PaperBooks` | the portfolio's rows and sums |
| `PaperLedger` | what the portfolio promises: an atomic ledger (abstract) |
| `PaperLifecycle` | `services/paper.py` as transactions of concurrent processes |
| `PaperLifecycleProofs` | lemmas and theorems about them |
| `ControlRegister` | what execution control promises: an atomic register (abstract) |
| `ExecutionControl` | `set_paused`, statement by statement |
| `ExecutionControlProofs` | theorems about it |
| `Executor` | `services/executor.py`: concurrent submits and reconciliations |
| `ExecutorProofs` | theorems about it |
| `HttpClient` | `services/http.py`: concurrent requests, one pacing lock, one breaker |
| `HttpClientProofs` | theorems about it |
| `Temperatures` | rounding and buckets of temperatures |
| `WeatherModel` | what a weather scan computes: probabilities, edge, weights |
| `WeatherScan` | `worker.py`: concurrent scans, their sessions, signals and alerts |
| `SignalJournal` | what the scans promise: verdicts, then decision, alert and note (abstract) |
| `WeatherScanProofs` | theorems about the last three |
| `WeatherDay` | the observations of a market's day: blend and outcome |
| `CryptoCandles` | candle series and the event a closing price decides |
| `CryptoSignal` | what the crypto pipeline computes for one market |
| `CryptoPipeline` | `scan_markets` and `crypto_pipeline.py`: concurrent scans with one cache |
| `CryptoPipelineProofs` | theorems about it and `CryptoSignal` |
| `Settlement` | evidence for due positions, from ingest jobs, scans and the cache |
| `SettlementProofs` | theorems about it |
| `FoldProofs` | lemmas the proofs share: products, quotients, and what folds over finite sets compute |
| `MC...` | one per module with runs: its instances for TLC |

`PaperLifecycle`, `WeatherScan`, `CryptoPipeline` and `Settlement` meet in the
database, and each contains what it needs of the others: the scans end in
`execute_signal`, which is one step there (`Execute`) and a transaction of many
steps in `PaperLifecycle`; `Settlement` decides outcomes, and the transaction
that stores one is `PaperLifecycle`'s.  `Settlement` and the scans share
`WeatherDay`, `CryptoCandles` and `Temperatures`, so that what a forecast prices
and what a settlement decides come from definitions that can be compared
(`PricedEventSettles`, `BlendsSettled`).

### PaperLifecycle

A process is idle or in one call.  `pc` is where it is, `job` what it was asked
(with the `now` that `execute_signal` captures before its session opens, or an
earlier one its caller passes: a scan passes the time it began), `tx`
what its transaction has read and will write, `holds` its locks.  The other
variables are what the database has committed.  A call writes only at its
commit: `CommitDecision` is `execute_signal`'s commit of the decision alone or
of decision, order, fill, position and balance; `CommitSettlement` is
`settle_position`'s, with the `settled_at` taken when the position was claimed,
before the balance lock; `CommitMark` is `mark_position`'s.  `Abandon` is any end
without commit: an exception, a cancelled request, a crash.

Locks are where the two databases differ.  `BeginMoneyWrite` takes SQLite's
writer lock (`BEGIN IMMEDIATE`) and nothing on PostgreSQL; `ForUpdate` takes a
row on PostgreSQL and nothing on SQLite; `ToWrite` is what a write needs.  A
step whose lock another process holds waits.  A unique request id makes an
insert wait for a transaction that inserted the same id (`RequestKey`).

`execute_signal` is `StartExecute`, `LookUpDecision` (signal lock and replay
lookups), `CheckEligibility` (pause flag, contract and windows, read without a
lock), `SizeUnderBalanceLock`, `InsertDecision`, `CommitDecision`.  The flag and
the contract are read in one step; the code reads them in two statements
without a write between.  `settle_position` is `StartSettle`, `ClaimPosition`,
`LockBalanceForPayout`, `CommitSettlement`.  `mark_position` is `StartMark`,
`ReadForMark`, `CommitMark`; nothing in the application calls it at this
commit, and it is modelled because it is the public operation that writes what
the loss cap reads.  `SetPaused`, `Rescan` and `Tick` are the environment:
execution control's commit, a contract reclassified, the clock.

Abstractions: money and shares are whole quanta, so rounding is not modelled,
and the comparison with the market's minimum is made on the rounded size; the
order, its fill and its position are one record; the outcome of a settlement is
either one; the check that the cost does not exceed the balance never fails
(`TypeCorrect` proves the balance stays natural) and has no action.

### ExecutionControl

`Start`, `FirstLookup`, `ReadRow`, `SecondLookup`, `CompareAndSwap`,
`CommitTransition` and `LastLookup` are the statements of `set_paused`;
`SnapshotInserts` is another session's `snapshot` that inserts the startup row;
`Abandon` is an end without commit.  `seen` is the row the session read and
keeps, `lock` the transaction that has updated it.  `control`, `events` and
`requests` are committed; `answers` records what callers were told.  A pause
with no expected revision goes through the same compare-and-swap and can be
refused, which the model keeps.

### Executor

A process is in a `submit` (`StartSubmit`, `Validate`, `CheckGeoblock`,
`RecheckControl`, `RecheckRisk`, `PlaceOrder`, `RecordOrder`), in a `reconcile`
(`StartReconcile`, `AskStatus`, then `CommitMatch`, or `ReadControl` and
`PauseEntries`), or idle.  Processes outside `LiveProcs` simulate the fill: they
go from the geoblock request straight to the row.  Each await at which the
database may change is a step of its own; a call commits once, when its caller
does.  Execution control appears as its audit trail, the sequence of its
transitions, which is what `ControlRegister` promises of it.  The exchange is
external: `exchange` lists the orders placed, and `PlaceOrder` may place one
whose answer is lost.  `RolledBack` is the rollback in `set_paused`, which takes
the caller's event and status with it.  The model lets a reconciliation read
the control row before another one's row lock is released, which PostgreSQL
would delay; it has more behaviours than the code there, never fewer.  Nothing
but the tests constructs an `Executor` at this commit; `executor_process.py`
waits for one.

### HttpClient

A task is idle, in the queue of the pacing lock (`pace`), asleep with the lock
(`pacing`), waiting for an answer (`sent`), backing off (`backoff`), or about to
raise a refusal.  `Start` is `before_request`, `TakeLock` and `Send` are `_pace`
up to the request, `Succeed`, `Unavailable`, `Lost` and `Invalid` are the
answers, `Retry` the next attempt, and `Cancel` a cancelled task or an exception
`request_json` does not catch.  Times are what is left of them, in quarter seconds, so time needs no
bound.  `failures` and `opened` are the breaker's, which every provider shares.
`header` is the Retry-After of the last response of the request, which outlives
the attempt because `locals()` does.

### WeatherScan, WeatherModel

A scanner is idle or in `scan_once`.  `scan` is its number, the `now` it began
with, the events left and the weights it loaded; `tx` is what its open session
has read and written and not committed; `holds` its locks, the writer lock on
SQLite, rows on PostgreSQL.  An event goes through `NextEvent`, `Upsert` (event,
markets, rules; a rejected route rejects every market), `GetBooks` and
`Forecast`; each of its markets through `Evaluate` and, when the policy has no
reason against it, `InsertSignal` (which commits the session), `Execute`,
`Alert`, `MarkAlerted`; `EndEvent` commits.  An alert is a request of
`request_json`, which makes it again when an attempt times out (`AttemptFails`):
an attempt that counts as failed may have been delivered, so `sent` is a bag and
one alert may come `MaxRetries + 1` times, or come and be reported as failed.
Where the code raises
(`UpsertFails`, `ForecastRaises`, `InsertFails`, `ExecuteRaises`, `AlertRaises`)
the scan is over and what it has not committed is lost, as in `LockTimeout`
(SQLite gives up on a lock) and `Crash`.  `Calibrate` stores new weights,
`Tick` lets an hour pass and its observation come in.

`scan_once` runs under `run_scheduled_scan`, which does not begin while entries
are paused; `Begin` may be delayed for ever, which covers it.
`WeatherModel` has the arithmetic in whole numbers: `Probability` is the
weighted share of a bucket, `Reasons` is `evaluate_signal`, `ComputeWeights`
promotes inverse Brier scores, all to a perfect model, or nothing.  A perfect
model takes all the weight, and an event it has no forecast for then raises.
Left out: ProviderError rows, the text of rules and alerts, the daily maximum of
a member's points (a forecast is its maxima).

### Settlement, WeatherDay, CryptoCandles

Time is counted in hours of one local day.  `price` and `closes` are the
market; `rows[h]` holds the temperatures stored for hour `h`.  An ingest job
reads the report and the hours already there (`IngestReads`) and later stores
the missing ones (`IngestCommits`); a report may lack late hours, and a reading
may be corrected after it was stored.  `Blend` is a weather scan's use of what
is stored, `ScanFetches` a crypto scan's fetch into the cache of the process.
A settlement job takes its work list (`RunDue`), fetches evidence
(`FetchCrypto`, `SourceAnswers`, `SourceFails`, `FetchWeather`) and settles or
goes on to the next position (`Settle`, `Failed`).  `Rescan` is a crypto or
weather scan that finds the market of a position in `Edited` rejected, or accepted
again; `settle_position` refuses a position whose contract is not accepted.
`settled` keeps the outcome,
the value it came from and the temperatures that forecasts had used by then.

`WeatherOutcome` and `CryptoOutcome` are what `paper.py` derives from the
evidence; `Covered` are its conditions on the observations.  `MCSettlement` also
has two assumptions that TLC evaluates over bounded inputs (and `SettlementProofs`
proves for all): buckets that pass the
rule check have every rounded temperature in exactly one (`BucketsPartition`),
and the event the pipeline prices is the event the settlement decides
(`EventsAgree`).  Left out: checks of the evidence's form, which its fetcher
always meets; station and source (one of each); times within an hour, so a
report stands for a whole one.

### CryptoPipeline, CryptoSignal

A scanner goes through the markets of `scan_markets` with a session of its own
(`PersistAccepted`, `PersistRejected`, `ScanDone`), and for accepted crypto
markets through `run` with the pipeline's session: `Refuse`, the series
(`UseCache`, `Request`, `Fetched`, `FetchFails`), evidence and prediction as
lookups and inserts (`FindEvidence` to `CommitRecord`), the books (`Priced`,
`BooksFail`), and the signal (`FindSignal`, `AddSignal`, `Execute`).  Every
`holds` is of one of the two sessions, so a scan can wait for itself.  What the
registry makes of a market is the listing's: `rejects` is chosen from `Listings`
when a scan begins, so a market whose text is edited is rejected by one scan and
accepted by the next, and a scan that began before the edit can write its verdict
over a newer one.  A pipeline under way accepts the contract again at the head of
its transaction (`FindEvidence`).  The terms of a market stay constants, a market
is once in a listing, and there is one contract row for each (the code keys the
row by market and domain, so a market no domain claims gets another row).  `cache`
is the process's series; `SettlementFetches` is the settlement job filling it
at a time of its own.  A series records the time of the scan that asked (`at`),
its last complete candle and the time of the response (`raw`), which together
make a fingerprint: a series fetched anew is new evidence.

`CryptoSignal` has the computation: the fraction of given paths that hit the
event, the two books, the cost of the minimum order, the side, and
`_signal_reasons`.  `allowed` in `Execute` stands for the pause and the sizing,
which are PaperLifecycle's; the scan's own pause check only delays `Begin`.
Left out: the metadata checks one by one (`metadata` is whether they pass), the
generators of the paths (constants), and different times of the two books.

## Runs

| run | question | bounds |
| --- | --- | --- |
| `postgres` | do the row locks keep the books and implement the ledger? | 2 processes, 2 signals, 2 request ids, 4 calls, clock 0..2, one size |
| `sqlite` | does the writer lock keep the books, the loss stop and the pause? | as above, sizes 1 and 2, a market minimum of 2 |
| `returns` | does every call return? | 3 calls, clock 0..1, no symmetry |
| `postgres_pause` | does a pause stop an entry in progress on PostgreSQL? (violated) | as `postgres` |
| `execution_control` | is a request applied once, and the audit trail complete? | 3 callers, 2 ids, expected revision none or 1 |
| `executor` | do orders, events and pauses agree whatever interleaves? | 2 live processes and a simulating one, 1 intent, 3 transitions, 2 orders |
| `http` | are requests spaced, do they end, does the circuit open and close? | 3 tasks, threshold 2, reset 2, interval 2, 1 retry, Retry-After past or 3 |
| `weather_scan` | do concurrent scans implement the journal: every signal decided and alerted, every estimate its verdict? | 2 scanners, 2 scans, both databases, 3 events, 3 markets, 2 models, 1 retry of an alert, clock 0..1 |
| `weather_malformed` | does a scan go on after a malformed event? (violated) | 1 scan, 2 events |
| `settlement` | do positions settle, and on final data? | 1 settlement job, 2 ingest jobs, clock 0..6, a weather or a crypto portfolio of 2, the market of one position of each edited, 1 crash |
| `settlement_twice` | is an observed hour stored once? (violated) | as `settlement` |
| `crypto_pipeline` | is what a signal rests on recorded once and not from the future? | 2 scans of one process, both databases, 4 markets, 2 listings, clock 0..2, 1 failure, 1 crash |

Two processes and two signals are enough for every pair of transactions to
conflict on every row they share: same signal, same request, same balance.
Four calls let two entries be followed by two settlements or marks, and three
clock readings let one contract expire while the other's window is still open
and let the day turn (a day is one unit).  With StartBalance 40 and caps of a
tenth and a fifth, one entry of two shares meets the trade cap, a second one
changes what a third may buy, and one lost position reaches the daily loss cap.
In `execution_control` the third caller lets a twin and a competitor interleave;
the two ids bound the revisions, as an id is applied once.  In the executor's
runs one intent is enough, since processes only meet on an intent and on the
control row; three transitions are a resume, and a pause and a resume during a
call; the second order is the one a retry or a race places.  In `http` the third task
lets one be refused and one fail late while another is tried after the reset,
and lets two wait behind a sleeping holder of the lock.

In `weather_scan` one event is passed over, one gives two markets and one is
rejected; two scans are what a race for an event, a contract or a fingerprint
needs, and the second one sees what the first left behind.  One retry lets an alert
come twice, once, or not at all, and lets each of these be reported as failed.  A calibration
gives one model all the weight, so that afterwards an event without its forecast
raises; a market needs the members of both models, so that a signal comes of
both answering and a refusal of one.  Every scan is within the hours of the
blend: one that begins before the observation, or without it, refuses its
markets, one that begins after it may make a signal.  Initially
nothing or everything was recorded by earlier scans.  In `settlement` each
portfolio has a position that is refused on every run (a market in Fahrenheit, an
expiry within a candle) before one that can settle; a candle lasts two hours, a
series is cached for two, and six hours let the series of a scan from before
the expiry be still in the cache after it, the candle leave it, and a late
report come after the first settlement run.  The clock ends before the expiry's
candle leaves the window of three, which 200 candles put eight days off: after
that the code never settles, and `DueSettles` asks nothing.  `DueSettles` also
asks nothing while a position's contract is not accepted, and the job may then run
any number of times without settling it.  In
`crypto_pipeline` the clock counts half hours, so a scan may begin in one candle
and price in the next; the candles rise and then fall, so that the signal
changes with the series; the books are good, thin or crossed; the market that can
be priced is rejected by one of the two listings.

Deadlock is not checked where a run ends because its bounds are used up
(`MaxCalls`, `MaxTransitions`, `MaxOrders`, `MaxScans`, or every request id
applied and answered); waiting for ever is what `CallsReturn` and `ScansGoOn`
rule out.  `ScansGoOn` has two halves: as long as a scan is under way some scan
waits for no lock of another session (`NoCircle`), and a scan that waits for none
has a step of its own that is not a timeout or a crash (ENABLED).  Symmetry is
over processes and request ids, and not used for liveness.

Fairness: `FairSpec` of the lifecycle assumes weak fairness of `Advance(p)`: a call that was
started and can take its next step takes it, as its event loop keeps running
it.  No fairness is assumed of starts, of the operator, of the clock or of
crashes.  `FairSpec` of the client assumes that the event loop runs its tasks,
that time passes, that every attempt is answered or lost (httpx has a timeout),
and that idle tasks make requests, as the scheduled jobs do.  `Spec` of
Settlement assumes that time passes, that the settlement job is run and goes on
(weak fairness of `Work`, whose `SourceFails` is the client's timeout), and,
strongly, that a source asked again and again answers in the end; nothing is
assumed of scans, of ingest jobs or of processes that die.

## Findings

The violated runs are disagreements of the code with its own words, with
the lines quoted in `PROJECT.json`: the pause flag is read without a lock,
so on PostgreSQL an entry commits after a pause; a malformed weather event ends
the scan before the events after it; and the ingest jobs of two processes store an
hour twice, after which its day is never settled.

Others were met while modelling and have no run of their own.

- `mark_position` takes no writer lock, while the docstring at
  `src/app/services/paper.py:138` says "Acquire SQLite's process-safe writer
  lock before any portfolio read.": on SQLite a mark that read its position
  before it was settled writes the settled row.  Nothing calls it at this commit.
  `SettledFrozen` is therefore checked on PostgreSQL only, and proved there and,
  for SQLite, under the assumption that no marks are stored (`MarksKept`).
- `submit` (`executor.py:104`) places an order before a row records it, so a
  retry after a lost answer places another; `docs/FINAL_AUDIT.md:101` says "The
  executor deliberately does not retry ambiguous provider orders."
- `reconcile` (`executor.py:146`) loses its event and its pause when another
  transition advances the revision in between; `docs/RUNBOOK.md:10` says "Unknown
  or partial provider order state is a hard stop."  A pause committed while
  `submit` awaits its risk recheck does not stop the order either.
- One breaker serves every provider (`main.py:68`), where the milestone plan,
  line 239, has "A provider-local circuit breaker"; and an attempt that raised
  waits for the Retry-After of the response before it (`http.py:98`).
- With `Dialect = "postgresql"` the configuration `sqlite` violates `LossStop`: a
  mark takes the position's lock and not the balance's.  Without marks it holds
  there too (`LossesStopEntries`).
- A failed alert raises out of the weather scan (`worker.py:615`), so the markets
  and events after it are not scanned and the signal is never alerted; the
  milestone plan, line 346, says "a send failure updates signal alert state and
  records a provider error without rolling back the paper ledger."  The ledger is
  kept, the rest is not.  `SignalJournal` allows a scan to go on after an alert
  that failed, so it does not make a promise of what the plan forbids.
- An alert whose request timed out is sent again (`http.py:87`), so a signal may be
  alerted up to `MaxRetries + 1` times (`AlertsBounded`), and one that was delivered
  may be reported as failed and end the scan.
- A position whose contract a later scan rejects (`contracts.py:75`) is refused by
  every settlement run while that lasts (`paper.py:677`); the others go on.
- A scan that began before a market was edited can accept its contract again after
  a newer scan has rejected it: a verdict carries no time (`contracts.py:75`).
- The blend takes the last observation up to an hour after the forecast point,
  however old (`observations.py:79`); the repository's `README.md:38` says "replaced
  by the nearest observation within a 1-hour window".
- A weather market in Fahrenheit never settles: the evidence is rounded in
  Celsius (`settlement.py:135`), the derivation expects the market's unit
  (`paper.py:1042`).  Nor does a crypto market whose expiry is not the end of a
  candle.
- A signal left undecided by an exception or a crash is not taken up again:
  a weather scan finds its fingerprint stored, a crypto scan computes another one
  from its new series.
- Once one model has all the weight, an event without its forecast raises out of
  the weather scan (`probability.py:78`).
- The crypto scan judges books by the time it began, so books stamped while it
  ran are refused as clock skew (`crypto_pipeline.py:802`), and it executes a
  signal as of that time (`crypto_pipeline.py:497`), after which the market may
  have expired.

## Proofs

All theorems hold for any values of the constants that meet the assumptions
named, and none of them rests on the bounds of the runs: clocks, calls and
scans are bounded by constants of any size.

`FoldProofs` has the lemmas the others share.  The sums of the modules are the
community modules' folds, which the provers see as the choice of a recursive
function over subsets.  That there is such a function, and what it keeps, is
shown for a concrete operator by a smallest subset that would break it, so that
no induction theorem with an operator parameter is needed: the sum over a finite
set is a number, changes by what one term changes, is at least each of its
terms, and is bounded by what bounds the terms (`SumIs`, `SumChanges`,
`TermWithinSum`, `SumStaysIn`); the sums of two tables, the multiple of a sum and
the shares of a whole follow by the same way (`TwoTables`, `SumScales`,
`SharesOfWhole`).

`PaperLifecycleProofs` proves of `size_order` that an approved size is at least the
market's minimum and at most the request, and its cost within the trade cap, the
exposure room and the balance (`ApprovedWithinCaps`), and of the transactions, for any sets of signals,
requests and processes: type correctness, `RowsAgree`, `RequestsUnique`,
`DecisionFinal`, `EntryWithinCaps`, `Conservation` and `BalanceMoves` on both
databases; on SQLite `LossStop` and `EntriesAllowed`; and on PostgreSQL
`SettledFrozen` and that the transactions implement `PaperLedger`.  `mark_position`
is what breaks `LossStop` on PostgreSQL and the last two on SQLite; as nothing
calls it, the theorems also state the three for the other database when
`MarkPrices` is empty.  `BalanceMoves` and `DecisionFinal` have no run: the ledger,
which `postgres` checks, implies them.
None of these is inductive by itself.  The invariant `IInv` adds that locks are
exclusive and what each call in progress knows: a deciding call holds its
signal's lock (the writer lock on SQLite) and the signal is still undecided; a
sized call holds the balance lock, its `tx.cash` is the committed balance and
its size is within the caps of the committed books; a call that inserted its
request holds that request's key and no committed decision has it; a settling
call holds its position, which is open; a paying call has the committed
balance; on PostgreSQL a marking call holds an open position.  Each action
preserves each part because the locks of other calls exclude it from changing
what a part speaks of.  A step then maps to a step of the ledger or to a
stutter.  `Conservation` is preserved because a step changes one term of each sum
and the balance by as much.  The two stops need a second invariant, `Stops`: on
SQLite a call past its stop checks holds the writer lock, which a settlement and
the control row's writer would need, so the daily loss and the pause it read are
the committed ones (`WriterKeepsStops`); without the lock this fails, which is
what `postgres_pause` shows.  On PostgreSQL without marks the loss stop holds for
another reason: the daily loss only grows when a settlement commits, which needs
the balance lock that a sized call holds.

`CallsReturn` is liveness, but two facts under it are safety and proved for both
databases.  No calls wait in a circle (`NobodyWaitsInACircle`), because signals
and positions are locked before the balance and the balance before a request id
(`OrderInv`), and a call that locks nothing more waits for nobody.  And each step
of a call brings it nearer to its end, which no other step undoes (`CallsGetOn`).
What is left to TLC is that weak fairness then lets every call return.  The
assumptions are `RiskAssumption`, `BooksAssumption`,
`NoneIsNoRow` and `LifecycleAssumption`.

`ExecutionControlProofs` proves type correctness, `NoPrimaryKeyClash`,
`OneRequestPerRevision` with `ExpectedHonoured`, `AuditTrail`, `AnswersHold`, and that the
statements implement `ControlRegister`, which implies `OneRequestPerRevision` and
`ExpectedHonoured` and is what the run checks.  The invariant says that the revision a
session read is never newer than the committed one, that every applied request
has a revision no newer than the committed one, and that a request id missing
at the second lookup can only be applied by advancing the revision, so a
session whose swap succeeds still finds it missing.  The assumption is
`ControlAssumption`.

`ExecutorProofs` proves type correctness, `EntriesAudited`, `StatusAudited`,
`RecordKept` and `MismatchPauses` for any processes, intents and statuses.  Its
invariant adds what a call in progress knows: a submit past its validation holds
a revision whose transition resumed entries, which later transitions cannot
change because the trail only grows; a reconciliation works on a recorded live
order and, once answered, holds a status.  `LiveRecordsPlaced` relates rows to the
exchange: a live row names an order placed for that row's intent, so
`reconcile` asks about the intent's own order even if a retry placed another.  The
assumption is `ExecutorAssumption`.

`HttpClientProofs` proves type correctness (so no sleep is negative and no
attempt follows the last), `BreakerConsistent` and `Spacing`.  The invariant
adds that a task asleep in `_pace` holds the lock and wakes exactly when the
next request may go, and that a task backing off has an attempt left.  The
queue of the pacing lock has an invariant of its own (`QueueInv`): it holds the
tasks that wait, each once, and a holder is asleep in `_pace`.  It gives that the
lock is never lost to a task that was cancelled (`LockIsServed`) and that nobody
is overtaken (`PacedInOrder`), so a waiting task waits at most its place in the queue
times the interval, if sleepers wake in time.  The assumption is
`HttpAssumption`.

`WeatherScanProofs` proves type correctness, `AlertsBounded`, `FollowThrough`,
`DecisionsComplete`, `NoCircle`, and that the scans implement `SignalJournal`.  The
properties speak of what is committed and
sent; the invariant `IInv` says, for each place in `scan_once`, what the session
has written and not committed, that two sessions never carry one fingerprint past
its insert, and how far the signal a session follows has got: nothing is delivered
of its alert before it is decided, and after that no more than one delivery for
each attempt.  Type correctness
needs what the scan computes: a probability of buckets is part of a whole, and a
promoted weight is an inverse Brier score divided by a sum it is a term of, so
no weight exceeds `Unit` (`ProbabilityBounds`, `WeightBounds`).  Together they
are the whole, less what rounding takes, at most a unit of each part:
`ProbabilitiesDivideOne` for the buckets of any market and forecast that falls
into one of them, `WeightsDivideUnit` for the weights stored and loaded.

The refinement (`ImplementsJournal`) maps each scan's number to a scan of the
journal; sessions, locks and places have no counterpart there.  `JournalInv` adds
to `IInv` what the mapping needs: a scan number belongs to one scanner at a
time; a scan under way is not among those that broke off; what is stored for
it is finished, except for the one signal it is following; and what its session is
about to commit is its own.  Every commit of a session is then one of the
journal's, each of `Execute`, `Alert`, `MarkAlerted` and an `AttemptFails` that
delivers its own step, and the rest stutters.  `LockInv` says
where a session may hold locks and of which rows, and `PassInv` that a scan past
an event, or past a market of it, has left its contract stored or inserted and
locked.  On SQLite whoever has the writer lock does not wait; on PostgreSQL the
scan that is furthest, in the events and then in the markets of its event, waits
for nobody, since whoever has the contract it waits for is further still.  Both
scans of the model discover the same events in the same order, and the theorem
rests on that: it says nothing of two scans between which the provider changed
its listing.  The assumptions are `WeatherModelAssumption` and
`WeatherScanAssumption`.

`SettlementProofs` proves type correctness, `FinalClose` and `BlendsSettled`.  What
a settlement rests on was read earlier, so the invariant says what each copy
still tells of the present: the candles a series holds as complete are the final
ones, in the cache and in every run that has fetched it, and the warmest
observation of the evidence is no colder than what the forecasts of that time had
taken for observed, because what a forecast used is stored and stays stored.  What
scans make of acceptance in between touches none of this.
`settlement_twice` shows that two processes store an hour twice; the theorems say
that this is all: an hour is there at most once per process
(`StoredOncePerProcess`, whose invariant counts the jobs that have found it missing
together with the rows), so once when there is one (`AloneObservesOnce`).  The
assumptions are `SettlementAssumption`, `WeatherDayAssumption` and
`CandlesAssumption`.  It also proves, for all values, what the assumptions of
`MCSettlement` evaluate over bounded inputs: `PricedEventSettles` (a crypto market
settles as the event that was priced, for every comparison, reference, increment
and price), and `BucketsPartition` with `BucketIsFound` (in buckets that pass
`_validate_complete_buckets` each whole degree has exactly one bucket, and the
lookup finds it), by looking at the first bucket out of order and the last one
that begins at or below the degree.  They are about bounds in whole degrees, as
the model is.  The pattern of a label also takes a fraction, and of buckets up
to 9.5 and from 10.5, which the code would accept, neither contains ten.

`CryptoPipelineProofs` proves type correctness, `Provenance`, `EntryJustified` and
`NoCircle`.  What is stored rests on what a scan
found in steps of its own between which the others go on; the invariant says
what is still true of it at each place: the contract of the market is on record
(not that it is still accepted: only the entry asks that, when it is made), a row
that was looked up is there, one the scan has inserted is its own until it
commits (so its features are added once), and the candidate it carries was
priced with the edge the settings demand, which is a fact about the folds of
`CryptoSignal` (`CostIs`, `EstimateIs`, `WithoutReasons`).  For `NoCircle`, `LockInv`
says that a scan holds rejected contracts only between markets, all of them behind it
on its list, and a contract it accepts again, evidence and a prediction only inside
the pipeline's transaction, each from where it is inserted.  If every scan waited,
none would be in that transaction, since the one nearest to its commit waits for
nobody (`NobodyInserts`); so each would wait for a contract held by a scan that is in
its list, and the one furthest on the list waits for nobody (`FurthestGoesOn`).  This
uses that a market is once on the list and that both scans are given the same one:
the theorem says nothing of two listings in different orders.  The assumptions are `SignalAssumption`, `CandlesAssumption`
and `PipelineAssumption`.

Only model-checked: `CallsReturn`, `RequestsEnd`, `OpenEnds` and `DueSettles`, which are
liveness properties under fairness, and the second half of `ScansGoOn`, which is
about ENABLED; neither can be stated to the provers.  `EventsIsolated`,
`ObservedOnce` for two processes and, on PostgreSQL, `EntriesAllowed` are not
theorems: the violated runs refute them.

## Not modelled, and the plan

Every part not modelled is listed in `PROJECT.json` with the reason.  The
larger ones: operator authentication and provider health (rows and snapshots of
their own, which nothing modelled reads), the market data socket (a loop that
overwrites the last book, and parsing), the path generators of the crypto
estimate and the calibration report (floating point over real data), the backtest
(a batch over a file), the API, the dashboard, the command line, the MCP server
and the keystore (formatting, argument parsing and files around modelled calls).
Rounding to eight places on the way into the database is not modelled, nor are
request ids of settlements.

Next would be a promise of the crypto pipeline as `SignalJournal` is one of the
weather scan; its rows are proved one by one (`Provenance`, `EntryJustified`).
