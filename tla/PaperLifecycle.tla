---- MODULE PaperLifecycle ----
(***************************************************************************)
(* PaperLifecycle (services/paper.py): any number of processes execute     *)
(* signals, settle due positions and mark open ones, each call in a        *)
(* database transaction of its own, while an operator pauses and resumes   *)
(* and rescans change whether a contract is accepted.                      *)
(*                                                                         *)
(* The variables below the line are what the database has committed.  A    *)
(* call reads them, holds what it will write in tx, and writes at its      *)
(* commit; a call that raises or dies writes nothing.  Two databases are   *)
(* supported and lock differently: SELECT .. FOR UPDATE locks a row on     *)
(* PostgreSQL and is ignored by SQLite, where _begin_money_write takes the *)
(* single writer lock first.  A balance row that does not exist yet stands *)
(* for the starting balance, and inserting it takes the same lock.         *)
(***************************************************************************)
EXTENDS PaperBooks

CONSTANTS Procs,      \* the API, the CLI, the worker, the MCP server
          Dialect,    \* "sqlite" or "postgresql"
          Sizes,      \* requested_shares of a call
          MarkPrices, \* marks a caller may set
          DayLength,  \* clock units in a day
          MaxCalls    \* bound: calls ever started

ASSUME LifecycleAssumption ==
    /\ Dialect \in {"sqlite", "postgresql"}
    /\ Sizes \subseteq Nat
    /\ MarkPrices \subseteq 0..One
    /\ DayLength \in Nat \ {0}
    /\ MaxCalls \in Nat

VARIABLES pc,         \* where each process is in its call
          job,        \* what the call was asked to do
          tx,         \* what its transaction has read and will write
          holds,      \* the locks its transaction holds
          calls,      \* calls started so far
          (* ------------------------------------------------------------- *)
          balance, decision, position, settlement,
          paused, accepted, clock

local == <<pc, job, tx, holds>>
books == <<balance, decision, position, settlement>>
world == <<paused, accepted, clock>>
vars  == <<local, calls, books, world>>

(* Locks.                                                                  *)
Writer == <<"writer", None>>
BalanceRow == <<"balance", None>>
ControlRow == <<"control", None>>
SignalRow(s) == <<"signal", s>>
PositionRow(s) == <<"position", s>>
ContractRow(s) == <<"contract", s>>
RequestKey(r) == <<"request", r>>

Resources ==
    {Writer, BalanceRow}
        \cup {SignalRow(s) : s \in Signals}
        \cup {PositionRow(s) : s \in Signals}
        \cup {RequestKey(r) : r \in Requests}

(* Faulty: a deferred BEGIN takes no lock until the first write.           *)
BeginDeferred == {}

BeginMoneyWrite == IF Dialect = "sqlite" THEN {Writer} ELSE {}
ForUpdate(row) == IF Dialect = "sqlite" THEN {} ELSE {row}
ToWrite(row) == IF Dialect = "sqlite" THEN {Writer} ELSE {row}

(* Faulty: the balance is read without FOR UPDATE.                         *)
NoBalanceLock == {}

BalanceLock == ForUpdate(BalanceRow)

Available(p, locks) == \A q \in Procs \ {p} : holds[q] \cap locks = {}

Take(p, locks) ==
    /\ Available(p, locks)
    /\ holds' = [holds EXCEPT ![p] = @ \cup locks]

(* Jobs and transactions.                                                  *)
ExecuteJobs == [signal: Signals, request: Requests, want: Sizes, now: Times]
SettleJobs  == [signal: Signals]
MarkJobs    == [signal: Signals, mark: MarkPrices]

NoTx == [cash |-> 0, shares |-> 0, pnl |-> 0, at |-> 0]

Goto(p, label) == pc' = [pc EXCEPT ![p] = label]

Begin(p, label, j) ==
    /\ pc[p] = "idle" /\ calls < MaxCalls
    /\ calls' = calls + 1
    /\ Goto(p, label)
    /\ job' = [job EXCEPT ![p] = j]
    /\ UNCHANGED <<tx, holds>>

(* The session closes: committed or rolled back, its locks are released.   *)
EndSession(p) ==
    /\ Goto(p, "idle")
    /\ job' = [job EXCEPT ![p] = None]
    /\ tx' = [tx EXCEPT ![p] = NoTx]
    /\ holds' = [holds EXCEPT ![p] = {}]
    /\ UNCHANGED calls

Init ==
    /\ pc = [p \in Procs |-> "idle"]
    /\ job = [p \in Procs |-> None]
    /\ tx = [p \in Procs |-> NoTx]
    /\ holds = [p \in Procs |-> {}]
    /\ calls = 0
    /\ balance = StartBalance
    /\ decision = [s \in Signals |-> None]
    /\ position = [s \in Signals |-> None]
    /\ settlement = [s \in Signals |-> None]
    /\ paused = TRUE
    /\ accepted = [s \in Signals |-> TRUE]
    /\ clock = 0

-----------------------------------------------------------------------------
(* execute_signal                                                          *)

RequestUsed(r) == \E t \in Signals : decision[t] # None /\ decision[t].request = r

(* The signal is decided already, or the request id is bound elsewhere.    *)
Answered(s, r) == decision[s] # None \/ RequestUsed(r)

DayStart(now) == now - (now % DayLength)

(* Realized result of the settlements since the start of the day of now.   *)
DailyPnl(now) ==
    SumFunctionOnSet([s \in Signals |->
        IF settlement[s] # None /\ settlement[s].at >= DayStart(now)
        THEN settlement[s].realized ELSE 0], Signals)

(* Faulty: the pause flag is not consulted.                                *)
EligibleIgnoringPause(s, now) ==
    accepted[s] /\ now < Terms[s].expiry /\ Terms[s].from <= now /\ now <= Terms[s].until

(* _eligibility_reasons is empty.                                          *)
Eligible(s, now) ==
    /\ ~paused
    /\ accepted[s]
    /\ now < Terms[s].expiry
    /\ Terms[s].from <= now /\ now <= Terms[s].until

(* Faulty: a missing request id gets no default.                           *)
CallWithoutRequest(s, r, n, now) == [signal |-> s, request |-> None, want |-> n, now |-> now]

ExecuteCall(s, r, n, now) == [signal |-> s, request |-> r, want |-> n, now |-> now]

(* now is captured before the session is opened: by the call, or by the    *)
(* scan that makes it, when that scan began.                               *)
StartExecute(p) ==
    /\ \E s \in Signals, r \in Requests, n \in Sizes, now \in 0..clock :
           Begin(p, "lookup", ExecuteCall(s, r, n, now))
    /\ UNCHANGED <<books, world>>

(* The writer lock or the signal row's lock, then the replay lookups: a    *)
(* call already answered returns the stored answer or raises a conflict.   *)
LookUpDecision(p) ==
    LET s == job[p].signal
        locks == BeginMoneyWrite \cup ForUpdate(SignalRow(s))
    IN  /\ pc[p] = "lookup"
        /\ \/ Answered(s, job[p].request) /\ Available(p, locks) /\ EndSession(p)
           \/ /\ ~Answered(s, job[p].request)
              /\ Take(p, locks)
              /\ Goto(p, "check")
              /\ UNCHANGED <<job, tx, calls>>
        /\ UNCHANGED <<books, world>>

(* The pause flag and the contract are read without a lock.                *)
CheckEligibility(p) ==
    /\ pc[p] = "check"
    /\ Goto(p, IF Eligible(job[p].signal, job[p].now) THEN "size" ELSE "insert")
    /\ UNCHANGED <<job, tx, holds, calls, books, world>>

(* Faulty: losses of open positions are not counted.                       *)
SizedOnRealized(j) ==
    SizeOrder(balance, UnitCost(j.signal), j.want, Exposure(position),
              Terms[j.signal].minimum, DailyPnl(j.now))

Sized(j) ==
    SizeOrder(balance, UnitCost(j.signal), j.want, Exposure(position),
              Terms[j.signal].minimum, DailyPnl(j.now) + Unrealized(position))

(* _locked_paper_balance, the three portfolio sums and size_order; inputs  *)
(* it refuses end the call.                                                *)
SizeUnderBalanceLock(p) ==
    LET j == job[p]
        valid == RiskInputsValid(balance, UnitCost(j.signal), j.want,
                                 Exposure(position), Terms[j.signal].minimum)
    IN  /\ pc[p] = "size"
        /\ \/ ~valid /\ Available(p, BalanceLock) /\ EndSession(p)
           \/ /\ valid
              /\ Take(p, BalanceLock)
              /\ tx' = [tx EXCEPT ![p].cash = balance, ![p].shares = Sized(j)]
              /\ Goto(p, "insert")
              /\ UNCHANGED <<job, calls>>
        /\ UNCHANGED <<books, world>>

(* Faulty: the open positions behind the exposure are locked after the     *)
(* balance, the reverse of the order in which settle_position takes them.  *)
InsertAndPositionLocks(r) ==
    ToWrite(RequestKey(r)) \cup {PositionRow(s) : s \in {t \in Signals : IsOpen(position, t)}}

InsertLocks(r) == ToWrite(RequestKey(r))

(* Faulty: the request column has no unique index.                         *)
NeverViolated(r) == FALSE

UniqueViolated(r) == RequestUsed(r)

(* The decision row is flushed: its unique request id makes it wait for a  *)
(* transaction that inserted the same id, and fail if that one committed.  *)
InsertDecision(p) ==
    LET r == job[p].request
    IN  /\ pc[p] = "insert"
        /\ \/ UniqueViolated(r) /\ Available(p, InsertLocks(r)) /\ EndSession(p)
           \/ /\ ~UniqueViolated(r)
              /\ Take(p, InsertLocks(r))
              /\ Goto(p, "decide")
              /\ UNCHANGED <<job, tx, calls>>
        /\ UNCHANGED <<books, world>>

(* Faulty: the row records the requested size.                             *)
DecisionOfRequest(p) ==
    [request |-> job[p].request, at |-> job[p].now,
     shares |-> IF tx[p].shares = 0 THEN 0 ELSE job[p].want]

DecisionRow(p) == [request |-> job[p].request, shares |-> tx[p].shares, at |-> job[p].now]

(* The commit: the decision alone when nothing was approved, otherwise     *)
(* also the filled order, its position and the balance read before.        *)
CommitDecision(p) ==
    LET s == job[p].signal
        n == tx[p].shares
    IN  /\ pc[p] = "decide"
        /\ decision' = [decision EXCEPT ![s] = DecisionRow(p)]
        /\ \/ n = 0 /\ UNCHANGED <<position, balance>>
           \/ /\ n > 0
              /\ position' = [position EXCEPT ![s] = Entry(s, n)]
              /\ balance' = tx[p].cash - n * UnitCost(s)
        /\ EndSession(p)
        /\ UNCHANGED <<settlement, world>>

-----------------------------------------------------------------------------
(* settle_position, as the settlement worker calls it                      *)

(* run_due lists the open positions whose contract has expired and fetches *)
(* evidence for one of them outside any transaction.                       *)
StartSettle(p) ==
    /\ \E s \in Signals :
           /\ IsOpen(position, s) /\ Terms[s].expiry <= clock
           /\ Begin(p, "claim", [signal |-> s])
    /\ UNCHANGED <<books, world>>

(* Faulty: neither an existing settlement nor the status is looked at.     *)
NotAccepted(s) == ~accepted[s]

(* A settlement that exists is returned; a position that is not open or a  *)
(* contract no longer accepted raises.                                     *)
CannotSettle(s) == settlement[s] # None \/ ~IsOpen(position, s) \/ ~accepted[s]

(* The position row is locked and looked at; the settlement row built      *)
(* under that lock, before the balance is locked, carries settled_at.      *)
ClaimPosition(p) ==
    LET s == job[p].signal
        locks == BeginMoneyWrite \cup ForUpdate(PositionRow(s))
    IN  /\ pc[p] = "claim"
        /\ \/ CannotSettle(s) /\ Available(p, locks) /\ EndSession(p)
           \/ /\ ~CannotSettle(s)
              /\ Take(p, locks)
              /\ tx' = [tx EXCEPT ![p].at = clock]
              /\ Goto(p, "credit")
              /\ UNCHANGED <<job, calls>>
        /\ UNCHANGED <<books, world>>

(* The settlement row is flushed and the position updated; then the        *)
(* balance row is locked and read.                                         *)
LockBalanceForPayout(p) ==
    /\ pc[p] = "credit"
    /\ Take(p, BalanceLock)
    /\ tx' = [tx EXCEPT ![p].cash = balance]
    /\ Goto(p, "pay")
    /\ UNCHANGED <<job, calls, books, world>>

Realized(s, won) == Payout(position, s, won) - position[s].amount

Credited(p, s, won) == tx[p].cash + Payout(position, s, won)

(* The outcome is what the evidence derives.                               *)
CommitSettlement(p) ==
    LET s == job[p].signal
    IN  /\ pc[p] = "pay"
        /\ \E won \in BOOLEAN :
               /\ position' = [position EXCEPT ![s] = Settled(position, s, won)]
               /\ settlement' = [settlement EXCEPT ![s] =
                                    [realized |-> Realized(s, won), at |-> tx[p].at]]
               /\ balance' = Credited(p, s, won)
        /\ EndSession(p)
        /\ UNCHANGED <<decision, world>>

-----------------------------------------------------------------------------
(* mark_position                                                           *)

StartMark(p) ==
    /\ \E s \in Signals, m \in MarkPrices :
           /\ position[s] # None
           /\ Begin(p, "read", [signal |-> s, mark |-> m])
    /\ UNCHANGED <<books, world>>

(* Faulty: the status of the position is not looked at.                    *)
MarkUnchanged(s, mark) == MarkedPnl(position, s, mark) = position[s].unrealized

(* A position that is not open raises, and an attribute that keeps its     *)
(* value is not written.                                                   *)
NothingToMark(s, mark) ==
    ~IsOpen(position, s) \/ MarkedPnl(position, s, mark) = position[s].unrealized

(* No _begin_money_write: under SQLite this read locks nothing.            *)
ReadForMark(p) ==
    LET s == job[p].signal
        mark == job[p].mark
        locks == ForUpdate(PositionRow(s))
    IN  /\ pc[p] = "read"
        /\ \/ NothingToMark(s, mark) /\ Available(p, locks) /\ EndSession(p)
           \/ /\ ~NothingToMark(s, mark)
              /\ Take(p, locks)
              /\ tx' = [tx EXCEPT ![p].pnl = MarkedPnl(position, s, mark)]
              /\ Goto(p, "mark")
              /\ UNCHANGED <<job, calls>>
        /\ UNCHANGED <<books, world>>

CommitMark(p) ==
    LET s == job[p].signal
    IN  /\ pc[p] = "mark"
        /\ Available(p, ToWrite(PositionRow(s)))
        /\ position' = [position EXCEPT ![s].unrealized = tx[p].pnl]
        /\ EndSession(p)
        /\ UNCHANGED <<balance, decision, settlement, world>>

-----------------------------------------------------------------------------
(* A handler raises (evidence refused, database busy or lost), a request   *)
(* is cancelled or the process dies: the transaction is rolled back.       *)
Abandon(p) ==
    /\ pc[p] # "idle"
    /\ EndSession(p)
    /\ UNCHANGED <<books, world>>

Unlocked(locks) == \A q \in Procs : holds[q] \cap locks = {}

(* The commit of ExecutionControl.set_paused.                              *)
SetPaused ==
    /\ Unlocked(ToWrite(ControlRow))
    /\ paused' = ~paused
    /\ UNCHANGED <<local, calls, books, accepted, clock>>

(* A rescan reclassifies the market behind a contract.                     *)
Rescan(s) ==
    /\ Unlocked(ToWrite(ContractRow(s)))
    /\ accepted' = [accepted EXCEPT ![s] = ~@]
    /\ UNCHANGED <<local, calls, books, paused, clock>>

Tick ==
    /\ clock < MaxClock
    /\ clock' = clock + 1
    /\ UNCHANGED <<local, calls, books, paused, accepted>>

Start(p) == StartExecute(p) \/ StartSettle(p) \/ StartMark(p)

Advance(p) ==
    \/ LookUpDecision(p) \/ CheckEligibility(p) \/ SizeUnderBalanceLock(p)
    \/ InsertDecision(p) \/ CommitDecision(p)
    \/ ClaimPosition(p) \/ LockBalanceForPayout(p) \/ CommitSettlement(p)
    \/ ReadForMark(p) \/ CommitMark(p)

Next ==
    \/ \E p \in Procs : Start(p) \/ Advance(p) \/ Abandon(p)
    \/ SetPaused
    \/ \E s \in Signals : Rescan(s)
    \/ Tick

Spec == Init /\ [][Next]_vars

(* A call that was started keeps being run by its event loop.              *)
FairSpec == Spec /\ \A p \in Procs : WF_vars(Advance(p))

-----------------------------------------------------------------------------
(* Properties                                                              *)

(* Every variable holds values of its type.                                *)
TypeOK ==
    /\ pc \in [Procs -> {"idle", "lookup", "check", "size", "insert", "decide",
                         "claim", "credit", "pay", "read", "mark"}]
    /\ job \in [Procs -> ExecuteJobs \cup SettleJobs \cup MarkJobs \cup {None}]
    /\ tx \in [Procs -> [cash: Nat, shares: Nat, pnl: Int, at: Times]]
    /\ holds \in [Procs -> SUBSET Resources]
    /\ calls \in Nat
    /\ balance \in Nat
    /\ decision \in [Signals -> Decisions \cup {None}]
    /\ position \in [Signals -> Positions \cup {None}]
    /\ settlement \in [Signals -> Settlements \cup {None}]
    /\ paused \in BOOLEAN
    /\ accepted \in [Signals -> BOOLEAN]
    /\ clock \in Times

(* The books balance: cash and the cost of what is open equal the starting *)
(* balance and what settlements realized, whatever the interleaving of     *)
(* entries, settlements and marks (the read-modify-write of the balance    *)
(* row in execute_signal and settle_position).                             *)
Conservation ==
    balance + Exposure(position)
        = StartBalance + SumFunctionOnSet([s \in Signals |->
              IF settlement[s] # None THEN settlement[s].realized ELSE 0], Signals)

(* The rows of a signal agree: a position exists exactly for an approved   *)
(* decision and has its size ("approved paper decision is incomplete" is   *)
(* never raised), and is settled exactly when it has a settlement with the *)
(* same realized result.                                                   *)
RowsAgree ==
    \A s \in Signals :
        /\ (position[s] # None) <=> (decision[s] # None /\ decision[s].shares > 0)
        /\ position[s] # None => position[s].shares = decision[s].shares
        /\ (settlement[s] # None) <=> (position[s] # None /\ ~IsOpen(position, s))
        /\ settlement[s] # None => position[s].realized = settlement[s].realized

(* A request id is bound to one signal's decision, also when two processes *)
(* bring it for two signals at once.                                       *)
RequestsUnique ==
    \A s, t \in Signals :
        decision[s] # None /\ decision[t] # None /\ s # t
            => decision[s].request # decision[t].request

Entered(s) == position[s] = None /\ position'[s] # None
Closed(s) == IsOpen(position, s) /\ ~IsOpen(position', s)

BalanceMove ==
    \/ /\ balance' = balance
       /\ \A s \in Signals : ~Entered(s) /\ (Closed(s) => position'[s].realized
                                                          = -position[s].amount)
    \/ \E s \in Signals :
           /\ Entered(s) /\ balance' = balance - position'[s].amount
           /\ \A t \in Signals \ {s} : position'[t] = position[t]
    \/ \E s \in Signals :
           /\ Closed(s)
           /\ balance' = balance + position[s].amount + position'[s].realized
           /\ \A t \in Signals \ {s} : position'[t] = position[t]

(* The balance changes only with one entry, by its whole cost, or with one *)
(* settlement, by its payout: no debit, credit or update of it is lost.    *)
BalanceMoves == [][BalanceMove]_vars

(* An entry respects the trade and exposure caps of the books it is        *)
(* committed to, not only of those it was sized from.                      *)
EntryWithinCaps ==
    [][\A s \in Signals :
        Entered(s) => WithinCaps(balance, position, position'[s].amount)]_vars

(* No entry is committed while the day's realized and the open positions'  *)
(* unrealized losses have reached the daily loss cap.                      *)
LossStop ==
    [][\A s \in Signals :
        Entered(s) => ~LossCapReached(balance, DailyPnl(decision'[s].at)
                                               + Unrealized(position))]_vars

(* No entry is committed while entries are paused or after its contract    *)
(* stopped being accepted.                                                 *)
EntriesAllowed ==
    [][\A s \in Signals : Entered(s) => ~paused /\ accepted[s]]_vars

(* A settled position never changes again: it is not paid twice, and no    *)
(* late mark overwrites it.                                                *)
SettledFrozen ==
    [][\A s \in Signals :
        settlement[s] # None => position'[s] = position[s]
                                /\ settlement'[s] = settlement[s]]_vars

(* A signal's decision is never replaced.                                  *)
DecisionFinal ==
    [][\A s \in Signals : decision[s] # None => decision'[s] = decision[s]]_vars

(* The transactions implement the atomic ledger.                           *)
Ledger == INSTANCE PaperLedger
LedgerSpec == Ledger!Spec

(* Every call that is not cut short returns: the locks that signals,       *)
(* requests, positions and the balance take in different orders never make *)
(* calls wait on each other for ever.                                      *)
CallsReturn == \A p \in Procs : pc[p] # "idle" ~> pc[p] = "idle"
====
