---- MODULE PaperLifecycleProofs ----
(***************************************************************************)
(* PaperLifecycle for any number of processes, signals and requests and    *)
(* for all terms, sizes and limits, on both databases.  The invariant says *)
(* which lock each call relies on and what that lock keeps true until the  *)
(* call commits; it is what makes rows read early still right when they    *)
(* are written.                                                            *)
(***************************************************************************)
EXTENDS PaperLifecycle, FoldProofs

-----------------------------------------------------------------------------
(* Sizing.                                                                 *)

(* An order within the trade cap is paid for by the balance.               *)
LEMMA CapWithinBalance ==
    ASSUME NEW cash \in Nat, NEW amount \in Nat, amount * Den <= TradeCap(cash)
    PROVE  amount <= cash
<1>1. Den \in Nat \ {0} /\ TradeNum \in Nat /\ TradeNum <= Den
  BY RiskAssumption
<1>2. TradeNum * cash <= Den * cash
  BY <1>1, ProductMonotone
<1>3. amount * Den <= cash * Den
  BY <1>1, <1>2, SMT DEF TradeCap
<1> QED
  BY <1>1, <1>3, SMT

(* size_order: the order it approves is a positive number of shares, no    *)
(* fewer than the market's minimum and no more than were asked for, whose  *)
(* cost respects the trade cap and the exposure room and is covered by the *)
(* balance, for all inputs it accepts and any profit or loss.              *)
THEOREM ApprovedWithinCaps ==
    ASSUME NEW cash, NEW price, NEW requested, NEW exposure, NEW minimum, NEW pnl,
           RiskInputsValid(cash, price, requested, exposure, minimum),
           NEW n, n = SizeOrder(cash, price, requested, exposure, minimum, pnl),
           n # 0
    PROVE  /\ n \in Nat \ {0}
           /\ minimum <= n /\ n <= requested
           /\ n * price <= cash
           /\ (n * price) * Den <= TradeCap(cash)
           /\ (n * price) * Den <= ExposureRoom(cash, exposure)
<1> DEFINE cap == TradeCap(cash)
           room == ExposureRoom(cash, exposure)
           allowed == AllowedNotional(cash, exposure)
           unit == price * Den
<1>1. /\ cash \in Nat \ {0} /\ price \in Nat \ {0} /\ requested \in Nat
      /\ exposure \in Nat /\ minimum \in Nat \ {0} /\ Den \in Nat \ {0}
      /\ TradeNum \in Nat /\ ExposureNum \in Nat
  BY RiskAssumption DEF RiskInputsValid
<1>2. /\ OrderApproved(cash, price, requested, exposure, minimum, pnl)
      /\ n = SizedShares(cash, price, requested, exposure)
  BY DEF SizeOrder
<1>3. n >= minimum /\ room > 0
  BY <1>2 DEF OrderApproved
<1>4. cap \in Nat
  BY <1>1, ProductNat DEF TradeCap
<1>5. cash * ExposureNum \in Nat /\ exposure * Den \in Nat
  BY <1>1, ProductNat
<1>6. room \in Nat
  BY <1>3, <1>5 DEF ExposureRoom
<1>7. allowed \in Nat /\ allowed <= cap /\ allowed <= room
  BY <1>4, <1>6 DEF AllowedNotional, Least
<1>8. unit \in Nat \ {0}
  BY <1>1, SMT
<1>9. allowed \div unit \in Nat /\ (allowed \div unit) * unit <= allowed
  BY <1>7, <1>8, QuotientWithinBudget
<1>10. n = Least(requested, allowed \div unit)
  BY <1>2 DEF SizedShares
<1>11. n \in Nat /\ n <= requested /\ n <= allowed \div unit
  BY <1>1, <1>9, <1>10 DEF Least
<1>12. n * unit <= (allowed \div unit) * unit
  BY <1>8, <1>9, <1>11, ProductMonotone
<1>13. n * unit \in Nat /\ (allowed \div unit) * unit \in Nat
  BY <1>8, <1>9, <1>11, ProductNat
<1>14. n * unit <= cap /\ n * unit <= room
  BY <1>4, <1>6, <1>7, <1>9, <1>12, <1>13
<1>15. n * unit = (n * price) * Den
  BY <1>1, <1>11, ProductRegroups
<1>16. n * price \in Nat
  BY <1>1, <1>11, ProductNat
<1>17. n * price <= cash
  BY <1>1, <1>14, <1>15, <1>16, CapWithinBalance
<1> QED
  BY <1>1, <1>3, <1>11, <1>14, <1>15, <1>17

-----------------------------------------------------------------------------
(* The invariant.                                                          *)

(* The lock that protects a row from its reading to its writing.           *)
SignalLock(s) == IF Dialect = "sqlite" THEN Writer ELSE SignalRow(s)
RequestLock(r) == IF Dialect = "sqlite" THEN Writer ELSE RequestKey(r)
PositionLock(s) == IF Dialect = "sqlite" THEN Writer ELSE PositionRow(s)
MoneyLock == IF Dialect = "sqlite" THEN Writer ELSE BalanceRow

LocksExclusive == \A p, q \in Procs : p # q => holds[p] \cap holds[q] = {}

JobOfCall(p) ==
    /\ pc[p] \in {"lookup", "check", "size", "insert", "decide"} => job[p] \in ExecuteJobs
    /\ pc[p] \in {"claim", "credit", "pay"} => job[p] \in SettleJobs
    /\ pc[p] \in {"read", "mark"} => job[p] \in MarkJobs

(* The signal row's lock keeps the signal undecided.                       *)
Deciding(p) ==
    pc[p] \in {"check", "size", "insert", "decide"} =>
        SignalLock(job[p].signal) \in holds[p] /\ decision[job[p].signal] = None

Unsized(p) == pc[p] \in {"idle", "lookup", "check", "size"} => tx[p] = NoTx

(* The balance row's lock keeps the balance and the exposure the order was *)
(* sized from.                                                             *)
Funded(p) ==
    pc[p] \in {"insert", "decide"} /\ tx[p].shares # 0 =>
        /\ MoneyLock \in holds[p]
        /\ tx[p].cash = balance
        /\ UnitCost(job[p].signal) \in 1..One
        /\ WithinCaps(balance, position, tx[p].shares * UnitCost(job[p].signal))

(* The unique index keeps the request id unbound.                          *)
Requesting(p) ==
    pc[p] = "decide" => RequestLock(job[p].request) \in holds[p]
                        /\ ~RequestUsed(job[p].request)

(* The position row's lock keeps it open.                                  *)
Settling(p) ==
    pc[p] \in {"credit", "pay"} => PositionLock(job[p].signal) \in holds[p]
                                   /\ IsOpen(position, job[p].signal)

Paying(p) == pc[p] = "pay" => MoneyLock \in holds[p] /\ tx[p].cash = balance

(* Positions are never deleted; only PostgreSQL keeps a marked one open.   *)
HasPosition(p) ==
    pc[p] \in {"claim", "read", "mark"} => position[job[p].signal] # None

Marking(p) ==
    pc[p] = "mark" /\ Dialect = "postgresql" =>
        /\ PositionLock(job[p].signal) \in holds[p]
        /\ IsOpen(position, job[p].signal)
        /\ tx[p].pnl = MarkedPnl(position, job[p].signal, job[p].mark)

CallOK(p) ==
    /\ JobOfCall(p) /\ Deciding(p) /\ Unsized(p) /\ Funded(p) /\ Requesting(p)
    /\ Settling(p) /\ Paying(p) /\ HasPosition(p) /\ Marking(p)

CallsOK == \A p \in Procs : CallOK(p)

IInv == TypeOK /\ LocksExclusive /\ RowsAgree /\ RequestsUnique /\ CallsOK

-----------------------------------------------------------------------------
(* Locks.                                                                  *)

LEMMA LocksAreResources ==
    /\ BalanceLock \subseteq Resources
    /\ \A r \in Requests : InsertLocks(r) \subseteq Resources
    /\ \A s \in Signals :
        /\ BeginMoneyWrite \cup ForUpdate(SignalRow(s)) \subseteq Resources
        /\ BeginMoneyWrite \cup ForUpdate(PositionRow(s)) \subseteq Resources
        /\ ForUpdate(PositionRow(s)) \subseteq Resources
  BY DEF Resources, BeginMoneyWrite, ForUpdate, ToWrite, BalanceLock, InsertLocks

LEMMA TakeKeepsExclusive ==
    ASSUME TypeOK, LocksExclusive, NEW p \in Procs, NEW locks \in SUBSET Resources,
           Take(p, locks)
    PROVE  /\ LocksExclusive'
           /\ holds' \in [Procs -> SUBSET Resources]
           /\ holds[p] \cup locks \subseteq holds'[p]
           /\ \A q \in Procs \ {p} : holds'[q] = holds[q]
<1>1. holds \in [Procs -> SUBSET Resources]
  BY DEF TypeOK
<1>2. holds' = [holds EXCEPT ![p] = holds[p] \cup locks]
  BY DEF Take
<1>3. \A q \in Procs \ {p} : holds[q] \cap locks = {}
  BY DEF Take, Available
<1>4. holds'[p] = holds[p] \cup locks /\ \A q \in Procs \ {p} : holds'[q] = holds[q]
  BY <1>1, <1>2
<1>5. LocksExclusive'
  BY <1>3, <1>4 DEF LocksExclusive
<1> QED
  BY <1>1, <1>2, <1>4, <1>5

(* A closed session holds nothing and has read nothing.                    *)
LEMMA EndSessionEffect ==
    ASSUME TypeOK, LocksExclusive, NEW p \in Procs, EndSession(p)
    PROVE  /\ LocksExclusive'
           /\ pc' \in [Procs -> {"idle", "lookup", "check", "size", "insert", "decide",
                                 "claim", "credit", "pay", "read", "mark"}]
           /\ job' \in [Procs -> ExecuteJobs \cup SettleJobs \cup MarkJobs \cup {None}]
           /\ tx' \in [Procs -> [cash: Nat, shares: Nat, pnl: Int, at: Times]]
           /\ holds' \in [Procs -> SUBSET Resources]
           /\ calls' \in Nat
           /\ CallOK(p)'
           /\ \A q \in Procs \ {p} : /\ pc'[q] = pc[q] /\ job'[q] = job[q]
                                     /\ tx'[q] = tx[q] /\ holds'[q] = holds[q]
<1>1. /\ pc' = [pc EXCEPT ![p] = "idle"]
      /\ job' = [job EXCEPT ![p] = None]
      /\ tx' = [tx EXCEPT ![p] = NoTx]
      /\ holds' = [holds EXCEPT ![p] = {}]
      /\ calls' = calls
  BY DEF EndSession, Goto
<1>2. pc'[p] = "idle" /\ tx'[p] = NoTx /\ holds'[p] = {}
  BY <1>1 DEF TypeOK
<1>3. \A q \in Procs \ {p} : /\ pc'[q] = pc[q] /\ job'[q] = job[q]
                             /\ tx'[q] = tx[q] /\ holds'[q] = holds[q]
  BY <1>1 DEF TypeOK
<1>4. CallOK(p)'
  BY <1>2 DEF CallOK, JobOfCall, Deciding, Unsized, Funded, Requesting, Settling,
              Paying, HasPosition, Marking
<1>5. LocksExclusive'
  BY <1>2, <1>3 DEF LocksExclusive
<1>6. NoTx \in [cash: Nat, shares: Nat, pnl: Int, at: Times]
  BY BooksAssumption DEF NoTx, Times
<1>7. /\ pc' \in [Procs -> {"idle", "lookup", "check", "size", "insert", "decide",
                            "claim", "credit", "pay", "read", "mark"}]
      /\ job' \in [Procs -> ExecuteJobs \cup SettleJobs \cup MarkJobs \cup {None}]
      /\ tx' \in [Procs -> [cash: Nat, shares: Nat, pnl: Int, at: Times]]
      /\ holds' \in [Procs -> SUBSET Resources]
      /\ calls' \in Nat
  BY <1>1, <1>6 DEF TypeOK
<1> QED
  BY <1>3, <1>4, <1>5, <1>7

-----------------------------------------------------------------------------
(* Steps that leave the committed rows alone.                              *)

LEMMA CallFrame ==
    ASSUME NEW q \in Procs, CallOK(q), UNCHANGED books,
           pc'[q] = pc[q], job'[q] = job[q], tx'[q] = tx[q], holds'[q] = holds[q]
    PROVE  CallOK(q)'
<1>1. JobOfCall(q)' /\ Deciding(q)' /\ Unsized(q)' /\ Settling(q)' /\ Paying(q)'
      /\ HasPosition(q)'
  BY DEF CallOK, JobOfCall, Deciding, Unsized, Settling, Paying, HasPosition, books
<1>2. Funded(q)'
  BY DEF CallOK, Funded, books
<1>3. Requesting(q)'
  BY DEF CallOK, Requesting, books, RequestUsed
<1>4. Marking(q)'
  BY DEF CallOK, Marking, books
<1> QED
  BY <1>1, <1>2, <1>3, <1>4 DEF CallOK

LEMMA BooksFrame ==
    ASSUME TypeOK, RowsAgree, RequestsUnique, UNCHANGED books
    PROVE  /\ RowsAgree' /\ RequestsUnique'
           /\ balance' \in Nat
           /\ decision' \in [Signals -> Decisions \cup {None}]
           /\ position' \in [Signals -> Positions \cup {None}]
           /\ settlement' \in [Signals -> Settlements \cup {None}]
  BY DEF TypeOK, RowsAgree, RequestsUnique, books

(* A step of one call: what is left to show is its own part.               *)
LEMMA LocalStep ==
    ASSUME IInv, NEW p \in Procs, UNCHANGED books, UNCHANGED world,
           pc' \in [Procs -> {"idle", "lookup", "check", "size", "insert", "decide",
                              "claim", "credit", "pay", "read", "mark"}],
           job' \in [Procs -> ExecuteJobs \cup SettleJobs \cup MarkJobs \cup {None}],
           tx' \in [Procs -> [cash: Nat, shares: Nat, pnl: Int, at: Times]],
           holds' \in [Procs -> SUBSET Resources],
           calls' \in Nat,
           LocksExclusive',
           CallOK(p)',
           \A q \in Procs \ {p} : /\ pc'[q] = pc[q] /\ job'[q] = job[q]
                                  /\ tx'[q] = tx[q] /\ holds'[q] = holds[q]
    PROVE  IInv'
<1>1. TypeOK'
  BY BooksFrame DEF IInv, TypeOK, world
<1>2. RowsAgree' /\ RequestsUnique'
  BY BooksFrame DEF IInv
<1>3. ASSUME NEW q \in Procs PROVE CallOK(q)'
  <2>1. CASE q = p
    BY <2>1
  <2>2. CASE q # p
    BY <2>2, CallFrame DEF IInv, CallsOK
  <2> QED
    BY <2>1, <2>2
<1> QED
  BY <1>1, <1>2, <1>3 DEF IInv, CallsOK

(* A call that ends with nothing written.                                  *)
LEMMA RolledBack ==
    ASSUME IInv, NEW p \in Procs, EndSession(p), UNCHANGED books, UNCHANGED world
    PROVE  IInv'
  BY EndSessionEffect, LocalStep DEF IInv

(* A call that starts.                                                     *)
LEMMA Started ==
    ASSUME IInv, NEW p \in Procs, NEW label \in {"lookup", "claim", "read"}, NEW j,
           Begin(p, label, j), UNCHANGED books, UNCHANGED world,
           \/ label = "lookup" /\ j \in ExecuteJobs
           \/ label = "claim" /\ j \in SettleJobs /\ position[j.signal] # None
           \/ label = "read" /\ j \in MarkJobs /\ position[j.signal] # None
    PROVE  IInv'
<1> USE DEF IInv
<1>1. /\ pc[p] = "idle" /\ pc' = [pc EXCEPT ![p] = label]
      /\ job' = [job EXCEPT ![p] = j]
      /\ tx' = tx /\ holds' = holds /\ calls' = calls + 1
  BY DEF Begin, Goto
<1>2. /\ pc'[p] = label /\ job'[p] = j /\ tx'[p] = tx[p] /\ holds'[p] = holds[p]
      /\ \A q \in Procs \ {p} : /\ pc'[q] = pc[q] /\ job'[q] = job[q]
                                /\ tx'[q] = tx[q] /\ holds'[q] = holds[q]
  BY <1>1 DEF TypeOK
<1>3. CallOK(p)
  BY DEF CallsOK
<1>4. tx'[p] = NoTx /\ position' = position
  BY <1>1, <1>2, <1>3 DEF CallOK, Unsized, books
<1>5. CallOK(p)'
  BY <1>2, <1>4 DEF CallOK, JobOfCall, Deciding, Unsized, Funded, Requesting,
                    Settling, Paying, HasPosition, Marking
<1>6. /\ pc' \in [Procs -> {"idle", "lookup", "check", "size", "insert", "decide",
                            "claim", "credit", "pay", "read", "mark"}]
      /\ job' \in [Procs -> ExecuteJobs \cup SettleJobs \cup MarkJobs \cup {None}]
      /\ tx' \in [Procs -> [cash: Nat, shares: Nat, pnl: Int, at: Times]]
      /\ holds' \in [Procs -> SUBSET Resources]
      /\ calls' \in Nat
  BY <1>1 DEF TypeOK
<1>7. LocksExclusive'
  BY <1>1 DEF LocksExclusive
<1> QED
  BY <1>2, <1>5, <1>6, <1>7, LocalStep

LEMMA StartExecuteStep ==
    ASSUME IInv, NEW p \in Procs, StartExecute(p)
    PROVE  IInv'
<1>1. UNCHANGED books /\ UNCHANGED world
  BY DEF StartExecute
<1>2. PICK s \in Signals, r \in Requests, n \in Sizes, now \in 0..clock :
         Begin(p, "lookup", ExecuteCall(s, r, n, now))
  BY DEF StartExecute
<1>3. now \in Times
  BY BooksAssumption DEF IInv, TypeOK, Times
<1>4. ExecuteCall(s, r, n, now) \in ExecuteJobs
  BY <1>3 DEF ExecuteCall, ExecuteJobs
<1> QED
  BY <1>1, <1>2, <1>4, Started

LEMMA StartSettleStep ==
    ASSUME IInv, NEW p \in Procs, StartSettle(p)
    PROVE  IInv'
<1>1. UNCHANGED books /\ UNCHANGED world
  BY DEF StartSettle
<1>2. PICK s \in Signals : IsOpen(position, s) /\ Begin(p, "claim", [signal |-> s])
  BY DEF StartSettle
<1>3. [signal |-> s] \in SettleJobs /\ position[s] # None
  BY <1>2 DEF SettleJobs, IsOpen
<1> QED
  BY <1>1, <1>2, <1>3, Started

LEMMA StartMarkStep ==
    ASSUME IInv, NEW p \in Procs, StartMark(p)
    PROVE  IInv'
<1>1. UNCHANGED books /\ UNCHANGED world
  BY DEF StartMark
<1>2. PICK s \in Signals, m \in MarkPrices :
         position[s] # None /\ Begin(p, "read", [signal |-> s, mark |-> m])
  BY DEF StartMark
<1>3. [signal |-> s, mark |-> m] \in MarkJobs
  BY DEF MarkJobs
<1> QED
  BY <1>1, <1>2, <1>3, Started

(* A call that goes on to another label with its job.                      *)
LEMMA Continues ==
    ASSUME TypeOK, NEW p \in Procs,
           NEW label \in {"check", "size", "insert", "decide", "credit", "pay", "mark"},
           Goto(p, label), UNCHANGED <<job, calls>>
    PROVE  /\ pc' \in [Procs -> {"idle", "lookup", "check", "size", "insert", "decide",
                                 "claim", "credit", "pay", "read", "mark"}]
           /\ job' \in [Procs -> ExecuteJobs \cup SettleJobs \cup MarkJobs \cup {None}]
           /\ calls' \in Nat
           /\ pc'[p] = label /\ job'[p] = job[p]
           /\ \A q \in Procs \ {p} : pc'[q] = pc[q] /\ job'[q] = job[q]
  BY DEF TypeOK, Goto

LEMMA LookUpDecisionStep ==
    ASSUME IInv, NEW p \in Procs, LookUpDecision(p)
    PROVE  IInv'
<1> DEFINE s == job[p].signal
           locks == BeginMoneyWrite \cup ForUpdate(SignalRow(s))
<1> USE DEF IInv
<1>1. pc[p] = "lookup" /\ UNCHANGED books /\ UNCHANGED world
  BY DEF LookUpDecision
<1>2. CASE EndSession(p)
  BY <1>1, <1>2, RolledBack
<1>3. CASE /\ ~Answered(s, job[p].request)
           /\ Take(p, locks) /\ Goto(p, "check") /\ UNCHANGED <<job, tx, calls>>
  <2>1. CallOK(p) /\ job[p] \in ExecuteJobs
    BY <1>1 DEF CallsOK, CallOK, JobOfCall
  <2>2. s \in Signals /\ job[p].request \in Requests
    BY <2>1 DEF ExecuteJobs
  <2>3. locks \in SUBSET Resources
    BY <2>2, LocksAreResources
  <2>4. /\ LocksExclusive' /\ holds' \in [Procs -> SUBSET Resources]
        /\ holds[p] \cup locks \subseteq holds'[p]
        /\ \A q \in Procs \ {p} : holds'[q] = holds[q]
    BY <1>3, <2>3, TakeKeepsExclusive
  <2>5. SignalLock(s) \in holds'[p]
    BY <2>4, LifecycleAssumption DEF SignalLock, BeginMoneyWrite, ForUpdate
  <2>6. decision[s] = None
    BY <1>3 DEF Answered
  <2>7. /\ pc'[p] = "check" /\ job'[p] = job[p] /\ tx' = tx
        /\ decision' = decision
    BY <1>1, <1>3, Continues DEF books
  <2>8. CallOK(p)'
    BY <1>1, <2>1, <2>5, <2>6, <2>7
       DEF CallOK, JobOfCall, Deciding, Unsized, Funded, Requesting,
           Settling, Paying, HasPosition, Marking, SignalLock
  <2> QED
    BY <1>1, <1>3, <2>4, <2>8, Continues, LocalStep DEF TypeOK
<1> QED
  BY <1>2, <1>3 DEF LookUpDecision

LEMMA CheckEligibilityStep ==
    ASSUME IInv, NEW p \in Procs, CheckEligibility(p)
    PROVE  IInv'
<1> USE DEF IInv
<1>1. /\ pc[p] = "check" /\ UNCHANGED <<job, tx, holds, calls>>
      /\ UNCHANGED books /\ UNCHANGED world
  BY DEF CheckEligibility
<1>2. PICK label \in {"size", "insert"} : Goto(p, label)
  BY DEF CheckEligibility
<1>3. CallOK(p) /\ tx[p].shares = 0
  BY <1>1 DEF CallsOK, CallOK, Unsized, NoTx
<1>4. /\ pc'[p] = label /\ job'[p] = job[p] /\ tx' = tx /\ holds' = holds
      /\ decision' = decision
  BY <1>1, <1>2, Continues DEF books
<1>5. CallOK(p)'
  BY <1>1, <1>3, <1>4 DEF CallOK, JobOfCall, Deciding, Unsized, Funded, Requesting,
                          Settling, Paying, HasPosition, Marking, SignalLock
<1>6. LocksExclusive'
  BY <1>1 DEF LocksExclusive
<1> QED
  BY <1>1, <1>2, <1>5, <1>6, Continues, LocalStep DEF TypeOK

(* What size_order approved is paid for by the balance it read.            *)
LEMMA SizedWithinCaps ==
    ASSUME TypeOK, NEW j \in ExecuteJobs, Sized(j) # 0,
           RiskInputsValid(balance, UnitCost(j.signal), j.want, Exposure(position),
                           Terms[j.signal].minimum)
    PROVE  /\ Sized(j) \in Nat
           /\ UnitCost(j.signal) \in 1..One
           /\ WithinCaps(balance, position, Sized(j) * UnitCost(j.signal))
<1>1. UnitCost(j.signal) \in 1..One
  BY DEF RiskInputsValid
<1> QED
  BY <1>1, ApprovedWithinCaps DEF Sized, WithinCaps

LEMMA SizeUnderBalanceLockStep ==
    ASSUME IInv, NEW p \in Procs, SizeUnderBalanceLock(p)
    PROVE  IInv'
<1> DEFINE j == job[p]
           valid == RiskInputsValid(balance, UnitCost(j.signal), j.want,
                                    Exposure(position), Terms[j.signal].minimum)
<1> USE DEF IInv
<1>1. pc[p] = "size" /\ UNCHANGED books /\ UNCHANGED world
  BY DEF SizeUnderBalanceLock
<1>2. CASE EndSession(p)
  BY <1>1, <1>2, RolledBack
<1>3. CASE /\ valid
           /\ Take(p, BalanceLock)
           /\ tx' = [tx EXCEPT ![p].cash = balance, ![p].shares = Sized(j)]
           /\ Goto(p, "insert")
           /\ UNCHANGED <<job, calls>>
  <2>1. CallOK(p) /\ j \in ExecuteJobs
    BY <1>1 DEF CallsOK, CallOK, JobOfCall
  <2>2. j.signal \in Signals /\ j.request \in Requests
    BY <2>1 DEF ExecuteJobs
  <2>3. BalanceLock \in SUBSET Resources
    BY <2>2, LocksAreResources
  <2>4. /\ LocksExclusive' /\ holds' \in [Procs -> SUBSET Resources]
        /\ holds[p] \cup BalanceLock \subseteq holds'[p]
        /\ \A q \in Procs \ {p} : holds'[q] = holds[q]
    BY <1>3, <2>3, TakeKeepsExclusive
  <2>5. SignalLock(j.signal) \in holds'[p] /\ decision[j.signal] = None
    BY <1>1, <2>1, <2>4 DEF CallOK, Deciding
  <2>6. MoneyLock \in holds'[p]
    BY <2>4, <2>5, LifecycleAssumption DEF MoneyLock, SignalLock, BalanceLock, ForUpdate
  <2>7. /\ pc'[p] = "insert" /\ job'[p] = j
        /\ decision' = decision /\ balance' = balance /\ position' = position
    BY <1>1, <1>3, Continues DEF books
  <2>8. tx[p] \in [cash: Nat, shares: Nat, pnl: Int, at: Times] /\ balance \in Nat
    BY DEF TypeOK
  <2>9. Sized(j) \in Nat
    BY <1>3, <2>1, SizedWithinCaps
  <2>10. /\ tx'[p].cash = balance /\ tx'[p].shares = Sized(j)
         /\ \A q \in Procs \ {p} : tx'[q] = tx[q]
    BY <1>3, <2>8 DEF TypeOK
  <2>11. tx' \in [Procs -> [cash: Nat, shares: Nat, pnl: Int, at: Times]]
    BY <1>3, <2>8, <2>9 DEF TypeOK
  <2>12. Funded(p)'
    <3>1. CASE Sized(j) = 0
      BY <2>10, <3>1 DEF Funded
    <3>2. CASE Sized(j) # 0
      <4>1. /\ UnitCost(j.signal) \in 1..One
            /\ WithinCaps(balance, position, Sized(j) * UnitCost(j.signal))
        BY <1>3, <2>1, <3>2, SizedWithinCaps
      <4>2. WithinCaps(balance, position, Sized(j) * UnitCost(j.signal))'
                = WithinCaps(balance', position', Sized(j)' * UnitCost(j.signal)')
        BY DEF WithinCaps
      <4> QED
        BY <2>6, <2>7, <2>10, <4>1 DEF Funded
    <3> QED
      BY <3>1, <3>2
  <2>13. CallOK(p)'
    BY <2>1, <2>5, <2>7, <2>12
       DEF CallOK, JobOfCall, Deciding, Unsized, Requesting,
           Settling, Paying, HasPosition, Marking, SignalLock
  <2> QED
    BY <1>1, <1>3, <2>4, <2>10, <2>11, <2>13, Continues, LocalStep
<1> QED
  BY <1>2, <1>3 DEF SizeUnderBalanceLock

LEMMA InsertDecisionStep ==
    ASSUME IInv, NEW p \in Procs, InsertDecision(p)
    PROVE  IInv'
<1> DEFINE r == job[p].request
<1> USE DEF IInv
<1>1. pc[p] = "insert" /\ UNCHANGED books /\ UNCHANGED world
  BY DEF InsertDecision
<1>2. CASE EndSession(p)
  BY <1>1, <1>2, RolledBack
<1>3. CASE /\ ~UniqueViolated(r)
           /\ Take(p, InsertLocks(r)) /\ Goto(p, "decide") /\ UNCHANGED <<job, tx, calls>>
  <2>1. CallOK(p) /\ job[p] \in ExecuteJobs
    BY <1>1 DEF CallsOK, CallOK, JobOfCall
  <2>2. job[p].signal \in Signals /\ r \in Requests
    BY <2>1 DEF ExecuteJobs
  <2>3. InsertLocks(r) \in SUBSET Resources
    BY <2>2, LocksAreResources
  <2>4. /\ LocksExclusive' /\ holds' \in [Procs -> SUBSET Resources]
        /\ holds[p] \cup InsertLocks(r) \subseteq holds'[p]
        /\ \A q \in Procs \ {p} : holds'[q] = holds[q]
    BY <1>3, <2>3, TakeKeepsExclusive
  <2>5. RequestLock(r) \in holds'[p]
    BY <2>4 DEF RequestLock, InsertLocks, ToWrite
  <2>6. /\ pc'[p] = "decide" /\ job'[p] = job[p] /\ tx' = tx
        /\ decision' = decision /\ balance' = balance /\ position' = position
    BY <1>1, <1>3, Continues DEF books
  <2>7. Requesting(p)'
    BY <1>3, <2>5, <2>6 DEF Requesting, UniqueViolated, RequestUsed, RequestLock
  <2>8. Funded(p)'
    BY <1>1, <2>1, <2>4, <2>6 DEF CallOK, Funded
  <2>9. CallOK(p)'
    BY <1>1, <2>1, <2>4, <2>6, <2>7, <2>8
       DEF CallOK, JobOfCall, Deciding, Unsized,
           Settling, Paying, HasPosition, Marking, SignalLock
  <2> QED
    BY <1>1, <1>3, <2>4, <2>9, Continues, LocalStep DEF TypeOK
<1> QED
  BY <1>2, <1>3 DEF InsertDecision

LEMMA ClaimPositionStep ==
    ASSUME IInv, NEW p \in Procs, ClaimPosition(p)
    PROVE  IInv'
<1> DEFINE s == job[p].signal
           locks == BeginMoneyWrite \cup ForUpdate(PositionRow(s))
<1> USE DEF IInv
<1>1. pc[p] = "claim" /\ UNCHANGED books /\ UNCHANGED world
  BY DEF ClaimPosition
<1>2. CASE EndSession(p)
  BY <1>1, <1>2, RolledBack
<1>3. CASE /\ ~CannotSettle(s)
           /\ Take(p, locks) /\ Goto(p, "credit") /\ UNCHANGED <<job, calls>>
           /\ tx' = [tx EXCEPT ![p].at = clock]
  <2>1. CallOK(p) /\ job[p] \in SettleJobs
    BY <1>1 DEF CallsOK, CallOK, JobOfCall
  <2>2. s \in Signals /\ position[s] # None
    BY <1>1, <2>1 DEF SettleJobs, CallOK, HasPosition
  <2>3. IsOpen(position, s)
    BY <1>3, <2>2 DEF CannotSettle, RowsAgree
  <2>4. locks \in SUBSET Resources
    BY <2>2, LocksAreResources
  <2>5. /\ LocksExclusive' /\ holds' \in [Procs -> SUBSET Resources]
        /\ holds[p] \cup locks \subseteq holds'[p]
        /\ \A q \in Procs \ {p} : holds'[q] = holds[q]
    BY <1>3, <2>4, TakeKeepsExclusive
  <2>6. PositionLock(s) \in holds'[p]
    BY <2>5, LifecycleAssumption DEF PositionLock, BeginMoneyWrite, ForUpdate
  <2>7. pc'[p] = "credit" /\ job'[p] = job[p] /\ position' = position
    BY <1>1, <1>3, Continues DEF books
  <2>8. CallOK(p)'
    BY <2>1, <2>3, <2>6, <2>7
       DEF CallOK, JobOfCall, Deciding, Unsized, Funded, Requesting,
           Settling, Paying, HasPosition, Marking, PositionLock
  <2>9. tx[p] \in [cash: Nat, shares: Nat, pnl: Int, at: Times] /\ clock \in Times
    BY DEF TypeOK
  <2>10. /\ tx' \in [Procs -> [cash: Nat, shares: Nat, pnl: Int, at: Times]]
         /\ \A q \in Procs \ {p} : tx'[q] = tx[q]
    BY <1>3, <2>9 DEF TypeOK
  <2> QED
    BY <1>1, <1>3, <2>5, <2>8, <2>10, Continues, LocalStep
<1> QED
  BY <1>2, <1>3 DEF ClaimPosition

LEMMA LockBalanceForPayoutStep ==
    ASSUME IInv, NEW p \in Procs, LockBalanceForPayout(p)
    PROVE  IInv'
<1> USE DEF IInv
<1>1. /\ pc[p] = "credit" /\ UNCHANGED books /\ UNCHANGED world
      /\ Take(p, BalanceLock) /\ Goto(p, "pay") /\ UNCHANGED <<job, calls>>
      /\ tx' = [tx EXCEPT ![p].cash = balance]
  BY DEF LockBalanceForPayout
<1>2. CallOK(p)
  BY DEF CallsOK
<1>3. BalanceLock \in SUBSET Resources
  BY LocksAreResources
<1>4. /\ LocksExclusive' /\ holds' \in [Procs -> SUBSET Resources]
      /\ holds[p] \cup BalanceLock \subseteq holds'[p]
      /\ \A q \in Procs \ {p} : holds'[q] = holds[q]
  BY <1>1, <1>3, TakeKeepsExclusive
<1>5. PositionLock(job[p].signal) \in holds'[p]
  BY <1>1, <1>2, <1>4 DEF CallOK, Settling
<1>6. MoneyLock \in holds'[p]
  BY <1>4, <1>5, LifecycleAssumption DEF MoneyLock, PositionLock, BalanceLock, ForUpdate
<1>7. /\ pc'[p] = "pay" /\ job'[p] = job[p]
      /\ balance' = balance /\ position' = position
  BY <1>1, Continues DEF books
<1>8. tx[p] \in [cash: Nat, shares: Nat, pnl: Int, at: Times] /\ balance \in Nat
  BY DEF TypeOK
<1>9. /\ tx'[p].cash = balance
      /\ tx' \in [Procs -> [cash: Nat, shares: Nat, pnl: Int, at: Times]]
      /\ \A q \in Procs \ {p} : tx'[q] = tx[q]
  BY <1>1, <1>8 DEF TypeOK
<1>10. CallOK(p)'
  BY <1>1, <1>2, <1>5, <1>6, <1>7, <1>9
     DEF CallOK, JobOfCall, Deciding, Unsized, Funded, Requesting,
         Settling, Paying, HasPosition, Marking, PositionLock, MoneyLock
<1> QED
  BY <1>1, <1>4, <1>9, <1>10, Continues, LocalStep

LEMMA ReadForMarkStep ==
    ASSUME IInv, NEW p \in Procs, ReadForMark(p)
    PROVE  IInv'
<1> DEFINE s == job[p].signal
           mark == job[p].mark
           locks == ForUpdate(PositionRow(s))
<1> USE DEF IInv
<1>1. pc[p] = "read" /\ UNCHANGED books /\ UNCHANGED world
  BY DEF ReadForMark
<1>2. CASE EndSession(p)
  BY <1>1, <1>2, RolledBack
<1>3. CASE /\ ~NothingToMark(s, mark)
           /\ Take(p, locks)
           /\ tx' = [tx EXCEPT ![p].pnl = MarkedPnl(position, s, mark)]
           /\ Goto(p, "mark")
           /\ UNCHANGED <<job, calls>>
  <2>1. CallOK(p) /\ job[p] \in MarkJobs
    BY <1>1 DEF CallsOK, CallOK, JobOfCall
  <2>2. s \in Signals /\ mark \in Int /\ IsOpen(position, s)
    BY <1>3, <2>1, LifecycleAssumption, RiskAssumption DEF MarkJobs, NothingToMark
  <2>3. locks \in SUBSET Resources
    BY <2>2, LocksAreResources
  <2>4. /\ LocksExclusive' /\ holds' \in [Procs -> SUBSET Resources]
        /\ holds[p] \cup locks \subseteq holds'[p]
        /\ \A q \in Procs \ {p} : holds'[q] = holds[q]
    BY <1>3, <2>3, TakeKeepsExclusive
  <2>5. position[s] \in Positions
    BY <2>2 DEF TypeOK, IsOpen
  <2>6. MarkedPnl(position, s, mark) \in Int
    <3>1. position[s].shares \in Int /\ position[s].amount \in Int
      BY <2>5 DEF Positions
    <3>2. position[s].shares * mark \in Int
      BY <2>2, <3>1, SMT
    <3> QED
      BY <3>1, <3>2 DEF MarkedPnl
  <2>7. /\ pc'[p] = "mark" /\ job'[p] = job[p] /\ position' = position
    BY <1>1, <1>3, Continues DEF books
  <2>8. tx[p] \in [cash: Nat, shares: Nat, pnl: Int, at: Times]
    BY DEF TypeOK
  <2>9. /\ tx'[p].pnl = MarkedPnl(position, s, mark)
        /\ tx' \in [Procs -> [cash: Nat, shares: Nat, pnl: Int, at: Times]]
        /\ \A q \in Procs \ {p} : tx'[q] = tx[q]
    BY <1>3, <2>6, <2>8 DEF TypeOK
  <2>10. Marking(p)'
    BY <2>2, <2>4, <2>7, <2>9, LifecycleAssumption
       DEF Marking, PositionLock, ForUpdate, MarkedPnl
  <2>11. CallOK(p)'
    BY <1>1, <2>1, <2>7, <2>10
       DEF CallOK, JobOfCall, Deciding, Unsized, Funded, Requesting,
           Settling, Paying, HasPosition
  <2> QED
    BY <1>1, <1>3, <2>4, <2>9, <2>11, Continues, LocalStep
<1> QED
  BY <1>2, <1>3 DEF ReadForMark

LEMMA AbandonStep ==
    ASSUME IInv, NEW p \in Procs, Abandon(p)
    PROVE  IInv'
  BY RolledBack DEF Abandon

(* The operator, a rescan or the clock: no call and no book moves.         *)
LEMMA WorldStep ==
    ASSUME IInv, UNCHANGED <<local, calls, books>>,
           paused' \in BOOLEAN, accepted' \in [Signals -> BOOLEAN], clock' \in Times
    PROVE  IInv'
<1> USE DEF IInv
<1>1. /\ pc' = pc /\ job' = job /\ tx' = tx /\ holds' = holds /\ calls' = calls
      /\ UNCHANGED books
  BY DEF local
<1>2. TypeOK' /\ RowsAgree' /\ RequestsUnique'
  BY <1>1, BooksFrame DEF TypeOK
<1>3. LocksExclusive'
  BY <1>1 DEF LocksExclusive
<1>4. \A q \in Procs : CallOK(q)'
  BY <1>1, CallFrame DEF CallsOK
<1> QED
  BY <1>2, <1>3, <1>4 DEF CallsOK

LEMMA WorldSteps ==
    ASSUME IInv, SetPaused \/ (\E s \in Signals : Rescan(s)) \/ Tick
    PROVE  IInv' /\ UNCHANGED books
<1>1. CASE SetPaused
  BY <1>1, WorldStep DEF SetPaused, IInv, TypeOK
<1>2. CASE \E s \in Signals : Rescan(s)
  BY <1>2, WorldStep DEF Rescan, IInv, TypeOK
<1>3. CASE Tick
  <2>1. clock' \in Times
    BY <1>3, BooksAssumption DEF Tick, Times, IInv, TypeOK
  <2> QED
    BY <1>3, <2>1, WorldStep DEF Tick, IInv, TypeOK
<1> QED
  BY <1>1, <1>2, <1>3

-----------------------------------------------------------------------------
(* The three commits.                                                      *)

LEMMA OneHolder ==
    ASSUME LocksExclusive, NEW p \in Procs, NEW q \in Procs, NEW lock,
           lock \in holds[p], lock \in holds[q]
    PROVE  p = q
  BY DEF LocksExclusive

LEMMA EntryIsPosition ==
    ASSUME NEW s \in Signals, NEW n \in Nat, UnitCost(s) \in 1..One
    PROVE  /\ n * UnitCost(s) \in Nat
           /\ Entry(s, n) \in Positions
           /\ Entry(s, n) # None
           /\ Entry(s, n).status = "open" /\ Entry(s, n).shares = n
           /\ Entry(s, n).amount = n * UnitCost(s)
<1>1. UnitCost(s) \in Nat
  BY RiskAssumption
<1>2. n * UnitCost(s) \in Nat
  BY <1>1, ProductNat
<1>3. Terms[s].fee \in Nat
  BY BooksAssumption DEF SignalTerms
<1>4. n * Terms[s].fee \in Nat
  BY <1>3, ProductNat
<1>5. -(n * Terms[s].fee) \in Int
  BY <1>4
<1>6. Entry(s, n) \in Positions
  BY <1>2, <1>5 DEF Entry, Positions
<1> QED
  BY <1>2, <1>6, NoneIsNoRow DEF Entry

(* What the locks of the committing call tell it.                          *)
LEMMA CommitDecisionFacts ==
    ASSUME IInv, NEW p \in Procs, CommitDecision(p)
    PROVE  /\ pc[p] = "decide" /\ job[p] \in ExecuteJobs
           /\ SignalLock(job[p].signal) \in holds[p]
           /\ RequestLock(job[p].request) \in holds[p]
           /\ decision[job[p].signal] = None /\ position[job[p].signal] = None
           /\ ~RequestUsed(job[p].request)
           /\ tx[p].shares \in Nat
           /\ DecisionRow(p) \in Decisions
           /\ DecisionRow(p) # None
           /\ DecisionRow(p).shares = tx[p].shares
           /\ DecisionRow(p).request = job[p].request
           /\ tx[p].shares # 0 =>
                /\ MoneyLock \in holds[p] /\ tx[p].cash = balance
                /\ UnitCost(job[p].signal) \in 1..One
                /\ WithinCaps(balance, position, tx[p].shares * UnitCost(job[p].signal))
<1> USE DEF IInv
<1>1. pc[p] = "decide" /\ CallOK(p)
  BY DEF CommitDecision, CallsOK
<1>2. job[p] \in ExecuteJobs
  BY <1>1 DEF CallOK, JobOfCall
<1>3. /\ SignalLock(job[p].signal) \in holds[p] /\ decision[job[p].signal] = None
      /\ RequestLock(job[p].request) \in holds[p] /\ ~RequestUsed(job[p].request)
  BY <1>1 DEF CallOK, Deciding, Requesting
<1>4. position[job[p].signal] = None
  BY <1>2, <1>3 DEF RowsAgree, ExecuteJobs
<1>5. tx[p].shares \in Nat
  BY DEF TypeOK
<1>6. DecisionRow(p) \in Decisions
  BY <1>2, <1>5 DEF DecisionRow, Decisions, ExecuteJobs
<1> QED
  BY <1>1, <1>2, <1>3, <1>4, <1>5, <1>6, NoneIsNoRow
     DEF CallOK, Funded, DecisionRow

LEMMA CommitDecisionTyped ==
    ASSUME IInv, NEW p \in Procs, CommitDecision(p)
    PROVE  TypeOK' /\ LocksExclusive'
<1> DEFINE s == job[p].signal
           n == tx[p].shares
<1> USE DEF IInv
<1>1. EndSession(p) /\ UNCHANGED <<settlement, world>>
  BY DEF CommitDecision
<1>2. s \in Signals
  BY CommitDecisionFacts DEF ExecuteJobs
<1>3. decision' \in [Signals -> Decisions \cup {None}]
  <2>1. decision' = [decision EXCEPT ![s] = DecisionRow(p)]
    BY DEF CommitDecision
  <2> QED
    BY <2>1, CommitDecisionFacts DEF TypeOK
<1>4. balance' \in Nat /\ position' \in [Signals -> Positions \cup {None}]
  <2>1. CASE n = 0
    BY <2>1 DEF CommitDecision, TypeOK
  <2>2. CASE n # 0
    <3>1. n \in Nat /\ UnitCost(s) \in 1..One /\ tx[p].cash = balance
          /\ WithinCaps(balance, position, n * UnitCost(s))
      BY <2>2, CommitDecisionFacts
    <3>2. position' = [position EXCEPT ![s] = Entry(s, n)]
          /\ balance' = balance - n * UnitCost(s)
      BY <2>2, <3>1 DEF CommitDecision
    <3>3. n * UnitCost(s) \in Nat /\ Entry(s, n) \in Positions
      BY <1>2, <3>1, EntryIsPosition
    <3>4. balance \in Nat
      BY DEF TypeOK
    <3>5. n * UnitCost(s) <= balance
      BY <3>1, <3>3, <3>4, CapWithinBalance DEF WithinCaps
    <3>6. \A a \in Nat : a <= balance => balance - a \in Nat
      BY <3>4
    <3>7. balance' \in Nat
      BY <3>2, <3>3, <3>5, <3>6, Zenon
    <3> QED
      BY <3>2, <3>3, <3>7 DEF TypeOK
  <2> QED
    BY <2>1, <2>2
<1> QED
  BY <1>1, <1>3, <1>4, EndSessionEffect DEF TypeOK, world

LEMMA CommitDecisionRows ==
    ASSUME IInv, NEW p \in Procs, CommitDecision(p)
    PROVE  RowsAgree' /\ RequestsUnique'
<1> DEFINE s == job[p].signal
           n == tx[p].shares
           row == DecisionRow(p)
<1> USE DEF IInv
<1>1. s \in Signals
  BY CommitDecisionFacts DEF ExecuteJobs
<1>2. /\ decision' = [decision EXCEPT ![s] = row] /\ settlement' = settlement
  BY DEF CommitDecision
<1>3. /\ decision'[s] = row /\ row # None /\ row.shares = n
      /\ row.request = job[p].request
      /\ \A t \in Signals \ {s} : decision'[t] = decision[t]
  BY <1>1, <1>2, CommitDecisionFacts DEF TypeOK
<1>4. RequestsUnique'
  <2>1. \A t \in Signals : decision[t] # None => decision[t].request # row.request
    BY <1>3, CommitDecisionFacts DEF RequestUsed
  <2> QED
    BY <1>3, <2>1 DEF RequestsUnique
<1>5. position[s] = None /\ n \in Nat
  BY CommitDecisionFacts
<1>6. settlement[s] = None
  BY <1>1, <1>5 DEF RowsAgree
<1>7. /\ \A t \in Signals \ {s} : position'[t] = position[t]
      /\ n = 0 => position'[s] = None
      /\ n # 0 => /\ position'[s] # None /\ position'[s].shares = n
                  /\ position'[s].status = "open"
  <2>1. CASE n = 0
    BY <1>5, <2>1 DEF CommitDecision
  <2>2. CASE n # 0
    <3>1. UnitCost(s) \in 1..One
      BY <2>2, CommitDecisionFacts
    <3>2. position' = [position EXCEPT ![s] = Entry(s, n)]
      BY <2>2, <1>5 DEF CommitDecision
    <3> QED
      BY <1>1, <1>5, <2>2, <3>1, <3>2, EntryIsPosition DEF TypeOK
  <2> QED
    BY <2>1, <2>2
<1>8. ASSUME NEW t \in Signals
      PROVE  /\ (position'[t] # None) <=> (decision'[t] # None /\ decision'[t].shares > 0)
             /\ position'[t] # None => position'[t].shares = decision'[t].shares
             /\ (settlement'[t] # None) <=> (position'[t] # None /\ ~IsOpen(position', t))
             /\ settlement'[t] # None => position'[t].realized = settlement'[t].realized
  <2>1. CASE t = s
    BY <1>2, <1>3, <1>5, <1>6, <1>7, <2>1 DEF IsOpen
  <2>2. CASE t # s
    <3>1. decision'[t] = decision[t] /\ position'[t] = position[t]
          /\ settlement'[t] = settlement[t]
      BY <1>2, <1>3, <1>7, <2>2
    <3>2. IsOpen(position', t) <=> IsOpen(position, t)
      BY <3>1 DEF IsOpen
    <3> QED
      BY <3>1, <3>2 DEF RowsAgree
  <2> QED
    BY <2>1, <2>2
<1>9. RowsAgree'
  BY <1>8 DEF RowsAgree
<1> QED
  BY <1>4, <1>9

LEMMA CommitDecisionOthers ==
    ASSUME IInv, NEW p \in Procs, CommitDecision(p), NEW q \in Procs \ {p},
           pc'[q] = pc[q], job'[q] = job[q], tx'[q] = tx[q], holds'[q] = holds[q]
    PROVE  CallOK(q)'
<1> DEFINE s == job[p].signal
           n == tx[p].shares
           t == job[q].signal
<1> USE DEF IInv
<1>1. /\ CallOK(q) /\ SignalLock(s) \in holds[p] /\ RequestLock(job[p].request) \in holds[p]
      /\ position[s] = None /\ n \in Nat /\ LocksExclusive /\ s \in Signals
  BY CommitDecisionFacts DEF CallsOK, ExecuteJobs
<1>2. \A u \in Signals \ {s} : decision'[u] = decision[u] /\ position'[u] = position[u]
  <2>1. /\ decision' = [decision EXCEPT ![s] = DecisionRow(p)]
        /\ n = 0 => position' = position
        /\ n # 0 => position' = [position EXCEPT ![s] = Entry(s, n)]
    BY <1>1 DEF CommitDecision
  <2> QED
    BY <2>1 DEF TypeOK
<1>3. Deciding(q)'
  <2>1. ASSUME pc[q] \in {"check", "size", "insert", "decide"}
        PROVE  t \in Signals \ {s} /\ decision[t] = None
    <3>1. SignalLock(t) \in holds[q] /\ decision[t] = None /\ job[q] \in ExecuteJobs
      BY <1>1, <2>1 DEF CallOK, Deciding, JobOfCall
    <3>2. t \in Signals
      BY <3>1 DEF ExecuteJobs
    <3> QED
      BY <1>1, <3>1, <3>2, OneHolder
  <2> QED
    BY <1>1, <1>2, <2>1 DEF Deciding, CallOK, SignalLock
<1>4. Requesting(q)'
  <2>1. ASSUME pc[q] = "decide"
        PROVE  /\ RequestLock(job[q].request) \in holds[q]
               /\ ~RequestUsed(job[q].request) /\ job[q].request # job[p].request
    <3>1. RequestLock(job[q].request) \in holds[q] /\ ~RequestUsed(job[q].request)
      BY <1>1, <2>1 DEF CallOK, Requesting
    <3> QED
      BY <1>1, <3>1, OneHolder
  <2>2. decision'[s] = DecisionRow(p) /\ DecisionRow(p).request = job[p].request
    BY <1>1, CommitDecisionFacts DEF CommitDecision, TypeOK
  <2> QED
    BY <1>2, <2>1, <2>2 DEF Requesting, RequestUsed, RequestLock
<1>5. Funded(q)' /\ Paying(q)'
  <2>1. CASE n = 0
    <3>1. balance' = balance /\ position' = position
      BY <2>1 DEF CommitDecision
    <3> QED
      BY <1>1, <3>1 DEF CallOK, Funded, Paying
  <2>2. CASE n # 0
    <3>1. MoneyLock \notin holds[q]
      BY <2>2, CommitDecisionFacts, OneHolder
    <3> QED
      BY <1>1, <3>1 DEF CallOK, Funded, Paying
  <2> QED
    BY <2>1, <2>2
<1>6. Settling(q)' /\ HasPosition(q)' /\ Marking(q)'
  <2>1. ASSUME pc[q] \in {"claim", "credit", "pay", "read", "mark"}
        PROVE  t \in Signals
    BY <1>1, <2>1 DEF CallOK, JobOfCall, SettleJobs, MarkJobs
  <2>2. Settling(q) /\ HasPosition(q) /\ Marking(q)
    BY <1>1 DEF CallOK
  <2>3. Settling(q)'
    BY <1>1, <1>2, <2>1, <2>2 DEF Settling, IsOpen, PositionLock
  <2>4. HasPosition(q)'
    BY <1>1, <1>2, <2>1, <2>2 DEF HasPosition
  <2>5. Marking(q)'
    <3>1. ASSUME pc[q] = "mark"
          PROVE  position'[t] = position[t]
      BY <1>1, <1>2, <2>1, <2>2, <3>1 DEF HasPosition
    <3> QED
      BY <2>2, <3>1 DEF Marking, IsOpen, PositionLock, MarkedPnl
  <2> QED
    BY <2>3, <2>4, <2>5
<1>7. JobOfCall(q)' /\ Unsized(q)'
  BY <1>1 DEF CallOK, JobOfCall, Unsized
<1> QED
  BY <1>3, <1>4, <1>5, <1>6, <1>7 DEF CallOK

LEMMA CommitDecisionStep ==
    ASSUME IInv, NEW p \in Procs, CommitDecision(p)
    PROVE  IInv'
<1>1. EndSession(p) /\ TypeOK /\ LocksExclusive
  BY DEF CommitDecision, IInv
<1>2. \A q \in Procs : CallOK(q)'
  <2>1. CallOK(p)' /\ \A q \in Procs \ {p} : /\ pc'[q] = pc[q] /\ job'[q] = job[q]
                                            /\ tx'[q] = tx[q] /\ holds'[q] = holds[q]
    BY <1>1, EndSessionEffect
  <2> QED
    BY <2>1, CommitDecisionOthers
<1> QED
  BY <1>2, CommitDecisionTyped, CommitDecisionRows DEF IInv, CallsOK

LEMMA CommitSettlementFacts ==
    ASSUME IInv, NEW p \in Procs, CommitSettlement(p)
    PROVE  /\ job[p].signal \in Signals
           /\ PositionLock(job[p].signal) \in holds[p]
           /\ MoneyLock \in holds[p]
           /\ tx[p].cash = balance
           /\ IsOpen(position, job[p].signal)
           /\ position[job[p].signal] \in Positions
           /\ settlement[job[p].signal] = None
<1> USE DEF IInv
<1>1. pc[p] = "pay" /\ CallOK(p)
  BY DEF CommitSettlement, CallsOK
<1>2. job[p].signal \in Signals
  BY <1>1 DEF CallOK, JobOfCall, SettleJobs
<1>3. IsOpen(position, job[p].signal)
  BY <1>1 DEF CallOK, Settling
<1>4. position[job[p].signal] \in Positions
  BY <1>2, <1>3 DEF IsOpen, TypeOK
<1>5. settlement[job[p].signal] = None
  BY <1>2, <1>3 DEF RowsAgree
<1> QED
  BY <1>1, <1>2, <1>3, <1>4, <1>5 DEF CallOK, Settling, Paying

LEMMA ClosedRow ==
    ASSUME NEW row \in Positions
    PROVE  LET closed == [row EXCEPT !.status = "settled"]
           IN  /\ closed \in Positions /\ closed.status = "settled"
               /\ closed.shares = row.shares /\ closed.amount = row.amount
<1>1. [row EXCEPT !.status = "settled"] \in Positions
  BY DEF Positions
<1> QED
  BY <1>1 DEF Positions

LEMMA MarkedRow ==
    ASSUME NEW row \in Positions, NEW x \in Int
    PROVE  LET marked == [row EXCEPT !.unrealized = x]
           IN  /\ marked \in Positions /\ marked.unrealized = x
               /\ marked.status = row.status /\ marked.realized = row.realized
               /\ marked.shares = row.shares /\ marked.amount = row.amount
<1>1. [row EXCEPT !.unrealized = x] \in Positions
  BY DEF Positions
<1> QED
  BY <1>1 DEF Positions

LEMMA RealizedRow ==
    ASSUME NEW row \in Positions, NEW x \in Int
    PROVE  LET realized == [row EXCEPT !.realized = x]
           IN  /\ realized \in Positions /\ realized.realized = x
               /\ realized.status = row.status
               /\ realized.shares = row.shares /\ realized.amount = row.amount
<1>1. [row EXCEPT !.realized = x] \in Positions
  BY DEF Positions
<1> QED
  BY <1>1 DEF Positions

LEMMA SettledIsPosition ==
    ASSUME TypeOK, NEW s \in Signals, position[s] \in Positions, NEW won \in BOOLEAN
    PROVE  /\ Payout(position, s, won) \in Nat
           /\ Realized(s, won) \in Int
           /\ Settled(position, s, won) \in Positions
           /\ Settled(position, s, won) # None
           /\ Settled(position, s, won).status = "settled"
           /\ Settled(position, s, won).realized = Realized(s, won)
           /\ Settled(position, s, won).shares = position[s].shares
           /\ Settled(position, s, won).amount = position[s].amount
<1>1. position[s].shares \in Nat /\ position[s].amount \in Nat /\ One \in Nat
  BY RiskAssumption DEF Positions
<1>2. position[s].shares * One \in Nat
  BY <1>1, ProductNat
<1>3. Payout(position, s, won) \in Nat
  BY <1>2 DEF Payout
<1>4. Payout(position, s, won) - position[s].amount \in Int
  BY <1>1, <1>3
<1> DEFINE row == position[s]
           x == Payout(position, s, won) - row.amount
           closed == [row EXCEPT !.status = "settled"]
           marked == [closed EXCEPT !.unrealized = 0]
<1>5. Settled(position, s, won) = [marked EXCEPT !.realized = x]
  BY DEF Settled
<1>6. /\ marked \in Positions /\ marked.status = "settled"
      /\ marked.shares = row.shares /\ marked.amount = row.amount
  <2>1. /\ closed \in Positions /\ closed.status = "settled"
        /\ closed.shares = row.shares /\ closed.amount = row.amount
    BY ClosedRow
  <2> HIDE DEF closed
  <2> QED
    BY <2>1, MarkedRow
<1>7. /\ Settled(position, s, won) \in Positions
      /\ Settled(position, s, won).status = "settled"
      /\ Settled(position, s, won).realized = x
      /\ Settled(position, s, won).shares = row.shares
      /\ Settled(position, s, won).amount = row.amount
  <2> HIDE DEF marked, x
  <2>1. x \in Int
    BY <1>4 DEF x
  <2> QED
    BY <1>5, <1>6, <2>1, RealizedRow
<1> QED
  BY <1>3, <1>4, <1>7, NoneIsNoRow DEF Realized

LEMMA CommitSettlementEffect ==
    ASSUME IInv, NEW p \in Procs, CommitSettlement(p)
    PROVE  LET s == job[p].signal
           IN  /\ \E won \in BOOLEAN :
                    /\ position'[s] = Settled(position, s, won)
                    /\ settlement'[s].realized = Realized(s, won)
                    /\ balance' = balance + Payout(position, s, won)
               /\ settlement'[s] # None
               /\ \A t \in Signals \ {s} : position'[t] = position[t]
                                           /\ settlement'[t] = settlement[t]
               /\ decision' = decision
               /\ TypeOK' /\ LocksExclusive'
<1> DEFINE s == job[p].signal
<1> USE DEF IInv
<1>1. PICK won \in BOOLEAN :
         /\ position' = [position EXCEPT ![s] = Settled(position, s, won)]
         /\ settlement' = [settlement EXCEPT ![s] =
                              [realized |-> Realized(s, won), at |-> tx[p].at]]
         /\ balance' = Credited(p, s, won)
  BY DEF CommitSettlement
<1>2. s \in Signals /\ position[s] \in Positions /\ tx[p].cash = balance
  BY CommitSettlementFacts
<1>3. /\ Payout(position, s, won) \in Nat /\ Realized(s, won) \in Int
      /\ Settled(position, s, won) \in Positions
  BY <1>2, SettledIsPosition
<1>4. [realized |-> Realized(s, won), at |-> tx[p].at] \in Settlements
  BY <1>3 DEF Settlements, TypeOK
<1>5. /\ position'[s] = Settled(position, s, won)
      /\ settlement'[s] = [realized |-> Realized(s, won), at |-> tx[p].at]
      /\ \A t \in Signals \ {s} : position'[t] = position[t]
                                  /\ settlement'[t] = settlement[t]
      /\ position' \in [Signals -> Positions \cup {None}]
      /\ settlement' \in [Signals -> Settlements \cup {None}]
  BY <1>1, <1>2, <1>3, <1>4 DEF TypeOK
<1>6. balance' = balance + Payout(position, s, won)
  BY <1>1, <1>2 DEF Credited
<1>7. balance' \in Nat
  BY <1>3, <1>6 DEF TypeOK
<1>8. EndSession(p) /\ decision' = decision /\ UNCHANGED world
  BY DEF CommitSettlement
<1>9. TypeOK' /\ LocksExclusive'
  BY <1>5, <1>7, <1>8, EndSessionEffect DEF TypeOK, world
<1>10. settlement'[s].realized = Realized(s, won) /\ settlement'[s] # None
  BY <1>4, <1>5, NoneIsNoRow
<1> QED
  BY <1>5, <1>6, <1>8, <1>9, <1>10

LEMMA CommitSettlementRows ==
    ASSUME IInv, NEW p \in Procs, CommitSettlement(p)
    PROVE  RowsAgree' /\ RequestsUnique'
<1> DEFINE s == job[p].signal
<1> USE DEF IInv
<1>1. PICK won \in BOOLEAN : /\ position'[s] = Settled(position, s, won)
                             /\ settlement'[s].realized = Realized(s, won)
  BY CommitSettlementEffect
<1>2. /\ settlement'[s] # None /\ decision' = decision
      /\ \A t \in Signals \ {s} : position'[t] = position[t]
                                  /\ settlement'[t] = settlement[t]
  BY CommitSettlementEffect
<1>3. s \in Signals /\ IsOpen(position, s) /\ position[s] \in Positions
  BY CommitSettlementFacts
<1>4. /\ position'[s] # None /\ position'[s].status = "settled"
      /\ position'[s].shares = position[s].shares
      /\ position'[s].realized = settlement'[s].realized
  BY <1>1, <1>3, SettledIsPosition
<1>5. ASSUME NEW t \in Signals
      PROVE  /\ (position'[t] # None) <=> (decision'[t] # None /\ decision'[t].shares > 0)
             /\ position'[t] # None => position'[t].shares = decision'[t].shares
             /\ (settlement'[t] # None) <=> (position'[t] # None /\ ~IsOpen(position', t))
             /\ settlement'[t] # None => position'[t].realized = settlement'[t].realized
  <2>1. CASE t = s
    BY <1>2, <1>3, <1>4, <2>1 DEF IsOpen, RowsAgree
  <2>2. CASE t # s
    <3>1. decision'[t] = decision[t] /\ position'[t] = position[t]
          /\ settlement'[t] = settlement[t]
      BY <1>2, <2>2
    <3>2. IsOpen(position', t) <=> IsOpen(position, t)
      BY <3>1 DEF IsOpen
    <3> QED
      BY <3>1, <3>2 DEF RowsAgree
  <2> QED
    BY <2>1, <2>2
<1>6. RequestsUnique'
  BY <1>2 DEF RequestsUnique
<1> QED
  BY <1>5, <1>6 DEF RowsAgree

LEMMA CommitSettlementOthers ==
    ASSUME IInv, NEW p \in Procs, CommitSettlement(p), NEW q \in Procs \ {p},
           pc'[q] = pc[q], job'[q] = job[q], tx'[q] = tx[q], holds'[q] = holds[q]
    PROVE  CallOK(q)'
<1> DEFINE s == job[p].signal
           t == job[q].signal
<1> USE DEF IInv
<1>1. /\ CallOK(q) /\ LocksExclusive /\ s \in Signals
      /\ PositionLock(s) \in holds[p] /\ MoneyLock \in holds[p]
      /\ decision' = decision
      /\ \A u \in Signals \ {s} : position'[u] = position[u]
  BY CommitSettlementFacts, CommitSettlementEffect DEF CallsOK
<1>2. position'[s] # None
  BY CommitSettlementEffect, CommitSettlementFacts, SettledIsPosition
<1>3. Funded(q)' /\ Paying(q)'
  <2>1. MoneyLock \notin holds[q]
    BY <1>1, OneHolder
  <2> QED
    BY <1>1, <2>1 DEF CallOK, Funded, Paying
<1>4. Settling(q)'
  <2>1. ASSUME pc[q] \in {"credit", "pay"}
        PROVE  /\ PositionLock(t) \in holds[q] /\ IsOpen(position, t)
               /\ t \in Signals \ {s}
    <3>1. PositionLock(t) \in holds[q] /\ IsOpen(position, t) /\ t \in Signals
      BY <1>1, <2>1 DEF CallOK, Settling, JobOfCall, SettleJobs
    <3> QED
      BY <1>1, <3>1, OneHolder
  <2> QED
    BY <1>1, <2>1 DEF Settling, IsOpen, PositionLock
<1>5. HasPosition(q)'
  BY <1>1, <1>2 DEF CallOK, HasPosition, JobOfCall, SettleJobs, MarkJobs
<1>6. Marking(q)'
  <2>1. ASSUME pc[q] = "mark", Dialect = "postgresql"
        PROVE  position'[t] = position[t]
    <3>1. PositionLock(t) \in holds[q] /\ t \in Signals
      BY <1>1, <2>1 DEF CallOK, Marking, JobOfCall, MarkJobs
    <3> QED
      BY <1>1, <3>1, OneHolder
  <2> QED
    BY <1>1, <2>1 DEF CallOK, Marking, IsOpen, PositionLock, MarkedPnl
<1>7. JobOfCall(q)' /\ Unsized(q)' /\ Deciding(q)' /\ Requesting(q)'
  BY <1>1 DEF CallOK, JobOfCall, Unsized, Deciding, Requesting, RequestUsed
<1> QED
  BY <1>3, <1>4, <1>5, <1>6, <1>7 DEF CallOK

LEMMA CommitSettlementStep ==
    ASSUME IInv, NEW p \in Procs, CommitSettlement(p)
    PROVE  IInv'
<1>1. EndSession(p) /\ TypeOK /\ LocksExclusive
  BY DEF CommitSettlement, IInv
<1>2. \A q \in Procs : CallOK(q)'
  <2>1. CallOK(p)' /\ \A q \in Procs \ {p} : /\ pc'[q] = pc[q] /\ job'[q] = job[q]
                                            /\ tx'[q] = tx[q] /\ holds'[q] = holds[q]
    BY <1>1, EndSessionEffect
  <2> QED
    BY <2>1, CommitSettlementOthers
<1> QED
  BY <1>2, CommitSettlementEffect, CommitSettlementRows DEF IInv, CallsOK

(* A mark changes neither who is open nor what it cost.                    *)
LEMMA CommitMarkEffect ==
    ASSUME IInv, NEW p \in Procs, CommitMark(p)
    PROVE  LET s == job[p].signal
           IN  /\ s \in Signals /\ position[s] \in Positions
               /\ position'[s] \in Positions
               /\ position'[s] = [position[s] EXCEPT !.unrealized = tx[p].pnl]
               /\ \A t \in Signals \ {s} : position'[t] = position[t]
               /\ \A t \in Signals :
                    /\ position'[t] = None <=> position[t] = None
                    /\ position[t] # None =>
                        /\ position'[t].status = position[t].status
                        /\ position'[t].realized = position[t].realized
                        /\ position'[t].shares = position[t].shares
                        /\ position'[t].amount = position[t].amount
               /\ position' \in [Signals -> Positions \cup {None}]
<1> DEFINE s == job[p].signal
<1> USE DEF IInv
<1>1. pc[p] = "mark" /\ CallOK(p)
  BY DEF CommitMark, CallsOK
<1>2. s \in Signals /\ position[s] # None
  BY <1>1 DEF CallOK, JobOfCall, MarkJobs, HasPosition
<1>3. position[s] \in Positions /\ tx[p].pnl \in Int
  BY <1>2 DEF TypeOK
<1>4. position' = [position EXCEPT ![s] = [position[s] EXCEPT !.unrealized = tx[p].pnl]]
  BY DEF CommitMark
<1> DEFINE new == [position[s] EXCEPT !.unrealized = tx[p].pnl]
<1>5. /\ new \in Positions
      /\ new.status = position[s].status /\ new.realized = position[s].realized
      /\ new.shares = position[s].shares /\ new.amount = position[s].amount
  BY <1>3, MarkedRow
<1>6. position'[s] = new /\ \A t \in Signals \ {s} : position'[t] = position[t]
  BY <1>2, <1>4 DEF TypeOK
<1> HIDE DEF new
<1>7. position' \in [Signals -> Positions \cup {None}]
  BY <1>2, <1>4, <1>5 DEF TypeOK, new
<1>8. ASSUME NEW t \in Signals
      PROVE  /\ position'[t] = None <=> position[t] = None
             /\ position[t] # None =>
                 /\ position'[t].status = position[t].status
                 /\ position'[t].realized = position[t].realized
                 /\ position'[t].shares = position[t].shares
                 /\ position'[t].amount = position[t].amount
  <2>1. CASE t = s
    BY <1>2, <1>5, <1>6, <2>1, NoneIsNoRow
  <2>2. CASE t # s
    BY <1>6, <2>2
  <2> QED
    BY <2>1, <2>2
<1> QED
  BY <1>2, <1>3, <1>5, <1>6, <1>7, <1>8 DEF new

LEMMA ExposureOfOpen ==
    ASSUME NEW f, NEW g,
           \A s \in Signals : /\ IsOpen(f, s) <=> IsOpen(g, s)
                              /\ IsOpen(f, s) => f[s].amount = g[s].amount
    PROVE  Exposure(f) = Exposure(g)
<1>1. [s \in Signals |-> IF IsOpen(f, s) THEN f[s].amount ELSE 0]
          = [s \in Signals |-> IF IsOpen(g, s) THEN g[s].amount ELSE 0]
  OBVIOUS
<1> QED
  BY <1>1 DEF Exposure

LEMMA CommitMarkOthers ==
    ASSUME IInv, NEW p \in Procs, CommitMark(p), NEW q \in Procs \ {p},
           pc'[q] = pc[q], job'[q] = job[q], tx'[q] = tx[q], holds'[q] = holds[q]
    PROVE  CallOK(q)'
<1> DEFINE s == job[p].signal
           t == job[q].signal
<1> USE DEF IInv
<1>1. /\ CallOK(q) /\ CallOK(p) /\ LocksExclusive /\ s \in Signals /\ pc[p] = "mark"
      /\ decision' = decision /\ balance' = balance
      /\ \A u \in Signals \ {s} : position'[u] = position[u]
  BY CommitMarkEffect DEF CallsOK, CommitMark
<1>2. \A u \in Signals : IsOpen(position', u) <=> IsOpen(position, u)
  BY CommitMarkEffect DEF IsOpen
<1>3. Exposure(position') = Exposure(position)
  <2>1. \A u \in Signals : IsOpen(position', u) => position'[u].amount = position[u].amount
    BY <1>2, CommitMarkEffect DEF IsOpen
  <2> QED
    BY <1>2, <2>1, ExposureOfOpen
<1>4. Funded(q)' /\ Paying(q)'
  BY <1>1, <1>3 DEF CallOK, Funded, Paying, WithinCaps
<1>5. Settling(q)'
  BY <1>1, <1>2 DEF CallOK, Settling, JobOfCall, SettleJobs, PositionLock
<1>6. HasPosition(q)'
  BY <1>1, CommitMarkEffect DEF CallOK, HasPosition, JobOfCall, SettleJobs, MarkJobs
<1>7. Marking(q)'
  <2>1. ASSUME pc[q] = "mark", Dialect = "postgresql"
        PROVE  position'[t] = position[t]
    <3>1. PositionLock(t) \in holds[q] /\ t \in Signals /\ PositionLock(s) \in holds[p]
      BY <1>1, <2>1 DEF CallOK, Marking, JobOfCall, MarkJobs
    <3> QED
      BY <1>1, <3>1, OneHolder
  <2> QED
    BY <1>1, <2>1 DEF CallOK, Marking, IsOpen, PositionLock, MarkedPnl
<1>8. JobOfCall(q)' /\ Unsized(q)' /\ Deciding(q)' /\ Requesting(q)'
  BY <1>1 DEF CallOK, JobOfCall, Unsized, Deciding, Requesting, RequestUsed
<1> QED
  BY <1>4, <1>5, <1>6, <1>7, <1>8 DEF CallOK

LEMMA CommitMarkStep ==
    ASSUME IInv, NEW p \in Procs, CommitMark(p)
    PROVE  IInv'
<1>1. /\ EndSession(p) /\ UNCHANGED <<balance, decision, settlement, world>>
      /\ TypeOK /\ LocksExclusive
  BY DEF CommitMark, IInv
<1>2. \A q \in Procs : CallOK(q)'
  <2>1. CallOK(p)' /\ \A q \in Procs \ {p} : /\ pc'[q] = pc[q] /\ job'[q] = job[q]
                                            /\ tx'[q] = tx[q] /\ holds'[q] = holds[q]
    BY <1>1, EndSessionEffect
  <2> QED
    BY <2>1, CommitMarkOthers
<1>3. TypeOK' /\ LocksExclusive'
  BY <1>1, EndSessionEffect, CommitMarkEffect DEF TypeOK, world
<1>4. \A s \in Signals : IsOpen(position', s) <=> IsOpen(position, s)
  BY CommitMarkEffect DEF IsOpen
<1>5. RowsAgree'
  BY <1>1, <1>4, CommitMarkEffect DEF RowsAgree, IInv
<1>6. RequestsUnique'
  BY <1>1 DEF RequestsUnique, IInv
<1> QED
  BY <1>2, <1>3, <1>5, <1>6 DEF IInv, CallsOK

-----------------------------------------------------------------------------
(* The invariant.                                                          *)

LEMMA InitInv == Init => IInv
<1> SUFFICES ASSUME Init PROVE IInv
  OBVIOUS
<1>1. TypeOK
  <2>1. NoTx \in [cash: Nat, shares: Nat, pnl: Int, at: Times] /\ clock \in Times
    BY BooksAssumption DEF NoTx, Times, Init
  <2> QED
    BY <2>1, BooksAssumption DEF Init, TypeOK
<1>2. LocksExclusive /\ RowsAgree /\ RequestsUnique
  BY DEF Init, LocksExclusive, RowsAgree, RequestsUnique
<1>3. CallsOK
  BY DEF Init, CallsOK, CallOK, JobOfCall, Deciding, Unsized, Funded, Requesting,
         Settling, Paying, HasPosition, Marking
<1> QED
  BY <1>1, <1>2, <1>3 DEF IInv

(* Which steps touch the committed rows.                                   *)
LEMMA StepKinds ==
    ASSUME IInv, [Next]_vars
    PROVE  /\ IInv'
           /\ \/ UNCHANGED books
              \/ \E p \in Procs : CommitDecision(p) \/ CommitSettlement(p) \/ CommitMark(p)
<1>1. CASE UNCHANGED vars
  BY <1>1, WorldStep DEF vars, local, books, world, IInv, TypeOK
<1>2. ASSUME NEW p \in Procs, Start(p) PROVE IInv' /\ UNCHANGED books
  BY <1>2, StartExecuteStep, StartSettleStep, StartMarkStep
     DEF Start, StartExecute, StartSettle, StartMark
<1>3. ASSUME NEW p \in Procs, Abandon(p) PROVE IInv' /\ UNCHANGED books
  BY <1>3, AbandonStep DEF Abandon
<1>4. ASSUME NEW p \in Procs,
             \/ LookUpDecision(p) \/ CheckEligibility(p) \/ SizeUnderBalanceLock(p)
             \/ InsertDecision(p) \/ ClaimPosition(p) \/ LockBalanceForPayout(p)
             \/ ReadForMark(p)
      PROVE  IInv' /\ UNCHANGED books
  <2>1. IInv'
    BY <1>4, LookUpDecisionStep, CheckEligibilityStep, SizeUnderBalanceLockStep,
       InsertDecisionStep, ClaimPositionStep, LockBalanceForPayoutStep, ReadForMarkStep
  <2>2. UNCHANGED books
    BY <1>4 DEF LookUpDecision, CheckEligibility, SizeUnderBalanceLock, InsertDecision,
                ClaimPosition, LockBalanceForPayout, ReadForMark
  <2> QED
    BY <2>1, <2>2
<1>5. ASSUME NEW p \in Procs, CommitDecision(p) \/ CommitSettlement(p) \/ CommitMark(p)
      PROVE  IInv'
  BY <1>5, CommitDecisionStep, CommitSettlementStep, CommitMarkStep
<1> QED
  BY <1>1, <1>2, <1>3, <1>4, <1>5, WorldSteps DEF Next, Advance

THEOREM Invariance == Spec => []IInv
<1>1. IInv /\ [Next]_vars => IInv'
  BY StepKinds
<1> QED
  BY <1>1, InitInv, PTL DEF Spec

(* Every variable keeps its type, for all terms, sizes and limits: the     *)
(* balance in particular never goes below zero.                            *)
THEOREM TypeCorrect == Spec => []TypeOK
  BY Invariance, PTL DEF IInv

(* The decision, position and settlement rows of a signal always agree.    *)
THEOREM RowsCorrect == Spec => []RowsAgree
  BY Invariance, PTL DEF IInv

(* A request id decides one signal, on both databases.                     *)
THEOREM RequestsCorrect == Spec => []RequestsUnique
  BY Invariance, PTL DEF IInv

(* A decision is final.                                                    *)
THEOREM DecisionsFinal == Spec => DecisionFinal
<1>1. ASSUME IInv, [Next]_vars, NEW s \in Signals, decision[s] # None
      PROVE  decision'[s] = decision[s]
  <2>1. CASE UNCHANGED books
    BY <2>1 DEF books
  <2>2. ASSUME NEW p \in Procs, CommitDecision(p)
        PROVE  decision'[s] = decision[s]
    <3>1. decision[job[p].signal] = None
      BY <1>1, <2>2, CommitDecisionFacts
    <3>2. decision' = [decision EXCEPT ![job[p].signal] = DecisionRow(p)]
      BY <2>2 DEF CommitDecision
    <3> QED
      BY <1>1, <3>1, <3>2 DEF IInv, TypeOK
  <2>3. ASSUME NEW p \in Procs, CommitSettlement(p) \/ CommitMark(p)
        PROVE  decision'[s] = decision[s]
    BY <2>3 DEF CommitSettlement, CommitMark
  <2> QED
    BY <1>1, <2>1, <2>2, <2>3, StepKinds
<1>2. IInv /\ [Next]_vars
          => [\A s \in Signals : decision[s] # None => decision'[s] = decision[s]]_vars
  BY <1>1
<1> QED
  BY <1>2, Invariance, PTL DEF Spec, DecisionFinal

-----------------------------------------------------------------------------
(* Money.                                                                  *)

(* What a decision commits: nothing but itself, or one whole entry.        *)
LEMMA CommitDecisionEffect ==
    ASSUME IInv, NEW p \in Procs, CommitDecision(p)
    PROVE  LET s == job[p].signal
               n == tx[p].shares
           IN  /\ s \in Signals /\ position[s] = None
               /\ \A t \in Signals \ {s} : position'[t] = position[t]
               /\ n = 0 => balance' = balance /\ position' = position
               /\ n # 0 => /\ n \in Nat \ {0} /\ n * UnitCost(s) \in Nat
                           /\ WithinCaps(balance, position, n * UnitCost(s))
                           /\ position' = [position EXCEPT ![s] = Entry(s, n)]
                           /\ position'[s] # None
                           /\ position'[s].amount = n * UnitCost(s)
                           /\ balance' = balance - n * UnitCost(s)
<1> DEFINE s == job[p].signal
           n == tx[p].shares
<1> USE DEF IInv
<1>1. s \in Signals /\ position[s] = None /\ n \in Nat
  BY CommitDecisionFacts DEF ExecuteJobs
<1>2. CASE n = 0
  BY <1>1, <1>2 DEF CommitDecision
<1>3. CASE n # 0
  <2>1. UnitCost(s) \in 1..One /\ tx[p].cash = balance
        /\ WithinCaps(balance, position, n * UnitCost(s))
    BY <1>3, CommitDecisionFacts
  <2>2. position' = [position EXCEPT ![s] = Entry(s, n)]
        /\ balance' = balance - n * UnitCost(s)
    BY <1>1, <1>3, <2>1 DEF CommitDecision
  <2>3. position'[s] = Entry(s, n) /\ \A t \in Signals \ {s} : position'[t] = position[t]
    BY <1>1, <2>2 DEF TypeOK
  <2>4. /\ n * UnitCost(s) \in Nat /\ Entry(s, n) # None
        /\ Entry(s, n).amount = n * UnitCost(s)
    BY <1>1, <2>1, EntryIsPosition
  <2> QED
    BY <1>1, <1>3, <2>1, <2>2, <2>3, <2>4
<1> QED
  BY <1>2, <1>3

(* An entry respects the caps of the books it is committed to: neither the *)
(* balance nor the exposure has moved since it was sized.                  *)
THEOREM EntriesWithinCaps == Spec => EntryWithinCaps
<1>1. ASSUME IInv, [Next]_vars, NEW s \in Signals, Entered(s)
      PROVE  WithinCaps(balance, position, position'[s].amount)
  <2>1. CASE UNCHANGED books
    BY <1>1, <2>1 DEF Entered, books
  <2>2. ASSUME NEW p \in Procs, CommitDecision(p)
        PROVE  WithinCaps(balance, position, position'[s].amount)
    <3>1. s = job[p].signal /\ tx[p].shares # 0
      BY <1>1, <2>2, CommitDecisionEffect DEF Entered
    <3> QED
      BY <1>1, <2>2, <3>1, CommitDecisionEffect
  <2>3. ASSUME NEW p \in Procs, CommitSettlement(p)
        PROVE  FALSE
    BY <1>1, <2>3, CommitSettlementFacts, CommitSettlementEffect DEF Entered, IsOpen
  <2>4. ASSUME NEW p \in Procs, CommitMark(p)
        PROVE  FALSE
    BY <1>1, <2>4, CommitMarkEffect DEF Entered
  <2> QED
    BY <1>1, <2>1, <2>2, <2>3, <2>4, StepKinds
<1>2. IInv /\ [Next]_vars
          => [\A s \in Signals :
                 Entered(s) => WithinCaps(balance, position, position'[s].amount)]_vars
  BY <1>1
<1> QED
  BY <1>2, Invariance, PTL DEF Spec, EntryWithinCaps

(* No debit, credit or update of the balance row is lost.                  *)
THEOREM BalanceMovesCorrectly == Spec => BalanceMoves
<1>1. ASSUME IInv, [Next]_vars
      PROVE  BalanceMove
  <2>1. CASE UNCHANGED books
    BY <2>1 DEF BalanceMove, Entered, Closed, IsOpen, books
  <2>2. ASSUME NEW p \in Procs, CommitDecision(p)
        PROVE  BalanceMove
    <3>1. CASE tx[p].shares = 0
      BY <1>1, <2>2, <3>1, CommitDecisionEffect DEF BalanceMove, Entered, Closed, IsOpen
    <3>2. CASE tx[p].shares # 0
      <4>1. PICK s \in Signals :
               /\ Entered(s) /\ balance' = balance - position'[s].amount
               /\ \A t \in Signals \ {s} : position'[t] = position[t]
        BY <1>1, <2>2, <3>2, CommitDecisionEffect DEF Entered
      <4> QED
        BY <4>1 DEF BalanceMove
    <3> QED
      BY <3>1, <3>2
  <2>3. ASSUME NEW p \in Procs, CommitSettlement(p)
        PROVE  BalanceMove
    <3> DEFINE s == job[p].signal
    <3>1. /\ s \in Signals /\ IsOpen(position, s) /\ position[s] \in Positions
      BY <1>1, <2>3, CommitSettlementFacts
    <3>2. PICK won \in BOOLEAN : /\ position'[s] = Settled(position, s, won)
                                 /\ balance' = balance + Payout(position, s, won)
      BY <1>1, <2>3, CommitSettlementEffect
    <3>3. \A t \in Signals \ {s} : position'[t] = position[t]
      BY <1>1, <2>3, CommitSettlementEffect
    <3>4. /\ Payout(position, s, won) \in Nat
          /\ position'[s].status = "settled"
          /\ position'[s].realized = Payout(position, s, won) - position[s].amount
      BY <1>1, <3>1, <3>2, SettledIsPosition DEF IInv, Realized
    <3>5. position[s].amount \in Nat /\ balance \in Nat
      BY <1>1, <3>1 DEF IInv, TypeOK, Positions
    <3>6. balance' = balance + position[s].amount + position'[s].realized
      BY <3>2, <3>4, <3>5
    <3>7. Closed(s)
      BY <3>1, <3>4 DEF Closed, IsOpen
    <3> QED
      BY <3>1, <3>3, <3>6, <3>7 DEF BalanceMove
  <2>4. ASSUME NEW p \in Procs, CommitMark(p)
        PROVE  BalanceMove
    <3>1. balance' = balance
      BY <2>4 DEF CommitMark
    <3>2. \A s \in Signals : ~Entered(s) /\ ~Closed(s)
      BY <1>1, <2>4, CommitMarkEffect DEF Entered, Closed, IsOpen
    <3> QED
      BY <3>1, <3>2 DEF BalanceMove
  <2> QED
    BY <1>1, <2>1, <2>2, <2>3, <2>4, StepKinds
<1>2. IInv /\ [Next]_vars => [BalanceMove]_vars
  BY <1>1
<1> QED
  BY <1>2, Invariance, PTL DEF Spec, BalanceMoves

(* Sums over the signals: what one row adds to them.                       *)
OpenAmounts(rows) ==
    [s \in Signals |-> IF IsOpen(rows, s) THEN rows[s].amount ELSE 0]
RealizedAmounts(rows) ==
    [s \in Signals |-> IF rows[s] # None THEN rows[s].realized ELSE 0]

LEMMA AmountsAre ==
    ASSUME NEW f \in [Signals -> Positions \cup {None}],
           NEW g \in [Signals -> Settlements \cup {None}]
    PROVE  /\ OpenAmounts(f) \in [Signals -> Int]
           /\ RealizedAmounts(g) \in [Signals -> Int]
           /\ \A s \in Signals :
                 /\ OpenAmounts(f)[s] = IF IsOpen(f, s) THEN f[s].amount ELSE 0
                 /\ RealizedAmounts(g)[s] = IF g[s] # None THEN g[s].realized ELSE 0
           /\ Exposure(f) = SumFunctionOnSet(OpenAmounts(f), Signals)
           /\ Exposure(f) \in Int
           /\ SumFunctionOnSet(RealizedAmounts(g), Signals) \in Int
<1>1. \A s \in Signals : /\ (IF IsOpen(f, s) THEN f[s].amount ELSE 0) \in Int
                         /\ (IF g[s] # None THEN g[s].realized ELSE 0) \in Int
  BY DEF IsOpen, Positions, Settlements
<1>2. OpenAmounts(f) \in [Signals -> Int] /\ RealizedAmounts(g) \in [Signals -> Int]
  BY <1>1 DEF OpenAmounts, RealizedAmounts
<1>3. Exposure(f) = SumFunctionOnSet(OpenAmounts(f), Signals)
  BY DEF Exposure, OpenAmounts
<1>4. /\ SumFunctionOnSet(OpenAmounts(f), Signals) \in Int
      /\ SumFunctionOnSet(RealizedAmounts(g), Signals) \in Int
  BY <1>2, BooksAssumption, SumInt
<1>5. \A s \in Signals :
         /\ OpenAmounts(f)[s] = IF IsOpen(f, s) THEN f[s].amount ELSE 0
         /\ RealizedAmounts(g)[s] = IF g[s] # None THEN g[s].realized ELSE 0
  BY DEF OpenAmounts, RealizedAmounts
<1> QED
  BY <1>2, <1>3, <1>4, <1>5

LEMMA ExposureChanges ==
    ASSUME NEW f \in [Signals -> Positions \cup {None}],
           NEW g \in [Signals -> Positions \cup {None}],
           NEW s \in Signals, \A t \in Signals \ {s} : g[t] = f[t]
    PROVE  Exposure(g) = Exposure(f) + (IF IsOpen(g, s) THEN g[s].amount ELSE 0)
                                     - (IF IsOpen(f, s) THEN f[s].amount ELSE 0)
<1> DEFINE none == [t \in Signals |-> None]
           F == OpenAmounts(f)
           G == OpenAmounts(g)
<1>1. none \in [Signals -> Settlements \cup {None}]
  OBVIOUS
<1>2. /\ F \in [Signals -> Int] /\ G \in [Signals -> Int]
      /\ Exposure(f) = SumFunctionOnSet(F, Signals)
      /\ Exposure(g) = SumFunctionOnSet(G, Signals)
      /\ F[s] = IF IsOpen(f, s) THEN f[s].amount ELSE 0
      /\ G[s] = IF IsOpen(g, s) THEN g[s].amount ELSE 0
  BY <1>1, AmountsAre
<1>3. \A t \in Signals \ {s} : G[t] = F[t]
  BY DEF OpenAmounts, IsOpen
<1> HIDE DEF F, G
<1>4. SumFunctionOnSet(G, Signals) = SumFunctionOnSet(F, Signals) + G[s] - F[s]
  BY <1>2, <1>3, BooksAssumption, SumChanges
<1> QED
  BY <1>2, <1>4

LEMMA RealizedChanges ==
    ASSUME NEW f \in [Signals -> Settlements \cup {None}],
           NEW g \in [Signals -> Settlements \cup {None}],
           NEW s \in Signals, \A t \in Signals \ {s} : g[t] = f[t],
           f[s] = None, g[s] # None
    PROVE  SumFunctionOnSet(RealizedAmounts(g), Signals)
               = SumFunctionOnSet(RealizedAmounts(f), Signals) + g[s].realized
<1> DEFINE none == [t \in Signals |-> None]
           F == RealizedAmounts(f)
           G == RealizedAmounts(g)
<1>1. none \in [Signals -> Positions \cup {None}]
  OBVIOUS
<1>2. /\ F \in [Signals -> Int] /\ G \in [Signals -> Int]
      /\ F[s] = (IF f[s] # None THEN f[s].realized ELSE 0)
      /\ G[s] = (IF g[s] # None THEN g[s].realized ELSE 0)
      /\ SumFunctionOnSet(F, Signals) \in Int
  <2> HIDE DEF none
  <2>1. ASSUME NEW k \in [Signals -> Settlements \cup {None}]
        PROVE  /\ RealizedAmounts(k) \in [Signals -> Int]
               /\ RealizedAmounts(k)[s] = (IF k[s] # None THEN k[s].realized ELSE 0)
               /\ SumFunctionOnSet(RealizedAmounts(k), Signals) \in Int
    BY <1>1, AmountsAre
  <2> QED
    BY <2>1
<1>3. \A t \in Signals \ {s} : G[t] = F[t]
  BY DEF RealizedAmounts
<1> HIDE DEF F, G
<1>4. SumFunctionOnSet(G, Signals) = SumFunctionOnSet(F, Signals) + G[s] - F[s]
  BY <1>2, <1>3, BooksAssumption, SumChanges
<1>5. F[s] = 0 /\ G[s] = g[s].realized /\ G[s] \in Int
  BY <1>2
<1> QED
  BY <1>2, <1>4, <1>5 DEF F, G

LEMMA BooksBalance ==
    Conservation <=> balance + Exposure(position)
        = StartBalance + SumFunctionOnSet(RealizedAmounts(settlement), Signals)
  BY DEF Conservation, RealizedAmounts

LEMMA ConservationStep ==
    ASSUME IInv, Conservation, [Next]_vars
    PROVE  Conservation'
<1> DEFINE realized == SumFunctionOnSet(RealizedAmounts(settlement), Signals)
<1>1. /\ IInv' /\ TypeOK /\ TypeOK'
      /\ \/ UNCHANGED books
         \/ \E p \in Procs : CommitDecision(p) \/ CommitSettlement(p) \/ CommitMark(p)
  BY StepKinds DEF IInv
<1>2. /\ balance \in Int /\ balance' \in Int /\ StartBalance \in Int
      /\ position \in [Signals -> Positions \cup {None}]
      /\ position' \in [Signals -> Positions \cup {None}]
      /\ settlement \in [Signals -> Settlements \cup {None}]
      /\ settlement' \in [Signals -> Settlements \cup {None}]
  BY <1>1, BooksAssumption DEF TypeOK
<1>3. balance + Exposure(position) = StartBalance + realized
  BY BooksBalance
<1>4. Exposure(position) \in Int /\ realized \in Int
  BY <1>2, AmountsAre
<1>5. SUFFICES balance' + Exposure(position') = StartBalance + realized'
  BY DEF Conservation, RealizedAmounts
<1> HIDE DEF realized
<1>6. CASE UNCHANGED books
  BY <1>3, <1>6 DEF books, realized
<1>7. ASSUME NEW p \in Procs, CommitDecision(p)
      PROVE  balance' + Exposure(position') = StartBalance + realized'
  <2> DEFINE s == job[p].signal
             n == tx[p].shares
  <2>1. realized' = realized
    BY <1>7 DEF CommitDecision, realized
  <2>2. CASE n = 0
    <3>1. balance' = balance /\ position' = position
      BY <1>7, <2>2, CommitDecisionEffect
    <3> QED
      BY <1>3, <2>1, <3>1
  <2>3. CASE n # 0
    <3>1. /\ s \in Signals /\ position[s] = None
          /\ \A t \in Signals \ {s} : position'[t] = position[t]
          /\ n * UnitCost(s) \in Nat
          /\ position' = [position EXCEPT ![s] = Entry(s, n)]
          /\ position'[s] # None
          /\ position'[s].amount = n * UnitCost(s)
          /\ balance' = balance - n * UnitCost(s)
      BY <1>7, <2>3, CommitDecisionEffect
    <3>2. IsOpen(position', s) /\ ~IsOpen(position, s)
      <4>1. position'[s] = Entry(s, n)
        BY <1>2, <3>1
      <4> QED
        BY <3>1, <4>1 DEF IsOpen, Entry
    <3>3. Exposure(position') = Exposure(position)
             + (IF IsOpen(position', s) THEN position'[s].amount ELSE 0)
             - (IF IsOpen(position, s) THEN position[s].amount ELSE 0)
      BY <1>2, <3>1, ExposureChanges
    <3>4. Exposure(position') = Exposure(position) + n * UnitCost(s)
      BY <1>4, <3>1, <3>2, <3>3
    <3> QED
      BY <1>2, <1>3, <1>4, <2>1, <3>1, <3>4
  <2> QED
    BY <2>2, <2>3
<1>8. ASSUME NEW p \in Procs, CommitSettlement(p)
      PROVE  balance' + Exposure(position') = StartBalance + realized'
  <2> DEFINE s == job[p].signal
  <2>1. /\ s \in Signals /\ IsOpen(position, s) /\ position[s] \in Positions
        /\ settlement[s] = None
    BY <1>8, CommitSettlementFacts
  <2>2. PICK won \in BOOLEAN : /\ position'[s] = Settled(position, s, won)
                               /\ settlement'[s].realized = Realized(s, won)
                               /\ balance' = balance + Payout(position, s, won)
    BY <1>8, CommitSettlementEffect
  <2>3. /\ settlement'[s] # None
        /\ \A t \in Signals \ {s} : position'[t] = position[t]
                                    /\ settlement'[t] = settlement[t]
    BY <1>8, CommitSettlementEffect
  <2>4. /\ Payout(position, s, won) \in Nat /\ position[s].amount \in Nat
        /\ Realized(s, won) = Payout(position, s, won) - position[s].amount
        /\ ~IsOpen(position', s)
    BY <1>1, <2>1, <2>2, SettledIsPosition DEF Realized, IsOpen, Positions
  <2>5. Exposure(position') = Exposure(position)
           + (IF IsOpen(position', s) THEN position'[s].amount ELSE 0)
           - (IF IsOpen(position, s) THEN position[s].amount ELSE 0)
    BY <1>2, <2>1, <2>3, ExposureChanges
  <2>6. Exposure(position') = Exposure(position) - position[s].amount
    BY <1>4, <2>1, <2>4, <2>5
  <2>7. realized' = realized + settlement'[s].realized
    BY <1>2, <2>1, <2>3, RealizedChanges DEF realized
  <2> QED
    BY <1>2, <1>3, <1>4, <2>2, <2>4, <2>6, <2>7
<1>9. ASSUME NEW p \in Procs, CommitMark(p)
      PROVE  balance' + Exposure(position') = StartBalance + realized'
  <2>1. balance' = balance /\ realized' = realized
    BY <1>9 DEF CommitMark, realized
  <2>2. \A s \in Signals : /\ IsOpen(position', s) <=> IsOpen(position, s)
                           /\ IsOpen(position', s) => position'[s].amount = position[s].amount
    BY <1>9, CommitMarkEffect DEF IsOpen
  <2>3. Exposure(position') = Exposure(position)
    BY <2>2, ExposureOfOpen
  <2> QED
    BY <1>3, <2>1, <2>3
<1> QED
  BY <1>1, <1>6, <1>7, <1>8, <1>9

(* Cash and the cost of what is open equal the starting balance and what   *)
(* settlements realized, on both databases: an identity of sums over all   *)
(* the signals, which every entry, settlement and mark keeps.              *)
THEOREM BooksConserved == Spec => []Conservation
<1>1. Init => Conservation
  <2> SUFFICES ASSUME Init PROVE Conservation
    OBVIOUS
  <2>1. /\ position \in [Signals -> Positions \cup {None}]
        /\ settlement \in [Signals -> Settlements \cup {None}]
        /\ balance = StartBalance /\ StartBalance \in Int
        /\ \A s \in Signals : position[s] = None /\ settlement[s] = None
    BY BooksAssumption DEF Init
  <2>2. /\ OpenAmounts(position) \in [Signals -> Int]
        /\ RealizedAmounts(settlement) \in [Signals -> Int]
        /\ \A s \in Signals : /\ OpenAmounts(position)[s] = 0
                              /\ RealizedAmounts(settlement)[s] = 0
        /\ Exposure(position) = SumFunctionOnSet(OpenAmounts(position), Signals)
    BY <2>1, AmountsAre DEF IsOpen
  <2>3. Exposure(position) = 0 /\ SumFunctionOnSet(RealizedAmounts(settlement), Signals) = 0
    BY <2>2, BooksAssumption, SumOfZeros
  <2> QED
    BY <2>1, <2>3, BooksBalance
<1>2. IInv /\ Conservation /\ [Next]_vars => Conservation'
  BY ConservationStep
<1> QED
  BY <1>1, <1>2, Invariance, PTL DEF Spec

-----------------------------------------------------------------------------
(* On SQLite, where a deciding call keeps the writer lock, nothing that it *)
(* read can change before it commits.  On PostgreSQL what it read under    *)
(* the balance's lock cannot, unless a position is marked.                 *)

SizedCalls == {"insert", "decide"}

(* The daily losses that the call was sized with are still the day's.      *)
Solvent(p) ==
    pc[p] \in SizedCalls /\ tx[p].shares # 0 =>
        ~LossCapReached(balance, DailyPnl(job[p].now) + Unrealized(position))

AllSolvent == \A p \in Procs : Solvent(p)

Stopping(p) ==
    /\ pc[p] = "size" => ~paused /\ accepted[job[p].signal]
    /\ pc[p] \in SizedCalls /\ tx[p].shares # 0 => ~paused /\ accepted[job[p].signal]
    /\ Solvent(p)

Stops == \A p \in Procs : Stopping(p)

(* A step of a call leaves the other calls where they are.                 *)
LEMMA OthersStay ==
    ASSUME TypeOK, NEW p \in Procs, Start(p) \/ Advance(p) \/ Abandon(p),
           NEW q \in Procs \ {p}
    PROVE  pc'[q] = pc[q] /\ job'[q] = job[q] /\ tx'[q] = tx[q]
<1>1. ASSUME EndSession(p)
      PROVE  pc'[q] = pc[q] /\ job'[q] = job[q] /\ tx'[q] = tx[q]
  BY <1>1 DEF EndSession, Goto, TypeOK
<1>2. ASSUME NEW label, NEW j, Begin(p, label, j)
      PROVE  pc'[q] = pc[q] /\ job'[q] = job[q] /\ tx'[q] = tx[q]
  BY <1>2 DEF Begin, Goto, TypeOK
<1>3. ASSUME NEW label, Goto(p, label), job' = job,
             (\A r \in Procs \ {p} : tx'[r] = tx[r])
      PROVE  pc'[q] = pc[q] /\ job'[q] = job[q] /\ tx'[q] = tx[q]
  BY <1>3 DEF Goto, TypeOK
<1>4. CASE Start(p)
  BY <1>2, <1>4 DEF Start, StartExecute, StartSettle, StartMark
<1>5. CASE Abandon(p)
  BY <1>1, <1>5 DEF Abandon
<1>6. CASE LookUpDecision(p) \/ CheckEligibility(p) \/ InsertDecision(p)
  BY <1>1, <1>3, <1>6 DEF LookUpDecision, CheckEligibility, InsertDecision
<1>7. CASE CommitDecision(p) \/ CommitSettlement(p) \/ CommitMark(p)
  BY <1>1, <1>7 DEF CommitDecision, CommitSettlement, CommitMark
<1>8. CASE SizeUnderBalanceLock(p)
  <2>1. CASE tx' = [tx EXCEPT ![p].cash = balance, ![p].shares = Sized(job[p])]
    BY <1>1, <1>3, <1>8, <2>1 DEF SizeUnderBalanceLock, TypeOK
  <2> QED
    BY <1>1, <1>8, <2>1 DEF SizeUnderBalanceLock
<1>9. CASE LockBalanceForPayout(p)
  <2>1. tx' = [tx EXCEPT ![p].cash = balance]
    BY <1>9 DEF LockBalanceForPayout
  <2> QED
    BY <1>3, <1>9, <2>1 DEF LockBalanceForPayout, TypeOK
<1>10. CASE ClaimPosition(p)
  <2>1. CASE tx' = [tx EXCEPT ![p].at = clock]
    BY <1>1, <1>3, <1>10, <2>1 DEF ClaimPosition, TypeOK
  <2> QED
    BY <1>1, <1>10, <2>1 DEF ClaimPosition
<1>11. CASE ReadForMark(p)
  <2>1. CASE tx' = [tx EXCEPT ![p].pnl = MarkedPnl(position, job[p].signal, job[p].mark)]
    BY <1>3, <1>1, <1>11, <2>1 DEF ReadForMark, TypeOK
  <2> QED
    BY <1>1, <1>11, <2>1 DEF ReadForMark
<1> QED
  BY <1>4, <1>5, <1>6, <1>7, <1>8, <1>9, <1>10, <1>11 DEF Advance

(* What a call decides on is fixed while it holds the writer lock.         *)
LEMMA WriterExcludes ==
    ASSUME Dialect = "sqlite", IInv, NEW q \in Procs,
           pc[q] \in {"size", "insert", "decide"}
    PROVE  /\ Writer \in holds[q]
           /\ ~SetPaused /\ \A s \in Signals : ~Rescan(s)
           /\ \A p \in Procs \ {q} :
                 ~CommitDecision(p) /\ ~CommitSettlement(p) /\ ~CommitMark(p)
<1>1. CallOK(q) /\ LocksExclusive /\ \A p \in Procs : CallOK(p)
  BY DEF IInv, CallsOK
<1>2. Writer \in holds[q]
  BY <1>1 DEF CallOK, Deciding, SignalLock
<1>3. ~SetPaused /\ \A s \in Signals : ~Rescan(s)
  BY <1>2 DEF SetPaused, Rescan, Unlocked, ToWrite
<1>4. ASSUME NEW p \in Procs \ {q}
      PROVE  ~CommitDecision(p) /\ ~CommitSettlement(p) /\ ~CommitMark(p)
  <2>1. Writer \notin holds[p]
    BY <1>1, <1>2, OneHolder
  <2>2. ~CommitDecision(p)
    BY <1>1, <2>1 DEF CommitDecision, CallOK, Deciding, SignalLock
  <2>3. ~CommitSettlement(p)
    BY <1>1, <2>1 DEF CommitSettlement, CallOK, Settling, PositionLock
  <2>4. ~CommitMark(p)
    BY <1>2 DEF CommitMark, Available, ToWrite
  <2> QED
    BY <2>2, <2>3, <2>4
<1> QED
  BY <1>2, <1>3, <1>4

LEMMA StoppingFrame ==
    ASSUME NEW q \in Procs, Stopping(q), UNCHANGED books, paused' = paused,
           accepted' = accepted,
           pc'[q] = pc[q], job'[q] = job[q], tx'[q] = tx[q]
    PROVE  Stopping(q)'
  BY DEF Stopping, Solvent, SizedCalls, books, DailyPnl, Unrealized, LossCapReached

LEMMA SolventFrame ==
    ASSUME NEW q \in Procs, Solvent(q), balance' = balance, position' = position,
           settlement' = settlement,
           pc'[q] = pc[q], job'[q] = job[q], tx'[q] = tx[q]
    PROVE  Solvent(q)'
  BY DEF Solvent, DailyPnl, Unrealized, LossCapReached

LEMMA UnwrittenKeepsStopping ==
    ASSUME NEW q \in Procs, pc'[q] \notin {"size", "insert", "decide"}
    PROVE  Stopping(q)'
  BY DEF Stopping, Solvent, SizedCalls

(* A call that goes on.                                                    *)
LEMMA OwnSolvent ==
    ASSUME IInv, NEW p \in Procs, Solvent(p), Start(p) \/ Advance(p) \/ Abandon(p)
    PROVE  Solvent(p)'
<1> DEFINE j == job[p]
<1>1. TypeOK /\ CallOK(p)
  BY DEF IInv, CallsOK
<1>2. ASSUME pc'[p] \notin SizedCalls PROVE Solvent(p)'
  BY <1>2 DEF Solvent
<1>3. ASSUME EndSession(p) PROVE Solvent(p)'
  <2>1. pc'[p] = "idle"
    BY <1>1, <1>3 DEF EndSession, Goto, TypeOK
  <2> QED
    BY <1>2, <2>1 DEF SizedCalls
<1>4. ASSUME NEW label \in {"lookup", "claim", "read", "check", "credit", "pay", "mark"},
             pc' = [pc EXCEPT ![p] = label]
      PROVE  Solvent(p)'
  <2>1. pc'[p] = label
    BY <1>1, <1>4 DEF TypeOK
  <2> QED
    BY <1>2, <2>1 DEF SizedCalls
<1>5. CASE Start(p)
  BY <1>4, <1>5 DEF Start, StartExecute, StartSettle, StartMark, Begin, Goto
<1>6. CASE Abandon(p) \/ CommitDecision(p) \/ CommitSettlement(p) \/ CommitMark(p)
  BY <1>3, <1>6 DEF Abandon, CommitDecision, CommitSettlement, CommitMark
<1>7. CASE LookUpDecision(p) \/ ClaimPosition(p) \/ LockBalanceForPayout(p) \/ ReadForMark(p)
  BY <1>3, <1>4, <1>7
     DEF LookUpDecision, ClaimPosition, LockBalanceForPayout, ReadForMark, Goto
<1>8. CASE CheckEligibility(p)
  <2>1. pc[p] = "check" /\ tx' = tx
    BY <1>8 DEF CheckEligibility
  <2>2. tx'[p].shares = 0
    BY <1>1, <2>1 DEF CallOK, Unsized, NoTx
  <2> QED
    BY <2>2 DEF Solvent
<1>9. CASE SizeUnderBalanceLock(p)
  <2>1. CASE EndSession(p)
    BY <1>3, <2>1
  <2>2. CASE /\ tx' = [tx EXCEPT ![p].cash = balance, ![p].shares = Sized(j)]
             /\ Goto(p, "insert") /\ job' = job
    <3>1. UNCHANGED books
      BY <1>9 DEF SizeUnderBalanceLock
    <3>2. pc'[p] = "insert" /\ tx'[p].shares = Sized(j) /\ job'[p] = j
      BY <1>1, <2>2 DEF Goto, TypeOK
    <3>3. ASSUME Sized(j) # 0
          PROVE  ~LossCapReached(balance, DailyPnl(j.now) + Unrealized(position))
      BY <3>3 DEF Sized, SizeOrder, OrderApproved
    <3>4. /\ balance' = balance
          /\ DailyPnl(j.now)' = DailyPnl(j.now)
          /\ Unrealized(position') = Unrealized(position)
      BY <2>2, <3>1 DEF books, DailyPnl
    <3> QED
      BY <3>2, <3>3, <3>4, <2>2 DEF Solvent, LossCapReached
  <2> QED
    BY <1>9, <2>1, <2>2 DEF SizeUnderBalanceLock
<1>10. CASE InsertDecision(p)
  <2>1. CASE EndSession(p)
    BY <1>3, <2>1
  <2>2. CASE Goto(p, "decide") /\ job' = job /\ tx' = tx
    <3>1. pc[p] \in SizedCalls /\ UNCHANGED books
      BY <1>10 DEF InsertDecision, SizedCalls
    <3> QED
      BY <2>2, <3>1 DEF Solvent, books, DailyPnl, Unrealized, LossCapReached
  <2> QED
    BY <1>10, <2>1, <2>2 DEF InsertDecision
<1> QED
  BY <1>5, <1>6, <1>7, <1>8, <1>9, <1>10 DEF Advance

LEMMA OwnStopping ==
    ASSUME IInv, Stops, NEW p \in Procs, Start(p) \/ Advance(p) \/ Abandon(p)
    PROVE  Stopping(p)'
<1> DEFINE j == job[p]
<1>1. Stopping(p) /\ TypeOK /\ CallOK(p) /\ Solvent(p)'
  BY OwnSolvent DEF IInv, Stops, Stopping, CallsOK
<1>2. ASSUME pc'[p] \notin {"size", "insert", "decide"} PROVE Stopping(p)'
  BY <1>2, UnwrittenKeepsStopping
<1>3. ASSUME EndSession(p) PROVE Stopping(p)'
  <2>1. pc'[p] = "idle"
    BY <1>1, <1>3 DEF EndSession, Goto, TypeOK
  <2> QED
    BY <1>2, <2>1
<1>4. ASSUME NEW label \in {"lookup", "claim", "read", "check", "credit", "pay", "mark"},
             pc' = [pc EXCEPT ![p] = label]
      PROVE  Stopping(p)'
  <2>1. pc'[p] = label
    BY <1>1, <1>4 DEF TypeOK
  <2> QED
    BY <1>2, <2>1
<1>5. CASE Start(p)
  BY <1>4, <1>5 DEF Start, StartExecute, StartSettle, StartMark, Begin, Goto
<1>6. CASE Abandon(p) \/ CommitDecision(p) \/ CommitSettlement(p) \/ CommitMark(p)
  BY <1>3, <1>6 DEF Abandon, CommitDecision, CommitSettlement, CommitMark
<1>7. CASE LookUpDecision(p) \/ ClaimPosition(p) \/ LockBalanceForPayout(p) \/ ReadForMark(p)
  BY <1>3, <1>4, <1>7
     DEF LookUpDecision, ClaimPosition, LockBalanceForPayout, ReadForMark, Goto
<1>8. CASE CheckEligibility(p)
  <2>1. /\ pc[p] = "check" /\ tx' = tx /\ job' = job /\ paused' = paused
        /\ accepted' = accepted
        /\ pc' = [pc EXCEPT ![p] = IF Eligible(j.signal, j.now) THEN "size" ELSE "insert"]
    BY <1>8 DEF CheckEligibility, Goto, world
  <2>2. tx'[p].shares = 0
    BY <1>1, <2>1 DEF CallOK, Unsized, NoTx
  <2>3. pc'[p] = "size" => Eligible(j.signal, j.now)
    BY <1>1, <2>1 DEF TypeOK
  <2> QED
    BY <1>1, <2>1, <2>2, <2>3 DEF Stopping, Eligible
<1>9. CASE SizeUnderBalanceLock(p) \/ InsertDecision(p)
  <2>1. CASE EndSession(p)
    BY <1>3, <2>1
  <2>2. CASE ~EndSession(p)
    <3>1. /\ \/ pc[p] = "size"
             \/ pc[p] = "insert" /\ tx' = tx
          /\ pc'[p] \in SizedCalls /\ job' = job /\ paused' = paused /\ accepted' = accepted
      BY <1>1, <1>9, <2>2 DEF SizeUnderBalanceLock, InsertDecision, Goto, SizedCalls, TypeOK, world
    <3> QED
      BY <1>1, <3>1 DEF Stopping, SizedCalls
  <2> QED
    BY <2>1, <2>2
<1> QED
  BY <1>5, <1>6, <1>7, <1>8, <1>9 DEF Advance

LEMMA StopsStep ==
    ASSUME Dialect = "sqlite", IInv, Stops, [Next]_vars
    PROVE  Stops'
<1> SUFFICES ASSUME NEW q \in Procs PROVE Stopping(q)'
  BY DEF Stops
<1> USE DEF IInv
<1>1. Stopping(q)
  BY DEF Stops
<1>2. ASSUME NEW p \in Procs, Start(p) \/ Advance(p) \/ Abandon(p)
      PROVE  Stopping(q)'
  <2>1. CASE p = q
    BY <1>2, <2>1, OwnStopping
  <2>2. CASE p # q
    <3>1. pc'[q] = pc[q] /\ job'[q] = job[q] /\ tx'[q] = tx[q]
      BY <1>2, <2>2, OthersStay
    <3>2. CASE pc[q] \notin {"size", "insert", "decide"}
      BY <3>1, <3>2, UnwrittenKeepsStopping
    <3>3. CASE pc[q] \in {"size", "insert", "decide"}
      <4>1. ~CommitDecision(p) /\ ~CommitSettlement(p) /\ ~CommitMark(p)
        BY <2>2, <3>3, WriterExcludes
      <4>2. UNCHANGED books /\ paused' = paused /\ accepted' = accepted
        BY <1>2, <4>1
           DEF Start, StartExecute, StartSettle, StartMark, Advance, LookUpDecision,
               CheckEligibility, SizeUnderBalanceLock, InsertDecision, ClaimPosition,
               LockBalanceForPayout, ReadForMark, Abandon, world
      <4> QED
        BY <1>1, <3>1, <4>2, StoppingFrame
    <3> QED
      BY <3>2, <3>3
  <2> QED
    BY <2>1, <2>2
<1>3. CASE SetPaused \/ \E s \in Signals : Rescan(s)
  <2>1. pc[q] \notin {"size", "insert", "decide"}
    BY <1>3, WriterExcludes
  <2>2. pc'[q] = pc[q]
    BY <1>3 DEF SetPaused, Rescan, local
  <2> QED
    BY <2>1, <2>2, UnwrittenKeepsStopping
<1>4. CASE Tick \/ UNCHANGED vars
  <2>1. /\ UNCHANGED books /\ paused' = paused /\ accepted' = accepted
        /\ pc' = pc /\ job' = job /\ tx' = tx
    BY <1>4 DEF Tick, vars, local, world
  <2> QED
    BY <1>1, <2>1, StoppingFrame
<1> QED
  BY <1>2, <1>3, <1>4 DEF Next

THEOREM WriterKeepsStops == Dialect = "sqlite" => (Spec => []Stops)
<1> SUFFICES ASSUME Dialect = "sqlite" PROVE Spec => []Stops
  OBVIOUS
<1>1. Init => Stops
  BY DEF Init, Stops, Stopping, Solvent, SizedCalls
<1>2. IInv /\ Stops /\ [Next]_vars => Stops'
  BY StopsStep
<1> QED
  BY <1>1, <1>2, Invariance, PTL DEF Spec

(* An entry is what a call that was sized commits.                         *)
LEMMA EnteringCall ==
    ASSUME IInv, [Next]_vars, NEW s \in Signals, Entered(s)
    PROVE  \E p \in Procs :
              /\ pc[p] \in SizedCalls /\ tx[p].shares # 0
              /\ s = job[p].signal /\ decision'[s].at = job[p].now
<1>1. CASE UNCHANGED books
  BY <1>1 DEF Entered, books
<1>2. ASSUME NEW p \in Procs, CommitDecision(p)
      PROVE  /\ pc[p] \in SizedCalls /\ tx[p].shares # 0
             /\ s = job[p].signal /\ decision'[s].at = job[p].now
  <2>1. s = job[p].signal /\ tx[p].shares # 0
    BY <1>2, CommitDecisionEffect DEF Entered
  <2>2. decision' = [decision EXCEPT ![s] = DecisionRow(p)] /\ pc[p] = "decide"
    BY <1>2, <2>1 DEF CommitDecision
  <2>3. decision'[s] = DecisionRow(p)
    BY <2>2 DEF IInv, TypeOK
  <2> QED
    BY <2>1, <2>2, <2>3 DEF DecisionRow, SizedCalls
<1>3. ASSUME NEW p \in Procs, CommitSettlement(p)
      PROVE  FALSE
  BY <1>3, CommitSettlementFacts, CommitSettlementEffect DEF Entered, IsOpen
<1>4. ASSUME NEW p \in Procs, CommitMark(p)
      PROVE  FALSE
  BY <1>4, CommitMarkEffect DEF Entered
<1> QED
  BY <1>1, <1>2, <1>3, <1>4, StepKinds

(* Without marks the day's losses change only under the balance's lock,    *)
(* on either database.                                                     *)
LEMMA SolventStep ==
    ASSUME MarkPrices = {}, IInv, AllSolvent, [Next]_vars
    PROVE  AllSolvent'
<1> SUFFICES ASSUME NEW q \in Procs PROVE Solvent(q)'
  BY DEF AllSolvent
<1>1. Solvent(q) /\ LocksExclusive /\ \A p \in Procs : CallOK(p)
  BY DEF AllSolvent, IInv, CallsOK
<1>2. ASSUME NEW p \in Procs, Start(p) \/ Advance(p) \/ Abandon(p)
      PROVE  Solvent(q)'
  <2>1. CASE p = q
    BY <1>1, <1>2, <2>1, OwnSolvent
  <2>2. CASE p # q
    <3>1. pc'[q] = pc[q] /\ job'[q] = job[q] /\ tx'[q] = tx[q]
      BY <1>2, <2>2, OthersStay DEF IInv
    <3>2. CASE pc[q] \in SizedCalls /\ tx[q].shares # 0
      <4>1. MoneyLock \notin holds[p]
        BY <1>1, <2>2, <3>2 DEF CallOK, Funded, SizedCalls, LocksExclusive
      <4>2. CASE CommitDecision(p)
        <5>1. tx[p].shares = 0
          BY <1>1, <4>1, <4>2 DEF CommitDecision, CallOK, Funded
        <5>2. balance' = balance /\ position' = position /\ settlement' = settlement
          BY <4>2, <5>1, CommitDecisionEffect DEF CommitDecision
        <5> QED
          BY <1>1, <3>1, <5>2, SolventFrame
      <4>3. ~CommitSettlement(p)
        BY <1>1, <4>1 DEF CommitSettlement, CallOK, Paying
      <4>4. ~CommitMark(p)
        BY <1>1 DEF CommitMark, CallOK, JobOfCall, MarkJobs
      <4>5. CASE ~CommitDecision(p)
        <5>1. UNCHANGED books
          BY <1>2, <4>3, <4>4, <4>5
             DEF Start, StartExecute, StartSettle, StartMark, Advance, LookUpDecision,
                 CheckEligibility, SizeUnderBalanceLock, InsertDecision, ClaimPosition,
                 LockBalanceForPayout, ReadForMark, Abandon
        <5> QED
          BY <1>1, <3>1, <5>1, SolventFrame DEF books
      <4> QED
        BY <4>2, <4>5
    <3>3. CASE ~(pc[q] \in SizedCalls /\ tx[q].shares # 0)
      BY <3>1, <3>3 DEF Solvent
    <3> QED
      BY <3>2, <3>3
  <2> QED
    BY <2>1, <2>2
<1>3. CASE SetPaused \/ (\E s \in Signals : Rescan(s)) \/ Tick \/ UNCHANGED vars
  <2>1. UNCHANGED books /\ pc' = pc /\ job' = job /\ tx' = tx
    BY <1>3 DEF SetPaused, Rescan, Tick, vars, local
  <2> QED
    BY <1>1, <2>1, SolventFrame DEF books
<1> QED
  BY <1>2, <1>3 DEF Next

(* On SQLite, and on PostgreSQL as long as nothing marks positions (which  *)
(* nothing in the application does), no entry is committed once the losses *)
(* of its day have reached the cap.  False on PostgreSQL with marks, which *)
(* do not take the lock of the balance.                                    *)
THEOREM LossesStopEntries == Dialect = "sqlite" \/ MarkPrices = {} => (Spec => LossStop)
<1> SUFFICES ASSUME Dialect = "sqlite" \/ MarkPrices = {} PROVE Spec => LossStop
  OBVIOUS
<1>1. ASSUME IInv, AllSolvent, [Next]_vars, NEW s \in Signals, Entered(s)
      PROVE  ~LossCapReached(balance, DailyPnl(decision'[s].at) + Unrealized(position))
  <2>1. PICK p \in Procs : /\ pc[p] \in SizedCalls /\ tx[p].shares # 0
                           /\ s = job[p].signal /\ decision'[s].at = job[p].now
    BY <1>1, EnteringCall
  <2> QED
    BY <1>1, <2>1 DEF AllSolvent, Solvent
<1>2. IInv /\ AllSolvent /\ [Next]_vars
          => [\A s \in Signals : Entered(s) =>
                ~LossCapReached(balance, DailyPnl(decision'[s].at) + Unrealized(position))]_vars
  BY <1>1
<1>3. Spec => []AllSolvent
  <2>1. CASE Dialect = "sqlite"
    <3>1. Stops => AllSolvent
      BY DEF Stops, Stopping, AllSolvent
    <3>2. Spec => []Stops
      BY <2>1, WriterKeepsStops
    <3> QED
      BY <3>1, <3>2, PTL
  <2>2. CASE MarkPrices = {}
    <3>1. Init => AllSolvent
      BY DEF Init, AllSolvent, Solvent, SizedCalls
    <3>2. IInv /\ AllSolvent /\ [Next]_vars => AllSolvent'
      BY <2>2, SolventStep
    <3> QED
      BY <3>1, <3>2, Invariance, PTL DEF Spec
  <2> QED
    BY <2>1, <2>2
<1> QED
  BY <1>2, <1>3, Invariance, PTL DEF Spec, LossStop

(* On SQLite no entry is committed during a pause, nor after its contract  *)
(* stopped being accepted.  False on PostgreSQL, where the flag and the    *)
(* contract are read without a lock.                                       *)
THEOREM PausesStopEntries == Dialect = "sqlite" => (Spec => EntriesAllowed)
<1> SUFFICES ASSUME Dialect = "sqlite" PROVE Spec => EntriesAllowed
  OBVIOUS
<1>1. ASSUME IInv, Stops, [Next]_vars, NEW s \in Signals, Entered(s)
      PROVE  ~paused /\ accepted[s]
  <2>1. PICK p \in Procs : /\ pc[p] \in SizedCalls /\ tx[p].shares # 0
                           /\ s = job[p].signal
    BY <1>1, EnteringCall
  <2> QED
    BY <1>1, <2>1 DEF Stops, Stopping
<1>2. IInv /\ Stops /\ [Next]_vars
          => [\A s \in Signals : Entered(s) => ~paused /\ accepted[s]]_vars
  BY <1>1
<1>3. Spec => []Stops
  BY WriterKeepsStops
<1> QED
  BY <1>2, <1>3, Invariance, PTL DEF Spec, EntriesAllowed

-----------------------------------------------------------------------------
(* A mark finds its position open: PostgreSQL keeps the row locked, and in *)
(* the application at this commit nothing calls mark_position at all.      *)

MarksKept == Dialect = "postgresql" \/ MarkPrices = {}

LEMMA CommitMarkOpen ==
    ASSUME MarksKept, IInv, NEW p \in Procs, CommitMark(p)
    PROVE  LET s == job[p].signal
           IN  /\ IsOpen(position, s) /\ settlement[s] = None
               /\ job[p].mark \in 0..One
               /\ tx[p].pnl = MarkedPnl(position, s, job[p].mark)
<1> USE DEF IInv
<1>1. pc[p] = "mark" /\ CallOK(p)
  BY DEF CommitMark, CallsOK
<1>2. job[p].signal \in Signals /\ job[p].mark \in 0..One
  BY <1>1, LifecycleAssumption DEF CallOK, JobOfCall, MarkJobs
<1>3. IsOpen(position, job[p].signal)
      /\ tx[p].pnl = MarkedPnl(position, job[p].signal, job[p].mark)
  <2>1. Dialect = "postgresql"
    BY <1>1 DEF MarksKept, CallOK, JobOfCall, MarkJobs
  <2> QED
    BY <1>1, <2>1 DEF CallOK, Marking
<1> QED
  BY <1>2, <1>3 DEF RowsAgree

(* A settled position is not paid, marked or changed again.  False under   *)
(* SQLite with marks: mark_position reads outside a transaction.           *)
THEOREM SettledStaysFrozen == MarksKept => (Spec => SettledFrozen)
<1> SUFFICES ASSUME MarksKept PROVE Spec => SettledFrozen
  OBVIOUS
<1>1. ASSUME IInv, [Next]_vars, NEW s \in Signals, settlement[s] # None
      PROVE  position'[s] = position[s] /\ settlement'[s] = settlement[s]
  <2>1. CASE UNCHANGED books
    BY <2>1 DEF books
  <2>2. position[s] # None
    BY <1>1 DEF IInv, RowsAgree
  <2>3. ASSUME NEW p \in Procs, CommitDecision(p)
        PROVE  position'[s] = position[s] /\ settlement'[s] = settlement[s]
    <3>1. job[p].signal # s
      BY <1>1, <2>2, <2>3, CommitDecisionEffect
    <3> QED
      BY <1>1, <2>3, <3>1, CommitDecisionEffect DEF CommitDecision
  <2>4. ASSUME NEW p \in Procs, CommitSettlement(p)
        PROVE  position'[s] = position[s] /\ settlement'[s] = settlement[s]
    <3>1. job[p].signal # s
      BY <1>1, <2>4, CommitSettlementFacts
    <3> QED
      BY <1>1, <2>4, <3>1, CommitSettlementEffect
  <2>5. ASSUME NEW p \in Procs, CommitMark(p)
        PROVE  position'[s] = position[s] /\ settlement'[s] = settlement[s]
    <3>1. job[p].signal # s
      BY <1>1, <2>5, CommitMarkOpen
    <3> QED
      BY <1>1, <2>5, <3>1, CommitMarkEffect DEF CommitMark
  <2> QED
    BY <1>1, <2>1, <2>3, <2>4, <2>5, StepKinds
<1>2. IInv /\ [Next]_vars
          => [\A s \in Signals : settlement[s] # None
                  => position'[s] = position[s] /\ settlement'[s] = settlement[s]]_vars
  BY <1>1
<1> QED
  BY <1>2, Invariance, PTL DEF Spec, SettledFrozen

(* The ledger computes with the same operators.                            *)
LEMMA SameSums ==
    ASSUME NEW f
    PROVE  Ledger!SumFunctionOnSet(f, Signals) = SumFunctionOnSet(f, Signals)
  BY DEF Ledger!SumFunctionOnSet, SumFunctionOnSet, Ledger!FoldFunctionOnSet,
         FoldFunctionOnSet, Ledger!MapThenFoldSet, MapThenFoldSet

LEMMA SameOperators ==
    ASSUME NEW f, NEW s, NEW n, NEW b
    PROVE  /\ Ledger!Times = Times
           /\ Ledger!UnitCost(s) = UnitCost(s)
           /\ Ledger!Entry(s, n) = Entry(s, n)
           /\ Ledger!IsOpen(f, s) = IsOpen(f, s)
           /\ Ledger!MarkedPnl(f, s, n) = MarkedPnl(f, s, n)
           /\ Ledger!Payout(f, s, n) = Payout(f, s, n)
           /\ Ledger!Settled(f, s, n) = Settled(f, s, n)
           /\ Ledger!TradeCap(b) = TradeCap(b)
           /\ Ledger!WithinCaps(b, f, n) = WithinCaps(b, f, n)
<1>1. Ledger!Times = Times
  BY DEF Ledger!Times, Times
<1>2. Ledger!UnitCost(s) = UnitCost(s) /\ Ledger!Entry(s, n) = Entry(s, n)
  BY DEF Ledger!UnitCost, UnitCost, Ledger!Entry, Entry
<1>3. Ledger!IsOpen(f, s) = IsOpen(f, s) /\ Ledger!MarkedPnl(f, s, n) = MarkedPnl(f, s, n)
  BY DEF Ledger!IsOpen, IsOpen, Ledger!MarkedPnl, MarkedPnl
<1>4. Ledger!Payout(f, s, n) = Payout(f, s, n) /\ Ledger!Settled(f, s, n) = Settled(f, s, n)
  BY DEF Ledger!Payout, Payout, Ledger!Settled, Settled
<1>5. Ledger!TradeCap(b) = TradeCap(b)
  BY DEF Ledger!TradeCap, TradeCap
<1>6. Ledger!Exposure(f) = Exposure(f)
  <2>1. [t \in Signals |-> IF Ledger!IsOpen(f, t) THEN f[t].amount ELSE 0]
            = [t \in Signals |-> IF IsOpen(f, t) THEN f[t].amount ELSE 0]
    BY DEF Ledger!IsOpen, IsOpen
  <2> QED
    BY <2>1, SameSums DEF Ledger!Exposure, Exposure
<1>7. Ledger!WithinCaps(b, f, n) = WithinCaps(b, f, n)
  BY <1>5, <1>6 DEF Ledger!WithinCaps, WithinCaps, Ledger!ExposureRoom, ExposureRoom
<1> QED
  BY <1>1, <1>2, <1>3, <1>4, <1>5, <1>7

LEMMA DecisionRefines ==
    ASSUME IInv, NEW p \in Procs, CommitDecision(p)
    PROVE  Ledger!Next
<1> DEFINE s == job[p].signal
           n == tx[p].shares
<1> USE DEF IInv
<1>1. s \in Signals /\ n \in Nat
  BY CommitDecisionFacts DEF ExecuteJobs
<1>2. Ledger!Decide(s, n)
  <2>1. decision[s] = None /\ job[p].request \in Requests /\ job[p].now \in Times
    BY CommitDecisionFacts DEF ExecuteJobs
  <2>2. \A t \in Signals : decision[t] # None => decision[t].request # job[p].request
    BY CommitDecisionFacts DEF RequestUsed
  <2>3. decision' = [decision EXCEPT ![s] = [request |-> job[p].request, shares |-> n,
                                             at |-> job[p].now]]
    BY DEF CommitDecision, DecisionRow
  <2> QED
    BY <2>1, <2>2, <2>3, SameOperators DEF Ledger!Decide
<1>3. CASE n = 0
  <2>1. Ledger!Reject(s)
    BY <1>2, <1>3, CommitDecisionEffect DEF Ledger!Reject
  <2> QED
    BY <1>1, <2>1 DEF Ledger!Next
<1>4. CASE n # 0
  <2>1. /\ n \in Nat \ {0} /\ n * UnitCost(s) \in Nat
        /\ WithinCaps(balance, position, n * UnitCost(s))
        /\ position' = [position EXCEPT ![s] = Entry(s, n)]
        /\ balance' = balance - n * UnitCost(s)
    BY <1>4, CommitDecisionEffect
  <2>2. UnitCost(s) \in Nat \ {0}
    BY <1>4, CommitDecisionFacts, RiskAssumption
  <2>3. n <= TradeCap(balance) \div Den
    <3>1. Den \in Nat \ {0} /\ TradeNum \in Nat /\ balance \in Nat
      BY RiskAssumption DEF TypeOK
    <3>2. TradeCap(balance) \in Nat
      BY <3>1, ProductNat DEF TradeCap
    <3>3. n <= n * UnitCost(s)
      BY <2>1, <2>2, SMT
    <3>4. n * Den <= (n * UnitCost(s)) * Den
      BY <2>1, <3>1, <3>3, ProductMonotone
    <3>5. n * Den \in Nat /\ (n * UnitCost(s)) * Den \in Nat
      BY <2>1, <3>1, ProductNat
    <3>6. n * Den <= TradeCap(balance)
      BY <2>1, <3>2, <3>4, <3>5 DEF WithinCaps
    <3> QED
      BY <2>1, <3>1, <3>2, <3>6, QuotientCovers
  <2>4. n \in 1..(TradeCap(balance) \div Den)
    <3>1. TradeCap(balance) \div Den \in Int
      BY RiskAssumption, ProductNat, QuotientWithinBudget DEF TradeCap, TypeOK
    <3> QED
      BY <2>1, <2>3, <3>1
  <2>5. Ledger!Enter(s)
    BY <1>2, <2>1, <2>4, SameOperators DEF Ledger!Enter
  <2> QED
    BY <1>1, <2>5 DEF Ledger!Next
<1> QED
  BY <1>3, <1>4

LEMMA SettlementRefines ==
    ASSUME IInv, NEW p \in Procs, CommitSettlement(p)
    PROVE  Ledger!Next
<1> DEFINE s == job[p].signal
<1>1. s \in Signals /\ IsOpen(position, s) /\ tx[p].cash = balance
  BY CommitSettlementFacts
<1>2. PICK won \in BOOLEAN :
         /\ position' = [position EXCEPT ![s] = Settled(position, s, won)]
         /\ balance' = Credited(p, s, won)
  BY DEF CommitSettlement
<1>3. balance' = balance + Payout(position, s, won) /\ decision' = decision
  BY <1>1, <1>2 DEF Credited, CommitSettlement
<1>4. Ledger!Settle(s, won)
  <2>1. /\ Ledger!IsOpen(position, s)
        /\ position' = [position EXCEPT ![s] = Ledger!Settled(position, s, won)]
        /\ balance' = balance + Ledger!Payout(position, s, won)
    BY <1>1, <1>2, <1>3, SameOperators
  <2> QED
    BY <1>3, <2>1 DEF Ledger!Settle
<1> QED
  BY <1>1, <1>4 DEF Ledger!Next

LEMMA MarkRefines ==
    ASSUME MarksKept, IInv, NEW p \in Procs, CommitMark(p)
    PROVE  Ledger!Next
<1> DEFINE s == job[p].signal
<1>1. s \in Signals /\ IsOpen(position, s) /\ job[p].mark \in 0..One
  BY CommitMarkOpen, CommitMarkEffect
<1>2. position' = [position EXCEPT ![s].unrealized = MarkedPnl(position, s, job[p].mark)]
  BY CommitMarkOpen DEF CommitMark
<1>3. UNCHANGED <<balance, decision>>
  BY DEF CommitMark
<1>4. Ledger!Mark(s)
  BY <1>1, <1>2, <1>3, SameOperators DEF Ledger!Mark
<1> QED
  BY <1>1, <1>4 DEF Ledger!Next

(* The transactions of any number of processes implement the ledger whose  *)
(* entries, settlements and marks are each one atomic step.                *)
THEOREM ImplementsLedger == MarksKept => (Spec => LedgerSpec)
<1> SUFFICES ASSUME MarksKept PROVE Spec => LedgerSpec
  OBVIOUS
<1>1. Init => Ledger!Init
  BY DEF Init, Ledger!Init
<1>2. IInv /\ [Next]_vars => [Ledger!Next]_(Ledger!ledgerVars)
  <2> SUFFICES ASSUME IInv, [Next]_vars
               PROVE  Ledger!Next \/ UNCHANGED Ledger!ledgerVars
    OBVIOUS
  <2>1. CASE UNCHANGED books
    BY <2>1 DEF books, Ledger!ledgerVars
  <2> QED
    BY <2>1, StepKinds, DecisionRefines, SettlementRefines, MarkRefines
<1> QED
  BY <1>1, <1>2, Invariance, PTL DEF Spec, LedgerSpec, Ledger!Spec

-----------------------------------------------------------------------------
(* Locks: no calls wait for each other in a circle                         *)

(* The locks that the next step of a call takes or waits for.              *)
Needs(p) ==
    LET s == job[p].signal IN
    CASE pc[p] = "lookup" -> BeginMoneyWrite \cup ForUpdate(SignalRow(s))
      [] pc[p] = "claim"  -> BeginMoneyWrite \cup ForUpdate(PositionRow(s))
      [] pc[p] = "read"   -> ForUpdate(PositionRow(s))
      [] pc[p] = "mark"   -> ToWrite(PositionRow(s))
      [] pc[p] \in {"size", "credit"} -> BalanceLock
      [] pc[p] = "insert" -> InsertLocks(job[p].request)
      [] OTHER -> {}

Waits(p) == ~Available(p, Needs(p))

NoCircle == (\E p \in Procs : pc[p] # "idle") => \E p \in Procs : pc[p] # "idle" /\ ~Waits(p)

(* A call that has not begun to write holds nothing, and the balance and a *)
(* request id are locked last, in this order.                              *)
LocksOrdered(p) ==
    /\ pc[p] \in {"idle", "lookup", "claim", "read"} => holds[p] = {}
    /\ BalanceRow \in holds[p] => pc[p] \in {"insert", "decide", "pay"}
    /\ \A r \in Requests : RequestKey(r) \in holds[p] => pc[p] = "decide"

OrderInv == \A p \in Procs : LocksOrdered(p)

LEMMA OrderStep ==
    ASSUME TypeOK, OrderInv, NEW p \in Procs, NEW locks, NEW label,
           pc' = [pc EXCEPT ![p] = label],
           holds' = [holds EXCEPT ![p] = locks], LocksOrdered(p)'
    PROVE  OrderInv'
<1>1. ASSUME NEW q \in Procs, q # p PROVE LocksOrdered(q)'
  <2>1. pc'[q] = pc[q] /\ holds'[q] = holds[q] /\ LocksOrdered(q)
    BY <1>1 DEF TypeOK, OrderInv
  <2> QED
    BY <2>1 DEF LocksOrdered
<1> QED
  BY <1>1 DEF OrderInv

LEMMA EndKeepsOrder ==
    ASSUME TypeOK, OrderInv, NEW p \in Procs, EndSession(p)
    PROVE  OrderInv'
<1>1. pc' = [pc EXCEPT ![p] = "idle"] /\ holds' = [holds EXCEPT ![p] = {}]
  BY DEF EndSession, Goto
<1>2. LocksOrdered(p)'
  BY <1>1 DEF LocksOrdered, TypeOK
<1> QED
  BY <1>1, <1>2, OrderStep

LEMMA BeginKeepsOrder ==
    ASSUME TypeOK, OrderInv, NEW p \in Procs, NEW label \in {"lookup", "claim", "read"},
           NEW j, Begin(p, label, j)
    PROVE  OrderInv'
<1>1. pc[p] = "idle" /\ pc' = [pc EXCEPT ![p] = label] /\ holds' = holds
  BY DEF Begin, Goto
<1>2. holds' = [holds EXCEPT ![p] = holds[p]] /\ holds[p] = {}
  BY <1>1 DEF TypeOK, OrderInv, LocksOrdered
<1>3. LocksOrdered(p)'
  BY <1>1, <1>2 DEF LocksOrdered, TypeOK
<1> QED
  BY <1>1, <1>2, <1>3, OrderStep

(* The next place of a call, and what it locks to get there.               *)
LEMMA TakeKeepsOrder ==
    ASSUME TypeOK, OrderInv, NEW p \in Procs, NEW label, NEW locks,
           Take(p, locks), Goto(p, label),
           label \in {"check", "size", "insert", "decide", "credit", "pay", "mark"},
           BalanceRow \in holds[p] \cup locks => label \in {"insert", "decide", "pay"},
           \A r \in Requests : RequestKey(r) \in holds[p] \cup locks => label = "decide"
    PROVE  OrderInv'
<1>1. pc' = [pc EXCEPT ![p] = label] /\ holds' = [holds EXCEPT ![p] = holds[p] \cup locks]
  BY DEF Take, Goto
<1>2. pc'[p] = label /\ holds'[p] = holds[p] \cup locks
  BY <1>1 DEF TypeOK
<1>3. LocksOrdered(p)'
  BY <1>2 DEF LocksOrdered
<1> QED
  BY <1>1, <1>3, OrderStep

LEMMA RowsDiffer ==
    /\ BalanceRow # Writer
    /\ \A s : /\ BalanceRow # SignalRow(s) /\ BalanceRow # PositionRow(s)
              /\ \A r : RequestKey(r) # SignalRow(s) /\ RequestKey(r) # PositionRow(s)
    /\ \A r : BalanceRow # RequestKey(r) /\ Writer # RequestKey(r)
  BY DEF BalanceRow, Writer, SignalRow, PositionRow, RequestKey

LEMMA AdvanceKeepsOrder ==
    ASSUME IInv, OrderInv, NEW p \in Procs, Advance(p)
    PROVE  OrderInv'
<1> DEFINE s == job[p].signal
           r == job[p].request
<1>1. TypeOK /\ LocksOrdered(p)
  BY DEF IInv, OrderInv
<1>2. CASE EndSession(p)
  BY <1>1, <1>2, EndKeepsOrder
<1>3. CASE LookUpDecision(p) /\ ~EndSession(p)
  <2> DEFINE locks == BeginMoneyWrite \cup ForUpdate(SignalRow(s))
  <2>1. pc[p] = "lookup" /\ Take(p, locks) /\ Goto(p, "check")
    BY <1>3 DEF LookUpDecision
  <2>2. holds[p] = {} /\ BalanceRow \notin locks /\ \A k \in Requests : RequestKey(k) \notin locks
    BY <1>1, <2>1, RowsDiffer DEF LocksOrdered, BeginMoneyWrite, ForUpdate
  <2> HIDE DEF locks
  <2> QED
    BY <1>1, <2>1, <2>2, TakeKeepsOrder
<1>4. CASE ClaimPosition(p) /\ ~EndSession(p)
  <2> DEFINE locks == BeginMoneyWrite \cup ForUpdate(PositionRow(s))
  <2>1. pc[p] = "claim" /\ Take(p, locks) /\ Goto(p, "credit")
    BY <1>4 DEF ClaimPosition
  <2>2. holds[p] = {} /\ BalanceRow \notin locks /\ \A k \in Requests : RequestKey(k) \notin locks
    BY <1>1, <2>1, RowsDiffer DEF LocksOrdered, BeginMoneyWrite, ForUpdate
  <2> HIDE DEF locks
  <2> QED
    BY <1>1, <2>1, <2>2, TakeKeepsOrder
<1>5. CASE ReadForMark(p) /\ ~EndSession(p)
  <2> DEFINE locks == ForUpdate(PositionRow(s))
  <2>1. pc[p] = "read" /\ Take(p, locks) /\ Goto(p, "mark")
    BY <1>5 DEF ReadForMark
  <2>2. holds[p] = {} /\ BalanceRow \notin locks /\ \A k \in Requests : RequestKey(k) \notin locks
    BY <1>1, <2>1, RowsDiffer DEF LocksOrdered, ForUpdate
  <2> HIDE DEF locks
  <2> QED
    BY <1>1, <2>1, <2>2, TakeKeepsOrder
<1>6. CASE CheckEligibility(p)
  <2>1. PICK label \in {"size", "insert"} :
           pc[p] = "check" /\ Goto(p, label) /\ holds' = holds
    BY <1>6 DEF CheckEligibility
  <2>2. pc' = [pc EXCEPT ![p] = label] /\ holds' = [holds EXCEPT ![p] = holds[p]]
    BY <1>1, <2>1 DEF Goto, TypeOK
  <2>3. LocksOrdered(p)'
    BY <1>1, <2>1, <2>2 DEF LocksOrdered, TypeOK
  <2> QED
    BY <1>1, <2>2, <2>3, OrderStep
<1>7. CASE SizeUnderBalanceLock(p) /\ ~EndSession(p)
  <2>1. pc[p] = "size" /\ Take(p, BalanceLock) /\ Goto(p, "insert")
    BY <1>7 DEF SizeUnderBalanceLock
  <2>2. \A k \in Requests : RequestKey(k) \notin holds[p] \cup BalanceLock
    BY <1>1, <2>1, RowsDiffer DEF LocksOrdered, BalanceLock, ForUpdate
  <2> QED
    BY <1>1, <2>1, <2>2, TakeKeepsOrder
<1>8. CASE InsertDecision(p) /\ ~EndSession(p)
  <2>1. pc[p] = "insert" /\ Take(p, InsertLocks(r)) /\ Goto(p, "decide")
    BY <1>8 DEF InsertDecision
  <2> QED
    BY <1>1, <2>1, TakeKeepsOrder
<1>9. CASE LockBalanceForPayout(p)
  <2>1. pc[p] = "credit" /\ Take(p, BalanceLock) /\ Goto(p, "pay")
    BY <1>9 DEF LockBalanceForPayout
  <2>2. \A k \in Requests : RequestKey(k) \notin holds[p] \cup BalanceLock
    BY <1>1, <2>1, RowsDiffer DEF LocksOrdered, BalanceLock, ForUpdate
  <2> QED
    BY <1>1, <2>1, <2>2, TakeKeepsOrder
<1>10. CASE CommitDecision(p) \/ CommitSettlement(p) \/ CommitMark(p)
  BY <1>2, <1>10 DEF CommitDecision, CommitSettlement, CommitMark
<1> QED
  BY <1>2, <1>3, <1>4, <1>5, <1>6, <1>7, <1>8, <1>9, <1>10 DEF Advance

LEMMA NextOrder == IInv /\ OrderInv /\ [Next]_vars => OrderInv'
<1> SUFFICES ASSUME IInv, OrderInv, [Next]_vars PROVE OrderInv'
  OBVIOUS
<1>1. TypeOK
  BY DEF IInv
<1>2. CASE UNCHANGED <<pc, holds>>
  BY <1>2 DEF OrderInv, LocksOrdered
<1>3. ASSUME NEW p \in Procs, Start(p) PROVE OrderInv'
  <2>1. PICK label \in {"lookup", "claim", "read"} : \E j : Begin(p, label, j)
    BY <1>3 DEF Start, StartExecute, StartSettle, StartMark
  <2> QED
    BY <1>1, <2>1, BeginKeepsOrder
<1>4. ASSUME NEW p \in Procs, Abandon(p) PROVE OrderInv'
  BY <1>1, <1>4, EndKeepsOrder DEF Abandon
<1> QED
  BY <1>2, <1>3, <1>4, AdvanceKeepsOrder DEF Next, SetPaused, Rescan, Tick, vars, local

-----------------------------------------------------------------------------

(* On PostgreSQL: at the end of a call nothing is waited for.              *)
LEMMA EndsGoOn ==
    ASSUME NEW p \in Procs, pc[p] \in {"check", "decide", "pay"}
    PROVE  ~Waits(p)
<1>1. Needs(p) = {}
  BY DEF Needs
<1> QED
  BY <1>1 DEF Waits, Available

LEMMA OwnGoesOn ==
    ASSUME LocksExclusive, NEW p \in Procs, Needs(p) \subseteq holds[p]
    PROVE  ~Waits(p)
  BY DEF LocksExclusive, Waits, Available

(* SQLite has one lock: whoever has it goes on, and needs no other.        *)
LEMMA WriterGoesOn ==
    ASSUME Dialect = "sqlite", IInv, OrderInv, \E p \in Procs : pc[p] # "idle"
    PROVE  \E p \in Procs : pc[p] # "idle" /\ ~Waits(p)
<1>1. ASSUME NEW p \in Procs PROVE Needs(p) \subseteq {Writer}
  <2>1. Needs(p) \in {{}, {Writer}}
    BY DEF Needs, BeginMoneyWrite, ForUpdate, ToWrite, BalanceLock, InsertLocks
  <2> QED
    BY <2>1
<1>2. CASE \E q \in Procs : Writer \in holds[q]
  <2>1. PICK q \in Procs : Writer \in holds[q]
    BY <1>2
  <2>2. pc[q] # "idle"
    BY <2>1 DEF OrderInv, LocksOrdered
  <2>3. ~Waits(q)
    BY <1>1, <2>1, OwnGoesOn DEF IInv
  <2> QED
    BY <2>2, <2>3
<1>3. CASE \A q \in Procs : Writer \notin holds[q]
  <2>1. \A p \in Procs : ~Waits(p)
    BY <1>1, <1>3 DEF Waits, Available
  <2> QED
    BY <2>1
<1> QED
  BY <1>2, <1>3

(* On PostgreSQL a call that waits, waits for one further on.              *)
LEMMA FurthestGoesOn ==
    ASSUME Dialect = "postgresql", IInv, OrderInv, \E p \in Procs : pc[p] # "idle"
    PROVE  \E p \in Procs : pc[p] # "idle" /\ ~Waits(p)
<1> DEFINE Going == \E p \in Procs : pc[p] # "idle" /\ ~Waits(p)
<1>1. ASSUME NEW p \in Procs, pc[p] \in {"check", "decide", "pay"} PROVE Going
  BY <1>1, EndsGoOn
<1>2. ASSUME NEW p \in Procs, pc[p] = "mark" PROVE Going
  <2>1. Needs(p) = {PositionRow(job[p].signal)}
    BY <1>2 DEF Needs, ToWrite
  <2>2. PositionRow(job[p].signal) \in holds[p]
    BY <1>2 DEF IInv, CallsOK, CallOK, Marking, PositionLock
  <2>3. ~Waits(p)
    BY <2>1, <2>2, OwnGoesOn DEF IInv
  <2> QED
    BY <1>2, <2>3
<1>3. ASSUME NEW p \in Procs, pc[p] = "insert" PROVE Going
  <2>1. CASE ~Waits(p)
    BY <1>3, <2>1
  <2>2. CASE Waits(p)
    <3>1. Needs(p) = {RequestKey(job[p].request)} /\ job[p].request \in Requests
      BY <1>3 DEF Needs, InsertLocks, ToWrite, IInv, CallsOK, CallOK, JobOfCall, ExecuteJobs
    <3>2. PICK q \in Procs : RequestKey(job[p].request) \in holds[q]
      BY <2>2, <3>1 DEF Waits, Available
    <3>3. pc[q] = "decide"
      BY <3>1, <3>2 DEF OrderInv, LocksOrdered
    <3> QED
      BY <1>1, <3>3
  <2> QED
    BY <2>1, <2>2
<1>4. ASSUME NEW p \in Procs, pc[p] \in {"size", "credit"} PROVE Going
  <2>1. CASE ~Waits(p)
    BY <1>4, <2>1
  <2>2. CASE Waits(p)
    <3>1. Needs(p) = {BalanceRow}
      BY <1>4 DEF Needs, BalanceLock, ForUpdate
    <3>2. PICK q \in Procs : BalanceRow \in holds[q]
      BY <2>2, <3>1 DEF Waits, Available
    <3>3. pc[q] \in {"insert", "decide", "pay"}
      BY <3>2 DEF OrderInv, LocksOrdered
    <3> QED
      BY <1>1, <1>3, <3>3
  <2> QED
    BY <2>1, <2>2
<1>5. ASSUME NEW p \in Procs, pc[p] \in {"lookup", "claim", "read"} PROVE Going
  <2>1. CASE ~Waits(p)
    BY <1>5, <2>1
  <2>2. CASE Waits(p)
    <3>1. PICK q \in Procs : holds[q] # {}
      BY <2>2 DEF Waits, Available
    <3>2. pc[q] \in {"check", "size", "insert", "decide", "credit", "pay", "mark"}
      BY <3>1 DEF OrderInv, LocksOrdered, IInv, TypeOK
    <3> QED
      BY <1>1, <1>2, <1>3, <1>4, <3>2
  <2> QED
    BY <2>1, <2>2
<1>6. PICK p \in Procs : pc[p] # "idle"
  OBVIOUS
<1> QED
  BY <1>1, <1>2, <1>3, <1>4, <1>5, <1>6 DEF IInv, TypeOK

(* As long as a call is under way, one of them waits for no lock, though   *)
(* executions lock a signal, the balance and a request id, settlements a   *)
(* position and the balance, and marks a position (paper.py:137, 626).     *)
THEOREM NobodyWaitsInACircle == Spec => []NoCircle
<1>1. Init => OrderInv
  BY DEF Init, OrderInv, LocksOrdered
<1>2. Spec => []OrderInv
  BY <1>1, NextOrder, Invariance, PTL DEF Spec
<1>3. IInv /\ OrderInv => NoCircle
  BY WriterGoesOn, FurthestGoesOn, LifecycleAssumption DEF NoCircle
<1> QED
  BY <1>2, <1>3, Invariance, PTL

-----------------------------------------------------------------------------
(* The steps a call has left, in either of the three kinds of call.        *)
Left(label) ==
    CASE label = "idle"                        -> 0
      [] label \in {"decide", "pay", "mark"}   -> 1
      [] label \in {"insert", "credit", "read"} -> 2
      [] label \in {"size", "claim"}           -> 3
      [] label = "check"                       -> 4
      [] OTHER                                 -> 5

Places == {"idle", "lookup", "check", "size", "insert", "decide",
           "claim", "credit", "pay", "read", "mark"}

(* A step of a call brings it nearer to its end, and no other step of the  *)
(* system sets it back.                                                    *)
GetsOn ==
    \A p \in Procs : pc[p] # "idle" =>
        \/ pc'[p] = pc[p] /\ ~Advance(p)
        \/ Left(pc'[p]) < Left(pc[p])

LEMMA LeftIsNumber ==
    \A label : /\ Left(label) \in 0..5
               /\ label \in Places \ {"idle"} => Left(label) > 0
  BY DEF Left, Places

LEMMA AdvanceGetsOn ==
    ASSUME TypeOK, NEW p \in Procs, Advance(p)
    PROVE  pc[p] # "idle" /\ \E label : pc' = [pc EXCEPT ![p] = label] /\ Left(label) < Left(pc[p])
<1>1. pc[p] \in Places
  BY DEF TypeOK, Places
<1>2. CASE EndSession(p)
  <2>1. pc[p] # "idle" /\ pc' = [pc EXCEPT ![p] = "idle"]
    BY <1>2 DEF Advance, EndSession, Goto, LookUpDecision, CheckEligibility, SizeUnderBalanceLock,
                InsertDecision, CommitDecision, ClaimPosition, LockBalanceForPayout,
                CommitSettlement, ReadForMark, CommitMark
  <2>2. Left("idle") < Left(pc[p])
    BY <1>1, <2>1, LeftIsNumber DEF Left
  <2> QED
    BY <2>1, <2>2
<1>3. CASE ~EndSession(p)
  <2>1. PICK label :
           /\ pc' = [pc EXCEPT ![p] = label]
           /\ \/ pc[p] = "lookup" /\ label = "check"
              \/ pc[p] = "check" /\ label \in {"size", "insert"}
              \/ pc[p] = "size" /\ label = "insert"
              \/ pc[p] = "insert" /\ label = "decide"
              \/ pc[p] = "claim" /\ label = "credit"
              \/ pc[p] = "credit" /\ label = "pay"
              \/ pc[p] = "read" /\ label = "mark"
    BY <1>3 DEF Advance, Goto, LookUpDecision, CheckEligibility, SizeUnderBalanceLock,
                InsertDecision, CommitDecision, ClaimPosition, LockBalanceForPayout,
                CommitSettlement, ReadForMark, CommitMark
  <2>2. Left(label) < Left(pc[p])
    BY <2>1 DEF Left
  <2> QED
    BY <2>1, <2>2
<1> QED
  BY <1>2, <1>3


(* What a call has left to do only ever gets less: with the theorem before *)
(* it, all that execute_signal, settle_position and mark_position need to  *)
(* return is to be run (paper.py:79, 137, 626).                            *)
THEOREM CallsGetOn == Spec => [][GetsOn]_vars
<1>1. ASSUME TypeOK, Next, NEW p \in Procs, pc[p] # "idle"
      PROVE  (pc'[p] = pc[p] /\ ~Advance(p)) \/ Left(pc'[p]) < Left(pc[p])
  <2>1. CASE Advance(p)
    <3>1. PICK label : pc' = [pc EXCEPT ![p] = label] /\ Left(label) < Left(pc[p])
      BY <1>1, <2>1, AdvanceGetsOn
    <3> QED
      BY <1>1, <3>1 DEF TypeOK
  <2>2. ASSUME NEW q \in Procs, q # p, Start(q) \/ Advance(q) \/ Abandon(q), ~Advance(p)
        PROVE  pc'[p] = pc[p]
    <3>1. \E label : pc' = [pc EXCEPT ![q] = label]
      BY <1>1, <2>2, AdvanceGetsOn
         DEF Start, StartExecute, StartSettle, StartMark, Begin, Goto, Abandon, EndSession
    <3> QED
      BY <1>1, <2>2, <3>1 DEF TypeOK
  <2>3. CASE Abandon(p)
    <3>1. pc'[p] = "idle" /\ pc[p] \in Places
      BY <1>1, <2>3 DEF Abandon, EndSession, Goto, TypeOK, Places
    <3> QED
      BY <1>1, <3>1, LeftIsNumber DEF Left
  <2>4. ~Start(p)
    BY <1>1 DEF Start, StartExecute, StartSettle, StartMark, Begin
  <2>5. CASE SetPaused \/ (\E s \in Signals : Rescan(s)) \/ Tick
    BY <2>1, <2>5 DEF SetPaused, Rescan, Tick, local
  <2> QED
    BY <1>1, <2>1, <2>2, <2>3, <2>4, <2>5 DEF Next
<1>2. TypeOK /\ [Next]_vars => [GetsOn]_vars
  BY <1>1 DEF GetsOn
<1> QED
  BY <1>2, TypeCorrect, PTL DEF Spec
====
