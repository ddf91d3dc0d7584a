---- MODULE PaperBooks ----
(***************************************************************************)
(* The rows of the paper portfolio and the arithmetic on them, shared by   *)
(* the abstract ledger and by the transactions that implement it.  A       *)
(* signal has at most one decision, one position and one settlement, so    *)
(* each table is a function of the signal; None stands for no row.  The    *)
(* order, the fill and the position of an entry are inserted together and  *)
(* are one record here.                                                    *)
(***************************************************************************)
EXTENDS PaperRisk, Functions, FiniteSets

CONSTANTS Signals, Requests,
          Terms,         \* Terms[s]: what signal s was stored with
          StartBalance,  \* settings.paper_starting_balance
          MaxClock,      \* bound: the last reading of the clock
          None

(* fill: ask plus slippage, capped at 1; fee: the fee on one share;        *)
(* minimum: candidate.required_size; the signal, its prediction, evidence  *)
(* and market snapshot are usable from .. until; expiry: the contract's.   *)
SignalTerms == [fill: Nat, fee: Nat, minimum: Nat, from: Nat, until: Nat, expiry: Nat]

Times == 0..MaxClock

Decisions == [request: Requests, shares: Nat, at: Times]
Positions == [shares: Nat, amount: Nat, status: {"open", "settled"},
              unrealized: Int, realized: Int]
Settlements == [realized: Int, at: Times]

ASSUME BooksAssumption ==
    /\ IsFiniteSet(Signals)
    /\ Terms \in [Signals -> SignalTerms]
    /\ StartBalance \in Nat
    /\ MaxClock \in Nat
    /\ None \notin Requests

(* A row is never mistaken for its absence.                                *)
ASSUME NoneIsNoRow ==
    None \notin Decisions /\ None \notin Positions /\ None \notin Settlements

UnitCost(s) == Terms[s].fill + Terms[s].fee

IsOpen(position, s) == position[s] # None /\ position[s].status = "open"

(* estimate_entry and the PaperPosition row it fills.                      *)
Entry(s, shares) ==
    [shares |-> shares, amount |-> shares * UnitCost(s), status |-> "open",
     unrealized |-> -(shares * Terms[s].fee), realized |-> 0]

Payout(position, s, won) == IF won THEN position[s].shares * One ELSE 0

Settled(position, s, won) ==
    [position[s] EXCEPT !.status = "settled", !.unrealized = 0,
                        !.realized = Payout(position, s, won) - position[s].amount]

MarkedPnl(position, s, mark) == position[s].shares * mark - position[s].amount

Exposure(position) ==
    SumFunctionOnSet([s \in Signals |->
        IF IsOpen(position, s) THEN position[s].amount ELSE 0], Signals)

Unrealized(position) ==
    SumFunctionOnSet([s \in Signals |->
        IF IsOpen(position, s) THEN position[s].unrealized ELSE 0], Signals)

(* An order of this size respects the trade cap and the exposure cap of    *)
(* these books.                                                            *)
WithinCaps(balance, position, amount) ==
    /\ amount * Den <= TradeCap(balance)
    /\ amount * Den <= ExposureRoom(balance, Exposure(position))
====
