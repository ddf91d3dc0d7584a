---- MODULE PaperLedger ----
(***************************************************************************)
(* What the paper portfolio promises, with no sessions, locks or crashes:  *)
(* a signal is decided once, under a request no other signal uses; an      *)
(* entry respects the trade and exposure caps of the books it enters; a    *)
(* position is settled once; only open positions are marked; and money     *)
(* moves only with an entry or a settlement.                               *)
(***************************************************************************)
EXTENDS PaperBooks

VARIABLES balance, decision, position

ledgerVars == <<balance, decision, position>>

Init ==
    /\ balance = StartBalance
    /\ decision = [s \in Signals |-> None]
    /\ position = [s \in Signals |-> None]

Decide(s, shares) ==
    /\ decision[s] = None
    /\ \E r \in Requests, now \in Times :
        /\ \A t \in Signals : decision[t] # None => decision[t].request # r
        /\ decision' =
               [decision EXCEPT ![s] = [request |-> r, shares |-> shares, at |-> now]]

Reject(s) == Decide(s, 0) /\ UNCHANGED <<balance, position>>

Enter(s) ==
    \E shares \in 1..(TradeCap(balance) \div Den) :
        /\ Decide(s, shares)
        /\ WithinCaps(balance, position, shares * UnitCost(s))
        /\ position' = [position EXCEPT ![s] = Entry(s, shares)]
        /\ balance' = balance - shares * UnitCost(s)

Settle(s, won) ==
    /\ IsOpen(position, s)
    /\ position' = [position EXCEPT ![s] = Settled(position, s, won)]
    /\ balance' = balance + Payout(position, s, won)
    /\ UNCHANGED decision

Mark(s) ==
    /\ IsOpen(position, s)
    /\ \E mark \in 0..One :
           position' = [position EXCEPT ![s].unrealized = MarkedPnl(position, s, mark)]
    /\ UNCHANGED <<balance, decision>>

Next == \E s \in Signals :
            Reject(s) \/ Enter(s) \/ Mark(s) \/ \E won \in BOOLEAN : Settle(s, won)

Spec == Init /\ [][Next]_ledgerVars
====
