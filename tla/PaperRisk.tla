---- MODULE PaperRisk ----
(***************************************************************************)
(* Deterministic pre-trade sizing (services/risk.py).  Money and shares    *)
(* are whole quanta (the code quantizes shares to 1e-8, rounding down), a  *)
(* price is the cost of one share in money quanta, and the three risk      *)
(* fractions are numerators over the common denominator Den, so that every *)
(* cap below is compared after multiplying by Den.                         *)
(***************************************************************************)
EXTENDS Integers

CONSTANTS One,          \* what one winning share pays: the price 1
          Den,          \* denominator of the risk fractions
          TradeNum,     \* RiskLimits.max_trade_fraction * Den
          ExposureNum,  \* RiskLimits.max_exposure_fraction * Den
          LossNum       \* RiskLimits.max_daily_loss_fraction * Den

ASSUME RiskAssumption ==
    /\ One \in Nat \ {0}
    /\ Den \in Nat \ {0}
    /\ TradeNum \in 1..Den
    /\ ExposureNum \in 1..Den
    /\ LossNum \in 1..Den

Least(a, b) == IF a <= b THEN a ELSE b

(* The inputs size_order accepts; any other raises ValueError.             *)
RiskInputsValid(balance, price, requested, exposure, minimum) ==
    /\ balance \in Nat \ {0}
    /\ price \in 1..One
    /\ exposure \in Nat
    /\ minimum \in Nat \ {0}
    /\ requested \in Nat /\ requested >= minimum

(* daily_pnl + unrealized_pnl <= -(balance * max_daily_loss_fraction)      *)
LossCapReached(balance, pnl) == pnl * Den <= -(balance * LossNum)

TradeCap(balance) == balance * TradeNum

ExposureRoom(balance, exposure) == balance * ExposureNum - exposure * Den

AllowedNotional(balance, exposure) ==
    Least(TradeCap(balance), ExposureRoom(balance, exposure))

(* The whole shares the allowed notional buys, no more than were asked.    *)
SizedShares(balance, price, requested, exposure) ==
    Least(requested, AllowedNotional(balance, exposure) \div (price * Den))

OrderApproved(balance, price, requested, exposure, minimum, pnl) ==
    /\ ~LossCapReached(balance, pnl)
    /\ ExposureRoom(balance, exposure) > 0
    /\ SizedShares(balance, price, requested, exposure) >= minimum

(* RiskDecision.shares: zero when the order is refused.                    *)
SizeOrder(balance, price, requested, exposure, minimum, pnl) ==
    IF OrderApproved(balance, price, requested, exposure, minimum, pnl)
    THEN SizedShares(balance, price, requested, exposure)
    ELSE 0
====
