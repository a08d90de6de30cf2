----------------------------- MODULE Guardrails -----------------------------
(***************************************************************************)
(* The pre-trade risk layer of mini_prop_os (risk/guardrails.py), as pure  *)
(* operators on a snapshot: positions and prices per symbol, price 0 being *)
(* "no usable price".  Money is counted in whole units.                    *)
(***************************************************************************)
EXTENDS Integers, FiniteSetsExt

CONSTANTS MaxOrder,     \* max_order_quantity
          MaxPosition,  \* max_position_shares
          MaxNotional,  \* max_position_notional
          MaxGross,     \* max_gross_notional
          AllowShort,   \* allow_short
          Multiplier    \* contract multiplier, by symbol

AbsVal(n) == IF n < 0 THEN -n ELSE n

\* An intent: limit is 0 for a market order, source "strategy" or "risk".
SignedQty(i) == i.side * i.quantity

\* The reference price of the order, and what `units' of a symbol are worth.
RefPrice(i, prices) == IF i.limit > 0 THEN i.limit ELSE prices[i.symbol]
Notional(units, price, s) == AbsVal(units) * price * Multiplier[s]

\* PortfolioSnapshot.gross_notional, and whether it can be computed.
Priced(positions, prices) ==
    \A s \in DOMAIN positions : positions[s] # 0 => prices[s] > 0
Gross(positions, prices) ==
    MapThenSumSet(LAMBDA s : Notional(positions[s], prices[s], s), DOMAIN positions)

\* Checks 3 to 6 of validate, in its order.
WithinCaps(i, positions, prices) ==
    LET s         == i.symbol
        price     == RefPrice(i, prices)
        resulting == positions[s] + SignedQty(i)
        notional  == Notional(resulting, price, s)
    IN  /\ i.quantity <= MaxOrder
        /\ AllowShort \/ resulting >= 0
        /\ AbsVal(resulting) <= MaxPosition
        /\ notional <= MaxNotional
        /\ Priced(positions, prices)
        /\ Gross(positions, prices) - Notional(positions[s], price, s) + notional
                <= MaxGross

\* validate: the kill switch lets only the risk layer's own orders through, and
\* these skip the caps.
Approves(killed, i, positions, prices) ==
    /\ killed => i.source = "risk"
    /\ i.quantity > 0
    /\ RefPrice(i, prices) > 0
    /\ i.source = "risk" \/ WithinCaps(i, positions, prices)

\* flatten_intents: one market order per open position.
FlattenIntents(positions) ==
    { [symbol |-> s, side |-> IF positions[s] > 0 THEN -1 ELSE 1,
       quantity |-> AbsVal(positions[s]), limit |-> 0, source |-> "risk"] :
      s \in {x \in DOMAIN positions : positions[x] # 0} }

\* update_equity: the tighter of an amount and a percentage of the start.
LossLimit(start, maxLoss, maxLossPct) ==
    LET pct == (maxLossPct * start) \div 100 IN IF maxLoss < pct THEN maxLoss ELSE pct

Breached(start, equity, maxLoss, maxLossPct) ==
    start - equity >= LossLimit(start, maxLoss, maxLossPct)
============================================================================
