------------------------------ MODULE Rebalance ------------------------------
(***************************************************************************)
(* Order execution of the paper trader: portfolio.compute_orders, the      *)
(* order filter of risk.py, execution.execute_rebalance and the paper      *)
(* broker of broker.py with its costs.  One action carries one submission  *)
(* to its terminal result; a limit order that got nothing stays at the     *)
(* head of the queue as the market order it escalates to.  Money and       *)
(* shares are integers, fractions are percentages.                         *)
(***************************************************************************)
EXTENDS Integers, Sequences, FiniteSetsExt

CONSTANTS Symbols,         \* a sequence, in the order of sorted()
          MaxOrders,       \* max_orders_per_day
          MinNotional,     \* min_order_notional
          MaxCostPct,      \* max_cost_fraction
          NoTradeBandPct,  \* no_trade_band
          FixedMinFee, PerShareFee,
          CostPct,         \* half spread and slippage
          Faults           \* may the venue reject, fill in part, or go down?

VARIABLES cash, shares,  \* the broker's account
          queue,         \* orders still to submit
          budget,        \* submissions left
          prices,        \* the venue's prices
          outcome,       \* what reached the venue, in order
          plan           \* [orders, liquidation] of this rebalance

rebVars == <<cash, shares, queue, budget, prices, outcome, plan>>

Unlimited == 1000
Names == {Symbols[i] : i \in DOMAIN Symbols}

----------------------------------------------------------------------------
(* Costs and equity. *)

\* order_cost.
Cost(n, price) ==
    IF n = 0 THEN 0
    ELSE Max({FixedMinFee, PerShareFee * n}) + (CostPct * n * price) \div 100

EquityAt(money, held, px) == money + SumFunction([s \in Names |-> held[s] * px[s]])

----------------------------------------------------------------------------
(* Target weights to orders. *)

TargetShares(weight, equity, price) == (weight * equity) \div (100 * price)

\* compute_orders for one symbol: the orders it needs, none or one.
OrderFor(s, held, weight, equity, price) ==
    LET target == TargetShares(weight, equity, price)
        delta  == target - held
        size   == IF delta < 0 THEN -delta ELSE delta
    IN  IF target = 0 /\ held > 0
        THEN <<[symbol |-> s, side |-> "sell", shares |-> held, full |-> TRUE,
                limit |-> FALSE, hop |-> FALSE]>>
        ELSE IF delta = 0 \/ size * price * 100 < NoTradeBandPct * equity THEN <<>>
        ELSE <<[symbol |-> s, side |-> IF delta > 0 THEN "buy" ELSE "sell",
                shares |-> size, full |-> FALSE, limit |-> FALSE, hop |-> FALSE]>>

Side(orders, side) ==
    LET kept[n \in 0..Len(orders)] ==
            IF n = 0 THEN <<>>
            ELSE IF orders[n].side = side THEN Append(kept[n - 1], orders[n])
            ELSE kept[n - 1]
    IN  kept[Len(orders)]

\* sort_for_submission.
SellsFirst(orders) == Side(orders, "sell") \o Side(orders, "buy")

ComputeOrders(held, weights, px, equity) ==
    LET orders[n \in 0..Len(Symbols)] ==
            IF n = 0 THEN <<>>
            ELSE orders[n - 1] \o OrderFor(Symbols[n], held[Symbols[n]], weights[Symbols[n]],
                                           equity, px[Symbols[n]])
    IN  SellsFirst(orders[Len(Symbols)])

\* truncate_to_cap.
Truncate(orders) ==
    SubSeq(SellsFirst(orders), 1, Min({MaxOrders, Len(orders)}))

----------------------------------------------------------------------------
(* The filter, the sizing of a buy, and the venue. *)

\* filter_orders on one order: does the risk layer let it through?
Kept(o, px) ==
    LET notional == o.shares * px[o.symbol]
        cost     == Cost(o.shares, px[o.symbol])
    IN  /\ px[o.symbol] > 0
        /\ IF o.full THEN cost < notional
           ELSE notional >= MinNotional /\ cost * 100 <= MaxCostPct * notional

Affordable(n, price, available) == n * price + Cost(n, price) <= available

\* The resize loop: down from what the cash buys before costs.
Resized(o, price, available) ==
    LET fit[n \in 0..o.shares] ==
            IF n = 0 \/ Affordable(n, price, available) THEN n
            ELSE fit[Max({0, Min({n - 1, (available - Cost(n, price)) \div price})})]
    IN  fit[Min({available \div price, o.shares})]

\* The size a buy goes out with; an order already sized keeps its size.
Sized(o, px, available) ==
    IF o.side = "sell" \/ o.hop \/ px[o.symbol] <= 0
       \/ Affordable(o.shares, px[o.symbol], available)
    THEN o
    ELSE [o EXCEPT !.shares = Resized(o, px[o.symbol], available), !.full = FALSE]

\* _execute_one: what the venue can answer to an order of n shares of which it
\* would fill f.
Answer(o, f) ==
    LET price == prices[o.symbol]
        cost  == Cost(f, price)
    IN  IF f = 0 \/ price <= 0 THEN "unfilled"
        ELSE IF o.side = "buy" /\ f * price + cost > cash THEN "bounced"
        ELSE IF o.side = "sell" /\ (f > shares[o.symbol] \/ cost > f * price) THEN "unfilled"
        ELSE IF f = o.shares THEN "filled"
        ELSE "partial"

Fills(o) == IF Faults THEN 0..o.shares ELSE {o.shares}

----------------------------------------------------------------------------
(* execute_rebalance. *)

\* Its start: the queue is the truncated plan, the budget what the cap allows.
Begin(orders, liquidation) ==
    LET kept == IF liquidation THEN SellsFirst(orders) ELSE Truncate(orders)
    IN  /\ queue' = kept
        /\ budget' = IF liquidation THEN Unlimited ELSE MaxOrders
        /\ plan' = [orders |-> orders, liquidation |-> liquidation]
        /\ outcome' = <<>>

\* Dropped by the sizing, the budget or the filter.
Drop ==
    /\ queue # <<>>
    /\ LET o == Sized(Head(queue), prices, cash)
       IN  o.shares = 0 \/ budget < 1 \/ ~Kept(o, prices)
    /\ queue' = Tail(queue)
    /\ UNCHANGED <<cash, shares, budget, prices, outcome, plan>>

BudgetAfterFreeHop(o) == IF o.hop THEN budget ELSE budget - 1  \* mutant
\* Every submission counts, escalated or not.
BudgetAfter(o) == budget - 1

\* A limit order that got nothing is sent once more, as a market order.
Escalates(o, answer) == o.limit /\ answer \in {"unfilled", "bounced"}

\* _submit_single and the decision to escalate.
Submit ==
    /\ queue # <<>>
    /\ LET o == Sized(Head(queue), prices, cash)
       IN  /\ o.shares > 0 /\ budget >= 1 /\ Kept(o, prices)
           /\ \E f \in Fills(o) :
                LET answer == Answer(o, f)
                    units  == IF answer \in {"filled", "partial"} THEN f ELSE 0
                    sign   == IF o.side = "buy" THEN 1 ELSE -1
                IN  /\ cash' = cash - sign * units * prices[o.symbol]
                               - Cost(units, prices[o.symbol])
                    /\ shares' = [shares EXCEPT ![o.symbol] = @ + sign * units]
                    /\ outcome' = Append(outcome, [symbol |-> o.symbol, side |-> o.side,
                                                   units |-> units, answer |-> answer])
                    /\ queue' = IF Escalates(o, answer)
                                THEN <<[o EXCEPT !.limit = FALSE, !.hop = TRUE]>> \o Tail(queue)
                                ELSE Tail(queue)
           /\ budget' = BudgetAfter(o)
    /\ UNCHANGED <<prices, plan>>

\* An outage raises out of the rebalance; what was filled stays filled.
Outage ==
    /\ Faults
    /\ queue # <<>>
    /\ queue' = <<>>
    /\ UNCHANGED <<cash, shares, budget, prices, outcome, plan>>

Execute == Drop \/ Submit \/ Outage

----------------------------------------------------------------------------
(* Properties. *)

\* Units of s that orders ask for, and that results report.
Planned(orders, s) ==
    SumFunction([i \in DOMAIN orders |-> IF orders[i].symbol = s THEN orders[i].shares ELSE 0])
Traded(results, s) ==
    SumFunction([i \in DOMAIN results |-> IF results[i].symbol = s THEN results[i].units ELSE 0])

(***************************************************************************)
(* What reaches the venue stays within what was decided: no more           *)
(* submissions than the cap, escalations included, no more units of a      *)
(* symbol than planned, no sell after a buy, and no buy while the cap      *)
(* keeps a planned sell back (execution.py; orders.py, truncate_to_cap).   *)
(***************************************************************************)
WithinPlan ==
    /\ ~plan.liquidation => Len(outcome) <= MaxOrders
    /\ \A s \in Names : Traded(outcome, s) <= Planned(plan.orders, s)
    /\ \A i, j \in DOMAIN outcome :
            outcome[i].side = "buy" /\ outcome[j].side = "sell" => j < i
    /\ ~plan.liquidation /\ Len(Side(plan.orders, "sell")) >= MaxOrders
       => Side(outcome, "buy") = <<>>

(***************************************************************************)
(* The account never goes below zero, and no buy is ever refused for want  *)
(* of cash: each is sized from what the venue really holds by then, after  *)
(* partial fills, rejections and costs (execution.py, execute_rebalance).  *)
(***************************************************************************)
NoBuyBounces ==
    /\ cash >= 0
    /\ \A s \in Names : shares[s] >= 0
    /\ \A i \in DOMAIN outcome : outcome[i].answer # "bounced"
=============================================================================
