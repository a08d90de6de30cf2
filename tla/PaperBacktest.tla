---------------------------- MODULE PaperBacktest ----------------------------
(***************************************************************************)
(* The backtester of the paper trader (engine/backtest.py) with its        *)
(* strategy (strategies.py, dual momentum) and the execution of Rebalance: *)
(* a bar credits the deposits of every calendar day since the last one,    *)
(* fills what the last bar decided, judges the risk, and decides.          *)
(* Momentum scores and prices are inputs.                                  *)
(***************************************************************************)
EXTENDS Integers, Sequences, FiniteSetsExt

CONSTANTS Symbols, MaxOrders, MinNotional, MaxCostPct, NoTradeBandPct,
          FixedMinFee, PerShareFee, CostPct, Faults,
          Prices,            \* prices a symbol can have
          BarDays,           \* the calendar day of each bar, a sequence
          DepositDays, Deposit,
          DecisionBars,      \* is_decision_day
          InitialEquity,
          MaxDrawdownPct, MaxDailyLossPct, MinEquityFloor,
          MaxPositionPct, MaxGrossPct,
          TopN, Defensive,   \* top_n, defensive_symbol
          Scores,            \* momentum scores; Missing among them
          Missing

VARIABLES cash, shares, queue, budget, prices, outcome, plan,
          bar, phase,
          pending,      \* orders to fill at the next bar
          halted, peak, lastEquity,
          spent,        \* costs_paid
          flows,        \* the deposit of this bar
          worth,        \* equity before the fills of this bar
          gained,       \* history: what price moves brought
          killBar       \* history: the bar of the kill, 0 for none

books == <<cash, shares, queue, budget, prices, outcome, plan>>
vars  == <<books, bar, phase, pending, halted, peak, lastEquity, spent, flows,
           worth, gained, killBar>>

R == INSTANCE Rebalance

Names == R!Names
Equity == R!EquityAt(cash, shares, prices)

TypeOK ==
    /\ cash \in Nat /\ shares \in [Names -> Nat]
    /\ bar \in 0..Len(BarDays)
    /\ phase \in {"open", "fill", "judge"}
    /\ halted = (killBar # 0)
    /\ spent \in Nat /\ peak \in Nat /\ lastEquity \in Nat
    /\ phase # "fill" => queue = <<>>

Init ==
    /\ cash = InitialEquity
    /\ shares = [s \in Names |-> 0]
    /\ prices \in [Names -> Prices]
    /\ queue = <<>> /\ budget = 0 /\ outcome = <<>>
    /\ plan = [orders |-> <<>>, liquidation |-> FALSE]
    /\ bar = 0 /\ phase = "open" /\ pending = <<>>
    /\ halted = FALSE /\ peak = InitialEquity /\ lastEquity = InitialEquity
    /\ spent = 0 /\ flows = 0 /\ worth = InitialEquity
    /\ gained = 0 /\ killBar = 0

----------------------------------------------------------------------------
\* The deposits of the days since the last bar; the first bar has only its own.
DueOnBars(n) == IF BarDays[n] \in DepositDays THEN Deposit ELSE 0  \* mutant
Due(n) ==
    LET from == IF n = 1 THEN BarDays[1] ELSE BarDays[n - 1] + 1
    IN  Deposit * Cardinality(DepositDays \cap (from..BarDays[n]))

FillsUnlessHalted(orders) == orders # <<>> /\ ~halted  \* mutant
\* Liquidations fill like anything else.
Fills(orders) == orders # <<>>

\* A new bar: deposits, marks, and the start of the fill leg.
OpenBar(px) ==
    LET due == Due(bar + 1)
    IN  /\ phase = "open"
        /\ bar < Len(BarDays)
        /\ bar' = bar + 1
        /\ prices' = px
        /\ cash' = cash + due
        /\ flows' = due
        /\ worth' = R!EquityAt(cash + due, shares, px)
        /\ gained' = gained + SumFunction([s \in Names |-> shares[s] * (px[s] - prices[s])])
        /\ IF Fills(pending)
           THEN R!Begin(pending, FALSE) /\ phase' = "fill"
           ELSE UNCHANGED <<queue, budget, outcome, plan>> /\ phase' = "judge"
        /\ pending' = <<>>
        /\ UNCHANGED <<shares, halted, peak, lastEquity, spent, killBar>>

\* One submission of the fill leg; the last one closes it.
Fill ==
    /\ phase = "fill"
    /\ queue # <<>>
    /\ R!Execute
    /\ UNCHANGED <<bar, phase, pending, halted, peak, lastEquity, spent, flows,
                   worth, gained, killBar>>

FillsDone ==
    /\ phase = "fill"
    /\ queue = <<>>
    /\ spent' = spent + worth - Equity
    /\ phase' = "judge"
    /\ UNCHANGED <<books, bar, pending, halted, peak, lastEquity, flows, worth,
                   gained, killBar>>

----------------------------------------------------------------------------
(* The risk gate and the strategy. *)

HardKill ==
    LET top == Max({peak + flows, Equity})
    IN  \/ peak >= MinEquityFloor /\ Equity < MinEquityFloor
        \/ (top - Equity) * 100 > MaxDrawdownPct * top

StandDown == /\ lastEquity > 0
             /\ (Equity - flows) * 100 < (100 - MaxDailyLossPct) * lastEquity

\* The risk assets, as positions in the universe.
RiskAssets == {i \in DOMAIN Symbols : Symbols[i] # Defensive}

\* target_weights, in percent: the best TopN, ties in the order of the universe.
Winners(score) ==
    {Symbols[k] : k \in {k \in RiskAssets :
        Cardinality({j \in RiskAssets :
            \/ score[Symbols[j]] > score[Symbols[k]]
            \/ score[Symbols[j]] = score[Symbols[k]] /\ j < k}) < TopN}}

TargetWeights(score) ==
    LET slice   == 100 \div TopN
        losers  == {s \in Winners(score) : score[s] <= 0}
        shelter == IF score[Defensive] # Missing /\ score[Defensive] > 0
                   THEN slice * Cardinality(losers) ELSE 0
    IN  [s \in Names |-> CASE s = Defensive                   -> shelter
                           [] s \in Winners(score) \ losers   -> slice
                           [] OTHER                           -> 0]

\* clamp_weights.
Clamp(weights) ==
    LET single == [s \in Names |-> Min({weights[s], MaxPositionPct})]
        gross  == SumFunction(single)
    IN  IF gross > MaxGrossPct
        THEN [s \in Names |-> (single[s] * MaxGrossPct) \div gross] ELSE single

Ranked(score) == \A i \in RiskAssets : score[Symbols[i]] # Missing

Liquidation ==
    LET one(s) == [symbol |-> s, side |-> "sell", shares |-> shares[s], full |-> TRUE,
                   limit |-> FALSE, hop |-> FALSE]
        sells[n \in 0..Len(Symbols)] ==
            IF n = 0 THEN <<>>
            ELSE IF shares[Symbols[n]] > 0 THEN Append(sells[n - 1], one(Symbols[n]))
            ELSE sells[n - 1]
    IN  sells[Len(Symbols)]

\* The rest of the loop's body.
Judge ==
    /\ phase = "judge"
    /\ phase' = "open"
    /\ IF ~halted /\ Equity > 0 /\ HardKill
       THEN halted' = TRUE /\ killBar' = bar /\ pending' = Liquidation
       ELSE /\ UNCHANGED <<halted, killBar>>
            /\ IF ~halted /\ Equity > 0 /\ ~StandDown /\ bar \in DecisionBars
               THEN \E score \in [Names -> Scores] :
                        pending' = IF Ranked(score)
                                   THEN R!ComputeOrders(shares, Clamp(TargetWeights(score)),
                                                        prices, Equity)
                                   ELSE <<>>
               ELSE pending' = <<>>
    /\ peak' = Max({peak + flows, Equity})
    /\ lastEquity' = Equity
    /\ UNCHANGED <<books, bar, spent, flows, worth, gained>>

Next == Fill \/ FillsDone \/ Judge \/ \E px \in [Names -> Prices] : OpenBar(px)

Spec == Init /\ [][Next]_vars

----------------------------------------------------------------------------
(* Properties. *)

(***************************************************************************)
(* A kill sells the whole book at the next bar, dust aside, and nothing is *)
(* bought or sold after that (backtest.py, run_backtest).  The order cap   *)
(* applies to this liquidation: it holds while the book has at most        *)
(* MaxOrders positions.                                                    *)
(***************************************************************************)
KilledBookIsSold ==
    halted /\ phase = "judge" /\ bar = killBar + 1 =>
        \A s \in Names : shares[s] > 0 => R!Cost(shares[s], prices[s]) >= shares[s] * prices[s]

(***************************************************************************)
(* At the end of a bar the equity is what was paid in, the deposits of     *)
(* every calendar day so far, what price moves brought, less the recorded  *)
(* costs (backtest.py, contributions and costs_paid; repros r2_08, 03).    *)
(***************************************************************************)
EquityAddsUp ==
    phase = "open" /\ bar > 0 =>
        Equity = InitialEquity
                 + Deposit * Cardinality(DepositDays \cap (BarDays[1]..BarDays[bar]))
                 + gained - spent
=============================================================================
