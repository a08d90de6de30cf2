---------------------------- MODULE FtmoBacktest ----------------------------
(***************************************************************************)
(* The event-driven backtest of ftmo-bot (backtest/engine.py) with the     *)
(* sizing (risk/sizing.py), the rules (risk/ftmo_rules.py) and the once-a- *)
(* session decision of the strategy (strategy/asian_breakout.py).  Bars    *)
(* and ticks are inputs; a tick of an open position is one action, with    *)
(* the halt it may cause.  Prices are integers, every tick has the typical *)
(* spread, one lot is worth one unit per price step.                       *)
(***************************************************************************)
EXTENDS Integers, FiniteSetsExt, Functions

CONSTANTS Symbols,
          Group,               \* the correlated group
          MaxSlots, MaxConsecutiveLosses,
          InitialBalance, DailyLimit, OverallLimit,
          Risk,                \* risk_amount
          Spread, Slippage, Commission,
          MinLot, MaxLot,
          TargetR, BreakevenR,
          Closes, Prices,      \* of the bars that break out, of the ticks
          Distances,           \* from a close to the far side of the range
          MaxDays,             \* bound: days of data
          None

VARIABLES day, cash, open,     \* open: the position of each symbol, or None
          dayStart, dayLow, losses, halted,
          decided,             \* symbols whose session is decided (_Day.done)
          late,                \* symbols past their time exit
          booked,              \* sum of the trades' pnl_usd
          gapped               \* history: was a fill of this day worse than planned?

vars == <<day, cash, open, dayStart, dayLow, losses, halted, decided, late, booked, gapped>>

OpenSymbols(book) == {s \in Symbols : book[s] # None}

Init ==
    /\ day = 1
    /\ cash = InitialBalance /\ dayStart = InitialBalance /\ dayLow = InitialBalance
    /\ open = [s \in Symbols |-> None]
    /\ losses = 0 /\ halted = FALSE /\ decided = {} /\ late = {}
    /\ booked = 0 /\ gapped = FALSE

----------------------------------------------------------------------------
(* Positions.  side is 1 for long and -1 for short. *)

Mark(p) == IF p.side = 1 THEN p.bid ELSE p.bid + Spread
MarketExit(p) == Mark(p) - p.side * Slippage
Unrealized(p, price) == p.side * (price - p.entry) * p.lots

Equity(money, book) ==
    money + SumFunction([s \in OpenSymbols(book) |-> Unrealized(book[s], Mark(book[s]))])

RiskToStop(p) ==
    (Max({0, p.side * (Mark(p) - p.stop)}) + Commission + Slippage) * p.lots

ProjectedWithoutCosts(dist) == Risk  \* mutant
\* projected_loss, at the size before rounding (rounded down as a whole).
Projected(dist) == Risk + (Risk * (2 * Commission + Spread + 2 * Slippage)) \div dist

\* size_for.
Lots(dist) == IF Risk \div dist < MinLot THEN 0 ELSE Min({Risk \div dist, MaxLot})

----------------------------------------------------------------------------
(* ftmo_rules.  Both losses are measured from the start of the day here. *)

ShouldHalt(equity) ==
    dayStart - equity >= OverallLimit \/ dayStart - equity >= DailyLimit

SlotsUsed(names) == Cardinality(names \ Group) + (IF names \cap Group = {} THEN 0 ELSE 1)

CanOpen(s, side, dist) ==
    LET held  == OpenSymbols(open)
        worst == Projected(dist) + SumFunction([o \in held |-> RiskToStop(open[o])])
        loss  == dayStart - Equity(cash, open)
    IN  /\ ~ShouldHalt(Equity(cash, open))
        /\ losses < MaxConsecutiveLosses
        /\ s \notin held
        /\ s \in Group => \A o \in held \cap Group : open[o].side = side
        /\ SlotsUsed(held \cup {s}) <= MaxSlots
        /\ loss + worst < DailyLimit /\ loss + worst < OverallLimit

----------------------------------------------------------------------------
\* A bar decides the session of s; _try_open fills at the next tick, at bid.
Opened(s, side, close, dist, bid) ==
    [side |-> side, lots |-> Lots(dist),
     entry |-> IF side = 1 THEN bid + Spread + Slippage ELSE bid - Slippage,
     stop |-> close - side * dist, initial |-> close - side * dist,
     target |-> close + side * TargetR * dist,
     bid |-> bid, paid |-> Commission * Lots(dist)]

\* "fill beyond stop or target".
Fillable(p) == p.side * (p.entry - p.stop) > 0 /\ p.side * (p.target - p.entry) > 0

Decide(s, side, close, dist, bid) ==
    LET p      == Opened(s, side, close, dist, bid)
        opens  == /\ ~halted /\ s \notin late
                  /\ CanOpen(s, side, dist)
                  /\ p.lots > 0
                  /\ Fillable(p)
        book   == [open EXCEPT ![s] = p]
    IN  /\ s \notin decided
        /\ decided' = decided \cup {s}
        /\ IF opens
           THEN /\ open' = book
                /\ cash' = cash - p.paid
                /\ dayLow' = Min({dayLow, Equity(cash - p.paid, book)})
                /\ gapped' = (gapped \/ side * (bid - close) > 0)
           ELSE UNCHANGED <<open, cash, dayLow, gapped>>
        /\ UNCHANGED <<day, dayStart, losses, halted, late, booked>>

\* The session of s ends without a trade: too wide a range, or no breakout.
Pass(s) ==
    /\ s \notin decided
    /\ decided' = decided \cup {s}
    /\ UNCHANGED <<day, cash, open, dayStart, dayLow, losses, halted, late, booked, gapped>>

----------------------------------------------------------------------------
(* Ticks. *)

\* What _close pays into cash, and the trade it records.
Proceeds(p, price) == Unrealized(p, price) - Commission * p.lots
Pnl(p, price) == Proceeds(p, price) - p.paid

\* The exit a tick forces: a price, or None.
ExitPrice(s, p) ==
    IF s \in late \/ p.side * (Mark(p) - p.stop) <= 0 THEN MarketExit(p)
    ELSE IF p.side * (Mark(p) - p.target) >= 0 THEN p.target
    ELSE None

\* The stop moves to the entry, once.
Protected(p) ==
    LET r == p.side * (p.entry - p.initial)
    IN  IF p.side * (Mark(p) - p.entry) >= BreakevenR * r
        THEN [p EXCEPT !.stop = p.entry] ELSE p

\* A tick of s, and the halt it may cause: every position is closed, each at
\* its own last tick.
Tick(s, bid) ==
    /\ open[s] # None
    /\ LET p      == [open[s] EXCEPT !.bid = bid]
           exit   == ExitPrice(s, p)
           book   == [open EXCEPT ![s] = IF exit = None THEN Protected(p) ELSE None]
           money  == IF exit = None THEN cash ELSE cash + Proceeds(p, exit)
           halts  == ShouldHalt(Equity(money, book))
           goes   == IF halts THEN OpenSymbols(book) ELSE {}
           final  == [o \in Symbols |-> IF o \in goes THEN None ELSE book[o]]
       IN  /\ open' = final
           /\ cash' = money + SumFunction([o \in goes |-> Proceeds(book[o], MarketExit(book[o]))])
           /\ booked' = booked + (IF exit = None THEN 0 ELSE Pnl(p, exit))
                        + SumFunction([o \in goes |-> Pnl(book[o], MarketExit(book[o]))])
           /\ losses' = IF exit = None THEN losses
                        ELSE IF Pnl(p, exit) < 0 THEN losses + 1 ELSE 0
           /\ halted' = (halted \/ halts)
           /\ dayLow' = Min({dayLow, Equity(money, book), Equity(cash', final)})
           /\ gapped' = (gapped \/ (exit # None /\ p.side * (Mark(p) - p.stop) < 0))
    /\ UNCHANGED <<day, dayStart, decided, late>>

\* The clock passes the time exit of s: no entry any more, out at the next tick.
TimeExit(s) ==
    /\ s \notin late
    /\ late' = late \cup {s}
    /\ UNCHANGED <<day, cash, open, dayStart, dayLow, losses, halted, decided, booked, gapped>>

\* The day's data ends: what is open is closed at its mark, and a day begins.
\* The data are over when day exceeds MaxDays.
DayEnd ==
    LET held  == OpenSymbols(open)
        final == cash + SumFunction([s \in held |-> Proceeds(open[s], Mark(open[s]))])
    IN  /\ day' = day + 1
        /\ cash' = final /\ dayStart' = final /\ dayLow' = final
        /\ booked' = booked + SumFunction([s \in held |-> Pnl(open[s], Mark(open[s]))])
        /\ open' = [s \in Symbols |-> None]
        /\ losses' = 0 /\ halted' = FALSE /\ decided' = {} /\ late' = {} /\ gapped' = FALSE

Next ==
  /\ day <= MaxDays
  /\ \/ DayEnd
     \/ \E s \in Symbols :
          \/ Pass(s) \/ TimeExit(s)
          \/ \E bid \in Prices :
              \/ Tick(s, bid)
              \/ \E side \in {1, -1}, close \in Closes, dist \in Distances :
                   Decide(s, side, close, dist, bid)

Spec == Init /\ [][Next]_vars

----------------------------------------------------------------------------
(* Properties. *)

(***************************************************************************)
(* The pre-trade projection is a bound: as long as no entry fills worse    *)
(* than the close it was sized at and no exit beyond its stop, every stop  *)
(* hit in turn, with all costs, leaves the day's loss inside the limit and *)
(* the halt is never needed (ftmo_rules.py, can_open; sizing.py,           *)
(* projected_loss, risk_to_stop).                                          *)
(***************************************************************************)
DailyLimitHolds == ~gapped => ~halted /\ dayStart - dayLow < DailyLimit

(***************************************************************************)
(* Cash is the initial balance plus what the trades report, less the entry *)
(* commissions of the open positions, however they were closed: stop,      *)
(* target, time, halt or end of data (engine.py, _try_open, _close).       *)
(***************************************************************************)
CashAddsUp ==
    cash = InitialBalance + booked
           - SumFunction([s \in OpenSymbols(open) |-> open[s].paid])

(***************************************************************************)
(* A halted day is over: nothing is open and nothing opens until the       *)
(* reset; before it, no two positions of the correlated group are on       *)
(* opposite sides and the slots are kept (engine.py, _advance, _try_open). *)
(***************************************************************************)
ExposureKept ==
    LET held == OpenSymbols(open)
    IN  /\ halted => held = {}
        /\ SlotsUsed(held) <= MaxSlots
        /\ \A s, o \in held \cap Group : open[s].side = open[o].side
=============================================================================
