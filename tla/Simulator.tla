------------------------------ MODULE Simulator ------------------------------
(***************************************************************************)
(* The replay of mini_prop_os (sim.py): an ensemble of strategies, the     *)
(* risk layer and a broker that fills every order at the next open.  The   *)
(* loop runs a whole bar without another actor, so a bar is one action;    *)
(* what Oms guarantees of the ledger (the sum of the fills) is used here.  *)
(* The open of a bar is the close before it (bars_from_closes).            *)
(***************************************************************************)
EXTENDS Integers, Sequences, FiniteSetsExt

CONSTANTS Members, Adaptive, Warmup, OrderQuantity, ConfirmWindow, KMin, KMax,
          Defaults, MinAgreement, FixedQuantity,
          MaxOrder, MaxPosition, MaxNotional, MaxGross, AllowShort, Multiplier,
          MaxLoss, MaxLossPct,  \* max_daily_loss, max_daily_loss_pct
          Symbol, InitialCash, Slippage, Commission, SplitFills,
          Closes,               \* closes of the bars
          Views,                \* what a bar may look like to the members: functions
          MaxBars,              \* bound: bars of the file
          None

VARIABLES bars, close, members,
          own,      \* position of the strategy, from its own fills
          pending,  \* orders waiting for the next open
          ledger, prevEquity, start, killed, done

vars == <<bars, close, members, own, pending, ledger, prevEquity, start, killed, done>>

Risk  == INSTANCE Guardrails
Strat == INSTANCE Strategies

Fresh == [cash |-> InitialCash, position |-> 0, commissions |-> 0,
          entered |-> None,    \* cash and commissions when the round trip began
          trips |-> 0,         \* sum of round_trips' pnl
          unattributed |-> 0]  \* history: commissions no round trip was charged

TypeOK ==
    /\ bars \in 0..MaxBars /\ done \in BOOLEAN /\ killed \in BOOLEAN
    /\ own \in Nat /\ ledger.position \in Nat
    /\ Len(pending) <= 1
    /\ \A x \in Members :
        /\ members[x].window \in 0..ConfirmWindow
        /\ \A r \in Strat!Regimes \ {"EXTREME"} : members[x].thresholds[r] \in KMin..KMax
        /\ members[x].thresholds["EXTREME"] = Defaults["EXTREME"]

Init ==
    /\ bars = 0 /\ close \in Closes
    /\ members = [x \in Members |-> Strat!Fresh]
    /\ own = 0 /\ pending = <<>> /\ ledger = Fresh
    /\ prevEquity = None /\ start = None
    /\ killed = FALSE /\ done = FALSE

----------------------------------------------------------------------------
(* The fills at the open: parts of the pending orders, in order. *)

FillPrice(units) == IF units > 0 THEN close + Slippage ELSE close - Slippage

PartsOf(order) ==
    LET half == Risk!AbsVal(order.units) \div 2
        side == IF order.units > 0 THEN 1 ELSE -1
    IN  IF SplitFills /\ half > 0
        THEN << [order EXCEPT !.units = side * half],
                [order EXCEPT !.units = @ - side * half] >>
        ELSE <<order>>

Parts ==
    LET parts[n \in 0..Len(pending)] ==
            IF n = 0 THEN <<>> ELSE parts[n - 1] \o PartsOf(pending[n])
    IN  parts[Len(pending)]

\* _on_oms_fill and the commission, which the broker adds after it returns.

Booked(l, part) ==
    LET size     == Risk!AbsVal(part.units)
        cash     == l.cash - part.units * FillPrice(part.units)
        position == l.position + part.units
        closes   == position = 0 /\ l.entered # None
    IN  [l EXCEPT
            !.cash = cash, !.position = position,
            !.commissions = @ + size * Commission,
            !.entered = CASE closes    -> None
                          [] @ = None  -> [cash |-> l.cash, commissions |-> l.commissions]
                          [] OTHER     -> @,
            !.trips = IF closes
                      THEN @ + cash - l.entered.cash - (l.commissions - l.entered.commissions)
                      ELSE @,
            !.unattributed = IF closes THEN @ + size * Commission ELSE @]

Filled ==
    LET after[n \in 0..Len(Parts)] ==
            IF n = 0 THEN ledger ELSE Booked(after[n - 1], Parts[n])
    IN  after[Len(Parts)]

\* The strategy hears of its own fills only.
FilledMember(x) ==
    LET after[n \in 0..Len(Parts)] ==
            IF n = 0 THEN members[x]
            ELSE IF Parts[n].source = "strategy"
            THEN Strat!OwnFill(x, after[n - 1], Parts[n].units, FillPrice(Parts[n].units))
            ELSE after[n - 1]
    IN  after[Len(Parts)]

FilledOwn ==
    LET after[n \in 0..Len(Parts)] ==
            IF n = 0 THEN own
            ELSE IF Parts[n].source = "strategy" THEN after[n - 1] + Parts[n].units
            ELSE after[n - 1]
    IN  after[Len(Parts)]

----------------------------------------------------------------------------
Equity(l, mark) == l.cash + l.position * mark - l.commissions

Positions(l) == [s \in {Symbol} |-> l.position]

\* _route.
Approved(intent, halted, l, mark) ==
    Risk!Approves(halted, intent, Positions(l), [s \in {Symbol} |-> mark])

Order(intent) == [units |-> Risk!SignedQty(intent), source |-> intent.source]

\* _kill_switch_fired, on the bar that trips; nothing is pending by then, and
\* one symbol has one intent at most.
Flatten(l, mark) ==
    LET intents == {i \in Risk!FlattenIntents(Positions(l)) : Approved(i, TRUE, l, mark)}
    IN  IF intents = {} THEN <<>> ELSE <<Order(CHOOSE i \in intents : TRUE)>>

\* The strategy's intent, through the risk gate.
Routed(units, halted, l, mark) ==
    LET intent == [symbol |-> Symbol, side |-> IF units > 0 THEN 1 ELSE -1,
                   quantity |-> Risk!AbsVal(units), limit |-> 0, source |-> "strategy"]
    IN  IF units # 0 /\ Approved(intent, halted, l, mark) THEN <<Order(intent)>> ELSE <<>>

MirroredFills == [x \in Members |-> FilledMember(x)]

Bar(c, view) ==
    LET l       == Filled
        told    == MirroredFills
        equity  == Equity(l, c)
        mark    == IF prevEquity # None /\ ~killed THEN prevEquity ELSE start
        tripped == ~killed /\ mark # None
                   /\ Risk!Breached(mark, equity, MaxLoss, MaxLossPct)
        n       == bars + 1
        signals == [x \in Members |-> Strat!Signal(x, told[x], view[x], n)]
        units   == Strat!EnsembleSignal(FilledOwn, signals, n)
    IN  /\ ~done /\ bars < MaxBars
        /\ bars' = n /\ close' = c
        /\ ledger' = l /\ own' = FilledOwn
        /\ members' = [x \in Members |-> Strat!Seen(x, told[x], view[x], n)]
        /\ start' = mark /\ prevEquity' = equity
        /\ killed' = (killed \/ tripped)
        /\ pending' = (IF tripped THEN Flatten(l, c) ELSE <<>>)
                      \o Routed(units, killed', l, c)
        /\ UNCHANGED done

\* The end of the file: whatever works is cancelled.
End ==
    /\ ~done
    /\ bars > 0
    /\ done' = TRUE
    /\ pending' = <<>>
    /\ UNCHANGED <<bars, close, members, own, ledger, prevEquity, start, killed>>

Next == End \/ \E c \in Closes, view \in Views : Bar(c, view)

Spec == Init /\ [][Next]_vars

----------------------------------------------------------------------------
(* Properties. *)

(***************************************************************************)
(* The bar that breaches the daily loss is the last one held: from the     *)
(* next open on the book is flat for good, and only the flatten works in   *)
(* between (sim.py, run and _kill_switch_fired; guardrails.py, validate).  *)
(***************************************************************************)
FlatAfterKill ==
    killed /\ ~done =>
        IF pending = <<>> THEN ledger.position = 0
        ELSE /\ Head(pending).source = "risk"
             /\ Head(pending).units = -ledger.position

(***************************************************************************)
(* Until a kill, every member, the ensemble and the ledger hold the same   *)
(* position, through split fills and votes that were overruled             *)
(* (ensemble.py, on_own_fill; sim.py, _on_oms_fill).                       *)
(***************************************************************************)
OnePosition ==
    ~killed => /\ own = ledger.position
               /\ \A x \in Members : members[x].position = own

(***************************************************************************)
(* A flat account has gained what its round trips report, less the         *)
(* commission of each closing fill, which none of them is charged          *)
(* (sim.py, _on_oms_fill, _replay_equity_from_fills).                      *)
(***************************************************************************)
RoundTripsAddUp ==
    ledger.position = 0 =>
        Equity(ledger, close) = InitialCash + ledger.trips - ledger.unattributed

(***************************************************************************)
(* A threshold moves only when a round trip completes, one threshold of    *)
(* the member by one step, and in the direction of what the account made   *)
(* on that trip, through split fills and overruled votes (adaptive_ema.py, *)
(* on_own_fill, _complete_round_trip).                                     *)
(***************************************************************************)
OneLesson ==
    \A x \in Members :
        LET moved == {r \in Strat!Regimes :
                        members'[x].thresholds[r] # members[x].thresholds[r]}
            step  == IF ledger'.cash > ledger.entered.cash THEN -1 ELSE 1
        IN  moved # {} =>
              /\ members[x].position > 0 /\ members'[x].position = 0
              /\ \E r \in moved :
                    moved = {r} /\ members'[x].thresholds[r] = members[x].thresholds[r] + step
=============================================================================
