----------------------------- MODULE Strategies -----------------------------
(***************************************************************************)
(* The strategies of mini_prop_os (strategy/*.py) as operators on the      *)
(* record of one member.  A bar reaches a member as a view: the side the   *)
(* averages are on (0: equal), the volatility regime, the spread counted   *)
(* in threshold steps, and the contracts the risk budget allows.  Intents  *)
(* are signed quantities, 0 for none.                                      *)
(***************************************************************************)
EXTENDS Integers, FiniteSets, FiniteSetsExt

CONSTANTS Members,
          Adaptive,        \* members with adaptive_ema; the others are ema_crossover
          Warmup,          \* warmup_bars, by member
          OrderQuantity,   \* order_quantity / base_quantity
          ConfirmWindow,   \* confirm_window
          KMin, KMax,      \* k_min, k_max, in steps of k_step
          Defaults,        \* DEFAULT_THRESHOLDS, in steps
          MinAgreement,    \* min_agreement
          FixedQuantity    \* quantity of the ensemble, 0 for None

Regimes == {"LOW", "NORMAL", "HIGH", "EXTREME"}

\* flow: the money of the round trip in progress; entry: the units it bought.
Fresh == [position |-> 0, sign |-> 0, window |-> 0, thresholds |-> Defaults,
          regime |-> "none", entry |-> 0, flow |-> 0]

NewSign(m, v) == IF v.sign = 0 THEN m.sign ELSE v.sign
Crossed(m, v, side) == m.sign # 0 /\ m.sign # side /\ NewSign(m, v) = side

\* size_for_regime and entry_quantity.
RegimeSize(regime) ==
    CASE regime = "EXTREME" -> 0
      [] regime = "HIGH"    -> Max({1, OrderQuantity \div 2})
      [] OTHER              -> OrderQuantity
EntryQuantity(v) == Min({RegimeSize(v.regime), v.budget})

\* The plain crossover: acts on the bar of the cross only.
CrossoverSignal(m, v) ==
    CASE Crossed(m, v, 1) /\ m.position = 0  -> OrderQuantity
      [] Crossed(m, v, -1) /\ m.position > 0 -> -m.position
      [] OTHER                               -> 0

\* The adaptive crossover: bars the confirmation may still take, counting this.
Window(m, v) ==
    IF Crossed(m, v, 1) /\ m.position = 0 THEN ConfirmWindow ELSE m.window

RiskOff(m, v) == v.regime = "EXTREME" \/ Crossed(m, v, -1)

Confirming(m, v) == ~RiskOff(m, v) /\ Window(m, v) > 0 /\ m.position = 0

Confirmed(m, v) ==
    /\ Confirming(m, v)
    /\ v.sign = 1
    /\ v.strength >= m.thresholds[v.regime]
    /\ EntryQuantity(v) > 0

AdaptiveSignal(m, v) ==
    CASE RiskOff(m, v) /\ m.position > 0 -> -m.position
      [] Confirmed(m, v)                 -> EntryQuantity(v)
      [] OTHER                           -> 0

AdaptiveWindow(m, v) ==
    IF RiskOff(m, v) \/ Confirmed(m, v) THEN 0
    ELSE IF Confirming(m, v) THEN Window(m, v) - 1
    ELSE Window(m, v)

\* on_bar: the member after the bar, and its intent once warm.
Signal(x, m, v, bars) ==
    IF bars < Warmup[x] THEN 0
    ELSE IF x \in Adaptive THEN AdaptiveSignal(m, v) ELSE CrossoverSignal(m, v)

Seen(x, m, v, bars) ==
    LET crossed == [m EXCEPT !.sign = NewSign(m, v)]
    IN  IF x \notin Adaptive \/ bars < Warmup[x] THEN crossed
        ELSE [crossed EXCEPT !.window = AdaptiveWindow(m, v),
                             !.regime = IF Confirmed(m, v) THEN v.regime ELSE @]

\* The ensemble: out on one voice, in on enough of them, with the smallest size.
EnsembleSignal(own, signals, bars) ==
    LET buys  == {x \in Members : signals[x] > 0}
        sells == {x \in Members : signals[x] < 0}
    IN  IF bars < Max({Warmup[x] : x \in Members}) THEN 0
        ELSE IF sells # {} /\ own > 0 THEN -own
        ELSE IF own # 0 \/ Cardinality(buys) < MinAgreement THEN 0
        ELSE IF FixedQuantity > 0 THEN FixedQuantity
        ELSE Min({signals[x] : x \in buys})

LearnedUnbounded(m) ==  \* mutant: no k_min, k_max
    LET regime == IF m.regime = "none" THEN "NORMAL" ELSE m.regime
    IN  [m EXCEPT !.thresholds[regime] = @ + (IF m.flow > 0 THEN -1 ELSE 1),
                  !.regime = "none", !.entry = 0, !.flow = 0]

\* _complete_round_trip: one step of the threshold of the regime of the entry.
Learned(m) ==
    LET regime == IF m.regime = "none" THEN "NORMAL" ELSE m.regime
        step   == IF m.flow > 0 THEN -1 ELSE 1
    IN  [m EXCEPT !.thresholds[regime] = Min({KMax, Max({KMin, @ + step})}),
                  !.regime = "none", !.entry = 0, !.flow = 0]

TakeFill(m, units, price) ==
    LET fresh == m.position = 0 /\ units > 0
    IN  [m EXCEPT !.position = @ + units,
                  !.entry = (IF fresh THEN 0 ELSE @) + (IF units > 0 THEN units ELSE 0),
                  !.flow = (IF fresh THEN 0 ELSE @) - units * price]

\* on_own_fill.
OwnFillEveryPart(x, m, units, price) ==  \* mutant: every exit fill is a round trip
    LET filled == TakeFill(m, units, price)
    IN  IF x \notin Adaptive THEN [m EXCEPT !.position = @ + units]
        ELSE IF units < 0 /\ m.entry > 0 THEN Learned(filled)
        ELSE filled

OwnFill(x, m, units, price) ==
    LET filled == TakeFill(m, units, price)
    IN  IF x \notin Adaptive THEN [m EXCEPT !.position = @ + units]
        ELSE IF units < 0 /\ filled.position = 0 /\ m.entry > 0 THEN Learned(filled)
        ELSE filled
=============================================================================
