----------------------------- MODULE MCOffline -----------------------------
(***************************************************************************)
(* The parts of the repository that keep no process alive, each checked on *)
(* an instance of its own: the first state chooses the part, and nothing   *)
(* but that part moves.  The variables of the others are None.             *)
(***************************************************************************)
EXTENDS Challenge, Sequences, FiniteSets

CONSTANTS None,
    Members, Adaptive, Warmup, OrderQuantity, ConfirmWindow, KMin, KMax,  \* of Simulator
    Defaults, MinAgreement, FixedQuantity, MaxOrder, MaxPosition, MaxNotional, MaxGross,
    AllowShort, Multiplier, MaxLoss, MaxLossPct, Symbol, InitialCash, SplitFills, Views, MaxBars,
    SimSlippage, SimCommission, SimCloses,
    LastHour, FirstDay, LastDay, BadDays, Hashes, MaxRuns, MaxCrashes,   \* of Research
    Symbols, Group, MaxSlots, MaxConsecutiveLosses,                      \* of FtmoBacktest
    InitialBalance, DailyLimit, OverallLimit, RiskAmount, Spread, Slippage, Commission,
    MinLot, MaxLot, TargetR, BreakevenR, Closes, Prices, Distances, BacktestDays,
    Times, Impacts, Before, After, Horizon, MaxEvents,                   \* of EventCalendar
    FirstBar, RangeBars, LastBar, Lookback, NewsWindow,                  \* of Breakout
    EventTimes, MaxChanges, MaxFailures,
    PaperSymbols, NoTradeBandPct, FixedMinFee, PerShareFee, CostPct,     \* of Rebalance
    VenueMaxOrders, VenueMinNotional, VenueMaxCostPct, VenueCash, VenueShares, VenuePrices,
    VenueWeights,
    PaperMaxOrders, PaperMinNotional, PaperMaxCostPct, PaperPrices,      \* of PaperBacktest
    BarDays, DepositDays, Deposit, DecisionBars, InitialEquity, MaxDrawdownPct,
    MaxDailyLossPct, MinEquityFloor, MaxPositionPct, MaxGrossPct, TopN, Defensive, Scores,
    Missing

\* Members exist and orders have a size; thresholds start within their bounds,
\* prices are positive, and None is not the mark of a round trip.
ASSUME SimulatorAssumption ==
    /\ IsFiniteSet(Members) /\ Members # {}
    /\ {OrderQuantity, ConfirmWindow, MinAgreement} \subseteq Nat \ {0}
    /\ {FixedQuantity, MaxBars} \subseteq Nat
    /\ {KMin, KMax, InitialCash, SimSlippage, SimCommission} \subseteq Int
    /\ Defaults \in [{"LOW", "NORMAL", "HIGH", "EXTREME"} -> Int]
    /\ \A regime \in {"LOW", "NORMAL", "HIGH"} : Defaults[regime] \in KMin..KMax
    /\ SimCloses \subseteq Nat \ {0}
    /\ Views \subseteq [Members -> [sign : {-1, 0, 1}, strength : Int, budget : Nat,
                                   regime : {"LOW", "NORMAL", "HIGH", "EXTREME"}]]
    /\ None \notin [cash : Int, commissions : Int]

ASSUME PipelineAssumption ==
    /\ LastHour \in Nat \ {0}
    /\ FirstDay \in Int /\ LastDay \in Int /\ FirstDay <= LastDay
    /\ MaxRuns \in Nat /\ MaxCrashes \in Nat

\* Limits and costs are not negative, a stop is not at its entry, and None is
\* neither a price nor a position.
ASSUME BacktestAssumption ==
    /\ IsFiniteSet(Symbols) /\ Group \subseteq Symbols
    /\ {DailyLimit, OverallLimit} \subseteq Nat \ {0}
    /\ {MaxSlots, RiskAmount, Spread, Slippage, Commission, MinLot, MaxLot, TargetR,
        BreakevenR} \subseteq Nat
    /\ InitialBalance \in Int /\ Closes \subseteq Int /\ Prices \subseteq Int
    /\ Distances \subseteq Nat \ {0}
    /\ None \notin Int
    /\ None \notin [side : {1, -1}, lots : Nat, entry : Int, stop : Int, initial : Int,
                    target : Int, bid : Int, paid : Nat]

\* Windows are not negative, and none reaches back over the day that the scan
\* looks past an event that is over.
ASSUME CalendarAssumption ==
    /\ Times \subseteq Int
    /\ Before \in [Impacts -> Nat] /\ After \in [Impacts -> Nat]
    /\ \A i, j \in Impacts : After[i] <= After[j] + Horizon
    /\ Horizon \in Nat /\ MaxEvents \in Nat

\* A pass of a new process sees the whole day, and the range is not empty.
ASSUME BreakoutAssumption ==
    /\ {FirstBar, RangeBars} \subseteq Nat \ {0}
    /\ {LastBar, Lookback, NewsWindow, MaxChanges, MaxFailures} \subseteq Nat
    /\ FirstBar + Lookback > LastBar
    /\ EventTimes \subseteq Int

\* The universe has no symbol twice, prices are positive, and nothing an
\* account holds or pays is negative.
ASSUME RebalanceAssumption ==
    /\ PaperSymbols \in Seq({PaperSymbols[i] : i \in DOMAIN PaperSymbols})
    /\ \A i, j \in DOMAIN PaperSymbols : PaperSymbols[i] = PaperSymbols[j] => i = j
    /\ {NoTradeBandPct, FixedMinFee, PerShareFee, CostPct, VenueMaxOrders, VenueMinNotional,
        VenueMaxCostPct} \subseteq Nat
    /\ VenueCash \subseteq Nat /\ VenueShares \subseteq Nat /\ VenueWeights \subseteq Nat
    /\ VenuePrices \subseteq Nat \ {0}

\* Bars are in the order of their days, and the order cap lets a liquidation
\* of the whole universe through.
ASSUME PaperAssumption ==
    /\ Len(PaperSymbols) <= PaperMaxOrders
    /\ {PaperMaxOrders, PaperMinNotional, PaperMaxCostPct, Deposit, InitialEquity,
        MaxDrawdownPct, MaxDailyLossPct, MinEquityFloor, MaxPositionPct, MaxGrossPct}
            \subseteq Nat
    /\ TopN \in Nat \ {0}
    /\ PaperPrices \subseteq Nat \ {0}
    /\ BarDays \in Seq(Int)
    /\ \A i, j \in DOMAIN BarDays : i < j => BarDays[i] < BarDays[j]

VARIABLES part,
    close, members, own, prevEquity, killed, done,          \* Simulator
    bars, ledger,                                           \* Simulator, Research
    pending,                                                \* Simulator, PaperBacktest
    shares, queue, budget, prices, plan, outcome,           \* Rebalance, PaperBacktest
    cash,                                                   \* these two, FtmoBacktest
    halted,                                                 \* PaperBacktest, FtmoBacktest
    bar, phase, peak, lastEquity, spent, flows, worth, gained, killBar,  \* PaperBacktest
    open, dayStart, dayLow, losses, decided, late, booked, gapped,       \* FtmoBacktest
    today, hour, raw, report, hash, results, task, crashes,              \* Research
    events, now,                                                         \* EventCalendar
    tape, published, changes, cache, process, keys, held, entries,       \* Breakout
    calendars, failures
\* start is Simulator's too, day FtmoBacktest's.

simGroup       == <<close, members, own, prevEquity, killed, done>>
paperGroup     == <<bar, phase, peak, lastEquity, spent, flows, worth, gained, killBar>>
venueGroup     == <<shares, queue, budget, prices, plan, outcome>>
ftmoGroup      == <<open, dayStart, dayLow, losses, decided, late, booked, gapped>>
challengeGroup == <<replay, verdict, tradingDays, engineDaily, cum, low, left,
                    stage, worst, lowest>>
researchGroup  == <<today, hour, raw, report, hash, results, task, crashes>>
calendarGroup  == <<events, now>>
breakoutGroup  == <<tape, published, changes, cache, process, keys, held, entries,
                    calendars, failures>>
offlineVars    == <<part, simGroup, paperGroup, venueGroup, ftmoGroup, challengeGroup,
                    researchGroup, calendarGroup, breakoutGroup, bars, ledger, pending,
                    cash, halted, start, day>>

----------------------------------------------------------------------------
(* The instances. *)

\* Three symbols, the last one defensive, and the days of five bars.
Universe == <<"A", "B", "C">>
Days == <<1, 2, 4, 5, 6>>

View(side, vol, gap, lots) ==
    [sign |-> side, regime |-> vol, strength |-> gap, budget |-> lots]
AdaptiveViews ==
    {View(1, "NORMAL", 0, 2), View(1, "NORMAL", 1, 2), View(1, "HIGH", 0, 2),
     View(1, "NORMAL", 1, 0), View(-1, "NORMAL", 0, 2), View(-1, "EXTREME", 0, 2),
     View(0, "LOW", 0, 2)}
\* The plain crossover looks at the averages only.
EnsembleViews == [a : AdaptiveViews, b : {View(side, "NORMAL", 0, 2) : side \in {1, -1}}]
Thresholds == [LOW |-> 0, NORMAL |-> 1, HIGH |-> 0, EXTREME |-> 9]
WarmupBars == [a |-> 2, b |-> 1]
ContractMultiplier == [MES |-> 1]

Sim == INSTANCE Simulator WITH
    Slippage <- SimSlippage, Commission <- SimCommission, Closes <- SimCloses

Venue == INSTANCE Rebalance WITH
    Symbols <- PaperSymbols, MaxOrders <- VenueMaxOrders, MinNotional <- VenueMinNotional,
    MaxCostPct <- VenueMaxCostPct, Faults <- TRUE

Paper == INSTANCE PaperBacktest WITH
    Symbols <- PaperSymbols, MaxOrders <- PaperMaxOrders, MinNotional <- PaperMinNotional,
    MaxCostPct <- PaperMaxCostPct, Prices <- PaperPrices, Faults <- FALSE

Ftmo == INSTANCE FtmoBacktest WITH MaxDays <- BacktestDays, Risk <- RiskAmount

Pipeline == INSTANCE Research

Calendar == INSTANCE EventCalendar

Entry == INSTANCE Breakout

\* Minutes of standing aside, by impact.
Window == [HIGH |-> 3, MEDIUM |-> 1]

\* Results of trades and days for Challenge.
TradeResults == {-9, -5, -2, -1, 1, 3}

----------------------------------------------------------------------------
(* One rebalance of the paper trader, from any account. *)

VenueInit ==
    /\ cash \in VenueCash
    /\ shares \in [Venue!Names -> VenueShares]
    /\ prices \in [Venue!Names -> VenuePrices]
    /\ queue = <<>> /\ budget = 0 /\ outcome = <<>>
    /\ plan = [orders |-> <<>>, liquidation |-> FALSE]

Plan(weights, limit, liquidation) ==
    LET equity == Venue!EquityAt(cash, shares, prices)
        orders == Venue!ComputeOrders(shares, weights, prices, equity)
    IN  /\ plan = [orders |-> <<>>, liquidation |-> FALSE]
        /\ Venue!Begin([i \in DOMAIN orders |-> [orders[i] EXCEPT !.limit = limit]], liquidation)
        /\ UNCHANGED <<cash, shares, prices>>

VenueNext ==
    \/ \E weights \in [Venue!Names -> VenueWeights], limit \in BOOLEAN : Plan(weights, limit, FALSE)
    \/ Plan([s \in Venue!Names |-> 0], FALSE, TRUE)
    \/ Venue!Execute

----------------------------------------------------------------------------
SimOff       == close = None /\ members = None /\ own = None /\ prevEquity = None
                /\ killed = None /\ done = None
PaperOff     == bar = None /\ phase = None /\ peak = None /\ lastEquity = None /\ spent = None
                /\ flows = None /\ worth = None /\ gained = None /\ killBar = None
VenueOff     == shares = None /\ queue = None /\ budget = None /\ prices = None /\ plan = None
                /\ outcome = None
FtmoOff      == open = None /\ dayStart = None /\ dayLow = None /\ losses = None
                /\ decided = None /\ late = None /\ booked = None /\ gapped = None
ChallengeOff == replay = None /\ verdict = None /\ tradingDays = None /\ engineDaily = None
                /\ cum = None /\ low = None /\ left = None /\ stage = None
                /\ worst = None /\ lowest = None
ResearchOff  == today = None /\ hour = None /\ raw = None /\ report = None /\ hash = None
                /\ results = None /\ task = None /\ crashes = None
CalendarOff  == events = None /\ now = None
BreakoutOff  == tape = None /\ published = None /\ changes = None /\ cache = None
                /\ process = None /\ keys = None /\ held = None /\ entries = None
                /\ calendars = None /\ failures = None

OfflineInit ==
    \/ /\ part = "simulator" /\ Sim!Init
       /\ PaperOff /\ VenueOff /\ FtmoOff /\ ChallengeOff /\ ResearchOff /\ CalendarOff /\ BreakoutOff
       /\ cash = None /\ halted = None /\ day = None
    \/ /\ part = "rebalance" /\ VenueInit
       /\ SimOff /\ PaperOff /\ FtmoOff /\ ChallengeOff /\ ResearchOff /\ CalendarOff /\ BreakoutOff
       /\ bars = None /\ ledger = None /\ pending = None /\ halted = None
       /\ start = None /\ day = None
    \/ /\ part = "paper" /\ Paper!Init
       /\ SimOff /\ FtmoOff /\ ChallengeOff /\ ResearchOff /\ CalendarOff /\ BreakoutOff
       /\ bars = None /\ ledger = None /\ start = None /\ day = None
    \/ /\ part = "ftmo" /\ Ftmo!Init
       /\ SimOff /\ PaperOff /\ VenueOff /\ ChallengeOff /\ ResearchOff /\ CalendarOff /\ BreakoutOff
       /\ bars = None /\ ledger = None /\ pending = None /\ start = None
    \/ /\ part = "challenge" /\ Init
       /\ SimOff /\ PaperOff /\ VenueOff /\ FtmoOff /\ ResearchOff /\ CalendarOff /\ BreakoutOff
       /\ bars = None /\ ledger = None /\ pending = None /\ cash = None /\ halted = None
    \/ /\ part = "research" /\ Pipeline!Init
       /\ SimOff /\ PaperOff /\ VenueOff /\ FtmoOff /\ ChallengeOff /\ CalendarOff /\ BreakoutOff
       /\ pending = None /\ cash = None /\ halted = None /\ start = None /\ day = None
    \/ /\ part = "calendar" /\ Calendar!Init
       /\ SimOff /\ PaperOff /\ VenueOff /\ FtmoOff /\ ChallengeOff /\ ResearchOff
       /\ BreakoutOff
       /\ bars = None /\ ledger = None /\ pending = None /\ cash = None /\ halted = None
       /\ start = None /\ day = None
    \/ /\ part = "breakout" /\ Entry!Init
       /\ SimOff /\ PaperOff /\ VenueOff /\ FtmoOff /\ ChallengeOff /\ ResearchOff
       /\ CalendarOff
       /\ bars = None /\ ledger = None /\ pending = None /\ cash = None /\ halted = None
       /\ start = None /\ day = None

OfflineNext ==
    \/ /\ part = "simulator" /\ Sim!Next
       /\ UNCHANGED <<part, paperGroup, venueGroup, ftmoGroup, challengeGroup, researchGroup,
                      calendarGroup, breakoutGroup, cash, halted, day>>
    \/ /\ part = "rebalance" /\ VenueNext
       /\ UNCHANGED <<part, simGroup, paperGroup, ftmoGroup, challengeGroup, researchGroup,
                      calendarGroup, breakoutGroup, bars, ledger, pending, halted, start, day>>
    \/ /\ part = "paper" /\ Paper!Next
       /\ UNCHANGED <<part, simGroup, ftmoGroup, challengeGroup, researchGroup,
                      calendarGroup, breakoutGroup, bars, ledger, start, day>>
    \/ /\ part = "ftmo" /\ Ftmo!Next
       /\ UNCHANGED <<part, simGroup, paperGroup, venueGroup, challengeGroup, researchGroup,
                      calendarGroup, breakoutGroup, bars, ledger, pending, start>>
    \/ /\ part = "challenge" /\ Next
       /\ UNCHANGED <<part, simGroup, paperGroup, venueGroup, ftmoGroup, researchGroup,
                      calendarGroup, breakoutGroup, bars, ledger, pending, cash, halted>>
    \/ /\ part = "research" /\ Pipeline!Next
       /\ UNCHANGED <<part, simGroup, paperGroup, venueGroup, ftmoGroup, challengeGroup,
                      calendarGroup, breakoutGroup, pending, cash, halted, start, day>>
    \/ /\ part = "calendar" /\ Calendar!Next
       /\ UNCHANGED <<part, simGroup, paperGroup, venueGroup, ftmoGroup, challengeGroup,
                      researchGroup, breakoutGroup, bars, ledger, pending, cash, halted, start, day>>
    \/ /\ part = "breakout" /\ Entry!Next
       /\ UNCHANGED <<part, simGroup, paperGroup, venueGroup, ftmoGroup, challengeGroup,
                      researchGroup, calendarGroup, bars, ledger, pending, cash, halted,
                      start, day>>

OfflineSpec == OfflineInit /\ [][OfflineNext]_offlineVars

----------------------------------------------------------------------------
(***************************************************************************)
(* The part that runs keeps its types, the learned thresholds their bounds *)
(* (adaptive_ema.py, adapt) and the challenge its counters.                *)
(***************************************************************************)
OfflineTypeOK ==
    /\ part = "simulator" => Sim!TypeOK
    /\ part = "paper" => Paper!TypeOK
    /\ part = "challenge" => TypeOK
    /\ part = "research" => Pipeline!TypeOK

(***************************************************************************)
(* Money and positions add up in all three replays: round trips (sim.py),  *)
(* deposits and costs (backtest.py), trades and commissions (engine.py).   *)
(***************************************************************************)
AccountsAddUp ==
    /\ part = "simulator" => Sim!RoundTripsAddUp /\ Sim!OnePosition
    /\ part = "paper" => Paper!EquityAddsUp
    /\ part = "ftmo" => Ftmo!CashAddsUp

(***************************************************************************)
(* A stop sells everything and lets nothing in again, in all three replays *)
(* (sim.py, _kill_switch_fired; backtest.py, run_backtest; engine.py,      *)
(* _advance).                                                              *)
(***************************************************************************)
StopsHold ==
    /\ part = "simulator" => Sim!FlatAfterKill
    /\ part = "paper" => Paper!KilledBookIsSold
    /\ part = "ftmo" => Ftmo!ExposureKept

(***************************************************************************)
(* A learned threshold moves only when a round trip completes, by one step *)
(* and in the direction of what the account made on it, through split      *)
(* fills and overruled votes (adaptive_ema.py, on_own_fill,                *)
(* _complete_round_trip).                                                  *)
(***************************************************************************)
OneLessonPerTrip == [][part = "simulator" => Sim!OneLesson]_offlineVars

(***************************************************************************)
(* A rebalance stays within its plan and its cash, whatever the venue      *)
(* rejects, fills in part or fails to answer (execution.py, orders.py).    *)
(***************************************************************************)
RebalanceSafe == part = "rebalance" => Venue!WithinPlan /\ Venue!NoBuyBounces

(***************************************************************************)
(* Without price gaps the pre-trade projection keeps the day inside its    *)
(* loss limit (ftmo_rules.py, can_open; sizing.py, projected_loss).        *)
(***************************************************************************)
DailyLimitHolds == part = "ftmo" => Ftmo!DailyLimitHolds

(***************************************************************************)
(* The ledger of runs keeps its order and the day files are whole,         *)
(* whatever dies in between (ledger.py, dukascopy.py).                     *)
(***************************************************************************)
ResearchSound == part = "research" => Pipeline!LedgerInOrder /\ Pipeline!DayFilesWhole

(***************************************************************************)
(* The blackout search calls no blackout without a window, and misses a    *)
(* window only past an earlier event whose window starts after the minute  *)
(* asked for (event_calendar.py, active_event).                            *)
(***************************************************************************)
BlackoutFound == part = "calendar" => Calendar!BlackoutFound

(***************************************************************************)
(* A session is entered once, through restarts, errors and late bars       *)
(* (asian_breakout.py, on_bar; runner.py, _process_bars).                  *)
(***************************************************************************)
OneEntryPerSession == part = "breakout" => Entry!OneEntryPerSession
=============================================================================
