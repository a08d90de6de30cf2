------------------------------ MODULE Challenge ------------------------------
(***************************************************************************)
(* The two replays of a challenge in ftmo-bot: "window" judges the days of *)
(* a backtest from a start date (backtest/ftmo_sim.py, simulate_window),   *)
(* "bootstrap" draws days of trades and models the guard inside each       *)
(* (backtest/montecarlo.py, run_phase).  Both judge a day with the same    *)
(* rules (risk/ftmo_rules.py): the losses are those of its low, the target *)
(* that of its end.                                                        *)
(***************************************************************************)
EXTENDS Integers

CONSTANTS Initial,
          EngineDaily, EngineOverall, FtmoDaily, FtmoOverall,
          Target, MinTradingDays,
          Results,     \* pnl and MAE of a stressed trade, end and low of a day
          Blocks,      \* bound: trades in a session block
          MaxDays      \* bound: days of a phase

\* The profile: the engine stops first, with room for one more day (2.5 % and
\* 6 % against 5 % and 10 %).
ASSUME ChallengeAssumption ==
    /\ {Initial, EngineDaily, EngineOverall, FtmoDaily, FtmoOverall} \subseteq Nat \ {0}
    /\ {Target, MinTradingDays, Blocks, MaxDays} \subseteq Nat
    /\ Results \subseteq Int
    /\ EngineDaily < FtmoDaily
    /\ EngineDaily + EngineOverall <= FtmoOverall

VARIABLES replay,       \* "window" or "bootstrap"
          verdict,      \* "running" until the replay returns
          day, tradingDays, engineDaily,
          start,        \* equity at the start of the day
          cum, low,     \* result of the day so far, and its lowest
          left,         \* trades of the block still to play
          stage,        \* of the day: "between", "playing" or "flattened"
          worst, lowest \* history: worst day loss, lowest equity of judged days

vars == <<replay, verdict, day, tradingDays, engineDaily, start, cum, low, left,
          stage, worst, lowest>>

Breaches == {"ftmo_daily", "ftmo_overall"}
Verdicts == {"running", "target", "engine_overall", "data_end"} \cup Breaches

TypeOK ==
    /\ replay \in {"window", "bootstrap"}
    /\ verdict \in Verdicts
    /\ {day, tradingDays, engineDaily} \subseteq 0..MaxDays
    /\ left \in 0..Blocks /\ stage \in {"between", "playing", "flattened"}
    /\ {start, cum, low, worst, lowest} \subseteq Int

Init ==
    /\ replay \in {"window", "bootstrap"}
    /\ verdict = "running"
    /\ day = 0 /\ tradingDays = 0 /\ engineDaily = 0
    /\ start = Initial /\ cum = 0 /\ low = 0
    /\ left = 0 /\ stage = "between"
    /\ worst = 0 /\ lowest = Initial

----------------------------------------------------------------------------
(* ftmo_rules: reaching a limit is a breach, and the overall one wins. *)

Overall(equity, limit) == Initial - equity >= limit
Daily(loss, limit) == loss >= limit

EngineHalts(result) == Overall(start + result, EngineOverall) \/ Daily(-result, EngineDaily)

Lower(a, b) == IF a < b THEN a ELSE b

\* run_phase: a block of n trades that were not dropped.
Draw(n) ==
    /\ replay = "bootstrap" /\ verdict = "running"
    /\ stage = "between" /\ day < MaxDays
    /\ left' = n /\ stage' = "playing"
    /\ UNCHANGED <<replay, verdict, day, tradingDays, engineDaily, start, cum, low,
                   worst, lowest>>

\* Every trade of the block was dropped: the day passes.
Skip ==
    /\ replay = "bootstrap" /\ verdict = "running"
    /\ stage = "between" /\ day < MaxDays
    /\ day' = day + 1
    /\ UNCHANGED <<replay, verdict, tradingDays, engineDaily, start, cum, low, left,
                   stage, worst, lowest>>

\* The guard is taken to flatten exactly at the engine's daily limit.
Floor(reached) == Lower(cum, -EngineDaily)

\* One trade: its worst moment reaches the engine's limit, or it runs to its end.
Trade(pnl, mae) ==
    LET reached == cum + Lower(mae, pnl)
    IN  /\ replay = "bootstrap" /\ verdict = "running"
        /\ stage = "playing" /\ left > 0
        /\ IF EngineHalts(reached)
           THEN /\ stage' = "flattened" /\ left' = 0
                /\ cum' = Floor(reached) /\ low' = Lower(low, Floor(reached))
           ELSE /\ UNCHANGED stage /\ left' = left - 1
                /\ cum' = cum + pnl
                /\ low' = Lower(low, Lower(reached, cum + pnl))
        /\ UNCHANGED <<replay, verdict, day, tradingDays, engineDaily, start, worst, lowest>>

----------------------------------------------------------------------------
(* The end of a day, of either replay. *)

\* Mutant of Verdict: the target is looked at first.
VerdictTargetFirst(bottom, end, traded) ==
    IF start + end >= Initial + Target /\ traded >= MinTradingDays THEN "target"
    ELSE IF Overall(start + bottom, FtmoOverall) THEN "ftmo_overall"
    ELSE IF Daily(-bottom, FtmoDaily) THEN "ftmo_daily"
    ELSE IF Overall(start + bottom, EngineOverall) THEN "engine_overall"
    ELSE "running"

Verdict(bottom, end, traded) ==
    IF Overall(start + bottom, FtmoOverall) THEN "ftmo_overall"
    ELSE IF Daily(-bottom, FtmoDaily) THEN "ftmo_daily"
    ELSE IF Overall(start + bottom, EngineOverall) THEN "engine_overall"
    ELSE IF start + end >= Initial + Target /\ traded >= MinTradingDays THEN "target"
    ELSE "running"

Judge(bottom, end, traded, halt) ==
    /\ verdict' = Verdict(bottom, end, traded)
    /\ tradingDays' = traded
    /\ engineDaily' = engineDaily + halt
    /\ day' = day + 1
    /\ start' = start + end
    /\ cum' = 0 /\ low' = 0 /\ left' = 0 /\ stage' = "between"
    /\ worst' = Lower(worst, bottom)
    /\ lowest' = Lower(lowest, start + bottom)

\* run_phase: the day's trades are played, or the guard ended it.
DayPlayed ==
    /\ replay = "bootstrap" /\ verdict = "running"
    /\ stage # "between" /\ left = 0
    /\ Judge(low, cum, tradingDays + 1, IF stage = "flattened" THEN 1 ELSE 0)
    /\ UNCHANGED replay

\* simulate_window: a day of the backtest, at whatever low it reached.
DayReplayed(bottom, end, traded) ==
    /\ replay = "window" /\ verdict = "running"
    /\ day < MaxDays
    /\ bottom <= 0 /\ bottom <= end
    /\ Judge(bottom, end, tradingDays + traded,
             IF /\ Daily(-bottom, EngineDaily) /\ ~Daily(-bottom, FtmoDaily)
                /\ ~Overall(start + bottom, EngineOverall)
             THEN 1 ELSE 0)
    /\ UNCHANGED replay

\* "unresolved" of a window, "timeout" of a phase.
DataEnd ==
    /\ verdict = "running"
    /\ day = MaxDays
    /\ verdict' = "data_end"
    /\ UNCHANGED <<replay, day, tradingDays, engineDaily, start, cum, low, left,
                   stage, worst, lowest>>

Next ==
    \/ Skip \/ DayPlayed \/ DataEnd
    \/ \E n \in 1..Blocks : Draw(n)
    \/ \E a, b \in Results :
        Trade(a, b) \/ \E traded \in {0, 1} : DayReplayed(a, b, traded)

Spec == Init /\ [][Next]_vars

----------------------------------------------------------------------------
(* Properties. *)

(***************************************************************************)
(* The guard inside the bootstrap hides FTMO's own limits: whatever the    *)
(* trades, no path ends in a breach of them, so the reported               *)
(* p_ftmo_daily_breach is zero by construction (montecarlo.py, run_phase,  *)
(* run).                                                                   *)
(***************************************************************************)
GuardShieldsFtmo == replay = "bootstrap" => verdict \notin Breaches

(***************************************************************************)
(* A pass is clean: no day on the way, the passing one included, reached   *)
(* FTMO's daily loss or the engine's overall loss at its low, and the      *)
(* engine's overall loss is never FTMO's (ftmo_sim.py, simulate_window;    *)
(* montecarlo.py, run_phase).                                              *)
(***************************************************************************)
PassIsClean ==
    verdict \in {"running", "target", "data_end"} =>
        ~Daily(-worst, FtmoDaily) /\ ~Overall(lowest, EngineOverall)

(***************************************************************************)
(* What the two replays may be trusted for (montecarlo.py, ftmo_sim.py).   *)
(***************************************************************************)
ChallengeSound == GuardShieldsFtmo /\ PassIsClean
=============================================================================
