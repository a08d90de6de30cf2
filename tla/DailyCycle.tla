----------------------------- MODULE DailyCycle -----------------------------
(***************************************************************************)
(* The daily paper-trading job: scripts/daily_run.py around                *)
(* engine/runner.run_cycle, run by .github/workflows/paper.yml.  A run     *)
(* checks the repository out as it was when the run was triggered, works   *)
(* on the state file of that checkout, and pushes whatever the file then   *)
(* is; the push fails when the repository has moved on or the network is   *)
(* down.  The job can be killed between any two steps and inside a save.   *)
(*                                                                         *)
(* One risky symbol and cash; prices and fills are arbitrary; the costs    *)
(* are zero.  `born', `paid' and the two *Day/attempts fields of a state   *)
(* are history: they travel with the file but no step depends on them.     *)
(***************************************************************************)
EXTENDS Integers, FiniteSets

CONSTANTS Days,             \* bound: 1..n, the days of the calendar
          Mondays,          \* days on which a contribution falls due
          DecisionDays,     \* last business days of their month
          Period(_),        \* the month of a day
          Contribution,     \* WEEKLY_CONTRIBUTION
          Prices,           \* prices the symbol can have
          TargetWeights,    \* clamped weights (percent) the strategy can ask for
          MaxDrawdownPct, MaxDailyLossPct, MinEquityFloor,
          NoTradeBandPct, TolerancePct, MaxRetries,
          PushMayFail,      \* can the push fail although nobody else pushed?
          Fresh,            \* no state file yet
          Refused,          \* a state file no run will accept
          None

ASSUME DailyCycleAssumption ==
    /\ Days \subseteq Nat \ {0}
    /\ Mondays \subseteq Days
    /\ DecisionDays \subseteq Days
    /\ Contribution \in Nat
    /\ Prices \subseteq Nat \ {0}
    /\ TargetWeights \subseteq 0..100
    /\ MaxRetries \in Nat
    /\ PushMayFail \in BOOLEAN
    /\ \A d \in Days : Period(d) \in Nat \ {0}
    /\ \A d, e \in Days : d <= e => Period(d) <= Period(e)

VARIABLES today,   \* the date
          remote,  \* the state file in the repository
          queued,  \* what the next triggered run will check out, or None
          pc,      \* where the current run stands
          base,    \* the state file the run checked out
          disk,    \* the state file in the run's checkout
          mem,     \* the EngineState in memory
          px,      \* the price the run fetched
          plan     \* what it decided: [weight, flows, traded, decided]

repo == <<remote, queued>>
run  == <<base, disk, mem, px, plan>>
vars == <<today, remote, queued, pc, base, disk, mem, px, plan>>

\* EngineState() and its history fields; 0 is the empty date and period.
Default ==
    [halted |-> FALSE, peak |-> 0, last |-> 0, date |-> 0, completed |-> 0,
     retries |-> 0, retryPeriod |-> 0, shares |-> 0, cash |-> 0,
     born |-> 0, paid |-> 0, attempts |-> 0, attemptPeriod |-> 0,
     tradeDay |-> 0, standDownDay |-> 0]

NoPlan == [weight |-> 0, flows |-> 0, traded |-> FALSE, decided |-> FALSE]

Readable(file) == file \notin {Fresh, Refused}

Init ==
    /\ today \in Days
    /\ remote = Fresh
    /\ queued = None
    /\ pc = "idle"
    /\ base = Fresh
    /\ disk = Fresh
    /\ mem = Default
    /\ px \in Prices
    /\ plan = NoPlan

----------------------------------------------------------------------------
(* Pure parts of the cycle. *)

MaxOf(a, b) == IF a >= b THEN a ELSE b
AbsVal(a) == IF a < 0 THEN -a ELSE a

Equity(s, price) == s.cash + s.shares * price

\* contributions_due: one per Monday after the last recorded equity date.
ContributionsDue(s, day) ==
    IF s.date = 0 THEN Contribution
    ELSE Contribution * Cardinality({d \in Mondays : s.date < d /\ d <= day})

\* pre_trade's flow-adjusted peak, drawdown, armed floor and daily loss, the
\* account being the stored one plus the contribution.
Peak(s, equity, flows) == MaxOf(s.peak + flows, equity)

FloorBreached(s, equity) == s.peak >= MinEquityFloor /\ equity < MinEquityFloor

DrawdownBreached(s, equity, flows) ==
    LET peak == Peak(s, equity, flows)
    IN  peak > 0 /\ (peak - equity) * 100 > MaxDrawdownPct * peak

DailyLossBreached(s, equity, flows, day) ==
    /\ s.last > 0
    /\ s.date # day
    /\ (equity - flows) * 100 < (100 - MaxDailyLossPct) * s.last

PreTrade(s, equity, flows, day) ==
    IF FloorBreached(s, equity) \/ DrawdownBreached(s, equity, flows) THEN "HARD_KILL"
    ELSE IF DailyLossBreached(s, equity, flows, day) THEN "STAND_DOWN"
    ELSE "OK"

\* compute_orders for one symbol: the signed whole-share trade to make.
TargetShares(weight, equity, price) == (weight * equity) \div (100 * price)

OrderShares(s, weight, equity, price) ==
    LET target == TargetShares(weight, equity, price)
        delta  == target - s.shares
    IN  IF target # 0 /\ AbsVal(delta) * price * 100 < NoTradeBandPct * equity
        THEN 0 ELSE delta

\* converged: within the tolerance, or within one share, of the weight.
Converged(s, weight, price) ==
    LET equity == Equity(s, price)
        off    == AbsVal(s.shares * price * 100 - weight * equity)
    IN  off <= TolerancePct * equity \/ off <= 100 * price

----------------------------------------------------------------------------
(* The repository and the calendar (external). *)

NextDay ==
    /\ pc = "idle"
    /\ today + 1 \in Days
    /\ today' = today + 1
    /\ UNCHANGED <<repo, pc, run>>

\* A schedule or push event: the run it causes will check out this commit.
\* The concurrency group keeps one waiting run; a newer one replaces it.
Trigger ==
    /\ queued' = remote
    /\ UNCHANGED <<today, remote, pc, run>>

----------------------------------------------------------------------------
(* One run. *)

\* The state a run works on: a missing file is bootstrapped with defaults.
Loaded(file) == IF file = Fresh THEN Default ELSE file

RefusesNothingHalted(file) == file = Refused  \* mutant: check_not_halted dropped

\* load and check_not_halted: unreadable or halted means no run.
Refuses(file) == file = Refused \/ (Readable(file) /\ file.halted)

\* The run's in-memory state and paper account after reading file.
Account(file, day) ==
    LET s == Loaded(file)
        c == ContributionsDue(s, day)
    IN  [s EXCEPT !.cash = @ + c, !.paid = @ + c,
                  !.born = IF @ = 0 THEN day ELSE @]

\* Retries belong to one period.
ResetRetriesAlways(s, period) ==  \* mutant: every decision starts afresh
    [s EXCEPT !.retryPeriod = period, !.retries = 0]
ResetRetries(s, period) ==
    IF s.retryPeriod = period THEN s
    ELSE [s EXCEPT !.retryPeriod = period, !.retries = 0]

\* The retry cap of a period.
RetriesLeft(s) == s.retries < MaxRetries

\* Where the decision leads: "liquidate" is reached only through "kill".
Decide(s, weight, flows, price, day) ==
    LET equity  == Equity(s, price)
        gate    == PreTrade(s, equity, flows, day)
        reset   == ResetRetries(s, Period(day))
        orders  == OrderShares(s, weight, equity, price) # 0
    IN  CASE gate = "HARD_KILL" ->
               [pc |-> "kill", mem |-> [s EXCEPT !.halted = TRUE], decided |-> FALSE]
          [] gate = "STAND_DOWN" ->
               [pc |-> "finish", mem |-> [s EXCEPT !.standDownDay = day],
                decided |-> FALSE]
          [] gate = "OK" /\ (day \notin DecisionDays \/ equity <= 0) ->
               [pc |-> "finish", mem |-> s, decided |-> FALSE]
          [] OTHER ->
               [pc |-> IF \/ s.completed = Period(day) \/ ~orders
                          \/ ~RetriesLeft(reset)
                       THEN "finish" ELSE "trade",
                mem |-> reset, decided |-> TRUE]

\* main up to the first order: checkout, bootstrap save, load, prices,
\* contribution, gate and decision.  Bad data refuses the run as well.
Start ==
    /\ pc = "idle"
    /\ queued # None
    /\ queued' = None
    /\ base' = queued
    /\ \E price \in Prices, weight \in TargetWeights :
        LET file  == Loaded(queued)
            acct  == Account(queued, today)
            flows == IF file.date = today THEN 0 ELSE ContributionsDue(file, today)
            step  == Decide(acct, weight, flows, price, today)
        IN  \/ /\ ~Refuses(queued)
               /\ px' = price
               /\ plan' = [weight |-> weight, flows |-> flows, traded |-> FALSE,
                           decided |-> step.decided]
               /\ mem' = step.mem
               /\ pc' = step.pc
               /\ disk' = Loaded(queued)
            \/ \* StateError or HaltError, before the bootstrap and the data
               /\ Refuses(queued)
               /\ pc' = "push"
               /\ disk' = queued
               /\ UNCHANGED <<mem, px, plan>>
            \/ \* DataError or a killed job, before or after the bootstrap
               /\ ~Refuses(queued)
               /\ pc' = "push"
               /\ disk' \in {queued, Loaded(queued)}
               /\ UNCHANGED <<mem, px, plan>>
    /\ UNCHANGED <<today, remote>>

SaveKillForgotten == UNCHANGED disk  \* mutant: the halt is saved only at the end

\* The kill is on disk before the first liquidation order: prior figures, no
\* contribution, halted.
SaveKill ==
    disk' = [Loaded(base) EXCEPT !.halted = TRUE]

Kill ==
    /\ pc = "kill"
    /\ SaveKill
    /\ pc' = IF mem.shares > 0 THEN "liquidate" ELSE "finish"
    /\ UNCHANGED <<today, repo, base, mem, px, plan>>

\* execute_rebalance sells n shares at best, f of them really; an abort is
\* caught, so any f may be all that happened.
Liquidate ==
    /\ pc = "liquidate"
    /\ \E f \in 0..mem.shares :
        mem' = [mem EXCEPT !.shares = @ - f, !.cash = @ + f * px]
    /\ plan' = [plan EXCEPT !.traded = TRUE]
    /\ pc' = "finish"
    /\ UNCHANGED <<today, repo, base, disk, px>>

\* execute_rebalance on the decided order; buys are cut to the cash there is.
Trade ==
    /\ pc = "trade"
    /\ LET n == OrderShares(mem, plan.weight, Equity(mem, px), px)
       IN  \E f \in 0..AbsVal(n) :
             LET signed == IF n < 0 THEN -f ELSE f
             IN  /\ signed * px <= mem.cash
                 /\ mem' = [mem EXCEPT
                        !.shares = @ + signed,
                        !.cash = @ - signed * px,
                        !.attempts = IF mem.attemptPeriod = Period(today)
                                     THEN @ + 1 ELSE 1,
                        !.attemptPeriod = Period(today),
                        !.tradeDay = today]
    /\ plan' = [plan EXCEPT !.traded = TRUE]
    /\ pc' = "finish"
    /\ UNCHANGED <<today, repo, base, disk, px>>

\* Completion is convergence; otherwise an attempt counts as a retry.
Progress(s) ==
    CASE ~plan.decided \/ s.halted -> s
      [] plan.decided /\ ~s.halted /\ Converged(s, plan.weight, px) ->
            [s EXCEPT !.completed = Period(today), !.retries = 0]
      [] OTHER -> IF plan.traded THEN [s EXCEPT !.retries = @ + 1] ELSE s

NewPeakIgnoringFlows(s, equity) == MaxOf(s.peak, equity)  \* mutant

\* Deposits raise the peak one for one.
NewPeak(s, equity) == MaxOf(s.peak + MaxOf(plan.flows, 0), equity)

\* The account is re-read, the state overwritten and saved last.
Final ==
    LET s == Progress(mem)
        equity == Equity(s, px)
    IN  [s EXCEPT !.peak = NewPeak(s, equity), !.last = equity, !.date = today]

Finish ==
    /\ pc = "finish"
    /\ disk' = Final
    /\ pc' = "push"
    /\ UNCHANGED <<today, repo, base, mem, px, plan>>

\* The job is killed: between steps, or inside a save, whose file is then
\* the old one, the new one or one that load refuses.
Crash ==
    /\ pc \in {"kill", "liquidate", "trade", "finish"}
    /\ \/ UNCHANGED disk
       \/ pc \in {"kill", "finish"} /\ disk' = Refused
    /\ pc' = "push"
    /\ UNCHANGED <<today, repo, base, mem, px, plan>>

PushForced == remote' = disk  \* mutant: git push --force

\* Commit, pull --rebase, push: refused when somebody else moved the file.
PushResult ==
    \/ remote = base /\ remote' = disk
    \/ (remote # base \/ PushMayFail) /\ UNCHANGED remote

Push ==
    /\ pc = "push"
    /\ PushResult
    /\ pc' = "idle"
    /\ mem' = Default
    /\ plan' = NoPlan
    /\ base' = Fresh
    /\ disk' = Fresh
    /\ UNCHANGED <<today, queued, px>>

Next ==
    \/ NextDay \/ Trigger
    \/ Start \/ Kill \/ Liquidate \/ Trade \/ Finish \/ Crash \/ Push

Spec == Init /\ [][Next]_vars

----------------------------------------------------------------------------
(* Properties. *)

States ==
    [halted : BOOLEAN, peak : Nat, last : Nat, date : Days \cup {0},
     completed : Nat, retries : 0..MaxRetries, retryPeriod : Nat,
     shares : Nat, cash : Nat, born : Days \cup {0}, paid : Nat,
     attempts : 0..MaxRetries, attemptPeriod : Nat, tradeDay : Days \cup {0},
     standDownDay : Days \cup {0}]

Files == States \cup {Fresh, Refused}

ASSUME FilesAssumption == Fresh # Refused /\ {Fresh, Refused, None} \cap States = {}

TypeOK ==
    /\ today \in Days
    /\ remote \in Files
    /\ queued \in Files \cup {None}
    /\ pc \in {"idle", "kill", "liquidate", "trade", "finish", "push"}
    /\ base \in Files
    /\ disk \in Files
    /\ mem \in States
    /\ px \in Prices
    /\ plan \in [weight : TargetWeights \cup {0}, flows : Nat,
                traded : BOOLEAN, decided : BOOLEAN]

(***************************************************************************)
(* "Halted means halted" and an unreadable file is a refusal (runner.py    *)
(* step 2, state.py load): once the repository holds a halted or refused   *)
(* state, no run of any commit, crashed or not, ever replaces it.          *)
(***************************************************************************)
Stopped(file) == file = Refused \/ (Readable(file) /\ file.halted)

StoppedBookIsFrozen == [][Stopped(remote) => UNCHANGED remote]_vars

(***************************************************************************)
(* The kill is durable before the venue is touched (runner.py, HARD_KILL   *)
(* branch): while positions are being liquidated, and after, the file on   *)
(* disk already says halted, so a crash there cannot resume trading.       *)
(***************************************************************************)
KillSavedBeforeLiquidation ==
    (pc = "liquidate" \/ (pc = "finish" /\ mem.halted)) =>
        Readable(disk) /\ disk.halted

(***************************************************************************)
(* Every Monday's contribution is credited exactly once (contributions_due *)
(* and the last_equity_date guard of run_cycle), across refused runs,      *)
(* crashes, lost pushes and same-day re-runs; and it creates no headroom:  *)
(* the drawdown baseline falls neither below the money paid in nor below   *)
(* the last recorded equity (runner.py step 7).                            *)
(***************************************************************************)
DepositsCounted ==
    Readable(remote) =>
        /\ remote.date # 0 =>
            remote.paid = Contribution *
                (1 + Cardinality({d \in Mondays : remote.born < d /\ d <= remote.date}))
        /\ remote.peak >= remote.paid
        /\ remote.peak >= remote.last

(***************************************************************************)
(* A run of an old checkout never replaces what a later run recorded       *)
(* (paper.yml, pull --rebase before push): a readable state only moves     *)
(* forward in time, and never back to no state at all.                     *)
(***************************************************************************)
RecordNeverGoesBack ==
    [][Readable(remote) =>
        /\ remote' # Fresh
        /\ Readable(remote') => remote'.date >= remote.date]_vars

(***************************************************************************)
(* risk.py: a STAND_DOWN is "soft halt: no trades today".  Refuted: the    *)
(* standing-down run records today's equity, so a second run of the same   *)
(* day measures no daily loss and trades.                                  *)
(***************************************************************************)
StandDownLastsTheDay ==
    Readable(remote) /\ remote.tradeDay # 0 =>
        remote.tradeDay # remote.standDownDay
============================================================================
