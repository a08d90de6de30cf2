# A verification project for Trading-bot-2.0

TLA+ models of the stateful parts of this repository, TLC configurations that
check them on small instances, and TLAPS proofs of what holds for every
instance. `PROJECT.json` lists the runs, the line ranges each definition
stands for, the mutants that show each property can fail, and the hazards.

## 1. Inventory

The repository holds three trading systems that share no code.

### 1.1 Paper trader (`engine/`, `scripts/daily_run.py`, `.github/workflows/paper.yml`)

A scheduled GitHub job runs once per weekday. It checks out the repository,
loads `state/state.json`, decides, trades at a paper broker, saves the file
and pushes it.

| component | state | operations | modelled in |
|---|---|---|---|
| daily cycle (`runner.py`, `daily_run.py`, `risk.py`, `portfolio.py`) | `EngineState`: halted, peak and last equity, last date, completed month, retries, positions, cash | load, contribution window, pre-trade decision (floor, drawdown, daily loss), retry cap, kill, record, push | `DailyCycle` |
| state store (`state.py`) | main, backup and temporary file | load (with checksum and refusals), save (write, fsync, retire, rename, fsync) | `StateStore`, `DurableRegister` |
| execution (`portfolio.py`, `execution.py`, `orders.py`) | order budget, results | order list, filters, cap; sells first, cash read again before each buy, resizing, one escalation, liquidation | `Rebalance` |
| paper broker, costs (`broker.py`, `costs.py`) | cash, positions | submit (fill, fill in part, reject, fail), account | `Rebalance` |
| strategies, backtest (`strategies.py`, `backtest.py`) | cash, positions, pending orders, peak | deposits, fills, risk decision, momentum weights, clamp, liquidation | `PaperBacktest` |
| data, config, journal, report | none that a later step reads | | not modelled |

*Hard*: a kill must survive a crash in the liquidation; two runs can hold
different checkouts; a push can fail; the same day can be run twice; deposits
must count once and must not hide losses; a save can be cut off anywhere; the
venue can refuse or half fill what a plan relies on.
*Correct when*: a halt is final, deposits count once, a month is not traded for
ever, the record never goes back, a completed save survives, and a rebalance
stays within its plan, its cap and its cash.

### 1.2 Desk (`mini_prop_os/`)

One asyncio process trades one contract at IBKR through `ib_insync`.

| component | state | operations | modelled in |
|---|---|---|---|
| order management (`execution/oms.py`) | orders, their states and fills, ledger, seen executions | submit, cancel, cancel all, seed, status and fill callbacks | `Oms`, `OrderBook` |
| connection (`core/connection.py`) | events, tasks | connect with backoff, heartbeat, supervise, stop | `Session` |
| application (`app.py`, `main.py`, `core/killfile.py`) | trading flag, set-up lock, flattening latch, marker file, last bar | set-up after a connect, reconciliation, bars, equity monitor, halt, flatten, shutdown, start over a kill file | `Session`, `Desk` |
| guardrails (`risk/guardrails.py`) | kill switch, start-of-day equity | validate, update equity, flatten intents | `Guardrails` (operators), `Desk` and `Simulator` (state) |
| strategies (`strategy/*.py`) | position, cross sign, window, thresholds | signals, own fills, learning, votes | `Strategies` |
| event calendar (`risk/event_calendar.py`) | sorted events, window starts | add, prune, blackout search | `EventCalendar` |
| simulator (`sim.py`) | pending orders, cash, round trips | a bar: fills, marks, kill, signals | `Simulator` |
| pricing, statistics, configuration | floating-point series | | not modelled |

*Hard*: callbacks arrive late, twice and out of order; a fill races a cancel;
handlers suspend at `await` and two of them run the same set-up; a connection
can be open and dead; the kill switch acts once; what an order did while the
process was away is not reported.
*Correct when*: the ledger is exactly the accepted executions, an order's state
agrees with its fills, a finished order stays finished, trading rests on a live
connection and a true ledger and resumes by itself, and a halt holds across
restarts.

### 1.3 FTMO bot (`ftmo-bot/`)

Two processes at one MT5 account, restarted by `scripts/run_live.ps1`: the
guard (`risk/guard.py`) and the runner (`execution/runner.py` with
`execution/order_router.py`). They communicate only by files
(`execution/state.py`): `HALT`, `heartbeat`, `daily_baseline.json`,
`idempotency.json`; the runner alone uses `runner.json`. A set of commands
evaluates the strategy offline.

| component | state | operations | modelled in |
|---|---|---|---|
| guard, rules | a poll in progress | baseline, clear halt, judge, halt, flatten, heartbeat | `FtmoLive` |
| router, shared files | the files | place: halt, heartbeat, key, baseline, limits, persist key, send | `FtmoLive` |
| runner | `RunnerState`, session memory | count closings, remember positions, breakeven, feed and replay bars | `RunnerStep`, `FtmoLive`, `Breakout` |
| strategy, news calendar | the session's range and decision; cached events | `on_bar`, fetch at start | `Breakout` |
| MT5 client, notifier | none | broker calls | their outcomes only |
| sizing, backtest engine | positions, cash, day | size, open, tick, halt, day end | `FtmoBacktest` |
| challenge simulation, Monte Carlo | equity, verdict | judge a day, draw a day | `Challenge` |
| download, integrity, resampling, ledger, CLI | files, run ledger | one command at a time, cut off anywhere | `Research` |
| reports | | | not modelled |

*Hard*: both processes read and write files that change between two lines;
each can die anywhere; a broker call can execute and still look failed;
positions close by themselves; a human edits `HALT`; a restarted runner decides
the session again from the bars.
*Correct when*: no signal is executed twice and no session entered twice,
limits and slots hold at every opening, a blind guard looks dead, the baseline
lasts the day, a halt ends flat, every loss reaches the streak once, and the
offline verdicts mean what they say.

## 2. Modules

| module | code | kind |
|---|---|---|
| `OrderBook` | what the ledger of `oms.py` promises | abstract specification |
| `Oms` | `mini_prop_os/execution/oms.py` | state machine, refines `OrderBook` |
| `Session` | `core/connection.py`, the set-up and bar stream of `app.py` | state machine |
| `Guardrails` | `risk/guardrails.py` | operators on a snapshot |
| `Desk` | `app.py`, `main.py`, `killfile.py` | composes `Session`, `Oms`, `Guardrails` |
| `Strategies` | `mini_prop_os/strategy/` | operators on a member's record |
| `Simulator` | `sim.py` | composes `Strategies`, `Guardrails` |
| `EventCalendar` | `risk/event_calendar.py` | state machine |
| `DailyCycle` | `daily_run.py`, `runner.py`, `risk.py`, `portfolio.py`, `paper.yml` | state machine |
| `DurableRegister` | what `state.py` promises | abstract specification |
| `StateStore` | `engine/state.py` | state machine, refines `DurableRegister` |
| `Rebalance` | `portfolio.py`, `execution.py`, `orders.py`, `broker.py`, `costs.py` | state machine |
| `PaperBacktest` | `backtest.py`, `strategies.py`, `risk.py` | composes `Rebalance` |
| `FtmoLive` | guard, router, shared files, supervisor | two processes, broker, operator |
| `RunnerStep` | `execution/runner.py`, `step` | state machine |
| `Breakout` | `asian_breakout.py`, `calendar.py`, `_process_bars` | state machine |
| `FtmoBacktest` | `engine.py`, `sizing.py`, `ftmo_rules.py` | state machine |
| `Challenge` | `ftmo_sim.py`, `montecarlo.py` | state machine |
| `Research` | `dukascopy.py`, `integrity.py`, `resample.py`, `ledger.py`, `cli.py` | state machine |
| `OmsProofs`, `SessionProofs`, `DeskProofs`, `DailyCycleProofs`, `RecordsProofs`, `FtmoProofs`, `OfflineProofs` | | theorems |
| `DataLemmas` | | lemmas on induction, recursive functions, sequences and sums |
| `MC*` | | instances for TLC |

In every module one action is one handler, or the part of one between two
points where another actor can act; the comment on an action names the call.
Where the code computes along a sequence (a loop over orders, fills, bars or
events), the model writes it as a recursive function on positions, which can be
reasoned about (section 5, `DataLemmas`); a chain of conditions that ends in
values is an IF chain in the order of the code.
Operators marked `mutant` are not part of the specification. Each is a
plausible bug in the definition that follows it, and is used to show that a
property notices that bug.

### Oms

`Submit`, `SubmitFails`, `Cancel`, `CancelAll`, `SeedPosition`, `OnOrderStatus`
and `OnFill` are the public methods. None of them suspends in the middle (the
adapter's coroutines do not await anything), so each is one action.
`Transitions` is the table of `oms.py`. The broker is external: it executes,
cancels and rejects; its notices and executions are delivered in any order, any
number of times, with either sign on the quantity. As in the code, the order
comes from the order id of a fill and the ledger entry from its symbol; only an
execution with an exec_id is recognised as a repeat (`Untagged` are those
without). `Places` is the adapter's refusal of an intent for another symbol than
the contract's, which is what keeps the two together. `asked` is the part of an
order's history that says a cancel was requested. Prices, average prices and the
execution log are left out.

### Session and Desk

`Session` is the life of a connection: `Dial`, `Synced`/`SyncFails` and
`Resume` are `_connect_with_backoff`, `HeartNotices` and `HeartForces` the
heartbeat, `Lost` the supervisor's reaction. The set-up of `_on_connected` is
one action per request (`step`); both the supervisor and the equity monitor run
it, under the lock (`holder`). `signal` is the disconnect event. A socket can be
down, syncing, up, or half open (nothing answers). The monitor may wake at any
time, while `connectAsync` still synchronises too. `bars` says what is behind the
list `_bars`: updates, none because the request came back empty, was refused or
timed out (`SubscribedToNothing` enables trading all the same), a connection that
is gone, or one that went while it synchronised. History bars carry the symbol
they carry in the code.

`Desk` instantiates it with `Oms` and `Guardrails` and adds what relates them: a
bar becomes a signal, a risk decision and an order in one action, since nothing
in it suspends; `Halted` is `trip` with `_kill_switch_fired` up to the flatten,
`FlattenAll` the flatten (if `kill_switch_flattens`), between which only the
broker can act. The kill file may fail to be written (`WriteMarker`), which the
code only logs; `halt` remembers whether it was. `Reconcile` and
`CancelStrays` are the two requests of the reconciliation. A process ends by
`Crash` or by the shutdown; what it left working at the broker becomes `stray`
and may still fill. Of the executions that were not credited, `Dropped` are those
whose order was finished first, `InFlight` those still on their way. `blind` is
history: what a comparison of positions could not have seen. Marks and losses are abstracted: `EquityBreached` may happen whenever
the monitor could read the equity.

### Strategies, Simulator, EventCalendar

A bar reaches a strategy as a view (the side the averages are on, the volatility
regime, the strength in threshold steps, what the risk budget allows), any
sequence of which may come. `Simulator` plays a bar of `sim.py` as one action,
with an ensemble of an adaptive and a plain member, split fills, commissions and
the kill switch. `EventCalendar` is the sorted list with the binary search over
window starts as the code does it.

### DailyCycle

A run is `Start` (load, account, decide), then `Kill` and `Liquidate`, or
`Trade`, then `Finish` and `Push`; `Crash` can follow any of them, and inside a
save it leaves either the old file, the new one, or none that will load.
`Trigger` notes the commit a run will check out, which another run can make
stale. One symbol with arbitrary prices and fills stands for the book (`Trade`
moves any part of the order; single orders are in `Rebalance`). `born`, `paid`,
`attempts`, `tradeDay` and `standDownDay` are history.

### StateStore

A file's content is absent, whole (with a version) or torn. `dirs` is the set
of directories that a power failure can leave: operations on names reach the
disk in order, but only an fsync of the directory makes them certain, and a
file's data is certain only after its own fsync. `Damage` tears a file from
outside, `Restore` is the operator who copies the backup.

### Rebalance and PaperBacktest

`Rebalance` has one action per submission: `Drop` (filters, sizing or budget
refuse it), `Submit` with the venue's answer, `Outage`. A limit order that got
nothing returns to the head of the queue as the market order it escalates to.
Money and shares are integers. `PaperBacktest` is the loop of `run_backtest`
around it: `OpenBar` (deposits of every calendar day since the last bar), fills,
`Judge` (kill, stand-down, decision).

### FtmoLive and RunnerStep

The guard's `tick` is cut at every file access and broker call (`GuardPoll` …
`GuardBeat`), the router's `place` likewise (`RunnerSignal` … `RunnerSend`).
The variables `halt`, `heartbeat`, `baseline` and `keys` are the files. `read`
and `orders` are history. Session window, time exit and Friday cutoff are one
predicate on the time of day; equity moves freely among a few levels while a
position is open. `CanOpen` counts slots as `slots_used` does, a correlated group
(`Groups`) as one, and refuses a side against the group's; the soft stop after
losses and the sizing may refuse any order. `Signals` bounds what the strategy may
signal.

In `RunnerStep`, `Book` is `step` up to its first save, `Breakeven` the loop over
the listed positions, `Save` the second save, `Bars` the entries, `Abort` a death
or an exception. Listing and asking for closed deals are one action: a ticket
listed as open is skipped even if it closes meanwhile, and a deal that appears
later is found by the next step. `known` is a set: an open position is listed at
every step, so an order could only repeat tickets. `moves` and `counted` are
history.

### Breakout

One instrument, yesterday's and today's bars. A bar is the side it breaks out to
in the direction of the trend, and whether its stop is near enough. `Pass` is one
`_process_bars`: all bars of the buffer for a new process, the new ones for an
old one, a signal acted on only at the last bar. The side of the trend is taken as
fixed for a bar, although a restart computes its averages from a window that
starts elsewhere (`runner.py:165-169`); they agree but for a vanishing weight.
`Place` and `PlaceRaises` are the
router with its key on disk. Each `Start` may find the calendar changed.

### FtmoBacktest, Challenge, Research

`FtmoBacktest` opens (`Decide`), moves (`Tick`, with the exit or the halt it
causes) and closes days (`DayEnd`); prices are integers and `gapped` remembers
whether a fill of this day was worse than planned: an entry beyond the close the
sizing used, or an exit beyond the stop. `Challenge` holds both replays of a challenge; they share
`Judge`. `Research` is one command at a time over the files, each cut between its
writes.

## 3. Runs

Twelve runs, each on two workers and below two minutes. Eight pass.

| run | question | instance and why it is enough |
|---|---|---|
| `oms` | are states, fills and ledger consistent under any delivery, do they implement `OrderBook`, does every order end? | 2 orders, 2 executions (one without an exec_id), 2 symbols of which one is the contract's, quantities up to 2, a seeded position: two orders race on one ledger, an intent names the other symbol, one order fills in two parts, and each execution can be repeated |
| `session` | does trading rest on a live connection, and does it resume? | 3 losses, 2 bars, a monitor that wakes at any time: enough for a loss inside the set-up of a reconnect after a half-open socket, and for one while the connection synchronises |
| `desk` | does a halt hold, does the ledger stay true? | 2 orders of 2 units and 2 executions: an order fills in part, at once or never, and the second order is the flatten; 1 bar (an entry; the exit that a second bar brings is in `desk_short`, and in the theorems, which have no bounds), 2 lost connections (a missed execution, and a loss while reconnecting), 1 end of the process (what it leaves working is a stray order and a position found at the next start) |
| `daily_cycle` | the properties of 1.1 | 4 days in 2 months, 2 deposits, 2 decision days, prices 1 and 3 (a fall that reaches every limit), 2 retries, stale checkouts and failed pushes |
| `records` | do the state file and `runner.json` survive their process? | 4 saves: main, backup and temporary file hold three versions with one spare; 2 positions and 2 days: one is new while the other closes unseen |
| `ftmo_live` | do the shared files keep their promises? | 1 symbol, 2 days of 2 ticks (one in, one outside the window), 2 crashes, 1 human action, equity at 4, 1 and 0 (fine, daily breach, overall breach) |
| `ftmo_flat` | is the account flat in the end, are the slots respected? | 3 symbols, 2 of them one correlated group, 1 slot, one symbol that may break out either way, one tick, one crash, equity fine or in breach: the members of the group share the slot, the third symbol and the opposite side compete for it while others are closing |
| `offline` | the seven parts that keep no process alive, and the session of `Breakout` | one part per behaviour, chosen by the first state; the instances are in `MCOffline` |

`records` and `offline` put parts that share nothing into one run: the first
state chooses the part, all others stay still.

The instances of `offline`: simulator with 6 bars, two closes and a split fill
(a warm-up, an entry in two parts, a losing or winning exit, a kill); rebalance
from every account with up to 3 shares of 3 symbols, cap 2; paper backtest with 5
bars, one calendar gap and 2 deposits; FTMO backtest with 2 correlated symbols
and prices 3 to 7 around a stop at 3 and 7; challenge with 3 days of up to 2
trades; research with 2 days of 2 hours, 2 parameter files and 1 crash; calendar
with 3 events of 2 impacts; breakout with 5 bars, 2 event times, 1 change of the
calendar and 2 failures. The simulator is an instance like the others, with its
members, limits and costs given in the configuration.

Four runs end in a counterexample, see 4: `daily_standdown`, `ftmo_quotes` (2
symbols, one of which can lose its quotes), `session_warmup`, `desk_short`.

Bounds are the constants named `Max*`, the finite sets of days, prices, views
and equity levels, and the number of executions; each is marked `bound` where it
is declared. Deadlock is checked except in `session`, `desk` and `offline`: a
session whose losses and bars are used up rests while it trades, a desk rests
over its kill file or when its losses are used up, and a replay ends.

### Properties

* `oms`: `StateMatchesFills`, `TerminalIsFinal`, `ImplementsOrderBook`;
  with fairness `OrdersEnd` and `OnlyACancelDropsFills`. The last one is also a
  limit of the code: when a CANCELLED status overtakes an execution, the
  execution is dropped on purpose (a test expects it) and only the next
  reconciliation can notice.
* `session`: `TradingOnLiveBars` (a session that trades on a link its supervisor
  takes for good has a subscription of this connection, or one that was lost
  while it synchronised, see 4); with fairness `TradingResumes`. Its `TypeOK`
  says that the lock is held exactly while a set-up is under way.
* `desk`: `HaltHolds` (no strategy order in a halted process, and none in a later
  one until the operator clears the file, if the file could be written),
  `HaltCancels` (every open order, a partly filled one too, was asked to cancel),
  `LedgerTrue` (while trading, ledger and account differ only by reports on their
  way, by executions dropped because their order was finished first, and by what
  the last comparison could not see). Its `TypeOK` includes the latch.
* `daily_cycle`: `StoppedBookIsFrozen`, `KillSavedBeforeLiquidation`,
  `DepositsCounted`, `RecordNeverGoesBack`; `TypeOK` caps the attempts of a month.
* `records`: `ImplementsRegister`, `Recoverable`, `OnlyDamageTears` for the
  state file; `OncePerPosition` and, with fairness, `KnownClosingsCounted` for
  the runner.
* `ftmo_live`, `ftmo_flat`: `NoDoubleEntry` (with the slots and the correlated
  group, the question of `ftmo_flat`), `BlindGuardLooksDead`,
  `BaselineKeptAllDay`, `HaltOutlastsItsCause`; with fairness `FlatAfterHalt`.
* `offline`: `RebalanceSafe` (plan, cap, order of sells and buys, cash),
  `AccountsAddUp` and `StopsHold` (in all three replays), `OneLessonPerTrip`,
  `DailyLimitHolds`, `ChallengeSound`, `ResearchSound`, `BlackoutFound`,
  `OneEntryPerSession`.

### Fairness

* `Oms`: the connection stays up, so every notice and execution the broker sent
  is delivered, and a cancel request that reached it is answered (weak
  fairness). Nothing is assumed of submissions or duplicates.
* `Session`: the asyncio loop runs what is ready (weak fairness of dialling, the
  heartbeat, the supervisor, the monitor, and of a set-up whose request raised).
  Whoever waits for the lock gets it in the end, and a gateway that is asked
  again and again answers (strong fairness of `Enter` and of each answer).
* `FtmoLive`: `run_live.ps1` restarts the guard whenever it has exited and the
  guard's loop has no exit, so its local steps are weakly fair. The broker is
  asked again at every poll, and a call that keeps being made succeeds in the
  end: strong fairness of the listing and of the close of each symbol. The
  runner, the market and the operator get none. `ftmo_quotes` drops the
  assumption for one symbol: without a quote the close is never enabled.
* `RunnerStep`: the loop of `run` continues after every failed step, a started
  step ends, and a closing becomes visible (weak fairness). A step may be cut
  short every time.

## 4. Where the code and its documentation differ

Each of the first four is a run that ends in a counterexample.

* **Stand-down** (`daily_standdown`). `risk.py` and `engine.toml` say that a soft
  halt stops trading for the day. The run that stands down records today's
  equity as the last equity, so a second run of the same day (a push to
  `trigger/paper`) measures no loss and trades.
* **One dead quote** (`ftmo_quotes`). `guard.py`: "close every position … until
  flat". An `MT5Error` at one position ends the round, at the same position in
  every poll, and the ones listed after it are never closed.
* **Warm-up** (`session_warmup`). `_subscribe_bars` promises a warm-up and, after
  a reconnect, that "indicators stay continuous". The history bars have an empty
  symbol, which `_ingest` ignores: the indicators start empty and skip whatever
  completed while disconnected.
* **A short position** (`desk_short`). `guardrails.py` rejects sells below zero.
  When a halt comes while an exit order is executing, the flatten order is sized
  from the ledger, which has not heard of it: the position is sold twice.

Observed while modelling, and reproduced by lifting the named condition, but not
listed as findings:

* *A swallowed disconnect* (`TradingOnLiveBars` without "orphaned"). A set-up the
  monitor starts while the API synchronises, and a disconnect in that window:
  `_disconnect_evt.clear()` (`connection.py:147`) forgets it, and the bar list is
  taken for a live one. `LedgerTrue` leaves the same case aside: what executed
  during such a loss is never compared.
* *An empty subscription* (`TradingOnLiveBars` without "silent"). When the request
  for bars comes back empty (`app.py:474-506`), trading is enabled on a list that
  is never updated; the next set-up of that connection keeps it.
* *Two entries in one session* (`OneEntryPerSession` without its condition on the
  calendars). `SPEC.md`: "Max 1 entry per instrument per session". A restart with
  a changed news calendar replays the day to another decision, and the key only
  stops the same side. The calendar is fetched only at a start (`cli.py:287`), so
  a runner that lives into the next week filters no news.
* *A lost blackout* (`BlackoutFound` without its condition on earlier events).
  Events of different impact have different lead times; then the window starts are
  not sorted and the binary search can miss an active window. At 11:57, with the
  default windows, the window of a HIGH event at 12:10 (from 11:55) is active, but
  two MEDIUM events at 12:05, whose windows start at 12:00, keep the search from
  it. `BlackoutFound` says that it happens only past such an earlier event.
* *A halt that is not kept* (`HaltHolds` without `halt = "saved"`).
  `write_kill_marker` logs an `OSError` and goes on (`killfile.py:28-36`); the
  process stays halted, but nothing keeps the next one from trading.
* *Gaps* (`DailyLimitHolds` without `~gapped`). `projected_loss` is called an upper
  bound; a fill beyond the stop, or an entry worse than the close it was sized at,
  exceeds it.

Seen in the code and not stated as properties:

* A `HALT` that a human writes between the guard's read and its unlink
  (`state.py:151-152`) or rewrite (`guard.py:150`) is removed or replaced, although
  `clear_daily_halt` "never touches overall/manual".
* A position that is stopped out before the next step has listed it never enters
  the loss streak (`runner.py:107`, `SPEC.md` "2 consecutive losses → done for the
  day"). Closings are counted in opening order, and a loss that becomes visible
  after midnight counts against the new day.
* An order can leave just after `HALT` was written, since the router reads it
  once (`FlatAfterHalt` shows that the guard then closes it).
* A kill whose push fails is lost with the checkout. `converged` accepts one whole
  share of deviation, also when that share is the last one of a failed exit.
* The backtester applies the order cap to the liquidation of a kill, which the
  live path exempts (`execution.py`: "the daily order cap does NOT apply").
* A flatten order that is refused (no bar yet, so no price) or fails is not sent
  again. A set-up waiting for an answer can switch trading on again while
  `shutdown` waits.
* `sim.py` charges the commission of the closing fill to no round trip, so the
  round trips are not net of costs (`AccountsAddUp` counts it separately).
* The bootstrap's `p_ftmo_daily_breach` is zero by construction
  (`GuardShieldsFtmo`, proved), so the gate of `SPEC.md` on it decides nothing; an
  overall halt inside a day is booked as a loss of the full daily limit.
* A crash between writing the results of a split and recording the run lets the
  split run again (`ledger.py`: "touched ONCE, ever"). Days downloaded after the
  integrity report are used unchecked.
* In an ensemble, a member's confirmation window stands still while fills of the
  other members give it a position, and reopens later; a member that did not vote
  for the entry learns in the regime NORMAL.

## 5. Proofs

Seven modules of theorems, each about the module or composition it extends, and
`DataLemmas`. A theorem holds for every value of the constants that the
assumptions below admit; the bounds of the runs play no part in it.

### Assumptions

| assumption | what it asks |
|---|---|
| `OmsAssumption`, `DeskAssumption` | quantities are positive, the contract's symbol is one of the symbols, and the markers for "no intent" and "no execution" are neither |
| `SessionAssumption`, `RunnerStepAssumption`, `RecordsAssumption`, `PipelineAssumption` | bounds are natural numbers, the first day comes before the last, markers are no data |
| `DailyCycleAssumption`, `FilesAssumption` | days, prices and weights are the amounts they should be; the period (month) of a later day is not an earlier one; the marks of a missing and of a refused file are no states |
| `FtmoAssumption` | lengths, limits and slots are natural numbers, the initial balance is an equity, `None` is neither a time nor a baseline |
| `GroupsAssumption` | correlated groups are sets of symbols and do not overlap |
| `BacktestAssumption` | limits are positive, costs not negative, a stop is not at its entry, group members are symbols |
| `CalendarAssumption` | windows are not negative; none reaches back over the horizon that the search looks past an event that is over (windows are minutes, the horizon is a day) |
| `BreakoutAssumption` | the range is not empty, and the buffer of a new process covers the whole day |
| `RebalanceAssumption` | the universe has no symbol twice, prices are positive, cash, shares, costs and caps not negative |
| `PaperAssumption` | bars are in the order of their days, prices positive, amounts not negative, and the order cap is not below the size of the universe |
| `SimulatorAssumption` | there are members, orders have a size, default thresholds lie within `k_min` and `k_max` (of the regimes that trade), closes are positive |
| `ChallengeAssumption` | the profile: the engine's daily limit is below FTMO's, and its two limits together fit into FTMO's overall one |

### Oms

* `TypeCorrect`, `StatesMatchFills`. The inductive invariant is `TypeOK /\
  StateMatchesFills`. Neither part is inductive alone: that a fill leads to
  FILLED or PARTIALLY_FILLED rests on the table accepting the move from the
  order's state, and that an accepted fill leaves at most the quantity rests on
  an open order having something left, which is `StateMatchesFills`.
  `TableFacts` evaluates the table once; `OpenOrderFacts` says what an open
  order looks like.
* `FinishedOrdersAreFinal`: from the same invariant and the absence of exits
  from a terminal state.
* `OmsImplementsOrderBook`: the initial state maps to the initial state and
  every step of `Oms` to a step of `OrderBook` or a stutter, by cases on `Next`.
  `OrderBook` moves the ledger entry of the order's symbol, `on_fill` that of the
  report's. That they are the same is `ReportsMatchOrders`: what the broker works
  on and reports is the contract, and only orders for the contract reach it.

### Session and Desk

* `SessionTypeCorrect`, `TradesOnLiveBars`. `LiveInv` adds to the type what the
  set-up relies on: `BarsFollowLink` (a subscription is as alive as its socket, a
  session that trades has one, and a dead list is forgotten before the next connect
  begins, unless its connection was lost in a connect) and `ConnectsFromScratch`
  (which sockets belong to a supervisor that connects, and that nothing waits for
  an answer of a socket that is down).
* `HaltPlacesNothing`, `HaltLeavesNothingWorking`. `IInv` is `HaltFlags` (the
  kill switch and the latch agree; a halt whose kill file was written has one, and
  over it no process runs but the halted one), `Table` (the shape of the order
  table) and `HaltCancels`. That no order follows a halt across restarts is
  `HaltFlags`; that every open order was asked to cancel needs the other two, since
  a halted process still submits its flatten and takes fills and statuses.
* `LedgerIsTrue`. `LedgerTrue` speaks only of a desk that trades, which is too
  late for an induction: the comparison that makes it true lies some steps
  before. `LedgerInv` therefore states it as `Matched` from the moment positions
  were compared on this connection (`Compared`), with `Books` (executions belong
  to known orders and to the contract, reports to executions, and only finitely
  many happened) and `LinkInv`, the invariant of the link. Each action then changes the account, the ledger
  and the reports on their way at one execution or one order, and
  `SumChangesAt` says what that does to a sum.

### DailyCycle

* `StoppedStaysStopped`: a push replaces the repository's file only when that
  is still the file the run checked out, so it suffices that a run of a stopped
  checkout leaves the file alone; `StoppedRunKeepsFile` says so and is
  inductive without a type invariant.
* `DailyTypeCorrect`, `KillIsDurable`, `DepositsCountedOnce`,
  `RecordsMoveForward` share one inductive invariant. `RecordsGood` is what every
  file in circulation satisfies, the repository's, the checkout's and the one a
  crash left alike; `MovesForward` orders them by day; `InMemory` relates the
  state of a run to the one it loaded; `Staged` says what each stage of a run may
  rely on (a liquidation has its halt on disk, a trading run decided and its
  month is not done). It was evaluated on the reachable states of `daily_cycle`
  before it was proved.

### StateStore and RunnerStep (RecordsProofs)

* `StoreTypeCorrect`, `NothingSavedIsLost`, `WritesAreAtomic`,
  `StoreIsOneRegister`. The invariant has to speak of every directory a loss of
  power may leave, not of the one the process sees: each of them is `Sound`
  (whatever stands under a name a load reads is certain, the backup is whole and
  not newer than the main file, and one of them holds the last returned save or a
  later one). `SaveUnderWay` says how far
  the save has come. The refinement of `DurableRegister` follows case by case;
  that the value a load would find never falls back is `Sound`.
* `RunnerTypeCorrect`, `CountsAndMovesOnce`. `CountedIsForgotten`: a counted
  ticket is closed and known neither to the file nor to the step whose state the
  second save will write. `StreaksBounded` bounds the streak by what was counted.
  `MovedIsAtOpen`: a stop that was moved stands at the opening price, and the step
  knows so for every ticket it listed.
* `RecordsAreRecoverable`, `RecordsTornByDamageOnly`, `RecordsImplementRegister`,
  `RecordsCountOnce` carry these over to the composition that `records` checks.

### FtmoLive

* `FtmoTypeCorrect`, `NeverDoubleEnters`, `BlindGuardIsSilent`, `BaselineIsKept`,
  `HaltOutlasts`. One inductive invariant relates what a process remembers to the
  files another process or a restart may have changed: `FilesTrailPolls` (the
  times in the files are those of polls that read the account), `HaltAsRead` (what
  the guard is about to do to `HALT` is justified by what is there now, although it
  decided on what was there before), `DecisionStands` (before `RunnerKey` the key is
  in no file, between `RunnerKey` and `RunnerSend` it is on disk and not sent, and
  the checks of symbol, group and slots still hold, because only the runner opens
  positions) and `NoDoubleEntry` itself. `ShrinkingFrees` says that a position that
  closes takes no slot and blocks no side.

### Offline parts (OfflineProofs)

* `ChallengeIsSound` (with `ChallengeType`, `BootstrapNeverBreaches`,
  `CleanPass`). `ChallengeSound` is not inductive: that no day of the bootstrap
  can reach FTMO's overall limit needs to know where the day starts. `Room` adds
  it: between two days the engine's overall limit is not reached, and inside a
  day the low stays at or above the engine's daily limit.
* `PipelineIsSound`. `ResearchSound` with, for each command, what it has done so
  far: the hours a download holds are those before the next one, a run under way
  was permitted when it started.
* `ProjectionHolds`. That the daily limit holds is not inductive, since a stop
  can be far away when the price has not moved. `WorstCash` is the cash when
  every open position ends at its stop; `BacktestInv` says that on a day without
  a bad fill it stays inside both limits (`Covered`). `Decide` establishes it from the sizing, `Tick`
  and `DayEnd` keep it, with the sums of `DataLemmas`.
* `BacktestAddsUp`: the parts of `AccountsAddUp` and `StopsHold` that speak of
  the FTMO backtest, by the same invariant with `Exposure` and `Cash`.

* `BlackoutAnswers`. `CalendarInv` is that `add` and `prune` keep the events in
  order. Of the search over the starts, which need not be in order, `BelowStops`
  keeps what is true of any bisection: the window after its result does not start
  before the minute. So a window that covers the minute and lies behind none that
  starts later lies in front of that one, or the one after the result starts at
  this very minute and is found instead (`CoveredIsFound`). The horizon of
  `CalendarAssumption` is what lets the scan stop.
* `SessionEnteredOnce`. Two entries need two decisions, on opposite sides since
  the key is on disk before the order leaves. `EntryInv` says that each entry was
  made on the first deciding bar of a calendar some process had read; with one
  calendar there is one such bar. `RunnerInv` (`Knows`) is why no other bar
  decides: a session fed up to some bar knows of every deciding bar up to it,
  which `OnBarKnows` and an induction along the bars of a pass give; `TapeInv`
  covers the bars of yesterday and of the range.
* `RebalanceStaysSafe`. `VenueInv` has `PlanKept`, which bounds what was dealt
  *together with* what is still queued by the plan, symbol by symbol, and keeps
  sells before buys in both, and `PaidFor`, why the venue never bounces a buy:
  the only order sent a second time stands at the head, and the cash that paid
  for it is still there. `ComputeOrders`, `SellsFirst` and the cap are shown to
  select orders by increasing or by injective positions, so that sums over them
  are sums over parts of the plan.
* `PaperBooksHold`. `PaperInv` adds to the types `PaperBooks` (equity is the
  deposits of the days so far, the gains and the costs; while a bar fills it is
  explained by what it was before, and no fill adds to it) and `BookCloses` (after
  a kill the pending orders close the book, then those still queued do, except for
  positions whose sale would cost more than it brings, and the budget lets them
  all through).
* `SimInv` is behind the simulator's part of the next four. `LedgerSound`
  explains the cash of a ledger by its round trips, and inside one by the mark
  taken when it began. `Mirrors` says that until a kill every member has the
  ledger's position, and an adaptive one the money of the round trip under way;
  `MemberSound` bounds the thresholds; `PendingSound` says that at most one order
  works, that it cannot make the book short, and after a kill closes it. An order
  is filled in one part or in two (`PartsAre`), each keeps the invariant
  (`PartKeeps`), and two parts teach no more than one (`TaughtTwice`).
* `OfflineTypes`, `AccountsAlwaysAddUp`, `StopsAlwaysHold`, `OneLessonAlways`
  join the parts. `OfflineTypes` also has the pipeline's types: that bars cover
  downloaded days only, and that a run under way still fits into its ledger.

All but the first are theorems of the composition that `offline` checks: its
parts share nothing, so a step of one leaves the others alone.

### DataLemmas

The library's induction theorems take a predicate as parameter, and no installed
prover can instantiate it. The lemmas here take sets in place of predicates: the
set of counterexamples has an element that is minimal under inclusion
(`MinimalSubset`), and a set of numbers that has 0 and with each its successor
has them all (`Induction`, `InductionTo`). From these: a function defined by
recursion on positions satisfies its equation (`RecursionAlong`, `RecursionDown`),
a filter picks exactly the elements that pass, in their order (`FilterExists`,
`FilterSelects`), and what is known of `SumFunctionOnSet`: the type of a sum, a
sum without one element or with one more, of functions that agree, of two
functions added, of a function changed in one place, and of one function drawn
from another by an injection.

### Only model-checked

* `OrdersEnd`, `OnlyACancelDropsFills`, `TradingResumes`, `FlatAfterHalt`,
  `KnownClosingsCounted`: liveness under fairness, out of the prover's reach.
* `TypeOK` of `Desk`: its ranges are those of the instance (`MaxQty` bounds
  quantities that a flatten of several orders may exceed), so it is not true of
  every instance. `Table` and `Books` are the parts of it that are, and those are
  proved.
* The four counterexamples of section 4.

## 6. What is left

Every safety invariant and action property of a passing run is proved, except
`TypeOK` of `Desk`; a theorem with ranges that hold for every instance would have
to bound what a flatten of several orders can send by the sum of their quantities.
The liveness properties stay with TLC.

Not modelled: numerics (pricing, statistics, moving averages, ATR), decoding and
arithmetic of market data, reports, configuration files, logging and
notifications, the check and dry-run modes of the command lines, download and
test scripts. They keep no state across steps, or their correctness is a question
about real numbers. Left out of modelled parts: the paper trader's price-gap check, the loading of
calendar files, the retry delays of the MT5 client and of the reconnect, and the
finite reconnect budget.
