------------------------------ MODULE FtmoLive ------------------------------
(***************************************************************************)
(* The live half of ftmo-bot: the guard process (risk/guard.py), the       *)
(* strategy runner with its order router (execution/runner.py,             *)
(* execution/order_router.py) and the files they share                     *)
(* (execution/state.py).  The two processes interleave at every read and   *)
(* write of a file and at every call to the broker, each can die anywhere, *)
(* a broker call can fail, and a human can create and delete HALT.         *)
(*                                                                         *)
(* Time is counted in ticks; the session window, the time exit and the     *)
(* Friday cutoff are one predicate on the time of day.  An equity level    *)
(* stands for the account; stops and targets act at the broker, by Exit.   *)
(* Only the runner opens positions and it places market orders only, so    *)
(* there are no pending orders to cancel.                                  *)
(***************************************************************************)
EXTENDS Integers, Sequences, FiniteSets

CONSTANTS Symbols, Sides,
          Signals,              \* bound: symbols and sides the strategy may signal
          DayLength, MaxTime,   \* bound: the clock stops at MaxTime
          WindowEnd,            \* time of day at which positions must be flat
          Stale,                \* heartbeat_stale_seconds
          EquityLevels, InitialBalance,
          DailyLimit, OverallLimit,
          Risk,                 \* loss of one position at its stop
          MaxSlots,             \* max_open_slots
          Groups,               \* correlated_groups
          Mortal,               \* symbols whose quotes can dry up for good
          MaxCrashes,           \* bound: process deaths
          MaxHuman,             \* bound: human actions
          None

ASSUME FtmoAssumption ==
    /\ DayLength \in Nat \ {0}
    /\ MaxTime \in Nat
    /\ WindowEnd \in 0..DayLength
    /\ Stale \in Nat
    /\ EquityLevels \subseteq Int
    /\ InitialBalance \in EquityLevels
    /\ {DailyLimit, OverallLimit, Risk, MaxSlots} \subseteq Nat
    /\ {MaxCrashes, MaxHuman} \subseteq Nat
    /\ Mortal \subseteq Symbols
    /\ None \notin Int /\ None \notin [day : Nat, equity : EquityLevels]

ASSUME GroupsAssumption ==
    /\ Signals \subseteq Symbols \X Sides
    /\ Groups \subseteq SUBSET Symbols
    /\ \A g, h \in Groups : g \cap h # {} => g = h

VARIABLES now,       \* the clock of both processes
          equity,    \* of the account, floating profit included
          book,      \* open positions, oldest first
          quoteless, \* symbols whose quotes have dried up
          orders,    \* orders executed for each key
          halt,      \* state/HALT: [kind, day] or None
          heartbeat, \* state/heartbeat: a time or None
          baseline,  \* state/daily_baseline.json: [day, equity] or None
          keys,      \* state/idempotency.json
          guard,     \* the guard process: [pc, time, equity, halt, todo]
          runner,    \* the runner process: [pc, time, key, base, done]
          read,      \* when the guard last read equity (history)
          crashes, human

market  == <<equity, book, quoteless, orders>>
files   == <<halt, heartbeat, baseline, keys>>
budgets == <<crashes, human>>
vars    == <<now, equity, book, quoteless, orders, halt, heartbeat, baseline,
             keys, guard, runner, read, crashes, human>>

Day(t) == t \div DayLength
Days == 0..Day(MaxTime)
InWindow(t) == t % DayLength < WindowEnd

\* idempotency_key: symbol, session date, side.
Keys == [symbol : Symbols, day : Days, side : Sides]

OpenSymbols == {book[i].symbol : i \in DOMAIN book}

GuardDown  == [pc |-> "down", time |-> 0, equity |-> 0, halt |-> None, todo |-> <<>>]
RunnerDown == [pc |-> "down", time |-> 0, key |-> None, base |-> 0, done |-> {}]

Init ==
    /\ now = 0
    /\ equity = InitialBalance
    /\ book = <<>>
    /\ quoteless = {}
    /\ orders = [k \in Keys |-> 0]
    /\ halt = None
    /\ heartbeat = None
    /\ baseline = None
    /\ keys = {}
    /\ guard = GuardDown
    /\ runner = RunnerDown
    /\ read = None
    /\ crashes = 0
    /\ human = 0

----------------------------------------------------------------------------
(* ftmo_rules. *)

Breach(kind, day) == [kind |-> kind, day |-> day]

\* should_halt: reaching a limit is a breach, and overall wins.
ShouldHalt(eq, base, day) ==
    CASE InitialBalance - eq >= OverallLimit -> Breach("overall", day)
      [] InitialBalance - eq < OverallLimit /\ base - eq >= DailyLimit ->
            Breach("daily", day)
      [] OTHER -> None

\* The slot of a symbol: its correlated group, or itself.
SlotOf(symbol) == {symbol} \cup UNION {g \in Groups : symbol \in g}

\* slots_used
SlotsUsed(symbols) == Cardinality({SlotOf(s) : s \in symbols})

CanOpenAnything(key, eq, base, day) ==  \* mutant: the open positions are not looked at
    ShouldHalt(eq, base, day) = None

\* can_open: one position per symbol, none against its group, a slot free, and
\* every stop hit at once still inside both limits.
CanOpen(key, eq, base, day) ==
    LET worst == (Len(book) + 1) * Risk
    IN  /\ ShouldHalt(eq, base, day) = None
        /\ key.symbol \notin OpenSymbols
        /\ \A i \in DOMAIN book :
                book[i].symbol \in SlotOf(key.symbol) => book[i].side = key.side
        /\ SlotsUsed(OpenSymbols \cup {key.symbol}) <= MaxSlots
        /\ base - eq + worst < DailyLimit
        /\ InitialBalance - eq + worst < OverallLimit

----------------------------------------------------------------------------
(* The world (external): the clock, the market, the broker, the operator.  *)

Remove(s, i) == SubSeq(s, 1, i - 1) \o SubSeq(s, i + 1, Len(s))

Advance ==
    /\ now < MaxTime
    /\ now' = now + 1
    /\ UNCHANGED <<market, files, guard, runner, read, budgets>>

\* Floating profit and loss move only while something is open.
Move ==
    /\ book # <<>>
    /\ equity' \in EquityLevels
    /\ UNCHANGED <<now, book, quoteless, orders, files, guard, runner, read, budgets>>

\* A stop or target is hit at the broker.
Exit ==
    /\ \E i \in DOMAIN book : book' = Remove(book, i)
    /\ UNCHANGED <<now, equity, quoteless, orders, files, guard, runner, read, budgets>>

QuotesEnd ==
    /\ \E s \in Mortal \ quoteless : quoteless' = quoteless \cup {s}
    /\ UNCHANGED <<now, equity, book, orders, files, guard, runner, read, budgets>>

\* An operator writes a HALT file of his own, also over the guard's, or deletes
\* the one there is.
HumanHalt ==
    /\ human < MaxHuman
    /\ halt' = Breach("manual", 0)
    /\ human' = human + 1
    /\ UNCHANGED <<now, market, heartbeat, baseline, keys, guard, runner, read, crashes>>

HumanClear ==
    /\ human < MaxHuman
    /\ halt # None
    /\ halt' = None
    /\ human' = human + 1
    /\ UNCHANGED <<now, market, heartbeat, baseline, keys, guard, runner, read, crashes>>

----------------------------------------------------------------------------
(* The guard. *)

GuardTo(pc) == guard' = [guard EXCEPT !.pc = pc]

\* run_live.ps1 restarts the guard whenever it has exited.
GuardStart ==
    /\ guard.pc = "down"
    /\ GuardTo("poll")
    /\ UNCHANGED <<now, market, files, runner, read, budgets>>

GuardCrash ==
    /\ crashes < MaxCrashes
    /\ guard.pc # "down"
    /\ guard' = GuardDown
    /\ crashes' = crashes + 1
    /\ UNCHANGED <<now, market, files, runner, read, human>>

\* tick: account_info answers.
GuardPoll ==
    /\ guard.pc = "poll"
    /\ guard' = [guard EXCEPT !.pc = "baseline", !.time = now, !.equity = equity]
    /\ read' = now
    /\ UNCHANGED <<now, market, files, runner, budgets>>

GuardBlindBeats ==  \* mutant: the heartbeat is written although MT5 is down
    /\ guard.pc = "poll"
    /\ heartbeat' = now
    /\ UNCHANGED <<now, market, halt, baseline, keys, guard, runner, read, budgets>>

\* tick: MT5Error; the tick ends and the heartbeat is withheld.
GuardBlind ==
    /\ guard.pc = "poll"
    /\ UNCHANGED vars

TakesSnapshotAlways(day) == TRUE  \* mutant: a restart takes a new baseline

\* resolve_baseline keeps a baseline of today.
TakesSnapshot(day) == baseline = None \/ baseline.day # day

GuardBaselineUnsaved ==  \* mutant: the snapshot is kept in memory only
    /\ guard.pc = "baseline"
    /\ GuardTo("clear")
    /\ UNCHANGED <<now, market, files, runner, read, budgets>>

GuardBaseline ==
    /\ guard.pc = "baseline"
    /\ baseline' = IF TakesSnapshot(Day(guard.time))
                   THEN [day |-> Day(guard.time), equity |-> guard.equity]
                   ELSE baseline
    /\ GuardTo("clear")
    /\ UNCHANGED <<now, market, halt, heartbeat, keys, runner, read, budgets>>

ExpiredAnyKind(day) == halt # None /\ halt.day < day  \* mutant: overall halts expire too

\* clear_daily_halt: read HALT, and unlink it when it is an old daily one.
Expired(day) == halt # None /\ halt.kind = "daily" /\ halt.day < day

GuardClear ==
    /\ guard.pc = "clear"
    /\ GuardTo(IF Expired(Day(guard.time)) THEN "unlink" ELSE "judge")
    /\ UNCHANGED <<now, market, files, runner, read, budgets>>

GuardUnlink ==
    /\ guard.pc = "unlink"
    /\ halt' = None
    /\ GuardTo("judge")
    /\ UNCHANGED <<now, market, heartbeat, baseline, keys, runner, read, budgets>>

\* should_halt and read_halt; an overall breach supersedes a daily halt.
Judgement ==
    LET d == ShouldHalt(guard.equity, baseline.equity, Day(guard.time))
    IN  IF d # None /\ (halt = None \/ (halt.kind = "daily" /\ d.kind = "overall"))
        THEN d ELSE None

GuardJudge ==
    /\ guard.pc = "judge"
    /\ guard' = [guard EXCEPT !.pc = IF Judgement = None THEN "list" ELSE "write",
                              !.equity = 0,
                              !.halt = IF Judgement = None THEN halt ELSE Judgement]
    /\ UNCHANGED <<now, market, files, runner, read, budgets>>

\* write_halt, and read_halt again.
GuardWrite ==
    /\ guard.pc = "write"
    /\ halt' = guard.halt
    /\ GuardTo("list")
    /\ UNCHANGED <<now, market, heartbeat, baseline, keys, runner, read, budgets>>

TargetsTimeExitOnly ==  \* mutant: HALT blocks entries but closes nothing
    IF InWindow(guard.time) THEN <<>> ELSE book

\* All positions on a halt, else those outside their window.
Targets ==
    IF guard.halt # None \/ ~InWindow(guard.time) THEN book ELSE <<>>

\* positions() and the choice of those to close.
GuardList ==
    /\ guard.pc = "list"
    /\ guard' = [guard EXCEPT
                    !.pc = "close",
                    !.halt = None,
                    !.todo = Targets]
    /\ UNCHANGED <<now, market, files, runner, read, budgets>>

CloseNext == Head(guard.todo)

GuardCloses(left) ==
    guard' = [guard EXCEPT !.todo = left, !.pc = IF left = <<>> THEN "beat" ELSE "close"]

GuardDone ==
    /\ guard.pc = "close"
    /\ guard.todo = <<>>
    /\ GuardTo("beat")
    /\ UNCHANGED <<now, market, files, runner, read, budgets>>

\* close_position: the broker closes it, or it is closed already.
GuardClose ==
    /\ guard.pc = "close"
    /\ guard.todo # <<>>
    /\ CloseNext.symbol \notin quoteless
    /\ \/ \E i \in DOMAIN book : book[i] = CloseNext /\ book' = Remove(book, i)
       \/ (\A i \in DOMAIN book : book[i] # CloseNext) /\ UNCHANGED book
    /\ GuardCloses(Tail(guard.todo))
    /\ UNCHANGED <<now, equity, quoteless, orders, files, runner, read, budgets>>

\* close_position: the broker refuses; the next poll tries again.
GuardCloseRefused ==
    /\ guard.pc = "close"
    /\ guard.todo # <<>>
    /\ CloseNext.symbol \notin quoteless
    /\ GuardCloses(Tail(guard.todo))
    /\ UNCHANGED <<now, market, files, runner, read, budgets>>

\* MT5Error in positions() or in the quote a close needs: the other positions
\* are left for the next poll.
GuardMT5Error ==
    /\ guard.pc = "list" \/ (guard.pc = "close" /\ guard.todo # <<>>)
    /\ guard' = [guard EXCEPT !.pc = "beat", !.halt = None, !.todo = <<>>]
    /\ UNCHANGED <<now, market, files, runner, read, budgets>>

GuardBeat ==
    /\ guard.pc = "beat"
    /\ heartbeat' = guard.time
    /\ guard' = [GuardDown EXCEPT !.pc = "poll"]
    /\ UNCHANGED <<now, market, halt, baseline, keys, runner, read, budgets>>

----------------------------------------------------------------------------
(* The runner. *)

RunnerTo(pc) == runner' = [runner EXCEPT !.pc = pc]

\* The end of place, whatever its result; the strategy remembers the session.
RunnerGivesUp(done) == runner' = [RunnerDown EXCEPT !.pc = "step", !.done = done]

Fresh(t) == heartbeat # None /\ t - heartbeat <= Stale /\ heartbeat - t <= Stale

\* preflight: refuses to start on HALT or without a living guard.
RunnerStart ==
    /\ runner.pc = "down"
    /\ halt = None
    /\ Fresh(now)
    /\ RunnerTo("step")
    /\ UNCHANGED <<now, market, files, guard, read, budgets>>

RunnerCrash ==
    /\ crashes < MaxCrashes
    /\ runner.pc # "down"
    /\ runner' = RunnerDown
    /\ crashes' = crashes + 1
    /\ UNCHANGED <<now, market, files, guard, read, human>>

\* step: the time exit; each close can fail.
RunnerTimeExit ==
    /\ runner.pc = "step"
    /\ ~InWindow(now)
    /\ \E i \in DOMAIN book :
        /\ book[i].symbol \notin quoteless
        /\ book' = Remove(book, i)
    /\ UNCHANGED <<now, equity, quoteless, orders, files, guard, runner, read, budgets>>

\* on_bar emits a signal, the session's first in this process, and place
\* reads the clock and HALT; a symbol without quotes is skipped.
RunnerSignal ==
    /\ runner.pc = "step"
    /\ InWindow(now)
    /\ \E k \in Keys :
        /\ k.day = Day(now)
        /\ <<k.symbol, k.side>> \in Signals
        /\ <<k.symbol, k.day>> \notin runner.done
        /\ LET done == runner.done \cup {<<k.symbol, k.day>>}
           IN  IF halt = None /\ k.symbol \notin quoteless
               THEN runner' = [pc |-> "gate", time |-> now, key |-> k, base |-> 0,
                               done |-> done]
               ELSE RunnerGivesUp(done)
    /\ UNCHANGED <<now, market, files, guard, read, budgets>>

\* place: heartbeat, idempotency key, today's baseline.
RunnerGate ==
    /\ runner.pc = "gate"
    /\ IF /\ Fresh(runner.time)
          /\ runner.key \notin keys
          /\ baseline # None
          /\ baseline.day = Day(runner.time)
       THEN runner' = [runner EXCEPT !.pc = "check", !.base = baseline.equity]
       ELSE RunnerGivesUp(runner.done)
    /\ UNCHANGED <<now, market, files, guard, read, budgets>>

\* place: account, quote, positions, can_open, sizing.  The soft stop after
\* losses of the day, or a size below the least lot, refuses as well.
RunnerCheck ==
    /\ runner.pc = "check"
    /\ runner.key.symbol \notin quoteless
    /\ \/ CanOpen(runner.key, equity, runner.base, Day(runner.time)) /\ RunnerTo("key")
       \/ RunnerGivesUp(runner.done)
    /\ UNCHANGED <<now, market, files, guard, read, budgets>>

RunnerKeyForgotten ==  \* mutant: the key is kept in memory only
    /\ runner.pc = "key"
    /\ RunnerTo("send")
    /\ UNCHANGED <<now, market, files, guard, read, budgets>>

\* place: the key is on disk before the order leaves.
RunnerKey ==
    /\ runner.pc = "key"
    /\ keys' = keys \cup {runner.key}
    /\ RunnerTo("send")
    /\ UNCHANGED <<now, market, halt, heartbeat, baseline, guard, read, budgets>>

\* market_order: executed, whether or not the answer says so.
RunnerSend ==
    /\ runner.pc = "send"
    /\ runner.key.symbol \notin quoteless
    /\ book' = Append(book, runner.key)
    /\ orders' = [orders EXCEPT ![runner.key] = @ + 1]
    /\ RunnerGivesUp(runner.done)
    /\ UNCHANGED <<now, equity, quoteless, files, guard, read, budgets>>

\* market_order: refused by the broker.
RunnerRefused ==
    /\ runner.pc = "send"
    /\ runner.key.symbol \notin quoteless
    /\ RunnerGivesUp(runner.done)
    /\ UNCHANGED <<now, market, files, guard, read, budgets>>

\* MT5Error while placing: run logs it, and the next step feeds the bars to
\* the strategy again; when the process had not finished its first pass this
\* makes the session undecided again.
RunnerMT5Error ==
    /\ runner.pc \in {"check", "send"}
    /\ \E again \in BOOLEAN :
        RunnerGivesUp(IF again
                      THEN runner.done \ {<<runner.key.symbol, runner.key.day>>}
                      ELSE runner.done)
    /\ UNCHANGED <<now, market, files, guard, read, budgets>>

----------------------------------------------------------------------------

Next ==
    \/ Advance \/ Move \/ Exit \/ QuotesEnd \/ HumanHalt \/ HumanClear
    \/ GuardStart \/ GuardCrash \/ GuardPoll \/ GuardBlind \/ GuardBaseline
    \/ GuardClear \/ GuardUnlink \/ GuardJudge \/ GuardWrite \/ GuardList
    \/ GuardDone \/ GuardClose \/ GuardCloseRefused \/ GuardMT5Error \/ GuardBeat
    \/ RunnerStart \/ RunnerCrash \/ RunnerTimeExit \/ RunnerSignal \/ RunnerGate
    \/ RunnerCheck \/ RunnerKey \/ RunnerSend \/ RunnerRefused \/ RunnerMT5Error

Spec == Init /\ [][Next]_vars

(***************************************************************************)
(* The supervisor restarts the guard and the guard's loop never stops      *)
(* (weak fairness); the broker, asked again at every poll, answers and     *)
(* accepts in the end (strong fairness).  Nothing is asked of the runner.  *)
(***************************************************************************)
Fairness ==
    /\ WF_vars(GuardStart)
    /\ WF_vars(GuardBaseline) /\ WF_vars(GuardClear) /\ WF_vars(GuardUnlink)
    /\ WF_vars(GuardJudge) /\ WF_vars(GuardWrite)
    /\ WF_vars(GuardDone) /\ WF_vars(GuardBeat)
    /\ WF_vars(GuardClose \/ GuardCloseRefused \/ GuardMT5Error)
    /\ WF_vars(GuardPoll)
    /\ SF_vars(GuardList)
    /\ \A s \in Symbols : SF_vars(GuardClose /\ CloseNext.symbol = s)

FairSpec == Spec /\ Fairness

----------------------------------------------------------------------------
(* Properties. *)

Times == 0..MaxTime

Halts == {None} \cup [kind : {"daily", "overall", "manual"}, day : Days]

Baselines == {None} \cup [day : Days, equity : EquityLevels]

GuardStates ==
    [pc : {"down", "poll", "baseline", "clear", "unlink", "judge", "write",
           "list", "close", "beat"},
     time : Times, equity : EquityLevels \cup {0}, halt : Halts, todo : Seq(Keys)]

RunnerStates ==
    [pc : {"down", "step", "gate", "check", "key", "send"},
     time : Times, key : Keys \cup {None}, base : EquityLevels \cup {0},
     done : SUBSET (Symbols \X Days)]

TypeOK ==
    /\ now \in Times
    /\ equity \in EquityLevels
    /\ book \in Seq(Keys)
    /\ quoteless \subseteq Mortal
    /\ orders \in [Keys -> Nat]
    /\ halt \in Halts
    /\ heartbeat \in Times \cup {None}
    /\ baseline \in Baselines
    /\ keys \subseteq Keys
    /\ guard \in GuardStates
    /\ guard.pc \in {"clear", "unlink", "judge"} => baseline # None
    /\ runner \in RunnerStates
    /\ read \in Times \cup {None}
    /\ crashes \in 0..MaxCrashes
    /\ human \in 0..MaxHuman

(***************************************************************************)
(* SPEC.md, "A crash and restart cannot double-enter": whatever dies, and  *)
(* however often the strategy repeats a signal, a key is executed at most  *)
(* once; and can_open against the broker: never two positions on one       *)
(* symbol, never two sides of one correlated group (strategy.yaml, "never  *)
(* held in opposite directions") and never more than MaxSlots slots,       *)
(* although the guard and the broker close positions while the router is   *)
(* deciding.                                                               *)
(***************************************************************************)
NoDoubleEntry ==
    /\ \A k \in Keys : orders[k] <= 1
    /\ SlotsUsed(OpenSymbols) <= MaxSlots
    /\ \A i, j \in DOMAIN book :
            /\ book[i].symbol = book[j].symbol => i = j
            /\ book[i].symbol \in SlotOf(book[j].symbol) => book[i].side = book[j].side

(***************************************************************************)
(* guard.py, step 5: a guard that has lost MT5 looks dead to the runner:   *)
(* the heartbeat never outruns the last equity the guard could read.       *)
(***************************************************************************)
BlindGuardLooksDead == heartbeat # None => read # None /\ heartbeat <= read

(***************************************************************************)
(* SPEC.md, "a bot restart mid-day does not reset the baseline": the       *)
(* stored baseline only ever gives way to a later day's.                   *)
(***************************************************************************)
BaselineKeptAllDay ==
    [][baseline # None /\ baseline' # baseline => baseline'.day > baseline.day]_vars

(***************************************************************************)
(* A halt the guard recorded outlasts crashes of both processes: an        *)
(* overall one until a human acts on it, a daily one until the next reset  *)
(* or until an overall one supersedes it.                                  *)
(***************************************************************************)
HaltOutlastsItsCause ==
    [][halt # None /\ halt.kind # "manual" /\ halt' # halt =>
        \/ HumanHalt \/ HumanClear
        \/ /\ halt.kind = "daily"
           /\ IF halt' = None THEN halt.day < Day(now) ELSE halt'.kind = "overall"]_vars

(***************************************************************************)
(* guard.py, step 4 ("every poll, until flat"): under a halt that lasts,   *)
(* every position that has a quote is closed in the end, also one the      *)
(* runner had already ordered when the halt was written.                   *)
(***************************************************************************)
FlatAfterHalt ==
    <>[](halt # None) => <>[](OpenSymbols \subseteq quoteless)
=============================================================================
