------------------------------ MODULE Breakout ------------------------------
(***************************************************************************)
(* One instrument and one session of the breakout strategy of ftmo-bot     *)
(* (strategy/asian_breakout.py) inside the runner that feeds it bars and   *)
(* routes its signal (execution/runner.py, cli.py), with the news calendar *)
(* (data/calendar.py) read at every start.                                 *)
(*                                                                         *)
(* A bar is what on_bar can tell apart: the side on which it closed beyond *)
(* the range in the direction of the trend (0: neither), and whether the   *)
(* stop is near enough.  Bars 1..FirstBar - 1 are yesterday's; of the      *)
(* others the first ones build the range.                                  *)
(***************************************************************************)
EXTENDS Integers, Sequences, FiniteSetsExt

CONSTANTS FirstBar,     \* of the day
          RangeBars,    \* bars of the day that build the range
          LastBar,      \* last bar whose close may be entered on
          Lookback,     \* bars completed_bars returns: more than a day
          NewsWindow,   \* news_window_minutes, in bars
          EventTimes,   \* bars at whose close an event can be scheduled
          MaxChanges,   \* bound: changes of the published calendar
          MaxFailures   \* bound: deaths and MT5 errors

VARIABLES tape,       \* bars completed at the broker
          published,  \* high-impact events in the weekly feed
          changes,
          cache,      \* of the feed, on disk
          process,    \* the runner: [up, news, last, day], last 0 for None
          keys,       \* sides whose idempotency key is on disk
          held,       \* is a position open?
          entries,    \* orders executed today, by side (history)
          calendars,  \* the calendars today's processes worked with (history)
          failures

feed  == <<published, changes, cache>>
trade == <<keys, held, entries>>
breakoutVars == <<tape, feed, process, trade, calendars, failures>>

Sides == {1, -1}
Quiet == [side |-> 0, near |-> FALSE]
Bars == {Quiet} \cup [side : Sides, near : BOOLEAN]

Today(i) == i >= FirstBar
InRange(i) == Today(i) /\ i < FirstBar + RangeBars

\* _Day: which day, has the range been seen, is the session decided?
NewDay(today) == [today |-> today, ranged |-> FALSE, done |-> FALSE]
Down == [up |-> FALSE, news |-> {}, last |-> 0, day |-> NewDay(FALSE)]

Init ==
    /\ tape = [i \in 1..FirstBar - 1 |-> Quiet]
    /\ published \in SUBSET EventTimes
    /\ changes = 0
    /\ cache = {}
    /\ process = Down
    /\ keys = {} /\ held = FALSE
    /\ entries = [s \in Sides |-> 0]
    /\ calendars = {}
    /\ failures = 0

----------------------------------------------------------------------------
(* The market, the broker and the feed (external). *)

BarCompletes ==
    /\ Len(tape) < LastBar
    /\ \E b \in IF InRange(Len(tape) + 1) THEN {Quiet} ELSE Bars : tape' = Append(tape, b)
    /\ UNCHANGED <<feed, process, trade, calendars, failures>>

Exit ==
    /\ held
    /\ held' = FALSE
    /\ UNCHANGED <<tape, feed, process, keys, entries, calendars, failures>>

Reschedule ==
    /\ changes < MaxChanges
    /\ changes' = changes + 1
    /\ published' \in SUBSET EventTimes
    /\ UNCHANGED <<tape, cache, process, trade, calendars, failures>>

----------------------------------------------------------------------------
(* The strategy. *)

\* blocked: an event within the window on either side.
Blocked(news, i) == \E e \in news : i - NewsWindow <= e /\ e <= i + NewsWindow

\* The day on_bar works on for bar i.
DayOf(day, i) == IF day.today = Today(i) THEN day ELSE NewDay(Today(i))

\* A breakout in the direction of the trend, outside the news: it decides the
\* session, with a signal if its stop is near enough.
Decides(day, news, i) ==
    /\ ~InRange(i)
    /\ DayOf(day, i).ranged /\ ~DayOf(day, i).done
    /\ tape[i].side # 0
    /\ ~Blocked(news, i)

OnBarUndecided(day, news, i) ==  \* mutant: the session stays open after a breakout
    [DayOf(day, i) EXCEPT !.ranged = @ \/ InRange(i)]

\* on_bar's effect on the day.
OnBar(day, news, i) ==
    [DayOf(day, i) EXCEPT !.ranged = @ \/ InRange(i),
                          !.done = @ \/ Decides(day, news, i)]

----------------------------------------------------------------------------
(* The runner. *)

\* fetch_week and load_cache: a failed fetch leaves the cache as it was.
Start ==
    /\ ~process.up
    /\ cache' \in {cache, published}
    /\ process' = [Down EXCEPT !.up = TRUE, !.news = cache']
    /\ calendars' = calendars \cup {cache'}
    /\ UNCHANGED <<tape, published, changes, trade, failures>>

Dies ==
    /\ process.up
    /\ failures < MaxFailures
    /\ process' = Down
    /\ failures' = failures + 1
    /\ UNCHANGED <<tape, feed, trade, calendars>>

\* The bars of one pass: those after the last one, all of them in a new process.
FirstFed ==
    IF process.last = 0 THEN Max({1, Len(tape) - Lookback + 1}) ELSE process.last + 1

DayAfter(i) ==
    LET after[k \in FirstFed - 1..Len(tape)] ==
            IF k = FirstFed - 1 THEN process.day ELSE OnBar(after[k - 1], process.news, k)
    IN  after[i]

\* Only the last bar can be young enough for its signal to be acted on.
Signals ==
    LET i == Len(tape)
    IN  FirstFed <= i /\ Decides(DayAfter(i - 1), process.news, i) /\ tape[i].near

\* The pass ends; without an exception the bars are not fed again.
Fed(raised) ==
    process' = [process EXCEPT !.day = DayAfter(Len(tape)),
                               !.last = IF raised THEN @ ELSE Len(tape)]

\* No signal, a stale one, a market without quotes, or place refusing.
Pass ==
    /\ process.up
    /\ Fed(FALSE)
    /\ UNCHANGED <<tape, feed, trade, calendars, failures>>

\* An MT5Error while placing, before or after the key was written.
PlaceRaises ==
    /\ process.up /\ Signals
    /\ failures < MaxFailures
    /\ failures' = failures + 1
    /\ tape[Len(tape)].side \notin keys
    /\ keys' \in {keys, keys \cup {tape[Len(tape)].side}}
    /\ Fed(TRUE)
    /\ UNCHANGED <<tape, feed, held, entries, calendars>>

\* The order leaves with its key on disk, and the broker executes it; the
\* process may die before it knows.
Place ==
    LET side == tape[Len(tape)].side
    IN  /\ process.up /\ Signals
        /\ side \notin keys
        /\ ~held
        /\ keys' = keys \cup {side}
        /\ held' = TRUE
        /\ entries' = [entries EXCEPT ![side] = @ + 1]
        /\ \/ Fed(FALSE) /\ UNCHANGED failures
           \/ failures < MaxFailures /\ failures' = failures + 1 /\ process' = Down
        /\ UNCHANGED <<tape, feed, calendars>>

Next ==
    \/ BarCompletes \/ Exit \/ Reschedule
    \/ Start \/ Dies \/ Pass \/ PlaceRaises \/ Place

----------------------------------------------------------------------------
(***************************************************************************)
(* SPEC.md, "Max 1 entry per instrument per session": a restart replays    *)
(* the day's bars to the same decision, so one session is entered once,    *)
(* however often the runner dies, raises or is late; the key alone keeps   *)
(* it to one entry a side when the calendar changes between two starts.    *)
(***************************************************************************)
OneEntryPerSession ==
    /\ \A s \in Sides : entries[s] <= 1
    /\ Cardinality(calendars) <= 1 => entries[1] + entries[-1] <= 1
=============================================================================
