------------------------------ MODULE Session ------------------------------
(***************************************************************************)
(* The connection to IBKR in mini_prop_os: the supervisor and the          *)
(* heartbeat of core/connection.py, the set-up that app.py runs after each *)
(* (re)connect, the equity monitor that retries it, and the bar stream.    *)
(*                                                                         *)
(* Everything runs on one asyncio loop: an action is the code between two  *)
(* awaits.  ib_insync and the gateway are external.  A socket the client   *)
(* reports as connected is "syncing" while connectAsync still gathers its  *)
(* first answers, "up" afterwards, and "half" when it is open but dead.    *)
(***************************************************************************)
EXTENDS Integers

CONSTANTS MaxBar,          \* bound: bars the market completes
          MaxLosses        \* bound: losses of the socket, and of its answers

ASSUME SessionAssumption == MaxBar \in Nat /\ MaxLosses \in Nat

VARIABLES link,       \* external: the socket
          losses,     \* bound: losses so far
          signal,     \* _disconnect_evt
          supervisor, \* where start/_supervise stands
          heart,      \* the heartbeat task is running
          monitor,    \* where the equity monitor stands
          holder,     \* who holds _setup_lock
          step,       \* what the set-up is waiting for
          baseline,   \* start_of_day_equity is known
          trading,    \* _trading_enabled
          bars,       \* _bars, and what became of the subscription behind it
          clock,      \* external: bars completed by the market
          lastBar,    \* _last_bar_time
          ingested,   \* bars compute_signals has seen
          killed      \* risk.kill_switch_active

setupVars   == <<holder, step, baseline>>
barVars     == <<lastBar, ingested>>
sessionVars == <<link, losses, signal, supervisor, heart, monitor, holder,
                 step, baseline, trading, bars, clock, lastBar, ingested>>
vars        == <<sessionVars, killed>>

Steps == {"qualify", "equity", "positions", "orders", "bars"}

(***************************************************************************)
(* _bars is None ("none") or a list: one that is updated ("live"), one the *)
(* request came back empty with, never updated ("silent"), one whose       *)
(* connection is gone ("dead"), or one whose connection went while         *)
(* connectAsync still synchronised it ("orphaned").                        *)
(***************************************************************************)
Lists == {"live", "silent", "dead", "orphaned"}

TypeOK ==
    /\ link \in {"down", "syncing", "up", "half"}
    /\ losses \in 0..MaxLosses
    /\ supervisor \in {"connecting", "connected", "setup", "watching"}
    /\ monitor \in {"unborn", "asleep", "queued", "gone"}
    /\ holder \in {"none", "supervisor", "monitor"}
    /\ step \in Steps \cup {"idle", "broken"}
    /\ (holder = "none") <=> (step = "idle")
    /\ bars \in Lists \cup {"none"}
    /\ clock \in 0..MaxBar /\ lastBar \in 0..clock /\ ingested \subseteq 1..clock
    /\ {signal, heart, baseline, trading, killed} \subseteq BOOLEAN

\* A process that has just entered conn.start().
Fresh ==
    /\ link = "down" /\ signal = FALSE /\ supervisor = "connecting"
    /\ heart = FALSE /\ monitor = "unborn" /\ holder = "none" /\ step = "idle"
    /\ baseline = FALSE /\ trading = FALSE /\ bars = "none"
    /\ lastBar = 0 /\ ingested = {} /\ killed = FALSE

Init == Fresh /\ losses = 0 /\ clock = 0

\* The process ends; the next one starts from there.
Restart ==
    /\ link' = "down" /\ signal' = FALSE /\ supervisor' = "connecting"
    /\ heart' = FALSE /\ monitor' = "unborn" /\ holder' = "none" /\ step' = "idle"
    /\ baseline' = FALSE /\ trading' = FALSE /\ bars' = "none"
    /\ lastBar' = 0 /\ ingested' = {} /\ killed' = FALSE

----------------------------------------------------------------------------
(* The socket. *)

\* disconnectedEvent: _handle_disconnected sets the signal, and every request
\* a set-up is waiting for raises.  A subscription goes with its connection.
LoseLink(end) ==
    /\ link' = "down"
    /\ signal' = TRUE
    /\ bars' = IF bars \in {"live", "silent"} THEN end ELSE bars
    /\ step' = IF holder = "none" THEN step ELSE "broken"

Drop ==
    /\ link \in {"up", "half"}
    /\ losses < MaxLosses
    /\ losses' = losses + 1
    /\ LoseLink("dead")
    /\ UNCHANGED <<supervisor, heart, monitor, holder, baseline, trading, clock, barVars>>

\* The socket stays open but nothing answers any more.
Stall ==
    /\ link = "up"
    /\ losses < MaxLosses
    /\ losses' = losses + 1
    /\ link' = "half"
    /\ UNCHANGED <<signal, supervisor, heart, monitor, setupVars, trading, bars, clock, barVars>>

----------------------------------------------------------------------------
(* core/connection.py *)

\* Tasks that can run at once: they do before the gateway answers anything.
Runnable == step = "broken" \/ (monitor = "queued" /\ holder = "none")

\* _connect_once begins; connectAsync has the API and goes on to synchronise.
Dial ==
    /\ supervisor = "connecting"
    /\ link = "down"
    /\ ~Runnable
    /\ link' = "syncing"
    /\ UNCHANGED <<losses, signal, supervisor, heart, monitor, setupVars, trading, bars, clock, barVars>>

\* connectAsync gives up while it synchronises and disconnects; the backoff
\* loop comes round again, and clears the signal when it succeeds.  What the
\* monitor subscribed to meanwhile is gone, and nobody will be told.
SyncFails ==
    /\ supervisor = "connecting"
    /\ link = "syncing"
    /\ losses < MaxLosses
    /\ losses' = losses + 1
    /\ LoseLink("orphaned")
    /\ UNCHANGED <<supervisor, heart, monitor, holder, baseline, trading, clock, barVars>>

Synced ==
    /\ supervisor = "connecting"
    /\ link = "syncing"
    /\ link' = "up"
    /\ supervisor' = "connected"
    /\ UNCHANGED <<losses, signal, heart, monitor, setupVars, trading, bars, clock, barVars>>

ResumeWithoutHeart ==  \* mutant: no heartbeat notices a lost signal
    /\ supervisor = "connected"
    /\ supervisor' = "setup"
    /\ signal' = FALSE
    /\ UNCHANGED <<link, losses, heart, monitor, setupVars, trading, bars, clock, barVars>>

\* _connect_with_backoff after a success: whatever the signal says is cleared.
Resume ==
    /\ supervisor = "connected"
    /\ supervisor' = "setup"
    /\ signal' = FALSE
    /\ heart' = TRUE
    /\ UNCHANGED <<link, losses, monitor, setupVars, trading, bars, clock, barVars>>

\* _heartbeat_loop: a closed socket raises the signal (again), ...
HeartNotices ==
    /\ heart
    /\ link = "down"
    /\ heart' = FALSE
    /\ signal' = TRUE
    /\ UNCHANGED <<link, losses, supervisor, monitor, setupVars, trading, bars, clock, barVars>>

\* ... and heartbeat_max_misses misses in a row close it.
HeartForces ==
    /\ heart
    /\ link = "half"
    /\ heart' = FALSE
    /\ LoseLink("dead")
    /\ UNCHANGED <<losses, supervisor, monitor, holder, baseline, trading, clock, barVars>>

LostKeepsBars ==  \* mutant: _on_disconnected does not forget the list
    /\ supervisor = "watching"
    /\ signal
    /\ supervisor' = "connecting"
    /\ heart' = FALSE
    /\ trading' = FALSE
    /\ bars' = IF bars \in {"live", "silent"} THEN "dead" ELSE bars
    /\ signal' = (link # "down")
    /\ link' = "down"
    /\ step' = IF holder = "none" THEN step ELSE "broken"
    /\ UNCHANGED <<losses, monitor, holder, baseline, clock, barVars>>

\* _supervise wakes: heartbeat stopped, _on_disconnected, the client torn down
\* (which raises the signal once more), and back to connecting.
Lost ==
    /\ supervisor = "watching"
    /\ signal
    /\ supervisor' = "connecting"
    /\ heart' = FALSE
    /\ trading' = FALSE
    /\ bars' = "none"
    /\ signal' = (link # "down")
    /\ link' = "down"
    /\ step' = IF holder = "none" THEN step ELSE "broken"
    /\ UNCHANGED <<losses, monitor, holder, baseline, clock, barVars>>

----------------------------------------------------------------------------
(* app.py: _equity_monitor and _on_connected *)

IsConnected == link # "down"
Answering == link \in {"syncing", "up"}

\* The monitor's tick finds a connection without trading: it calls the set-up,
\* on a socket that is still synchronising as well.
MonitorRetries ==
    /\ monitor = "asleep"
    /\ IsConnected
    /\ ~trading /\ ~killed
    /\ monitor' = "queued"
    /\ UNCHANGED <<link, losses, signal, supervisor, heart, setupVars, trading, bars, clock, barVars>>

Waiting(p) == IF p = "supervisor" THEN supervisor = "setup" ELSE monitor = "queued"

ReturnInside(p) ==  \* mutant: the lock is not released
    /\ UNCHANGED holder
    /\ step' = "idle"
    /\ supervisor' = IF p = "supervisor" THEN "watching" ELSE supervisor
    /\ monitor' = IF p = "monitor" \/ monitor = "unborn" THEN "asleep" ELSE monitor

\* _on_connected returns to its caller.  start() goes on to launch the monitor.
Return(p) ==
    /\ holder' = "none"
    /\ step' = "idle"
    /\ supervisor' = IF p = "supervisor" THEN "watching" ELSE supervisor
    /\ monitor' = IF p = "monitor" \/ monitor = "unborn" THEN "asleep" ELSE monitor

\* Inside the lock: nothing to do, nothing that can be asked, or the set-up.
Begin(p) ==
    /\ IF trading \/ killed \/ ~IsConnected
       THEN Return(p)
       ELSE holder' = p /\ step' = "qualify" /\ UNCHANGED <<supervisor, monitor>>
    /\ UNCHANGED <<link, losses, signal, heart, baseline, trading, bars, clock, barVars>>

\* The lock is granted; _on_connected looks again before it does anything.
Enter(p) == Waiting(p) /\ holder = "none" /\ Begin(p)

\* _qualify_contract: the contract resolved, its multiplier the configured one.
Qualified ==
    /\ step = "qualify"
    /\ Answering
    /\ step' = IF baseline THEN "positions" ELSE "equity"
    /\ UNCHANGED <<link, losses, signal, supervisor, heart, monitor, holder, baseline, trading, bars, clock, barVars>>

\* _mark_equity: the first set-up of the process takes the day's baseline.
EquityRead ==
    /\ step = "equity"
    /\ Answering
    /\ step' = "positions"
    /\ baseline' = TRUE
    /\ UNCHANGED <<link, losses, signal, supervisor, heart, monitor, holder, trading, bars, clock, barVars>>

\* _reconcile_broker_state, its two requests.
Answered(from, to) ==
    /\ step = from
    /\ Answering
    /\ step' = to
    /\ UNCHANGED <<link, losses, signal, supervisor, heart, monitor, holder, baseline, trading, bars, clock, barVars>>

PositionsRead == Answered("positions", "orders")
OrdersRead    == Answered("orders", "bars")

\* BaseStrategy._ingest takes the bars that carry the strategy's symbol.
Takes(symbol) == symbol = "MES"

\* prime, given the bars that _to_bar makes of the history: their symbol is "".
Primed(history) == IF Takes("") THEN history ELSE {}

\* _subscribe_bars with an answer: the bars missed are primed, then trading is
\* enabled.
Subscribed ==
    /\ step = "bars"
    /\ bars = "none"
    /\ Answering
    /\ bars' = "live"
    /\ lastBar' = clock
    /\ ingested' = ingested \cup Primed(lastBar + 1 .. clock)
    /\ trading' = TRUE
    /\ Return(holder)
    /\ UNCHANGED <<link, losses, signal, heart, baseline, clock>>

\* _subscribe_bars with an empty list, the request refused or timed out, or
\* with nothing to ask because _bars is set: trading is enabled all the same.
SubscribedToNothing ==
    /\ step = "bars"
    /\ bars' = IF bars = "none" THEN "silent" ELSE bars
    /\ trading' = TRUE
    /\ Return(holder)
    /\ UNCHANGED <<link, losses, signal, heart, baseline, clock, barVars>>

\* Some step of the set-up raises: trading stays off until the next tick.
SetupFails ==
    /\ holder # "none"
    /\ Return(holder)
    /\ UNCHANGED <<link, losses, signal, heart, baseline, trading, bars, clock, barVars>>

\* A bar completes; _on_bar_update drops one it has already had, and
\* _process_bar hands it to the strategy only while trading is enabled.
BarCompletes ==
    /\ clock < MaxBar
    /\ clock' = clock + 1
    /\ IF bars = "live" /\ Answering /\ clock' > lastBar
       THEN /\ lastBar' = clock'
            /\ ingested' = IF trading /\ Takes("MES") THEN ingested \cup {clock'} ELSE ingested
       ELSE UNCHANGED barVars
    /\ UNCHANGED <<link, losses, signal, supervisor, heart, monitor, setupVars, trading, bars>>

----------------------------------------------------------------------------
(* Steps that only concern the session, and the one that enables trading.  *)
Supervise == Dial \/ SyncFails \/ Synced \/ Resume \/ Lost

SetUp == \/ \E p \in {"supervisor", "monitor"} : Enter(p)
         \/ Qualified \/ EquityRead \/ PositionsRead \/ OrdersRead
         \/ Subscribed \/ SubscribedToNothing \/ SetupFails

Next == /\ \/ Supervise \/ SetUp \/ MonitorRetries \/ BarCompletes
           \/ Drop \/ Stall \/ HeartNotices \/ HeartForces
        /\ UNCHANGED killed

Spec == Init /\ [][Next]_vars

(***************************************************************************)
(* The tasks run and the gateway comes back: connecting, and each request  *)
(* of the set-up, succeeds if it is tried again and again.                 *)
(***************************************************************************)
Fairness ==
    /\ WF_sessionVars(Dial) /\ WF_sessionVars(Resume) /\ WF_sessionVars(Lost)
    /\ WF_sessionVars(HeartNotices) /\ WF_sessionVars(HeartForces) /\ WF_sessionVars(MonitorRetries)
    /\ \A p \in {"supervisor", "monitor"} : SF_sessionVars(Enter(p))
    /\ SF_sessionVars(Synced)
    /\ SF_sessionVars(Qualified) /\ SF_sessionVars(EquityRead)
    /\ SF_sessionVars(PositionsRead) /\ SF_sessionVars(OrdersRead)
    /\ SF_sessionVars(Subscribed)
    /\ WF_sessionVars(step = "broken" /\ SetupFails)

FairSpec == Spec /\ Fairness

----------------------------------------------------------------------------
(* Properties. *)

(***************************************************************************)
(* Once the supervisor has dealt with every disconnect, trading is enabled *)
(* only with a subscription of the connection that is up, never with none  *)
(* and never with one that died with an earlier connection: but for one    *)
(* lost in SyncFails, while its connection still synchronised, whose       *)
(* disconnect connection.py:147 forgets (app.py, _on_connected and         *)
(* _on_disconnected; connection.py, _connect_with_backoff).                *)
(***************************************************************************)
TradingOnLiveBars ==
    trading /\ supervisor = "watching" /\ ~signal /\ link = "up"
    => bars \in {"live", "silent", "orphaned"}

(***************************************************************************)
(* Whatever is lost and whoever runs the set-up, a process that is not     *)
(* halted is trading again in the end (connection.py, _supervise and       *)
(* _heartbeat_loop; app.py, _equity_monitor).                              *)
(***************************************************************************)
TradingResumes == []<>(killed \/ (trading /\ link = "up"))

(***************************************************************************)
(* The strategy has seen every bar up to the last one it was given, those  *)
(* of the history and those missed while disconnected included (app.py,    *)
(* _subscribe_bars: "indicators stay continuous").                         *)
(***************************************************************************)
IndicatorsContinuous == trading => ingested = 1..lastBar
============================================================================
