-------------------------------- MODULE Desk --------------------------------
(***************************************************************************)
(* The live trading process of mini_prop_os: app.py, main.py and the kill  *)
(* file, around the connection (Session), the order management system      *)
(* (Oms) and the risk layer (Guardrails), one contract and one long-only   *)
(* strategy.  An action is the code between two awaits; the ib_insync      *)
(* adapter never suspends while it places or cancels, so a halt is one     *)
(* piece of work (`todo'), which only the broker can interrupt.            *)
(*                                                                         *)
(* External: the broker's account, which also holds the orders an earlier  *)
(* process left working; executions that happen while the socket is away   *)
(* are never reported as events.                                           *)
(***************************************************************************)
EXTENDS Integers, FiniteSetsExt

CONSTANTS OrderId, ExecId, Symbols, MaxQty, SeedQty, NoIntent, NoExec,
          Contract,           \* cfg.contract.symbol
          MaxBar, MaxLosses,
          MaxOrder, MaxPosition, MaxNotional, MaxGross, AllowShort, Multiplier,
          OrderQuantity,      \* order_quantity, of one entry
          KillSwitchFlattens, \* kill_switch_flattens
          CancelOnShutdown,   \* cancel_on_shutdown
          FlattenOnShutdown,  \* flatten_on_shutdown
          MaxEnds             \* bound: ends of the process, in a crash or a shutdown

\* An intent and an execution are never taken for the lack of one.
ASSUME DeskAssumption ==
    /\ Contract \in Symbols
    /\ KillSwitchFlattens \in BOOLEAN
    /\ OrderQuantity \in Nat \ {0} /\ SeedQty \subseteq Int
    /\ NoIntent \notin [symbol : Symbols, side : {1, -1}, quantity : Int]
    /\ NoExec \notin [order : OrderId, symbol : Symbols, quantity : 1..MaxQty]

VARIABLES intent, state, filled, position, seen, asked, seeded,
          live, cancelling, execs, notices,
          link, losses, signal, supervisor, heart, monitor, holder, step,
          baseline, trading, bars, clock, lastBar, ingested, killed,
          proc,       \* the process: off, running, or a stage of shutdown()
          todo,       \* a flatten that _flatten_all still has to submit
          latched,    \* _flattening
          marker,     \* the kill file exists
          halt,       \* history: the last halt since an operator's reset, and
                      \* whether the write of its kill file returned
          fromRisk,   \* orders whose source is RISK_FLATTEN
          account,    \* external: net position at the broker
          stray,      \* external: units left working by earlier processes, by side
          blind,      \* history: executions the comparison of positions could not
                      \* see, on their way or of stray orders, net
          missed,     \* executions that will never be reported
          ends        \* bound

\* IBKR gives every execution an exec_id.
Oms     == INSTANCE Oms WITH Untagged <- {}
Session == INSTANCE Session
Risk    == INSTANCE Guardrails

omsVars  == <<intent, state, filled, position, seen, asked, seeded>>
bookVars == <<omsVars, live, cancelling, execs, notices>>
connVars == <<link, losses, signal, supervisor, heart, monitor, holder, step,
              baseline, trading, bars, clock, lastBar, ingested>>
haltVars == <<killed, latched, marker, halt, todo>>
extVars  == <<account, stray, blind>>
vars     == <<bookVars, connVars, haltVars, extVars, proc, fromRisk, missed, ends>>

Sides == {1, -1}

TypeOK ==
    /\ Oms!TypeOK
    /\ Session!TypeOK
    /\ proc \in {"off", "running", "cancelled", "closing"}
    /\ {todo, latched, marker} \subseteq BOOLEAN
    /\ halt \in {"none", "saved", "unsaved"}
    /\ latched = killed
    /\ todo => latched \/ proc = "cancelled"
    /\ fromRisk \subseteq Oms!Known
    /\ account \in Int /\ blind \in Int
    /\ stray \in [Sides -> Nat]
    /\ missed \subseteq ExecId \ seen
    /\ ends \in 0..MaxEnds

Init ==
    /\ Oms!Init
    /\ Session!Init
    /\ proc = "running" /\ todo = FALSE /\ latched = FALSE /\ marker = FALSE
    /\ halt = "none"
    /\ fromRisk = {} /\ missed = {} /\ ends = 0
    /\ account \in SeedQty \cup {0}
    /\ stray = [d \in Sides |-> 0] /\ blind = 0

----------------------------------------------------------------------------
(* The broker's side of the account. *)

SignedExec(e) == intent[execs[e].order].side * execs[e].quantity
Happened == {e \in ExecId : execs[e] # NoExec}

Net(E) == SumFunction([e \in E |-> SignedExec(e)])

\* Executions whose report may still be credited, and those on_fill drops, or
\* has dropped, because their order is finished: these the ledger never hears of.
Unheard  == Happened \ (seen \cup missed)
Dropped  == {e \in Unheard : execs[e].order \notin Oms!OpenOrders}
InFlight == Unheard \ Dropped

\* An execution while the client is not connected is never reported.
Execute(e, o, q) ==
    /\ Oms!BrokerExecute(e, o, q)
    /\ account' = account + intent[o].side * q
    /\ missed' = IF Session!IsConnected THEN missed ELSE missed \cup {e}
    /\ UNCHANGED <<connVars, haltVars, stray, blind, proc, fromRisk, ends>>

BrokerEnds(o) ==
    /\ Oms!BrokerCancel(o) \/ Oms!BrokerReject(o)
    /\ UNCHANGED <<connVars, haltVars, extVars, proc, fromRisk, missed, ends>>

StrayFills(d) ==
    /\ stray[d] > 0
    /\ stray' = [stray EXCEPT ![d] = @ - 1]
    /\ account' = account + d
    /\ blind' = blind + d
    /\ UNCHANGED <<bookVars, connVars, haltVars, proc, fromRisk, missed, ends>>

Broker ==
    \/ \E e \in ExecId, o \in OrderId, q \in 1..MaxQty : Execute(e, o, q)
    \/ \E o \in OrderId : BrokerEnds(o)
    \/ \E d \in Sides : StrayFills(d)

----------------------------------------------------------------------------
(* Events relayed to the OMS by the adapter (_on_trade_status, _on_trade_fill). *)

Idle == proc # "off" /\ ~todo

Relay ==
    /\ Idle
    /\ Session!Answering
    /\ \/ \E o \in OrderId, status \in Oms!MappedStatus : Oms!OnOrderStatus(o, status)
       \/ \E e \in Happened \ missed : Oms!OnFill(e, SignedExec(e))
    /\ UNCHANGED <<connVars, haltVars, extVars, proc, fromRisk, missed, ends>>

----------------------------------------------------------------------------
(* Halting. *)

\* _last_price is the close of the last bar, 0.0 before the first.
Prices == [s \in Symbols |-> IF lastBar > 0 THEN 1 ELSE 0]

\* write_kill_marker: an OSError is swallowed, and may leave no file.
WriteMarker ==
    \/ marker' = TRUE /\ halt' = "saved"
    \/ marker' \in BOOLEAN /\ halt' = "unsaved"

HaltedUnlatched ==  \* mutant
    /\ killed' = TRUE
    /\ WriteMarker
    /\ Oms!CancelAll
    /\ todo' = KillSwitchFlattens
    /\ UNCHANGED latched

\* trip and _kill_switch_fired: once per process, the kill file first, then
\* every order cancelled, then the flatten if it is configured.
Halted ==
    /\ killed' = TRUE
    /\ latched' = TRUE
    /\ IF latched THEN UNCHANGED <<bookVars, marker, halt, todo>>
       ELSE /\ WriteMarker
            /\ Oms!CancelAll
            /\ todo' = KillSwitchFlattens

ToOms(i) == [symbol |-> i.symbol, side |-> i.side, quantity |-> i.quantity]

\* oms.submit, with the transport accepting the order or raising.
Submit(o, i) == Oms!Submit(o, ToOms(i)) \/ Oms!SubmitFails(o, ToOms(i))

\* _flatten_all: sized from the ledger; refused without a price, never retried.
FlattenAll ==
    /\ todo
    /\ todo' = FALSE
    /\ \/ \E i \in Risk!FlattenIntents(position), o \in OrderId :
            /\ Risk!Approves(killed, i, position, Prices)
            /\ Submit(o, i)
            /\ fromRisk' = fromRisk \cup {o}
       \/ /\ \A i \in Risk!FlattenIntents(position) :
                ~Risk!Approves(killed, i, position, Prices)
          /\ UNCHANGED <<bookVars, fromRisk>>
    /\ proc' = IF proc = "cancelled" THEN "closing" ELSE proc
    /\ UNCHANGED <<connVars, killed, latched, marker, halt, extVars, missed, ends>>

\* _equity_monitor: the account summary shows the daily loss.
EquityBreached ==
    /\ Idle
    /\ monitor = "asleep"
    /\ link = "up"
    /\ trading /\ baseline /\ ~killed
    /\ Halted
    /\ UNCHANGED <<connVars, extVars, proc, fromRisk, missed, ends>>

----------------------------------------------------------------------------
(* Bars. *)

\* What on_own_fill has told the strategy: fills of its own orders only.
Own == SumFunction([o \in Oms!Known \ fromRisk |-> Oms!SignedFill(o)])

Entry == [symbol |-> Contract, side |-> 1, quantity |-> OrderQuantity, limit |-> 0, source |-> "strategy"]
Exit  == [symbol |-> Contract, side |-> -1, quantity |-> Own, limit |-> 0, source |-> "strategy"]

\* compute_signals: entries from flat, exits of the whole own position.
Signals == IF Own = 0 THEN {Entry} ELSE IF Own > 0 THEN {Exit} ELSE {}

\* _is_entry, judged on the ledger.
IsEntry(i) ==
    Risk!AbsVal(position[Contract] + Risk!SignedQty(i)) > Risk!AbsVal(position[Contract])

\* _blackout_block: whether an event suppresses this intent.
MayBlackOut(i) == i.source = "strategy" /\ IsEntry(i)

\* _route_intent.
Route(i) ==
    IF Risk!Approves(killed, i, position, Prices')
    THEN \/ \E o \in OrderId : Submit(o, i)
         \/ MayBlackOut(i) /\ UNCHANGED bookVars
    ELSE UNCHANGED bookVars

\* A completed bar: no signal, a signal, or an exception in the strategy.
OnBar ==
    /\ Idle
    /\ Session!BarCompletes
    /\ IF ingested' # ingested
       THEN \/ UNCHANGED <<bookVars, haltVars>>
            \/ (\E i \in Signals : Route(i)) /\ UNCHANGED haltVars
            \/ Halted
       ELSE UNCHANGED <<bookVars, haltVars>>
    /\ UNCHANGED <<extVars, proc, fromRisk, missed, ends>>

----------------------------------------------------------------------------
(* The connection and the set-up. *)

Unreported == missed \cup (Happened \ seen)

LinkLost ==
    /\ \/ Session!Drop
       \/ Idle /\ (Session!SyncFails \/ Session!HeartForces)
    /\ missed' = Unreported
    /\ UNCHANGED <<bookVars, haltVars, extVars, proc, fromRisk, ends>>

Connect ==
    /\ Idle
    /\ \/ Session!Dial \/ Session!Synced \/ Session!Resume \/ Session!Lost
       \/ Session!Stall \/ Session!HeartNotices
       \/ Session!MonitorRetries
       \/ \E p \in {"supervisor", "monitor"} : Session!Enter(p)
       \/ Session!Qualified \/ Session!EquityRead
       \/ Session!Subscribed \/ Session!SubscribedToNothing \/ Session!SetupFails
    /\ UNCHANGED <<bookVars, haltVars, extVars, proc, fromRisk, missed, ends>>

ReconcileOnce ==  \* mutant: only a cold start is compared
    /\ Idle
    /\ Session!PositionsRead
    /\ blind' = -Net(Unheard)
    /\ IF Oms!Known = {} /\ position[Contract] = 0 /\ account # 0
       THEN Oms!SeedPosition(Contract, account)
       ELSE UNCHANGED bookVars
    /\ UNCHANGED <<haltVars, account, stray, proc, fromRisk, missed, ends>>

\* _reconcile_broker_state, the positions: equal, a cold start that imports
\* the account's, or a mismatch, which halts and fails the set-up.
Reconcile ==
    /\ Idle
    /\ step = "positions"
    /\ IF account = position[Contract]
       THEN /\ Session!PositionsRead
            /\ blind' = -Net(Unheard)
            /\ UNCHANGED <<bookVars, haltVars>>
       ELSE IF Oms!Known = {} /\ position[Contract] = 0
       THEN /\ Session!PositionsRead
            /\ Oms!SeedPosition(Contract, account)
            /\ blind' = 0
            /\ UNCHANGED haltVars
       ELSE /\ Session!Answering
            /\ Session!SetupFails
            /\ Halted
            /\ UNCHANGED blind
    /\ UNCHANGED <<account, stray, proc, fromRisk, missed, ends>>

\* Its open orders: the unmanaged ones are cancelled, unless they fill first.
CancelStrays ==
    /\ Idle
    /\ Session!OrdersRead
    /\ \E up \in 0..stray[1], down \in 0..stray[-1] :
            /\ account' = account + up - down
            /\ blind' = blind + up - down
    /\ stray' = [d \in Sides |-> 0]
    /\ UNCHANGED <<bookVars, haltVars, proc, fromRisk, missed, ends>>

----------------------------------------------------------------------------
(* The life of the process. *)

\* shutdown(): trading off, the monitor gone, working orders cancelled, and
\* the book flattened if configured.  It waits for start() to return first.
ShutdownBegins ==
    /\ Idle
    /\ proc = "running"
    /\ monitor # "unborn"
    /\ trading' = FALSE
    /\ monitor' = "gone"
    /\ IF holder = "monitor" THEN holder' = "none" /\ step' = "idle"
                             ELSE UNCHANGED <<holder, step>>
    /\ IF Session!IsConnected /\ CancelOnShutdown
       THEN Oms!CancelAll ELSE UNCHANGED bookVars
    /\ proc' = IF Session!IsConnected /\ FlattenOnShutdown THEN "cancelled" ELSE "closing"
    /\ UNCHANGED <<link, losses, signal, supervisor, heart, baseline, bars, clock,
                   lastBar, ingested, haltVars, extVars, fromRisk, missed, ends>>

ShutdownFlattens ==
    /\ Idle
    /\ proc = "cancelled"
    /\ todo' = TRUE
    /\ UNCHANGED <<bookVars, connVars, killed, latched, marker, halt, extVars, proc,
                   fromRisk, missed, ends>>

\* What is still working at the broker outlives the process that placed it.
LeftWorking(d) == MapThenSumSet(LAMBDA o : intent[o].quantity - Oms!Executed(o),
                                {o \in live : intent[o].side = d})

\* The process is gone, with everything it held in memory.
Gone ==
    /\ ends < MaxEnds
    /\ ends' = ends + 1
    /\ proc' = "off"
    /\ stray' = [d \in Sides |-> stray[d] + LeftWorking(d)]
    /\ blind' = 0
    /\ intent' = [o \in OrderId |-> NoIntent]
    /\ state' = [o \in OrderId |-> "CREATED"]
    /\ filled' = [o \in OrderId |-> 0]
    /\ position' = [s \in Symbols |-> 0]
    /\ seeded' = [s \in Symbols |-> 0]
    /\ execs' = [e \in ExecId |-> NoExec]
    /\ seen' = {} /\ asked' = {} /\ live' = {} /\ cancelling' = {} /\ notices' = {}
    /\ missed' = {} /\ fromRisk' = {}
    /\ Session!Restart
    /\ todo' = FALSE /\ latched' = FALSE
    /\ UNCHANGED <<losses, clock, marker, halt, account>>

Stop == proc = "closing" /\ ~todo /\ Gone

Crash == proc # "off" /\ Gone

StartAnyway ==  \* mutant: main does not look for the marker
    /\ proc = "off"
    /\ proc' = "running"
    /\ UNCHANGED <<bookVars, connVars, haltVars, extVars, fromRisk, missed, ends>>

\* main: refuses to start over a kill file.
Start ==
    /\ proc = "off"
    /\ ~marker
    /\ proc' = "running"
    /\ UNCHANGED <<bookVars, connVars, haltVars, extVars, fromRisk, missed, ends>>

\* --reset-kill-switch, by the operator.
OperatorResets ==
    /\ proc = "off"
    /\ marker
    /\ marker' = FALSE
    /\ halt' = "none"
    /\ UNCHANGED <<bookVars, connVars, killed, latched, todo, extVars, proc, fromRisk, missed, ends>>

Life == ShutdownBegins \/ ShutdownFlattens \/ Stop \/ Crash \/ Start \/ OperatorResets

----------------------------------------------------------------------------
Next == \/ Broker \/ Relay \/ FlattenAll \/ EquityBreached \/ OnBar
        \/ LinkLost \/ Connect \/ Reconcile \/ CancelStrays \/ Life

Spec == Init /\ [][Next]_vars

----------------------------------------------------------------------------
(* Properties. *)

(***************************************************************************)
(* No strategy order is placed by a halted process, nor by any process     *)
(* started after it until an operator resets the halt, unless the write of *)
(* the kill file failed, which only the log then tells (guardrails.py,     *)
(* validate; app.py, _kill_switch_fired; killfile.py, write_kill_marker;   *)
(* main.py, main).                                                         *)
(***************************************************************************)
HaltHolds ==
    [][\A o \in OrderId :
            intent[o] = NoIntent /\ intent'[o] # NoIntent /\ o \notin fromRisk'
            => ~killed /\ halt # "saved"]_vars

(***************************************************************************)
(* A halt leaves no order of the strategy working unasked: each one still  *)
(* open was asked to cancel, one that is partly filled too, whatever fills *)
(* race the request (app.py, _kill_switch_fired; oms.py, cancel_all).      *)
(***************************************************************************)
HaltCancels == killed => Oms!OpenOrders \ fromRisk \subseteq asked

(***************************************************************************)
(* While it trades on a live connection, the account is explained: by the  *)
(* ledger, the executions whose report is on its way, those on_fill drops  *)
(* because their order was finished first (from then on the ledger is      *)
(* wrong by them, until the next comparison), and what the last comparison *)
(* of positions could not see: reports unheard just then, and fills of an  *)
(* earlier process's orders.  No execution missed during an outage slips   *)
(* through, but for a connection lost while it still synchronised, whose   *)
(* disconnect is forgotten (app.py, _reconcile_broker_state; oms.py,       *)
(* on_fill; connection.py, _connect_with_backoff).                         *)
(***************************************************************************)
LedgerTrue ==
    trading /\ link = "up" /\ supervisor = "watching" /\ ~signal /\ bars # "orphaned"
    => account = position[Contract] + Net(InFlight \cup Dropped) + blind

(***************************************************************************)
(* A long-only desk is never short at the broker (guardrails.py, the       *)
(* module's promise 4), the orders of earlier processes left aside.        *)
(***************************************************************************)
NeverShort == account - blind >= 0
============================================================================
