----------------------------- MODULE DeskProofs -----------------------------
(***************************************************************************)
(* The desk of mini_prop_os, for every number of orders, every fill and    *)
(* every loss of the link.  What a halt stops: the kill switch, the latch  *)
(* of the session and the kill file agree, and from the halt on the order  *)
(* table only shrinks, but for the orders of the risk layer itself         *)
(* (app.py, _kill_switch_fired and _process_bar; oms.py, cancel_all).  And *)
(* what the ledger says of the account while it trades (app.py,            *)
(* _reconcile_broker_state; oms.py, on_fill).                              *)
(***************************************************************************)
EXTENDS Desk, DataLemmas

\* The kill switch and the latch agree; a halt whose kill file was written has
\* one, and over it no process runs but the halted one.
HaltFlags ==
    /\ latched <=> killed
    /\ killed => proc # "off"
    /\ halt = "saved" => marker
    /\ proc # "off" /\ halt = "saved" => killed

\* The shape of the order table; its quantities do not matter here.
Table ==
    /\ intent = [o \in OrderId |-> intent[o]]
    /\ state \in [OrderId -> Oms!OrderStates]
    /\ \A o \in Oms!Known : state[o] # "CREATED"

IInv == HaltFlags /\ Table /\ HaltCancels

----------------------------------------------------------------------------
\* No transition of the order table leads back to CREATED (oms.py, _transition).
LEMMA TransitionFacts ==
    /\ \A from, to \in Oms!OrderStates :
            /\ Oms!Transition(from, to) \in {from, to}
            /\ from # "CREATED" => Oms!Transition(from, to) # "CREATED"
    /\ Oms!Transition("CREATED", "REJECTED") = "REJECTED"
    /\ Oms!Transition("CREATED", "SUBMITTED") = "SUBMITTED"
    BY DEF Oms!Transition, Oms!Transitions, Oms!OrderStates

\* A submit makes one order known, and it was unknown (oms.py, submit).
LEMMA SubmitEffect ==
    ASSUME Table, NEW o \in OrderId, NEW i, Submit(o, i)
    PROVE  /\ Table'
           /\ \A p \in OrderId \ {o} : UNCHANGED <<intent[p], state[p]>>
           /\ o \notin Oms!Known
           /\ asked' = asked
    BY TransitionFacts DEF Submit, Table, Oms!Submit, Oms!SubmitFails, Oms!Known, Oms!OrderStates

\* No order becomes known or open, and what was asked to cancel stays so.
Quiet ==
    /\ Oms!Known' \subseteq Oms!Known
    /\ Oms!OpenOrders' \subseteq Oms!OpenOrders
    /\ asked \subseteq asked'

\* After a cancel of all no order is left that nobody asked to cancel (oms.py,
\* cancel_all).
LEMMA CancelAllEffect ==
    ASSUME Table, Oms!CancelAll
    PROVE  /\ Table' /\ Quiet
           /\ Oms!OpenOrders' \subseteq asked'
<1>1. PICK reached : Oms!CancelEach(Oms!OpenOrders, reached)
    BY DEF Oms!CancelAll
<1>2. /\ intent' = intent
      /\ state' = [o \in OrderId |-> IF o \in Oms!OpenOrders
                                      THEN Oms!Transition(state[o], "PENDING_CANCEL")
                                      ELSE state[o]]
      /\ asked' = asked \cup Oms!OpenOrders
    BY <1>1 DEF Oms!CancelEach
<1>3. "PENDING_CANCEL" \in Oms!OrderStates
    BY DEF Oms!OrderStates
<1>4. \A o \in OrderId : state[o] \in Oms!OrderStates
    BY DEF Table
<1>5. Oms!Known' = Oms!Known /\ Oms!Known \subseteq OrderId
    BY <1>2 DEF Oms!Known
<1>6. Table'
    BY <1>2, <1>3, <1>4, <1>5, TransitionFacts DEF Table, Oms!OrderStates
<1>7. Oms!OpenOrders' \subseteq Oms!OpenOrders
    BY <1>2, <1>5 DEF Oms!OpenOrders
<1>8. QED
    BY <1>2, <1>5, <1>6, <1>7 DEF Quiet

\* What the broker reports makes no order known or open again (oms.py,
\* on_order_status and on_fill).
LEMMA RelayEffect ==
    ASSUME Table, Relay
    PROVE  Table' /\ Quiet /\ intent' = intent
<1>1. ASSUME NEW o \in OrderId, NEW status \in Oms!MappedStatus, Oms!OnOrderStatus(o, status)
      PROVE  Table' /\ Quiet /\ intent' = intent
    <2>1. /\ intent' = intent /\ asked' = asked /\ o \in Oms!Known
          /\ state' = [state EXCEPT ![o] = Oms!Transition(@, status)]
        BY <1>1 DEF Oms!OnOrderStatus
    <2>2. status \in Oms!OrderStates /\ state[o] \in Oms!OrderStates /\ state[o] # "CREATED"
        BY <2>1 DEF Table, Oms!MappedStatus, Oms!OrderStates
    <2>3. PICK new : new = Oms!Transition(state[o], status)
        OBVIOUS
    <2>4. /\ new \in Oms!OrderStates /\ new # "CREATED"
          /\ state[o] \in Oms!TerminalStates => new = state[o]
        BY <2>2, <2>3 DEF Oms!Transition, Oms!Transitions, Oms!OrderStates, Oms!TerminalStates
    <2>5. state' = [state EXCEPT ![o] = new]
        BY <2>1, <2>3
    <2>6. QED
        BY <2>1, <2>4, <2>5 DEF Table, Quiet, Oms!Known, Oms!OpenOrders
<1>2. ASSUME NEW e, NEW r, Oms!OnFill(e, r)
      PROVE  Table' /\ Quiet /\ intent' = intent
    <2> PICK o : o = execs[e].order
        OBVIOUS
    <2> PICK to : to = IF Oms!AbsQty(r) = Oms!Remaining(o) THEN "FILLED" ELSE "PARTIALLY_FILLED"
        OBVIOUS
    <2>1. /\ o \in Oms!OpenOrders
          /\ to \in {"FILLED", "PARTIALLY_FILLED"}
          /\ state' = [state EXCEPT ![o] = Oms!Transition(@, to)]
        BY <1>2 DEF Oms!OnFill, Oms!Accepts
    <2>2. intent' = intent /\ asked' = asked
        BY <1>2 DEF Oms!OnFill
    <2>3. /\ o \in OrderId /\ o \in Oms!Known
          /\ state[o] \in Oms!OrderStates /\ state[o] # "CREATED"
        BY <2>1 DEF Table, Oms!OpenOrders, Oms!Known
    <2>4. PICK new : new = Oms!Transition(state[o], to)
        OBVIOUS
    <2>5. new \in Oms!OrderStates /\ new # "CREATED"
        BY <2>3, <2>4, TransitionFacts DEF Oms!OrderStates
    <2>6. state' = [state EXCEPT ![o] = new]
        BY <2>1, <2>4
    <2>7. QED
        BY <2>1, <2>2, <2>3, <2>5, <2>6 DEF Table, Quiet, Oms!Known, Oms!OpenOrders
<1>3. QED
    BY <1>1, <1>2 DEF Relay

\* The kill switch latches, marks the file and cancels all in one step, once
\* (app.py, _kill_switch_fired).
LEMMA HaltedEffect ==
    ASSUME Table, HaltFlags, HaltCancels, proc # "off", proc' = proc,
           fromRisk' = fromRisk, Halted
    PROVE  IInv' /\ Oms!Known' \subseteq Oms!Known
<1>1. CASE latched
    <2>1. UNCHANGED <<intent, state, asked, killed, latched, marker, halt, proc, fromRisk>>
        BY <1>1 DEF Halted, HaltFlags, bookVars, omsVars
    <2>2. QED
        BY <1>1, <2>1 DEF HaltFlags, Table, HaltCancels, IInv, Oms!Known, Oms!OpenOrders
<1>2. CASE ~latched
    <2>1. Oms!CancelAll /\ killed' /\ latched' /\ (halt' = "saved" => marker')
        BY <1>2 DEF Halted, WriteMarker
    <2>2. QED
        BY <2>1, CancelAllEffect DEF HaltFlags, HaltCancels, IInv, Quiet
<1>3. QED
    BY <1>1, <1>2

----------------------------------------------------------------------------
(* Inductiveness. *)

\* A desk that is off has no orders and no halt.
LEMMA InitIInv == Init => IInv
<1> SUFFICES ASSUME Init PROVE IInv
    OBVIOUS
<1>1. HaltFlags
    BY DEF Init, Session!Init, Session!Fresh, HaltFlags
<1>2. Table
    BY DEF Init, Oms!Init, Table, Oms!Known, Oms!OrderStates
<1>3. HaltCancels
    BY DEF Init, Session!Init, Session!Fresh, HaltCancels
<1>4. QED
    BY <1>1, <1>2, <1>3 DEF IInv

\* Steps that place no order and leave the halt as it is keep the invariant.
LEMMA QuietStep ==
    ASSUME IInv, Table', Quiet, UNCHANGED <<killed, latched, marker, halt>>,
           fromRisk' = fromRisk, proc' = "off" <=> proc = "off"
    PROVE  IInv' /\ Oms!Known' \subseteq Oms!Known
    BY DEF IInv, HaltFlags, HaltCancels, Quiet

\* A step that leaves the order table alone is quiet.
LEMMA UntouchedIsQuiet ==
    ASSUME Table, UNCHANGED <<intent, state, asked>>
    PROVE  Table' /\ Quiet
    BY DEF Table, Quiet, Oms!Known, Oms!OpenOrders

\* A flatten sends the orders of the risk layer, and no others (app.py,
\* _flatten_all).
LEMMA FlattenStep ==
    ASSUME IInv, FlattenAll
    PROVE  IInv' /\ Oms!Known' \subseteq Oms!Known \cup fromRisk'
<1>1. /\ UNCHANGED <<killed, latched, marker, halt>>
      /\ proc' = "off" <=> proc = "off"
      /\ HaltFlags /\ Table /\ HaltCancels
    BY DEF FlattenAll, IInv
<1>2. HaltFlags'
    BY <1>1 DEF HaltFlags
<1>3. ASSUME NEW o \in OrderId, NEW i, Submit(o, i), fromRisk' = fromRisk \cup {o}
      PROVE  IInv' /\ Oms!Known' \subseteq Oms!Known \cup fromRisk'
    <2>1. /\ Table' /\ asked' = asked
          /\ \A p \in OrderId \ {o} : UNCHANGED <<intent[p], state[p]>>
        BY <1>1, <1>3, SubmitEffect
    <2>2. \A p \in Oms!OpenOrders' \ fromRisk' : p \in Oms!OpenOrders
        BY <1>3, <2>1 DEF Oms!OpenOrders, Oms!Known
    <2>3. HaltCancels'
        BY <1>1, <1>3, <2>1, <2>2 DEF HaltCancels
    <2>4. QED
        BY <1>2, <1>3, <2>1, <2>3 DEF IInv, Oms!Known
<1>4. CASE UNCHANGED <<bookVars, fromRisk>>
    BY <1>1, <1>4, UntouchedIsQuiet, QuietStep DEF bookVars, omsVars
<1>5. QED
    BY <1>3, <1>4 DEF FlattenAll

\* A bar places an order only if the session is not halted: the latch is read
\* in the step that submits (app.py, _process_bar).
LEMMA BarStep ==
    ASSUME IInv, OnBar
    PROVE  IInv' /\ (Oms!Known' \subseteq Oms!Known \/ ~killed)
<1>1. /\ HaltFlags /\ Table /\ HaltCancels
      /\ proc # "off" /\ proc' = proc /\ fromRisk' = fromRisk
    BY DEF OnBar, IInv, Idle
<1>2. CASE UNCHANGED <<bookVars, haltVars>>
    BY <1>1, <1>2, UntouchedIsQuiet, QuietStep DEF bookVars, omsVars, haltVars
<1>3. CASE Halted
    BY <1>1, <1>3, HaltedEffect
<1>4. ASSUME NEW i \in Signals, Route(i), UNCHANGED haltVars
      PROVE  IInv' /\ (Oms!Known' \subseteq Oms!Known \/ ~killed)
    <2>1. i.source = "strategy"
        BY DEF Signals, Entry, Exit
    <2>2. CASE UNCHANGED bookVars
        BY <1>2, <1>4, <2>2
    <2>3. ASSUME NEW o \in OrderId, Submit(o, i),
                 Risk!Approves(killed, i, position, Prices')
          PROVE  IInv' /\ ~killed
        <3>1. ~killed
            BY <2>1, <2>3 DEF Risk!Approves
        <3>2. Table' /\ UNCHANGED <<killed, latched, marker, halt>>
            BY <1>1, <1>4, <2>3, SubmitEffect DEF haltVars
        <3>3. QED
            BY <1>1, <3>1, <3>2 DEF IInv, HaltFlags, HaltCancels
    <2>4. QED
        BY <1>4, <2>2, <2>3 DEF Route
<1>5. QED
    BY <1>2, <1>3, <1>4 DEF OnBar

\* A process that is gone knows no orders.
LEMMA GoneStep ==
    ASSUME IInv, Gone
    PROVE  IInv' /\ Oms!Known' = {}
<1>1. /\ ~killed' /\ ~latched' /\ proc' = "off" /\ UNCHANGED <<marker, halt>>
      /\ intent' = [o \in OrderId |-> NoIntent]
      /\ state' = [o \in OrderId |-> "CREATED"]
    BY DEF Gone, Session!Restart
<1>2. Oms!Known' = {}
    BY <1>1 DEF Oms!Known
<1>3. QED
    BY <1>1, <1>2 DEF IInv, HaltFlags, Table, HaltCancels, Oms!OrderStates

\* A reconcile that finds a discrepancy halts; it places nothing (app.py,
\* _reconcile_broker_state).
LEMMA ReconcileStep ==
    ASSUME IInv, Reconcile
    PROVE  IInv' /\ Oms!Known' \subseteq Oms!Known
<1>1. /\ HaltFlags /\ Table /\ HaltCancels
      /\ proc # "off" /\ proc' = proc /\ fromRisk' = fromRisk
    BY DEF Reconcile, IInv, Idle
<1>2. CASE Halted
    BY <1>1, <1>2, HaltedEffect
<1>3. CASE UNCHANGED <<intent, state, asked, haltVars>>
    BY <1>1, <1>3, UntouchedIsQuiet, QuietStep DEF haltVars
<1>4. QED
    BY <1>2, <1>3 DEF Reconcile, Oms!SeedPosition, bookVars, omsVars

\* A shutdown cancels and places nothing.
LEMMA ShutdownStep ==
    ASSUME IInv, ShutdownBegins
    PROVE  IInv' /\ Oms!Known' \subseteq Oms!Known
<1>1. /\ Table /\ proc # "off" /\ proc' # "off" /\ fromRisk' = fromRisk
      /\ UNCHANGED <<killed, latched, marker, halt>>
      /\ Oms!CancelAll \/ UNCHANGED <<intent, state, asked>>
    BY DEF ShutdownBegins, IInv, Idle, haltVars, bookVars, omsVars
<1>2. Table' /\ Quiet
    BY <1>1, CancelAllEffect, UntouchedIsQuiet
<1>3. QED
    BY <1>1, <1>2, QuietStep

\* Everything else leaves the orders and the halt alone.
LEMMA OtherSteps ==
    ASSUME IInv, Broker \/ LinkLost \/ Connect \/ CancelStrays \/ ShutdownFlattens
                 \/ UNCHANGED vars
    PROVE  IInv' /\ Oms!Known' \subseteq Oms!Known
<1>1. UNCHANGED <<intent, state, asked, killed, latched, marker, halt, proc, fromRisk>>
    BY DEF Broker, Execute, BrokerEnds, StrayFills, Oms!BrokerExecute, Oms!BrokerCancel,
           Oms!BrokerReject, Oms!omsVars, LinkLost, Connect, CancelStrays, ShutdownFlattens,
           vars, bookVars, omsVars, haltVars
<1>2. QED
    BY <1>1 DEF IInv, HaltFlags, Table, HaltCancels, Oms!Known, Oms!OpenOrders

\* Between two processes the kill file decides whether one may start.
LEMMA BetweenSteps ==
    ASSUME IInv, Start \/ OperatorResets
    PROVE  IInv' /\ Oms!Known' \subseteq Oms!Known
<1>1. /\ proc = "off" /\ UNCHANGED <<intent, state, asked, killed, latched, fromRisk>>
      /\ \/ proc' = "off" /\ halt' = "none"
         \/ ~marker /\ UNCHANGED <<marker, halt>>
    BY DEF Start, OperatorResets, bookVars, omsVars, haltVars
<1>2. Table' /\ Quiet
    BY <1>1, UntouchedIsQuiet DEF IInv
<1>3. QED
    BY <1>1, <1>2 DEF IInv, HaltFlags, HaltCancels, Quiet

\* Every step keeps the invariant; one that makes an order known is one of the
\* risk layer, or a bar of a session that is not halted.
LEMMA NextStep ==
    ASSUME IInv, [Next]_vars
    PROVE  /\ IInv'
           /\ \/ Oms!Known' \subseteq Oms!Known \cup fromRisk'
              \/ ~killed /\ halt # "saved"
<1>1. CASE FlattenAll
    BY <1>1, FlattenStep
<1>2. CASE OnBar
    <2>1. proc # "off" /\ HaltFlags
        BY <1>2 DEF OnBar, Idle, IInv
    <2>2. QED
        BY <1>2, <2>1, BarStep DEF HaltFlags
<1>3. CASE Stop \/ Crash
    BY <1>3, GoneStep DEF Stop, Crash
<1>4. CASE Reconcile
    BY <1>4, ReconcileStep
<1>5. CASE ShutdownBegins
    BY <1>5, ShutdownStep
<1>6. CASE Start \/ OperatorResets
    BY <1>6, BetweenSteps
<1>7. CASE Relay
    <2>1. /\ Table' /\ Quiet
          /\ UNCHANGED <<killed, latched, marker, halt, proc, fromRisk>>
        BY <1>7, RelayEffect DEF IInv, Relay, haltVars
    <2>2. QED
        BY <2>1, QuietStep
<1>8. CASE EquityBreached
    <2>1. /\ Table /\ HaltFlags /\ HaltCancels /\ Halted
          /\ proc # "off" /\ proc' = proc /\ fromRisk' = fromRisk
        BY <1>8 DEF EquityBreached, Idle, IInv
    <2>2. QED
        BY <2>1, HaltedEffect
<1>9. CASE Broker \/ LinkLost \/ Connect \/ CancelStrays \/ ShutdownFlattens \/ UNCHANGED vars
    BY <1>9, OtherSteps
<1>10. QED
    BY <1>1, <1>2, <1>3, <1>4, <1>5, <1>6, <1>7, <1>8, <1>9 DEF Next, Life

\* The invariant holds throughout.
LEMMA SpecIInv == Spec => []IInv
<1>1. IInv /\ [Next]_vars => IInv'
    BY NextStep
<1>2. QED
    BY InitIInv, <1>1, PTL DEF Spec

----------------------------------------------------------------------------
(* Theorems. *)

(***************************************************************************)
(* From the moment the kill switch fires no step of that process places an *)
(* order but the flatten orders of the risk layer; and if the write of the *)
(* kill file returned, no later process does either until an operator      *)
(* removes it, through restarts, reconnects and late fills (app.py,        *)
(* _kill_switch_fired and _process_bar; killfile.py, write_kill_marker).   *)
(***************************************************************************)
THEOREM HaltPlacesNothing == Spec => HaltHolds
<1>1. ASSUME IInv, [Next]_vars
      PROVE  \A o \in OrderId :
                intent[o] = NoIntent /\ intent'[o] # NoIntent /\ o \notin fromRisk'
                => ~killed /\ halt # "saved"
    BY <1>1, NextStep DEF Oms!Known
<1>2. IInv /\ [Next]_vars =>
        [\A o \in OrderId :
            intent[o] = NoIntent /\ intent'[o] # NoIntent /\ o \notin fromRisk'
            => ~killed /\ halt # "saved"]_vars
    BY <1>1
<1>3. QED
    BY <1>2, SpecIInv, PTL DEF Spec, HaltHolds

(***************************************************************************)
(* Every order that is open while the session is halted, partly filled or  *)
(* not, was asked to cancel, but for the flatten orders of the risk layer  *)
(* (app.py, _kill_switch_fired; oms.py, cancel_all).                       *)
(***************************************************************************)
THEOREM HaltLeavesNothingWorking == Spec => []HaltCancels
<1>1. IInv => HaltCancels
    BY DEF IInv
<1>2. QED
    BY <1>1, SpecIInv, PTL

----------------------------------------------------------------------------
(* The ledger and the account: nothing but the comparison of positions     *)
(* leads to a compared connection, and on one every execution is in the    *)
(* ledger or unheard of.                                                   *)

\* A subscription is as alive as its socket, and a set-up waits for an answer
\* only while there is one to give it.
LinkInv ==
    /\ link \in {"down", "syncing", "up", "half"}
    /\ holder \in {"none", "supervisor", "monitor"}
    /\ (holder = "none") <=> (step = "idle")
    /\ holder = "supervisor" => supervisor = "setup"
    /\ bars \in Session!Lists \cup {"none"}
    /\ bars \in {"live", "silent"} => link # "down"
    /\ bars = "dead" => link = "down" /\ supervisor # "connecting"
    /\ trading => bars # "none"
    /\ link = "down" => step \in {"idle", "broken"}
    /\ link = "syncing" => supervisor = "connecting"
    /\ supervisor = "connecting" => link \in {"down", "syncing"}

\* The positions were compared on this connection.
Compared ==
    \/ trading /\ link # "down" /\ bars # "orphaned"
    \/ step \in {"orders", "bars"}

\* What the tasks and the socket do on their own, but for the comparison.
SessionMoves ==
    \/ Session!Drop \/ Session!SyncFails \/ Session!HeartForces
    \/ Session!Dial \/ Session!Synced \/ Session!Resume \/ Session!Lost
    \/ Session!Stall \/ Session!HeartNotices \/ Session!MonitorRetries
    \/ \E p \in {"supervisor", "monitor"} : Session!Enter(p)
    \/ Session!Qualified \/ Session!EquityRead \/ Session!OrdersRead
    \/ Session!Subscribed \/ Session!SubscribedToNothing \/ Session!SetupFails
    \/ Session!BarCompletes

\* Nothing but the comparison itself leads to a compared connection.
LEMMA SessionStep ==
  ASSUME LinkInv, SessionMoves
  PROVE  LinkInv' /\ (Compared' => Compared)
  <1> USE DEF LinkInv, Compared, Session!Lists, Session!setupVars, Session!barVars
  <1>1. CASE Session!Drop
    BY <1>1 DEF Session!Drop, Session!LoseLink
  <1>2. CASE Session!SyncFails
    BY <1>2 DEF Session!SyncFails, Session!LoseLink
  <1>3. CASE Session!HeartForces
    BY <1>3 DEF Session!HeartForces, Session!LoseLink
  <1>4. CASE Session!Dial
    BY <1>4 DEF Session!Dial, Session!Runnable
  <1>5. CASE Session!Synced \/ Session!Resume \/ Session!Stall \/ Session!HeartNotices
    BY <1>5 DEF Session!Synced, Session!Resume, Session!Stall, Session!HeartNotices
  <1>6. CASE Session!Lost
    BY <1>6 DEF Session!Lost
  <1>7. CASE Session!MonitorRetries
    BY <1>7 DEF Session!MonitorRetries
  <1>8. ASSUME NEW p \in {"supervisor", "monitor"}, Session!Enter(p)
        PROVE  LinkInv' /\ (Compared' => Compared)
    BY <1>8 DEF Session!Enter, Session!Begin, Session!Return, Session!Waiting, Session!IsConnected
  <1>9. CASE Session!Qualified \/ Session!EquityRead \/ Session!OrdersRead
    BY <1>9 DEF Session!Qualified, Session!EquityRead, Session!OrdersRead, Session!Answered,
                Session!Answering
  <1>10. CASE Session!Subscribed \/ Session!SubscribedToNothing
    <2>1. step = "bars" /\ link # "down" /\ holder # "none"
      BY <1>10 DEF Session!Subscribed, Session!SubscribedToNothing
    <2>2. /\ link' = link /\ holder' = "none" /\ step' = "idle"
          /\ bars' \in {"live", "silent"} \/ (bars' = bars /\ bars # "none")
      BY <1>10 DEF Session!Subscribed, Session!SubscribedToNothing, Session!Return
    <2>3. supervisor' = supervisor \/ (supervisor = "setup" /\ supervisor' = "watching")
      BY <1>10 DEF Session!Subscribed, Session!SubscribedToNothing, Session!Return
    <2> QED
      BY <2>1, <2>2, <2>3
  <1>11. CASE Session!SetupFails
    BY <1>11 DEF Session!SetupFails, Session!Return
  <1>12. CASE Session!BarCompletes
    BY <1>12 DEF Session!BarCompletes
  <1> QED
    BY <1>1, <1>2, <1>3, <1>4, <1>5, <1>6, <1>7, <1>8, <1>9, <1>10, <1>11, <1>12 DEF SessionMoves

\* The comparison needs an answer, which a socket that is down does not give.
LEMMA ComparisonStep ==
  ASSUME LinkInv, Session!PositionsRead
  PROVE  LinkInv'
  BY DEF LinkInv, Session!PositionsRead, Session!Answered, Session!Answering, Session!barVars

\* The net quantity of the executions E.
NetOf(E, ex, it) == SumFunction([e \in E |-> it[ex[e].order].side * ex[e].quantity])

\* The two agree, up to reports on their way and what no comparison saw.
Matched == account = position[Contract] + NetOf(Unheard, execs, intent) + blind

IntentOf(o) == intent[o] \in [symbol : {Contract}, side : {1, -1}, quantity : Int]

\* The ledger, the orders and the executions refer to each other.
Books ==
    /\ account \in Int /\ blind \in Int
    /\ position \in [Symbols -> Int]
    /\ \A s \in Symbols : s # Contract => position[s] = 0
    /\ filled \in [OrderId -> Int]
    /\ \A o \in Oms!Known : IntentOf(o)
    /\ execs \in [ExecId -> [order : OrderId, symbol : {Contract}, quantity : 1..MaxQty] \cup {NoExec}]
    /\ \A e \in Happened : execs[e].order \in Oms!Known
    /\ live \subseteq Oms!Known
    /\ seen \subseteq Happened /\ missed \subseteq Happened
    /\ IsFiniteSet(Happened) /\ IsFiniteSet(Oms!Known)

LedgerInv == IInv /\ Books /\ LinkInv /\ (Compared => Matched)

\* The symbol of the session is one of the ledger's.
LEMMA SymIn == Contract \in Symbols
  BY DeskAssumption

\* The executions not yet reported are those of orders with a direction.
LEMMA UnheardQuantities ==
  ASSUME Books
  PROVE  /\ IsFiniteSet(Unheard)
         /\ [e \in Unheard |-> intent[execs[e].order].side * execs[e].quantity] \in [Unheard -> Int]
         /\ \A e \in Happened :
                /\ execs[e] \in [order : OrderId, symbol : {Contract}, quantity : 1..MaxQty]
                /\ execs[e].quantity \in Int /\ execs[e].quantity > 0
                /\ intent[execs[e].order].side \in {1, -1}
                /\ intent[execs[e].order].symbol = Contract
                /\ intent[execs[e].order].side * execs[e].quantity \in Int
  <1>1. IsFiniteSet(Unheard)
    BY FS_Subset DEF Books, Unheard
  <1>2. ASSUME NEW e \in Happened
        PROVE  /\ execs[e] \in [order : OrderId, symbol : {Contract}, quantity : 1..MaxQty]
               /\ execs[e].quantity \in Int /\ execs[e].quantity > 0
               /\ intent[execs[e].order].side \in {1, -1}
               /\ intent[execs[e].order].symbol = Contract
               /\ intent[execs[e].order].side * execs[e].quantity \in Int
    <2>1. e \in ExecId /\ execs[e] # NoExec
      BY DEF Happened
    <2>2. execs[e] \in [order : OrderId, symbol : {Contract}, quantity : 1..MaxQty]
      BY <2>1 DEF Books
    <2>3. intent[execs[e].order] \in [symbol : {Contract}, side : {1, -1}, quantity : Int]
      BY DEF Books, IntentOf
    <2> DEFINE q == execs[e].quantity
               d == intent[execs[e].order].side
    <2>4. q \in 1..MaxQty
      BY <2>2
    <2>5. d \in {1, -1} /\ intent[execs[e].order].symbol = Contract
      BY <2>3
    <2>6. q \in Int /\ q > 0
      BY <2>4
    <2>7. d * q \in Int
      BY <2>5, <2>6
    <2> QED
      BY <2>2, <2>5, <2>6, <2>7
  <1>3. Unheard \subseteq Happened
    BY DEF Unheard
  <1> QED
    BY <1>1, <1>2, <1>3

\* Their sum is a quantity.
LEMMA NetIsInt ==
  ASSUME Books
  PROVE  NetOf(Unheard, execs, intent) \in Int
  BY UnheardQuantities, SumFunctionType DEF NetOf

\* What the two compare changes only with the books.
SameBooks == UNCHANGED <<account, blind, position, filled, intent, execs, seen, missed>>

\* A step that touches neither fills nor intents keeps them in agreement.
LEMMA BooksUntouched ==
  ASSUME Books, SameBooks, live' \subseteq live
  PROVE  Books' /\ (Matched => Matched')
  <1>1. Happened' = Happened /\ Oms!Known' = Oms!Known /\ Unheard' = Unheard
    BY DEF SameBooks, Happened, Oms!Known, Unheard
  <1>2. Books'
    BY <1>1 DEF Books, SameBooks, IntentOf
  <1>3. Matched => Matched'
    BY <1>1 DEF Matched, SameBooks
  <1> QED
    BY <1>2, <1>3

\* A new order carries no execution yet: it changes no sum (oms.py, submit).
LEMMA SubmitKeepsBooks ==
  ASSUME Table, Books, NEW o \in OrderId, NEW i, Submit(o, i),
         i.symbol = Contract, i.side \in {1, -1}, i.quantity \in Int,
         UNCHANGED <<account, blind, missed>>
  PROVE  Books' /\ (Matched => Matched')
  <1>1. /\ ToOms(i) \in [symbol : {Contract}, side : {1, -1}, quantity : Int]
        /\ ToOms(i) # NoIntent
    <2>1. ToOms(i) \in [symbol : {Contract}, side : {1, -1}, quantity : Int]
      BY DEF ToOms
    <2>2. ToOms(i) \in [symbol : Symbols, side : {1, -1}, quantity : Int]
      BY <2>1, SymIn
    <2> QED
      BY <2>1, <2>2, DeskAssumption
  <1>2. /\ o \notin Oms!Known /\ intent' = [intent EXCEPT ![o] = ToOms(i)]
        /\ UNCHANGED <<filled, position, seen, execs>>
        /\ live' \subseteq live \cup {o}
    BY DEF Submit, Oms!Submit, Oms!SubmitFails, Oms!brokerVars
  <1>3. /\ intent'[o] = ToOms(i)
        /\ \A p \in OrderId \ {o} : intent'[p] = intent[p]
        /\ \A p \in Oms!Known : intent'[p] = intent[p]
    BY <1>2 DEF Table, Oms!Known
  <1>4. Oms!Known' = Oms!Known \cup {o}
    BY <1>1, <1>3 DEF Oms!Known
  <1>5. Happened' = Happened /\ Unheard' = Unheard
    BY <1>2 DEF Happened, Unheard
  <1>6. \A e \in Unheard : intent'[execs[e].order] = intent[execs[e].order]
    BY <1>3 DEF Unheard, Books
  <1>7. NetOf(Unheard, execs, intent') = NetOf(Unheard, execs, intent)
    BY <1>6 DEF NetOf
  <1>8. IsFiniteSet(Oms!Known')
    BY <1>4, FS_AddElement DEF Books
  <1>9. \A p \in Oms!Known' : IntentOf(p)'
    BY <1>1, <1>3, <1>4 DEF Books, IntentOf
  <1>10. Books'
    BY <1>2, <1>4, <1>5, <1>8, <1>9 DEF Books
  <1>11. Matched => Matched'
    BY <1>2, <1>5, <1>7 DEF Matched
  <1> QED
    BY <1>10, <1>11

\* A halt cancels; it moves no money (app.py, _kill_switch_fired).
LEMMA HaltedKeepsBooks ==
  ASSUME Books, Halted, UNCHANGED <<account, blind, missed>>
  PROVE  Books' /\ (Matched => Matched')
  <1>1. UNCHANGED <<position, filled, intent, execs, seen, live>>
    BY DEF Halted, Oms!CancelAll, Oms!CancelEach, bookVars, omsVars
  <1> QED
    BY <1>1, BooksUntouched DEF SameBooks

\* An execution on a live connection moves the account and is on its way; on a
\* dead one it is missed, and nothing is compared (app.py, _on_trade_fill).
LEMMA ExecuteKeepsBooks ==
  ASSUME Books, NEW e \in ExecId, NEW o \in OrderId, NEW q \in 1..MaxQty, Execute(e, o, q)
  PROVE  Books' /\ (Matched /\ link # "down" => Matched')
  <1>1. /\ execs[e] = NoExec /\ o \in live
        /\ execs' = [execs EXCEPT ![e] = [order |-> o, symbol |-> Contract, quantity |-> q]]
        /\ live' \subseteq live
        /\ UNCHANGED <<intent, filled, position, seen, blind>>
        /\ account' = account + intent[o].side * q
        /\ missed' = IF link # "down" THEN missed ELSE missed \cup {e}
    BY DEF Execute, Oms!BrokerExecute, Oms!omsVars, extVars, Session!IsConnected
  <1>2. /\ execs'[e] = [order |-> o, symbol |-> Contract, quantity |-> q]
        /\ execs'[e] \in [order : OrderId, symbol : {Contract}, quantity : 1..MaxQty]
        /\ execs'[e] # NoExec
        /\ \A x \in ExecId \ {e} : execs'[x] = execs[x]
    BY <1>1, DeskAssumption DEF Books
  <1>3. e \notin Happened /\ Happened' = Happened \cup {e}
    BY <1>1, <1>2 DEF Happened
  <1>4. Oms!Known' = Oms!Known /\ o \in Oms!Known
    BY <1>1 DEF Books, Oms!Known
  <1>5. IsFiniteSet(Happened')
    BY <1>3, FS_AddElement DEF Books
  <1>6. intent[o].side \in {1, -1} /\ q \in Int
    BY <1>4 DEF Books, IntentOf
  <1>7. intent[o].side * q \in Int
    BY <1>6
  <1>8. account' \in Int
    BY <1>1, <1>7 DEF Books
  <1>9. execs' \in [ExecId -> [order : OrderId, symbol : {Contract}, quantity : 1..MaxQty] \cup {NoExec}]
    BY <1>1, <1>2 DEF Books
  <1>10. \A x \in Happened' : execs'[x].order \in Oms!Known'
    BY <1>2, <1>3, <1>4 DEF Books, Happened
  <1>11. seen' \subseteq Happened' /\ missed' \subseteq Happened'
    BY <1>1, <1>3 DEF Books
  <1>12. Books'
    BY <1>1, <1>4, <1>5, <1>8, <1>9, <1>10, <1>11 DEF Books, IntentOf
  <1>13. ASSUME Matched, link # "down"
         PROVE  Matched'
    <2>1. e \notin Unheard /\ Unheard' = Unheard \cup {e}
      BY <1>1, <1>3, <1>13 DEF Unheard, Books
    <2> DEFINE f == [x \in Unheard |-> intent[execs[x].order].side * execs[x].quantity]
               g == [x \in Unheard' |-> intent[execs'[x].order].side * execs'[x].quantity]
    <2>2. f \in [Unheard -> Int] /\ IsFiniteSet(Unheard)
      BY UnheardQuantities
    <2>3. \A x \in Unheard : g[x] = f[x]
      BY <1>2, <1>3, <2>1 DEF Unheard, Happened
    <2>4. g[e] = intent[o].side * q
      BY <1>2, <2>1
    <2>5. g \in [Unheard' -> Int] /\ IsFiniteSet(Unheard')
      <3>1. \A x \in Unheard' : g[x] \in Int
        BY <1>7, <2>1, <2>2, <2>3, <2>4
      <3>2. IsFiniteSet(Unheard')
        BY <2>1, <2>2, FS_AddElement
      <3> HIDE DEF f
      <3> QED
        BY <3>1, <3>2
    <2>6. Unheard \ {e} = Unheard' \ {e} /\ \A x \in Unheard \ {e} : f[x] = g[x]
      BY <2>1, <2>3
    <2>7. SumFunction(g) = SumFunction(f) - (IF e \in Unheard THEN f[e] ELSE 0)
                                          + (IF e \in Unheard' THEN g[e] ELSE 0)
      <3> HIDE DEF f, g
      <3> QED
        BY <2>2, <2>5, <2>6, SumChangesAt
    <2>8. SumFunction(f) \in Int
      BY NetIsInt DEF NetOf
    <2>9. SumFunction(g) = SumFunction(f) + intent[o].side * q
      <3> HIDE DEF f, g
      <3> QED
        BY <1>7, <2>1, <2>4, <2>7, <2>8
    <2>10. /\ NetOf(Unheard, execs, intent) = SumFunction(f)
           /\ NetOf(Unheard', execs', intent') = SumFunction(g)
      BY <1>1 DEF NetOf
    <2>11. position[Contract] \in Int /\ account \in Int /\ blind \in Int
      BY SymIn DEF Books
    <2>12. account' = position'[Contract] + NetOf(Unheard', execs', intent') + blind'
      <3> HIDE DEF f, g
      <3> DEFINE m == intent[o].side * q
      <3>1. m \in Int /\ account' = account + m
        BY <1>1, <1>7
      <3>2. account = position[Contract] + SumFunction(f) + blind
        BY <1>13, <2>10 DEF Matched
      <3>3. SumFunction(g) = SumFunction(f) + m
        BY <2>9
      <3> HIDE DEF m
      <3> QED
        BY <1>1, <2>8, <2>10, <2>11, <3>1, <3>2, <3>3
    <2> QED
      BY <2>12 DEF Matched
  <1> QED
    BY <1>12, <1>13

\* A reported execution leaves the ones on their way for the ledger, with the
\* sign of its order, whatever sign the report had (oms.py, on_fill).
LEMMA FillKeepsBooks ==
  ASSUME Books, NEW e \in Happened \ missed, Oms!OnFill(e, SignedExec(e)),
         UNCHANGED <<account, blind, missed>>
  PROVE  Books' /\ (Matched => Matched')
  <1> DEFINE o == execs[e].order
             m == SignedExec(e)
             qty == Oms!AbsQty(m)
  <1>1. /\ e \notin seen /\ o \in Oms!OpenOrders
        /\ seen' = seen \cup ({e} \ {})
        /\ filled' = [filled EXCEPT ![o] = @ + qty]
        /\ position' = [position EXCEPT ![execs[e].symbol] = @ + Oms!Signed(o, qty)]
        /\ UNCHANGED <<intent, live, execs>>
    BY DEF Oms!OnFill, Oms!Accepts, Oms!brokerVars
  <1>2. /\ execs[e].quantity \in Int /\ execs[e].quantity > 0
        /\ intent[o].side \in {1, -1} /\ execs[e].symbol = Contract
    BY UnheardQuantities
  <1>3. m \in Int /\ qty \in Int /\ Oms!Signed(o, qty) = m
    <2>1. m = execs[e].quantity \/ m = -execs[e].quantity
      BY <1>2 DEF SignedExec
    <2>2. CASE intent[o].side = 1
      <3>1. m = execs[e].quantity
        BY <1>2, <2>2 DEF SignedExec
      <3> QED
        BY <1>2, <2>2, <3>1 DEF Oms!AbsQty, Oms!Signed
    <2>3. CASE intent[o].side = -1
      <3>1. m = -execs[e].quantity
        BY <1>2, <2>3 DEF SignedExec
      <3> QED
        BY <1>2, <2>3, <3>1 DEF Oms!AbsQty, Oms!Signed
    <2> QED
      BY <1>2, <2>2, <2>3
  <1>4. /\ position'[Contract] = position[Contract] + m
        /\ position' \in [Symbols -> Int]
        /\ \A s \in Symbols : s # Contract => position'[s] = 0
    <2> HIDE DEF m, qty, o
    <2> QED
      BY <1>1, <1>2, <1>3, SymIn DEF Books
  <1>5. filled' \in [OrderId -> Int]
    <2>1. o \in OrderId
      BY <1>1 DEF Oms!OpenOrders, Oms!Known
    <2>2. filled \in [OrderId -> Int] /\ filled' = [filled EXCEPT ![o] = @ + qty]
      BY <1>1 DEF Books
    <2> HIDE DEF m, qty, o
    <2> QED
      BY <1>3, <2>1, <2>2
  <1>6. Happened' = Happened /\ Oms!Known' = Oms!Known
    BY <1>1 DEF Happened, Oms!Known
  <1>7. Books'
    <2> HIDE DEF m, qty, o
    <2> QED
      BY <1>1, <1>4, <1>5, <1>6 DEF Books, IntentOf
  <1>8. ASSUME Matched PROVE Matched'
    <2>1. e \in Unheard /\ Unheard' = Unheard \ {e}
      BY <1>1, <1>6 DEF Unheard
    <2> DEFINE f == [x \in Unheard |-> intent[execs[x].order].side * execs[x].quantity]
               g == [x \in Unheard \ {e} |-> intent[execs[x].order].side * execs[x].quantity]
    <2>2. f \in [Unheard -> Int] /\ IsFiniteSet(Unheard) /\ IsFiniteSet(Unheard \ {e})
      BY UnheardQuantities, FS_Subset
    <2>3. g \in [Unheard \ {e} -> Int] /\ \A x \in Unheard \ {e} : f[x] = g[x]
      BY <2>2
    <2>4. f[e] = m
      BY <2>1 DEF SignedExec
    <2>5. Unheard \ {e} = (Unheard \ {e}) \ {e}
      OBVIOUS
    <2>6. SumFunction(g) = SumFunction(f) - (IF e \in Unheard THEN f[e] ELSE 0)
                                + (IF e \in Unheard \ {e} THEN g[e] ELSE 0)
      <3> HIDE DEF f, g
      <3> QED
        BY <2>2, <2>3, <2>5, SumChangesAt
    <2>7. SumFunction(f) \in Int
      BY NetIsInt DEF NetOf
    <2>8. SumFunction(g) = SumFunction(f) - m
      <3> HIDE DEF f, g, m
      <3> QED
        BY <1>3, <2>1, <2>4, <2>6, <2>7
    <2>9. /\ NetOf(Unheard, execs, intent) = SumFunction(f)
          /\ NetOf(Unheard', execs', intent') = SumFunction(g)
      BY <1>1, <2>1 DEF NetOf
    <2>10. position[Contract] \in Int /\ account \in Int /\ blind \in Int
      BY SymIn DEF Books
    <2>11. account' = position'[Contract] + NetOf(Unheard', execs', intent') + blind'
      <3> HIDE DEF f, g, m
      <3>1. account = position[Contract] + SumFunction(f) + blind
        BY <1>8, <2>9 DEF Matched
      <3> QED
        BY <1>3, <1>4, <2>7, <2>8, <2>9, <2>10, <3>1
    <2> QED
      BY <2>11 DEF Matched
  <1> QED
    BY <1>7, <1>8

\* Units an earlier process left working move the account behind the ledger's
\* back: the comparison of positions could not see them either (app.py,
\* _reconcile_broker_state).
LEMMA StraysKeepBooks ==
  ASSUME Books, StrayFills(1) \/ StrayFills(-1) \/ CancelStrays
  PROVE  Books' /\ (Matched => Matched')
  <1>1. /\ UNCHANGED <<position, filled, intent, execs, seen, missed, live>>
        /\ \E m \in Int : account' = account + m /\ blind' = blind + m
    <2>1. CASE StrayFills(1)
      BY <2>1 DEF StrayFills, bookVars, omsVars
    <2>2. CASE StrayFills(-1)
      BY <2>2 DEF StrayFills, bookVars, omsVars
    <2>3. CASE CancelStrays
      <3>1. PICK up \in 0..stray[1], down \in 0..stray[-1] :
                account' = account + up - down /\ blind' = blind + up - down
        BY <2>3 DEF CancelStrays
      <3>2. up \in Int /\ down \in Int /\ account \in Int /\ blind \in Int
        BY DEF Books
      <3>3. account' = account + (up - down) /\ blind' = blind + (up - down)
        BY <3>1, <3>2
      <3>4. UNCHANGED <<position, filled, intent, execs, seen, missed, live>>
        BY <2>3 DEF CancelStrays, bookVars, omsVars
      <3>5. up - down \in Int
        BY <3>2
      <3> QED
        BY <3>3, <3>4, <3>5
    <2> QED
      BY <2>1, <2>2, <2>3
  <1>2. PICK m \in Int : account' = account + m /\ blind' = blind + m
    BY <1>1
  <1>3. Happened' = Happened /\ Oms!Known' = Oms!Known /\ Unheard' = Unheard
    BY <1>1 DEF Happened, Oms!Known, Unheard
  <1>4. Books'
    BY <1>1, <1>2, <1>3 DEF Books, IntentOf
  <1>5. ASSUME Matched PROVE Matched'
    <2> DEFINE n == NetOf(Unheard, execs, intent)
               p == position[Contract]
    <2>1. n \in Int /\ p \in Int /\ account \in Int /\ blind \in Int
      BY NetIsInt, SymIn DEF Books
    <2>2. account = p + n + blind
      BY <1>5 DEF Matched
    <2>3. NetOf(Unheard', execs', intent') = n /\ position'[Contract] = p
      BY <1>1, <1>3
    <2>4. account' = p + n + blind'
      <3> HIDE DEF n, p
      <3> QED
        BY <1>2, <2>1, <2>2
    <2> QED
      BY <2>3, <2>4 DEF Matched
  <1> QED
    BY <1>4, <1>5

\* The flatten of the only position submits an order of the session's symbol.
LEMMA FlattenKeepsBooks ==
  ASSUME Table, Books, FlattenAll
  PROVE  Books' /\ (Matched => Matched')
  <1>1. UNCHANGED <<account, blind, missed>>
    BY DEF FlattenAll, extVars
  <1>2. CASE UNCHANGED <<bookVars, fromRisk>>
    BY <1>1, <1>2, BooksUntouched DEF SameBooks, bookVars, omsVars
  <1>3. ASSUME NEW i \in Risk!FlattenIntents(position), NEW o \in OrderId, Submit(o, i)
        PROVE  Books' /\ (Matched => Matched')
    <2>1. PICK s \in {x \in DOMAIN position : position[x] # 0} :
            i = [symbol |-> s, side |-> IF position[s] > 0 THEN -1 ELSE 1,
                 quantity |-> Risk!AbsVal(position[s]), limit |-> 0, source |-> "risk"]
      BY DEF Risk!FlattenIntents
    <2>2. s \in Symbols /\ s = Contract /\ position[s] \in Int
      BY <2>1 DEF Books
    <2>3. Risk!AbsVal(position[s]) \in Int
      BY <2>2 DEF Risk!AbsVal
    <2>4. i.symbol = Contract /\ i.side \in {1, -1} /\ i.quantity \in Int
      BY <2>1, <2>2, <2>3
    <2> QED
      BY <1>1, <1>3, <2>4, SubmitKeepsBooks
  <1> QED
    BY <1>2, <1>3 DEF FlattenAll

\* A bar's order is of the session's symbol, and its quantity is the configured
\* one or the strategy's own position (app.py, _process_bar).
LEMMA BarKeepsBooks ==
  ASSUME Table, Books, OnBar
  PROVE  Books' /\ (Matched => Matched')
  <1>1. UNCHANGED <<account, blind, missed>>
    BY DEF OnBar, extVars
  <1>2. CASE UNCHANGED bookVars
    BY <1>1, <1>2, BooksUntouched DEF SameBooks, bookVars, omsVars
  <1>3. CASE Halted
    BY <1>1, <1>3, HaltedKeepsBooks
  <1>4. ASSUME NEW i \in Signals, NEW o \in OrderId, Submit(o, i)
        PROVE  Books' /\ (Matched => Matched')
    <2>1. Own \in Int
      <3> DEFINE K == Oms!Known \ fromRisk
                 f == [p \in K |-> Oms!SignedFill(p)]
      <3>1. IsFiniteSet(K)
        BY FS_Subset DEF Books
      <3>2. ASSUME NEW p \in K PROVE Oms!SignedFill(p) \in Int
        <4>1. filled[p] \in Int
          BY DEF Books, Oms!Known
        <4> QED
          BY <4>1 DEF Oms!SignedFill, Oms!Signed
      <3>3. f \in [K -> Int]
        BY <3>2
      <3>4. SumFunction(f) \in Int
        <4> HIDE DEF f, K
        <4> QED
          BY <3>1, <3>3, SumFunctionType
      <3> QED
        BY <3>4 DEF Own
    <2>2. OrderQuantity \in Int
      BY DeskAssumption
    <2>3. i.symbol = Contract /\ i.side \in {1, -1} /\ i.quantity \in Int
      BY <2>1, <2>2 DEF Signals, Entry, Exit
    <2> QED
      BY <1>1, <1>4, <2>3, SubmitKeepsBooks
  <1>5. ASSUME NEW i \in Signals, Route(i)
        PROVE  Books' /\ (Matched => Matched')
    BY <1>2, <1>4, <1>5 DEF Route
  <1> QED
    BY <1>2, <1>3, <1>5 DEF OnBar

\* The comparison of positions ends with the two in agreement: they were equal
\* but for what is on its way, or the account was imported into an empty ledger,
\* or trading is not resumed (app.py, _reconcile_broker_state).
LEMMA ReconcileKeepsLedger ==
  ASSUME Books, LinkInv, Compared => Matched, Reconcile
  PROVE  Books' /\ LinkInv' /\ (Compared' => Matched')
  <1> DEFINE n == NetOf(Unheard, execs, intent)
  <1>1. n \in Int /\ position[Contract] \in Int /\ account \in Int /\ blind \in Int /\ Contract \in Symbols
    BY NetIsInt, SymIn DEF Books
  <1>2. UNCHANGED <<account, missed>>
    BY DEF Reconcile
  <1>3. n = Net(Unheard)
    BY DEF Net, SignedExec, NetOf
  <1>4. ASSUME account = position[Contract], Session!PositionsRead, blind' = -Net(Unheard),
               UNCHANGED bookVars
        PROVE  Books' /\ LinkInv' /\ Matched'
    <2>1. UNCHANGED <<position, filled, intent, execs, seen, live>>
      BY <1>4 DEF bookVars, omsVars
    <2>2. Happened' = Happened /\ Oms!Known' = Oms!Known /\ Unheard' = Unheard
      BY <1>2, <2>1 DEF Happened, Oms!Known, Unheard
    <2>3. blind' = -n
      BY <1>3, <1>4
    <2>4. Books'
      <3>1. blind' \in Int
        <4> HIDE DEF n
        <4> QED
          BY <1>1, <2>3
      <3> QED
        BY <1>2, <2>1, <2>2, <3>1 DEF Books, IntentOf
    <2>5. NetOf(Unheard', execs', intent') = n /\ position'[Contract] = position[Contract]
      BY <2>1, <2>2
    <2>6. account' = position'[Contract] + n + blind'
      <3> HIDE DEF n
      <3> QED
        BY <1>1, <1>2, <1>4, <2>3, <2>5
    <2>7. LinkInv'
      BY <1>4, ComparisonStep
    <2> QED
      BY <2>4, <2>5, <2>6, <2>7 DEF Matched
  <1>5. ASSUME Oms!Known = {}, Session!PositionsRead, Oms!SeedPosition(Contract, account), blind' = 0
        PROVE  Books' /\ LinkInv' /\ Matched'
    <2>1. /\ position' = [position EXCEPT ![Contract] = account]
          /\ UNCHANGED <<filled, intent, execs, seen, live>>
      BY <1>5 DEF Oms!SeedPosition, Oms!brokerVars
    <2>2. Happened = {}
      BY <1>5 DEF Books
    <2>3. Happened' = {} /\ Oms!Known' = {} /\ Unheard' = {}
      BY <1>5, <2>1, <2>2 DEF Happened, Oms!Known, Unheard
    <2>4. position' \in [Symbols -> Int] /\ position'[Contract] = account
          /\ \A s \in Symbols : s # Contract => position'[s] = 0
      BY <1>1, <2>1 DEF Books
    <2>5. Books'
      BY <1>1, <1>2, <1>5, <2>1, <2>2, <2>3, <2>4, FS_EmptySet DEF Books, IntentOf
    <2>6. NetOf({}, execs', intent') = 0
      <3> DEFINE f == [e \in {} |-> intent'[execs'[e].order].side * execs'[e].quantity]
      <3>1. f \in [{} -> Int] /\ IsFiniteSet({})
        BY FS_EmptySet
      <3>2. SumFunction(f) = 0
        <4> HIDE DEF f
        <4> QED
          BY <3>1, SumFunctionType
      <3> QED
        BY <3>2 DEF NetOf
    <2>7. Matched'
      BY <1>1, <1>2, <1>5, <2>3, <2>4, <2>6 DEF Matched
    <2>8. LinkInv'
      BY <1>5, ComparisonStep
    <2> QED
      BY <2>5, <2>7, <2>8
  <1>6. ASSUME Session!SetupFails, Halted, UNCHANGED blind
        PROVE  Books' /\ LinkInv' /\ (Compared' => Matched')
    <2>1. LinkInv' /\ (Compared' => Compared)
      BY <1>6, SessionStep DEF SessionMoves
    <2>2. Books' /\ (Matched => Matched')
      BY <1>2, <1>6, HaltedKeepsBooks
    <2> QED
      BY <2>1, <2>2
  <1> QED
    BY <1>4, <1>5, <1>6 DEF Reconcile

\* A process that is gone has compared nothing, and the next one starts from an
\* empty ledger.
LEMMA GoneKeepsLedger ==
  ASSUME Books, Gone
  PROVE  Books' /\ LinkInv' /\ ~Compared'
  <1>1. /\ intent' = [o \in OrderId |-> NoIntent]
        /\ filled' = [o \in OrderId |-> 0]
        /\ position' = [s \in Symbols |-> 0]
        /\ execs' = [e \in ExecId |-> NoExec]
        /\ seen' = {} /\ live' = {} /\ missed' = {} /\ blind' = 0 /\ account' = account
    BY DEF Gone
  <1>2. Happened' = {} /\ Oms!Known' = {}
    BY <1>1 DEF Happened, Oms!Known
  <1>3. Books'
    BY <1>1, <1>2, FS_EmptySet DEF Books, IntentOf
  <1>4. /\ link' = "down" /\ supervisor' = "connecting"
        /\ holder' = "none" /\ step' = "idle" /\ trading' = FALSE /\ bars' = "none"
    BY DEF Gone, Session!Restart
  <1> QED
    BY <1>3, <1>4 DEF LinkInv, Compared

\* A shutdown ends trading on its own terms: it cancels, and the monitor's
\* set-up with it (app.py, shutdown).
LEMMA ShutdownKeepsLedger ==
  ASSUME Books, LinkInv, Compared => Matched, ShutdownBegins
  PROVE  Books' /\ LinkInv' /\ (Compared' => Matched')
  <1>1. UNCHANGED <<account, blind, missed, position, filled, intent, execs, seen, live>>
    BY DEF ShutdownBegins, Oms!CancelAll, Oms!CancelEach, bookVars, omsVars, extVars
  <1>2. Books' /\ (Matched => Matched')
    BY <1>1, BooksUntouched DEF SameBooks
  <1>3. /\ trading' = FALSE /\ monitor' = "gone"
        /\ UNCHANGED <<link, supervisor, bars>>
        /\ \/ holder' = "none" /\ step' = "idle"
           \/ UNCHANGED <<holder, step>>
    BY DEF ShutdownBegins
  <1>4. LinkInv' /\ (Compared' => Compared)
    BY <1>3 DEF LinkInv, Compared
  <1> QED
    BY <1>2, <1>4

\* A lost link leaves nothing compared, whatever is then missed (app.py,
\* _on_disconnected).
LEMMA LostLinkKeepsLedger ==
  ASSUME Books, LinkInv, LinkLost
  PROVE  Books' /\ LinkInv' /\ ~Compared'
  <1>1. UNCHANGED <<account, blind, position, filled, intent, execs, seen, live>>
        /\ missed' = missed \cup (Happened \ seen)
    BY DEF LinkLost, Unreported, bookVars, omsVars, extVars
  <1>2. Happened' = Happened /\ Oms!Known' = Oms!Known
    BY <1>1 DEF Happened, Oms!Known
  <1>3. Books'
    BY <1>1, <1>2 DEF Books, IntentOf
  <1>4. LinkInv'
    BY SessionStep DEF LinkLost, SessionMoves
  <1>5. link' = "down"
    BY DEF LinkLost, Session!Drop, Session!SyncFails, Session!HeartForces, Session!LoseLink
  <1> QED
    BY <1>3, <1>4, <1>5 DEF LinkInv, Compared

\* A desk that is off has traded nothing.
LEMMA InitLedger == Init => LedgerInv
  <1> SUFFICES ASSUME Init PROVE LedgerInv
    OBVIOUS
  <1>1. /\ intent = [o \in OrderId |-> NoIntent] /\ filled = [o \in OrderId |-> 0]
        /\ position = [s \in Symbols |-> 0] /\ execs = [e \in ExecId |-> NoExec]
        /\ seen = {} /\ live = {} /\ missed = {} /\ blind = 0 /\ account \in SeedQty \cup {0}
    BY DEF Init, Oms!Init
  <1>2. Happened = {} /\ Oms!Known = {}
    BY <1>1 DEF Happened, Oms!Known
  <1>3. Books
    BY <1>1, <1>2, FS_EmptySet, DeskAssumption DEF Books, IntentOf
  <1>4. LinkInv /\ ~Compared
    BY DEF Init, Session!Init, Session!Fresh, LinkInv, Compared
  <1> QED
    BY <1>3, <1>4, InitIInv DEF LedgerInv

\* Every step keeps the ledger in agreement with the account, or leaves the
\* connection to be compared again.
LEMMA LedgerStep ==
  ASSUME LedgerInv, [Next]_vars
  PROVE  LedgerInv'
  <1>1. IInv /\ IInv' /\ Table
    BY NextStep DEF LedgerInv, IInv
  <1>2. Books /\ LinkInv /\ (Compared => Matched)
    BY DEF LedgerInv
  <1> SUFFICES Books' /\ LinkInv' /\ (Compared' => Matched')
    BY <1>1 DEF LedgerInv
  <1>3. ASSUME Books', Matched => Matched', UNCHANGED connVars
        PROVE  Books' /\ LinkInv' /\ (Compared' => Matched')
    <2>1. LinkInv' /\ (Compared' => Compared)
      BY <1>2, <1>3 DEF LinkInv, Compared, connVars
    <2> QED
      BY <1>2, <1>3, <2>1
  <1>4. CASE \E e \in ExecId, o \in OrderId, q \in 1..MaxQty : Execute(e, o, q)
    <2>1. PICK e \in ExecId, o \in OrderId, q \in 1..MaxQty : Execute(e, o, q)
      BY <1>4
    <2>2. Books' /\ (Matched /\ link # "down" => Matched')
      BY <1>2, <2>1, ExecuteKeepsBooks
    <2>3. UNCHANGED connVars
      BY <2>1 DEF Execute
    <2>4. LinkInv' /\ (Compared' => Compared)
      BY <1>2, <2>3 DEF LinkInv, Compared, connVars
    <2>5. Compared => link # "down"
      BY <1>2 DEF LinkInv, Compared
    <2> QED
      BY <1>2, <2>2, <2>4, <2>5
  <1>5. CASE \E o \in OrderId : BrokerEnds(o)
    <2>1. /\ UNCHANGED <<account, blind, position, filled, intent, execs, seen, missed, connVars>>
          /\ live' \subseteq live
      BY <1>5 DEF BrokerEnds, Oms!BrokerCancel, Oms!BrokerReject, Oms!omsVars, extVars
    <2> QED
      BY <1>2, <1>3, <2>1, BooksUntouched DEF SameBooks
  <1>6. CASE \E d \in Sides : StrayFills(d)
    <2>1. StrayFills(1) \/ StrayFills(-1)
      BY <1>6 DEF Sides
    <2>2. UNCHANGED connVars
      BY <2>1 DEF StrayFills
    <2> QED
      BY <1>2, <1>3, <2>1, <2>2, StraysKeepBooks
  <1>7. CASE CancelStrays
    <2>1. Books' /\ (Matched => Matched')
      BY <1>2, <1>7, StraysKeepBooks
    <2>2. LinkInv' /\ (Compared' => Compared)
      BY <1>2, <1>7, SessionStep DEF CancelStrays, SessionMoves
    <2> QED
      BY <1>2, <2>1, <2>2
  <1>8. CASE Relay
    <2>1. UNCHANGED <<account, blind, missed, connVars>>
      BY <1>8 DEF Relay, extVars
    <2>2. CASE \E o \in OrderId, status \in Oms!MappedStatus : Oms!OnOrderStatus(o, status)
      <3>1. UNCHANGED <<position, filled, intent, execs, seen, live>>
        BY <2>2 DEF Oms!OnOrderStatus, Oms!brokerVars
      <3> QED
        BY <1>2, <1>3, <2>1, <3>1, BooksUntouched DEF SameBooks
    <2>3. CASE \E e \in Happened \ missed : Oms!OnFill(e, SignedExec(e))
      BY <1>2, <1>3, <2>1, <2>3, FillKeepsBooks
    <2> QED
      BY <1>8, <2>2, <2>3 DEF Relay
  <1>9. CASE FlattenAll
    <2>1. UNCHANGED connVars
      BY <1>9 DEF FlattenAll
    <2> QED
      BY <1>1, <1>2, <1>3, <1>9, <2>1, FlattenKeepsBooks
  <1>10. CASE EquityBreached
    <2>1. Halted /\ UNCHANGED <<account, blind, missed, connVars>>
      BY <1>10 DEF EquityBreached, extVars
    <2> QED
      BY <1>2, <1>3, <2>1, HaltedKeepsBooks
  <1>11. CASE OnBar
    <2>1. Books' /\ (Matched => Matched')
      BY <1>1, <1>2, <1>11, BarKeepsBooks
    <2>2. LinkInv' /\ (Compared' => Compared)
      BY <1>2, <1>11, SessionStep DEF OnBar, SessionMoves
    <2> QED
      BY <1>2, <2>1, <2>2
  <1>12. CASE LinkLost
    BY <1>2, <1>12, LostLinkKeepsLedger
  <1>13. CASE Connect
    <2>1. LinkInv' /\ (Compared' => Compared)
      BY <1>2, <1>13, SessionStep DEF Connect, SessionMoves
    <2>2. Books' /\ (Matched => Matched')
      BY <1>2, <1>13, BooksUntouched DEF Connect, SameBooks, bookVars, omsVars, extVars
    <2> QED
      BY <1>2, <2>1, <2>2
  <1>14. CASE Reconcile
    BY <1>2, <1>14, ReconcileKeepsLedger
  <1>15. CASE ShutdownBegins
    BY <1>2, <1>15, ShutdownKeepsLedger
  <1>16. CASE ShutdownFlattens \/ Start \/ OperatorResets
    <2>1. UNCHANGED <<account, blind, position, filled, intent, execs, seen, missed, live, connVars>>
      BY <1>16 DEF ShutdownFlattens, Start, OperatorResets, bookVars, omsVars, extVars
    <2> QED
      BY <1>2, <1>3, <2>1, BooksUntouched DEF SameBooks
  <1>17. CASE Stop \/ Crash
    BY <1>2, <1>17, GoneKeepsLedger DEF Stop, Crash
  <1>18. CASE UNCHANGED vars
    <2>1. UNCHANGED <<account, blind, position, filled, intent, execs, seen, missed, live, connVars>>
      BY <1>18 DEF vars, bookVars, omsVars, extVars
    <2> QED
      BY <1>2, <1>3, <2>1, BooksUntouched DEF SameBooks
  <1> QED
    BY <1>4, <1>5, <1>6, <1>7, <1>8, <1>9, <1>10, <1>11, <1>12, <1>13, <1>14, <1>15, <1>16,
       <1>17, <1>18 DEF Next, Broker, Life

(***************************************************************************)
(* While the desk trades on a live connection, its ledger and the account  *)
(* differ only by reports on their way, by executions on_fill drops        *)
(* because their order was finished, and by what the last comparison of    *)
(* positions could not see, for any number of orders, fills, disconnects   *)
(* and restarts: a fill missed during an outage never slips through, but   *)
(* for a connection lost while it synchronised (app.py,                    *)
(* _reconcile_broker_state, _on_trade_fill; oms.py, on_fill;               *)
(* connection.py, _connect_with_backoff).                                  *)
(***************************************************************************)
THEOREM LedgerIsTrue == Spec => []LedgerTrue
  <1>1. LedgerInv /\ [Next]_vars => LedgerInv'
    BY LedgerStep
  <1>2. LedgerInv => LedgerTrue
    <2> SUFFICES ASSUME LedgerInv, trading, link = "up", bars # "orphaned"
                 PROVE  account = position[Contract] + Net(InFlight \cup Dropped) + blind
      BY DEF LedgerTrue
    <2>1. Matched
      BY DEF LedgerInv, Compared
    <2>2. InFlight \cup Dropped = Unheard
      BY DEF InFlight, Dropped
    <2>3. Net(Unheard) = NetOf(Unheard, execs, intent)
      BY DEF Net, SignedExec, NetOf
    <2> QED
      BY <2>1, <2>2, <2>3 DEF Matched
  <1> QED
    BY InitLedger, <1>1, <1>2, PTL DEF Spec
=============================================================================
