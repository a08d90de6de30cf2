-------------------------------- MODULE Oms --------------------------------
(***************************************************************************)
(* The order management system of mini_prop_os (execution/oms.py): a state *)
(* machine per order and a position ledger, driven by the commands of the  *)
(* application and by the events of the broker.                            *)
(*                                                                         *)
(* The broker (IBKR through ib_insync) is external.  It keeps every order  *)
(* and execution it ever reported; an event in `notices' or an execution   *)
(* in `execs' may be delivered late, in any order and any number of times, *)
(* which is what the exec-id set and the transition table are there for.   *)
(***************************************************************************)
EXTENDS Integers, FiniteSetsExt

CONSTANTS OrderId,      \* identifiers of orders
          ExecId,       \* identifiers of executions
          Symbols,      \* symbols an intent or a position may name
          Contract,     \* symbol of the contract the broker adapter trades
          Untagged,     \* executions reported without an exec_id
          MaxQty,       \* bound: largest quantity of one order
          SeedQty,      \* quantities a cold start may find in the account
          NoIntent,     \* the intent of an order not yet submitted
          NoExec        \* an execution that has not happened

OrderStates == {"CREATED", "SUBMITTED", "PARTIALLY_FILLED", "FILLED",
                "PENDING_CANCEL", "CANCELLED", "REJECTED"}

TerminalStates == {"FILLED", "CANCELLED", "REJECTED"}

\* Mutants of the table (each the slip of one entry).
TransitionsNoLateFinalFill ==
    [ CREATED          |-> {"SUBMITTED", "REJECTED"},
      SUBMITTED        |-> {"PARTIALLY_FILLED", "FILLED", "PENDING_CANCEL",
                            "CANCELLED", "REJECTED"},
      PARTIALLY_FILLED |-> {"PARTIALLY_FILLED", "FILLED", "PENDING_CANCEL",
                            "CANCELLED"},
      PENDING_CANCEL   |-> {"PARTIALLY_FILLED", "CANCELLED"},
      FILLED           |-> {}, CANCELLED |-> {}, REJECTED |-> {} ]
TransitionsNoCancelAck ==
    [TransitionsNoLateFinalFill EXCEPT
        !.PENDING_CANCEL = {"PARTIALLY_FILLED", "FILLED"}]

\* The table _TRANSITIONS.
Transitions ==
    [ CREATED          |-> {"SUBMITTED", "REJECTED"},
      SUBMITTED        |-> {"PARTIALLY_FILLED", "FILLED", "PENDING_CANCEL",
                            "CANCELLED", "REJECTED"},
      PARTIALLY_FILLED |-> {"PARTIALLY_FILLED", "FILLED", "PENDING_CANCEL",
                            "CANCELLED"},
      PENDING_CANCEL   |-> {"PARTIALLY_FILLED", "FILLED", "CANCELLED"},
      FILLED           |-> {},
      CANCELLED        |-> {},
      REJECTED         |-> {} ]

Intents == [symbol : Symbols, side : {1, -1}, quantity : 1..MaxQty]

Executions == [order : OrderId, symbol : Symbols, quantity : 1..MaxQty]

ASSUME OmsAssumption ==
    /\ MaxQty \in Nat \ {0}
    /\ SeedQty \subseteq Int \ {0}
    /\ Contract \in Symbols
    /\ Untagged \subseteq ExecId
    /\ NoIntent \notin Intents
    /\ NoExec \notin Executions

\* What _STATUS_MAP can hand to on_order_status.
MappedStatus == {"SUBMITTED", "CANCELLED", "REJECTED"}

VARIABLES intent,     \* intent[o]: what order o asks for, or NoIntent
          state,      \* state[o]: its lifecycle state
          filled,     \* filled[o]: its filled_quantity
          position,   \* position[s]: the ledger
          seen,       \* _seen_exec_ids
          asked,      \* orders whose history has a PENDING_CANCEL
          seeded,     \* history: what seed_position imported
          live,       \* broker: orders it is working
          cancelling, \* broker: orders it was asked to cancel
          execs,      \* broker: execs[e], an execution, or NoExec
          notices     \* broker: status events sent, <<order, status>>

omsVars    == <<intent, state, filled, position, seen, asked, seeded>>
brokerVars == <<live, cancelling, execs, notices>>
vars       == <<omsVars, brokerVars>>

TypeOK ==
    /\ intent \in [OrderId -> Intents \cup {NoIntent}]
    /\ state \in [OrderId -> OrderStates]
    /\ filled \in [OrderId -> Nat]
    /\ position \in [Symbols -> Int]
    /\ seen \subseteq ExecId \ Untagged
    /\ asked \subseteq OrderId
    /\ seeded \in [Symbols -> Int]
    /\ live \subseteq OrderId
    /\ cancelling \subseteq OrderId
    /\ execs \in [ExecId -> Executions \cup {NoExec}]
    /\ notices \subseteq OrderId \X MappedStatus

Init ==
    /\ intent = [o \in OrderId |-> NoIntent]
    /\ state = [o \in OrderId |-> "CREATED"]
    /\ filled = [o \in OrderId |-> 0]
    /\ position = [s \in Symbols |-> 0]
    /\ seen = {}
    /\ asked = {}
    /\ seeded = [s \in Symbols |-> 0]
    /\ live = {}
    /\ cancelling = {}
    /\ execs = [e \in ExecId |-> NoExec]
    /\ notices = {}

----------------------------------------------------------------------------
\* Orders present in _orders, and those still open.
Known == {o \in OrderId : intent[o] # NoIntent}
OpenOrders == {o \in Known : state[o] \notin TerminalStates}

TransitionUnchecked(from, to) == to  \* mutant: the table is not consulted

\* _transition: applied when the table allows it, otherwise logged and ignored.
Transition(from, to) == IF to \in Transitions[from] THEN to ELSE from

Remaining(o) == intent[o].quantity - filled[o]

PlacesAnything(i) == TRUE  \* mutant

\* place_order refuses an intent for another symbol than the contract's.
Places(i) == i.symbol = Contract

\* submit, the broker accepting: recorded and SUBMITTED in one go.
Submit(o, i) ==
    /\ o \notin Known
    /\ Places(i)
    /\ intent' = [intent EXCEPT ![o] = i]
    /\ state' = [state EXCEPT ![o] = Transition("CREATED", "SUBMITTED")]
    /\ live' = live \cup {o}
    /\ notices' = notices \cup {<<o, "SUBMITTED">>}
    /\ UNCHANGED <<filled, position, seen, asked, seeded, cancelling, execs>>

\* submit, place_order raising: the failed order is recorded as REJECTED.
SubmitFails(o, i) ==
    /\ o \notin Known
    /\ intent' = [intent EXCEPT ![o] = i]
    /\ state' = [state EXCEPT ![o] = Transition("CREATED", "REJECTED")]
    /\ UNCHANGED <<filled, position, seen, asked, seeded, brokerVars>>

\* Mutant: an order that has begun to fill is not asked to cancel.
CancelEachUntouched(T, reached) ==
    LET open == {o \in T \cap OpenOrders : state[o] # "PARTIALLY_FILLED"} IN
    /\ reached \subseteq open
    /\ state' = [o \in OrderId |->
                    IF o \in open THEN Transition(state[o], "PENDING_CANCEL")
                                  ELSE state[o]]
    /\ asked' = asked \cup open
    /\ cancelling' = cancelling \cup reached
    /\ UNCHANGED <<intent, filled, position, seen, seeded, live, execs, notices>>

\* cancel on each order of T: terminal orders are skipped, the others become
\* PENDING_CANCEL whether or not the broker call then succeeds (`reached').
CancelEach(T, reached) ==
    LET open == T \cap OpenOrders IN
    /\ reached \subseteq open
    /\ state' = [o \in OrderId |->
                    IF o \in open THEN Transition(state[o], "PENDING_CANCEL")
                                  ELSE state[o]]
    /\ asked' = asked \cup open
    /\ cancelling' = cancelling \cup reached
    /\ UNCHANGED <<intent, filled, position, seen, seeded, live, execs, notices>>

Cancel(o) == \E reached \in SUBSET {o} : CancelEach({o}, reached)

\* cancel_all never suspends between orders with the ib_insync adapter.
CancelAll == \E reached \in SUBSET OpenOrders : CancelEach(OpenOrders, reached)

\* seed_position, called by reconciliation before any order was ever recorded.
SeedPosition(s, q) ==
    /\ position[s] = 0
    /\ Known = {}
    /\ position' = [position EXCEPT ![s] = q]
    /\ seeded' = [seeded EXCEPT ![s] = q]
    /\ UNCHANGED <<intent, state, filled, seen, asked, brokerVars>>

\* on_order_status: unknown orders and same-state echoes change nothing; a
\* mapped status is never a fill state.
OnOrderStatus(o, status) ==
    /\ <<o, status>> \in notices
    /\ o \in Known
    /\ status # state[o]
    /\ state' = [state EXCEPT ![o] = Transition(@, status)]
    /\ UNCHANGED <<intent, filled, position, seen, asked, seeded, brokerVars>>

\* The direction of a fill comes from the order, not from the report.
Signed(o, qty) == IF intent[o].side > 0 THEN qty ELSE -qty

\* What the ledger was moved by for o's fills.
SignedFill(o) == Signed(o, filled[o])

AbsQtyForgotten(q) == q  \* mutant

AbsQty(q) == IF q < 0 THEN -q ELSE q

\* Mutant: on_fill refuses what races a cancel.
AcceptsNotCancelling(e, o, qty) ==
    /\ e \notin seen /\ o \in OpenOrders /\ state[o] # "PENDING_CANCEL"
    /\ qty # 0 /\ qty <= Remaining(o)

\* The checks on_fill makes before it applies an execution: not a duplicate
\* (`seen' holds only those with an exec_id), a known order that is not
\* finished, a quantity the order still has room for.
Accepts(e, o, qty) ==
    /\ e \notin seen
    /\ o \in OpenOrders
    /\ qty # 0
    /\ qty <= Remaining(o)

\* on_fill for execution e, whose quantity the broker reports with some sign.
\* The ledger entry is the one of the reported symbol, and only an exec_id
\* makes a repeated report recognisable.
OnFill(e, reported) ==
    LET o   == execs[e].order
        qty == AbsQty(reported)
    IN  /\ execs[e] # NoExec
        /\ reported \in {execs[e].quantity, -execs[e].quantity}
        /\ Accepts(e, o, qty)
        /\ seen' = seen \cup ({e} \ Untagged)
        /\ filled' = [filled EXCEPT ![o] = @ + qty]
        /\ position' = [position EXCEPT ![execs[e].symbol] = @ + Signed(o, qty)]
        /\ state' = [state EXCEPT ![o] =
                        Transition(@, IF qty = Remaining(o) THEN "FILLED"
                                                            ELSE "PARTIALLY_FILLED")]
        /\ UNCHANGED <<intent, asked, seeded, brokerVars>>

----------------------------------------------------------------------------
(* The broker (external). *)

\* Executions of order o so far: their identifiers and their total.
ExecsOf(o) == {e \in ExecId : execs[e] # NoExec /\ execs[e].order = o}

Quantity(e) == execs[e].quantity
Executed(o) == MapThenSumSet(Quantity, ExecsOf(o))

\* The broker executes part of a working order, in the contract it was sent for.
BrokerExecute(e, o, q) ==
    /\ execs[e] = NoExec
    /\ o \in live
    /\ Executed(o) + q <= intent[o].quantity
    /\ execs' = [execs EXCEPT ![e] = [order |-> o, symbol |-> Contract, quantity |-> q]]
    /\ live' = IF Executed(o) + q = intent[o].quantity THEN live \ {o} ELSE live
    /\ UNCHANGED <<omsVars, cancelling, notices>>

\* The broker ends a working order: requested cancel, or a DAY order expiring.
BrokerCancel(o) ==
    /\ o \in live
    /\ live' = live \ {o}
    /\ notices' = notices \cup {<<o, "CANCELLED">>}
    /\ UNCHANGED <<omsVars, cancelling, execs>>

\* The broker refuses an order it has not begun to fill ("Inactive").
BrokerReject(o) ==
    /\ o \in live
    /\ ExecsOf(o) = {}
    /\ live' = live \ {o}
    /\ notices' = notices \cup {<<o, "REJECTED">>}
    /\ UNCHANGED <<omsVars, cancelling, execs>>

----------------------------------------------------------------------------
OmsNext ==
    \/ \E o \in OrderId, i \in Intents : Submit(o, i) \/ SubmitFails(o, i)
    \/ \E o \in OrderId : Cancel(o)
    \/ CancelAll
    \/ \E s \in Symbols, q \in SeedQty : SeedPosition(s, q)
    \/ \E o \in OrderId, status \in MappedStatus : OnOrderStatus(o, status)
    \/ \E e \in ExecId, reported \in -MaxQty..MaxQty : OnFill(e, reported)

BrokerNext ==
    \/ \E e \in ExecId, o \in OrderId, q \in 1..MaxQty : BrokerExecute(e, o, q)
    \/ \E o \in OrderId : BrokerCancel(o) \/ BrokerReject(o)

Next == OmsNext \/ BrokerNext

Spec == Init /\ [][Next]_vars

(***************************************************************************)
(* The connection stays up: every event the broker sent is delivered, and  *)
(* the broker answers a cancel request unless the order ends first.        *)
(***************************************************************************)
Fairness ==
    /\ \A o \in OrderId, status \in MappedStatus :
            WF_vars(OnOrderStatus(o, status))
    /\ \A e \in ExecId :
            WF_vars(\E reported \in -MaxQty..MaxQty : OnFill(e, reported))
    /\ \A o \in OrderId : WF_vars(o \in cancelling /\ BrokerCancel(o))

FairSpec == Spec /\ Fairness

----------------------------------------------------------------------------
(* Properties. *)

Terminal(o) == o \in Known /\ state[o] \in TerminalStates

\* Every execution of o so far carries an exec_id, as IBKR's do.
Tagged(o) == ExecsOf(o) \cap Untagged = {}

(***************************************************************************)
(* An order's lifecycle state and its filled quantity always tell the same *)
(* story (oms.py, on_fill and _transition): FILLED exactly when nothing    *)
(* remains, partially filled strictly in between, a rejected or untouched  *)
(* order has no fill, and whatever raced a cancel left it short of full.   *)
(***************************************************************************)
StateMatchesFills ==
    \A o \in OrderId :
        /\ o \notin Known => filled[o] = 0 /\ state[o] = "CREATED"
        /\ o \in Known =>
            /\ state[o] # "CREATED"
            /\ state[o] = "FILLED" <=> filled[o] = intent[o].quantity
            /\ filled[o] \in 0..intent[o].quantity
            /\ state[o] = "PARTIALLY_FILLED" => filled[o] > 0
            /\ state[o] \in {"SUBMITTED", "REJECTED"} => filled[o] = 0

(***************************************************************************)
(* A finished order is final: no late, duplicate or reordered broker event *)
(* reopens it or moves its fills (the claim of the module docstring, "a    *)
(* late or duplicate broker event cannot corrupt state").                  *)
(***************************************************************************)
TerminalIsFinal ==
    [][\A o \in OrderId : Terminal(o) =>
            UNCHANGED <<intent[o], state[o], filled[o]>>]_vars

(***************************************************************************)
(* An order the broker has filled or cancelled is eventually known to be   *)
(* finished, in whatever order its events arrive, so that open_orders and  *)
(* cancel_all stop counting it; and a cancel request that reached the      *)
(* broker ends the order, unless the broker rejected it (oms.py, cancel,   *)
(* on_order_status, on_fill).  Repeats nobody can recognise, of executions *)
(* without an exec_id, are left aside.                                     *)
(***************************************************************************)
OrdersEnd ==
    \A o \in OrderId :
        /\ (o \in Known \ live /\ Tagged(o) /\ <<o, "REJECTED">> \notin notices)
                ~> Terminal(o)
        /\ o \in cancelling ~> \/ Terminal(o) \/ ~Tagged(o)
                               \/ <<o, "REJECTED">> \in notices

(***************************************************************************)
(* Every execution with an exec_id reaches the ledger unless its order was *)
(* CANCELLED: a fill racing a cancel request is credited, and only the     *)
(* acknowledgement of the cancel, delivered first, can make on_fill drop   *)
(* it (oms.py, on_fill; the dropped case is what reconciliation must later *)
(* notice).  Repeats of executions without an exec_id are left aside.      *)
(***************************************************************************)
OnlyACancelDropsFills ==
    \A e \in ExecId :
        execs[e] # NoExec ~>
            \/ e \in seen
            \/ /\ execs[e] # NoExec
               /\ state[execs[e].order] = "CANCELLED" \/ ~Tagged(execs[e].order)

----------------------------------------------------------------------------
(* What the ledger promises its readers: OrderBook, with the seven states  *)
(* reduced to whether the order is finished.                               *)
Finished == {o \in OrderId : Terminal(o)}

Book == INSTANCE OrderBook WITH credited <- seen, finished <- Finished

ImplementsOrderBook == Book!Spec
============================================================================
