----------------------------- MODULE OmsProofs -----------------------------
(***************************************************************************)
(* What holds of the order management system for any number of orders,     *)
(* executions, symbols and quantities.  The inductive invariant is TypeOK  *)
(* with StateMatchesFills: the table refuses the fill state the quantities *)
(* call for only if state and quantities had already disagreed.  The order *)
(* book also needs ReportsMatchOrders: the adapter sends no order for      *)
(* another symbol than its contract's, which is what fills then report.    *)
(***************************************************************************)
EXTENDS Oms, TLAPS

Inv == TypeOK /\ StateMatchesFills

\* What the broker works on and reports is the contract of the order.
ReportsMatchOrders ==
    /\ \A o \in live : o \in Known /\ intent[o].symbol = Contract
    /\ \A e \in ExecId : execs[e] # NoExec =>
            /\ execs[e].order \in Known
            /\ execs[e].symbol = Contract
            /\ intent[execs[e].order].symbol = Contract

BookInv == Inv /\ ReportsMatchOrders

----------------------------------------------------------------------------
(* Lemmas about the operators. *)

\* A transition stays within the states, and reaches its target or stays put.
LEMMA TransitionCases ==
    ASSUME NEW from \in OrderStates, NEW to \in OrderStates
    PROVE  /\ Transition(from, to) \in OrderStates
           /\ Transition(from, to) = to \/ Transition(from, to) = from
    BY DEF Transition

\* What the table says about each kind of move the code makes.
LEMMA TableFacts ==
    /\ Transition("CREATED", "SUBMITTED") = "SUBMITTED"
    /\ Transition("CREATED", "REJECTED") = "REJECTED"
    /\ \A from \in {"SUBMITTED", "PARTIALLY_FILLED", "PENDING_CANCEL"} :
          /\ Transition(from, "FILLED") = "FILLED"
          /\ Transition(from, "PARTIALLY_FILLED") = "PARTIALLY_FILLED"
          /\ Transition(from, "CANCELLED") = "CANCELLED"
          /\ Transition(from, "PENDING_CANCEL") = "PENDING_CANCEL"
    /\ \A from \in TerminalStates, to \in OrderStates : Transition(from, to) = from
    /\ \A from \in {"PARTIALLY_FILLED", "PENDING_CANCEL"} :
          /\ Transition(from, "REJECTED") = from
          /\ Transition(from, "SUBMITTED") = from
    /\ Transition("SUBMITTED", "REJECTED") = "REJECTED"
    BY DEF Transition, Transitions, TerminalStates, OrderStates

\* An open order is in one of three states and has room left.
LEMMA OpenOrderFacts ==
    ASSUME Inv, NEW o \in OpenOrders
    PROVE  /\ o \in Known
           /\ o \in OrderId
           /\ state[o] \in {"SUBMITTED", "PARTIALLY_FILLED", "PENDING_CANCEL"}
           /\ intent[o] \in Intents
           /\ filled[o] < intent[o].quantity
<1>1. o \in Known /\ o \in OrderId /\ state[o] \notin TerminalStates
    BY DEF OpenOrders, Known
<1>2. intent[o] \in Intents /\ state[o] \in OrderStates \ {"CREATED"}
    BY <1>1 DEF Known, Inv, TypeOK, StateMatchesFills
<1>3. state[o] \in {"SUBMITTED", "PARTIALLY_FILLED", "PENDING_CANCEL"}
    BY <1>1, <1>2 DEF OrderStates, TerminalStates
<1>4. filled[o] \in 0..intent[o].quantity /\ filled[o] # intent[o].quantity
    BY <1>1, <1>3 DEF Inv, StateMatchesFills
<1>5. intent[o].quantity \in Nat
    BY <1>2, OmsAssumption DEF Intents
<1>6. QED
    BY <1>1, <1>2, <1>3, <1>4, <1>5

\* No step of the broker touches what the order management system keeps.
LEMMA BrokerLeavesOms == BrokerNext => UNCHANGED omsVars
    BY DEF BrokerNext, BrokerExecute, BrokerCancel, BrokerReject

\* Applied to an open order, a fill sets its state, quantity and ledger so.
LEMMA FillEffect ==
    ASSUME Inv, NEW e \in ExecId, NEW r \in -MaxQty..MaxQty, OnFill(e, r),
           NEW o, o = execs[e].order, NEW q, q = AbsQty(r)
    PROVE  /\ o \in OpenOrders
           /\ q \in 1..MaxQty
           /\ filled[o] + q <= intent[o].quantity
           /\ filled' = [filled EXCEPT ![o] = @ + q]
           /\ position' = [position EXCEPT ![execs[e].symbol] = @ + Signed(o, q)]
           /\ execs[e] \in Executions
           /\ state' = [state EXCEPT ![o] =
                            IF filled[o] + q = intent[o].quantity
                            THEN "FILLED" ELSE "PARTIALLY_FILLED"]
           /\ e \notin seen
           /\ seen' = seen \cup ({e} \ Untagged)
           /\ UNCHANGED <<intent, asked, seeded, brokerVars>>
<1>1. o \in OpenOrders /\ q # 0 /\ q <= Remaining(o) /\ e \notin seen
    BY DEF OnFill, Accepts
<1>2. q \in 1..MaxQty
    BY <1>1, OmsAssumption DEF AbsQty
<1>3. /\ intent[o].quantity \in 1..MaxQty
      /\ filled[o] \in Nat
    BY <1>1, OpenOrderFacts DEF Inv, TypeOK, Intents, OpenOrders, Known
<1>4. filled[o] + q <= intent[o].quantity
    BY <1>1, <1>2, <1>3 DEF Remaining
<1>5. q = Remaining(o) <=> filled[o] + q = intent[o].quantity
    BY <1>2, <1>3, OmsAssumption DEF Remaining
<1>6. state' = [state EXCEPT ![o] =
                   Transition(state[o], IF q = Remaining(o) THEN "FILLED"
                                                     ELSE "PARTIALLY_FILLED")]
    BY DEF OnFill
<1>7. state' = [state EXCEPT ![o] =
                            IF filled[o] + q = intent[o].quantity
                            THEN "FILLED" ELSE "PARTIALLY_FILLED"]
    BY <1>1, <1>5, <1>6, TableFacts, OpenOrderFacts
<1>8. execs[e] \in Executions
    BY DEF OnFill, Inv, TypeOK
<1>9. QED
    BY <1>1, <1>2, <1>4, <1>7, <1>8 DEF OnFill

----------------------------------------------------------------------------
(* Inductiveness. *)

\* Initially the variables are typed and every order is untouched.
LEMMA InitInv == Init => Inv
    BY OmsAssumption DEF Init, Inv, TypeOK, StateMatchesFills, OrderStates, Known

\* Every step keeps the variables in their types.
LEMMA TypeStep == Inv /\ [Next]_vars => TypeOK'
<1> SUFFICES ASSUME Inv, [Next]_vars PROVE TypeOK'
    OBVIOUS
<1> USE DEF TypeOK, Inv
<1>1. ASSUME NEW o \in OrderId, NEW i \in Intents, Submit(o, i)
      PROVE  TypeOK'
    BY <1>1, TableFacts DEF Submit, OrderStates, MappedStatus
<1>2. ASSUME NEW o \in OrderId, NEW i \in Intents, SubmitFails(o, i)
      PROVE  TypeOK'
    BY <1>2, TableFacts DEF SubmitFails, OrderStates, brokerVars
<1>3. ASSUME NEW T \in SUBSET OrderId, NEW reached, CancelEach(T, reached)
      PROVE  TypeOK'
    BY <1>3, TransitionCases DEF CancelEach, OpenOrders, Known, OrderStates
<1>4. ASSUME NEW s \in Symbols, NEW q \in SeedQty, SeedPosition(s, q)
      PROVE  TypeOK'
    BY <1>4, OmsAssumption DEF SeedPosition, brokerVars
<1>5. ASSUME NEW o \in OrderId, NEW status \in MappedStatus, OnOrderStatus(o, status)
      PROVE  TypeOK'
    BY <1>5, TransitionCases DEF OnOrderStatus, brokerVars, OrderStates, MappedStatus
<1>6. ASSUME NEW e \in ExecId, NEW r \in -MaxQty..MaxQty, OnFill(e, r)
      PROVE  TypeOK'
    <2> DEFINE o == execs[e].order
               q == AbsQty(r)
    <2>1. /\ o \in OpenOrders
          /\ q \in 1..MaxQty
          /\ filled' = [filled EXCEPT ![o] = @ + q]
          /\ position' = [position EXCEPT ![execs[e].symbol] = @ + Signed(o, q)]
          /\ execs[e] \in Executions
          /\ state' = [state EXCEPT ![o] =
                           IF filled[o] + q = intent[o].quantity
                           THEN "FILLED" ELSE "PARTIALLY_FILLED"]
          /\ seen' = seen \cup ({e} \ Untagged)
          /\ UNCHANGED <<intent, asked, seeded, brokerVars>>
        BY <1>6, FillEffect
    <2>2. Signed(o, q) \in Int
        BY <2>1 DEF Signed
    <2> HIDE DEF o, q
    <2>3. QED
        BY <2>1, <2>2, OpenOrderFacts DEF OrderStates, brokerVars, Intents, Executions
<1>7. ASSUME BrokerNext PROVE TypeOK'
    <2>1. UNCHANGED omsVars
        BY <1>7, BrokerLeavesOms
    <2>2. ASSUME NEW e \in ExecId, NEW o \in OrderId, NEW q \in 1..MaxQty,
                 BrokerExecute(e, o, q)
          PROVE  TypeOK'
        BY <2>1, <2>2, OmsAssumption DEF BrokerExecute, omsVars, Executions
    <2>3. ASSUME NEW o \in OrderId, BrokerCancel(o) \/ BrokerReject(o)
          PROVE  TypeOK'
        BY <2>1, <2>3 DEF BrokerCancel, BrokerReject, omsVars, MappedStatus
    <2>4. QED
        BY <1>7, <2>2, <2>3 DEF BrokerNext
<1>8. CASE UNCHANGED vars
    BY <1>8 DEF vars, omsVars, brokerVars
<1>9. ASSUME NEW o \in OrderId, Cancel(o) PROVE TypeOK'
    BY <1>3, <1>9 DEF Cancel
<1>10. CASE CancelAll
    BY <1>3, <1>10 DEF CancelAll, OpenOrders, Known
<1>11. QED
    BY <1>1, <1>2, <1>4, <1>5, <1>6, <1>7, <1>8, <1>9, <1>10 DEF Next, OmsNext

\* Every step keeps states and filled quantities in agreement.
LEMMA StateStep == Inv /\ [Next]_vars => StateMatchesFills'
<1> SUFFICES ASSUME Inv, [Next]_vars PROVE StateMatchesFills'
    OBVIOUS
<1> USE DEF StateMatchesFills, Known
<1>1. ASSUME NEW o \in OrderId, NEW i \in Intents, Submit(o, i) \/ SubmitFails(o, i)
      PROVE  StateMatchesFills'
    BY <1>1, TableFacts, OmsAssumption
    DEF Submit, SubmitFails, Inv, TypeOK, Intents
<1>2. ASSUME NEW T \in SUBSET OrderId, NEW reached, CancelEach(T, reached)
      PROVE  StateMatchesFills'
    <2>1. \A o \in OpenOrders : Transition(state[o], "PENDING_CANCEL") = "PENDING_CANCEL"
        BY TableFacts, OpenOrderFacts
    <2>2. QED
        BY <1>2, <2>1, OpenOrderFacts DEF CancelEach, Inv, TypeOK
<1>3. ASSUME NEW o \in OrderId, NEW status \in MappedStatus, OnOrderStatus(o, status)
      PROVE  StateMatchesFills'
    <2>1. o \in Known /\ state[o] \in OrderStates \ {"CREATED"}
        BY <1>3 DEF OnOrderStatus, Inv, TypeOK
    <2>2. state' = [state EXCEPT ![o] = Transition(state[o], status)]
          /\ UNCHANGED <<intent, filled>>
        BY <1>3 DEF OnOrderStatus
    <2>3. CASE state[o] \in TerminalStates
        BY <2>1, <2>2, <2>3, TableFacts DEF MappedStatus, OrderStates, Inv, TypeOK
    <2>4. CASE state[o] \notin TerminalStates
        <3>1. /\ state[o] \in {"SUBMITTED", "PARTIALLY_FILLED", "PENDING_CANCEL"}
              /\ filled[o] < intent[o].quantity
            BY <2>1, <2>4, OpenOrderFacts DEF OpenOrders
        <3>2. status # state[o]
            BY <1>3 DEF OnOrderStatus
        <3>3. \/ Transition(state[o], status) = state[o]
              \/ Transition(state[o], status) = "CANCELLED"
              \/ state[o] = "SUBMITTED" /\ Transition(state[o], status) = "REJECTED"
            BY <3>1, <3>2, TableFacts DEF MappedStatus
        <3>4. QED
            BY <2>1, <2>2, <3>1, <3>3 DEF Inv, TypeOK
    <2>5. QED
        BY <2>3, <2>4
<1>4. ASSUME NEW e \in ExecId, NEW r \in -MaxQty..MaxQty, OnFill(e, r)
      PROVE  StateMatchesFills'
    <2> DEFINE o == execs[e].order
               q == AbsQty(r)
    <2>1. /\ o \in OpenOrders
          /\ q \in 1..MaxQty
          /\ filled[o] + q <= intent[o].quantity
          /\ filled' = [filled EXCEPT ![o] = @ + q]
          /\ state' = [state EXCEPT ![o] =
                           IF filled[o] + q = intent[o].quantity
                           THEN "FILLED" ELSE "PARTIALLY_FILLED"]
          /\ UNCHANGED intent
        BY <1>4, FillEffect
    <2> HIDE DEF o, q
    <2>2. QED
        BY <2>1, OpenOrderFacts DEF Inv, TypeOK, Intents
<1>5. CASE UNCHANGED omsVars
    BY <1>5 DEF omsVars, Inv
<1>6. ASSUME NEW s \in Symbols, NEW q \in SeedQty, SeedPosition(s, q)
      PROVE  StateMatchesFills'
    BY <1>6 DEF SeedPosition, Inv
<1>7. ASSUME NEW o \in OrderId, Cancel(o) PROVE StateMatchesFills'
    BY <1>2, <1>7 DEF Cancel
<1>8. CASE CancelAll
    BY <1>2, <1>8 DEF CancelAll, OpenOrders
<1>9. QED
    BY <1>1, <1>3, <1>4, <1>5, <1>6, <1>7, <1>8, BrokerLeavesOms
    DEF Next, OmsNext, vars

----------------------------------------------------------------------------
(* Theorems. *)

(***************************************************************************)
(* The variables keep their types, whatever the broker delivers.           *)
(***************************************************************************)
THEOREM TypeCorrect == Spec => []TypeOK
<1>1. Inv /\ [Next]_vars => Inv'
    BY TypeStep, StateStep DEF Inv
<1>2. Inv => TypeOK
    BY DEF Inv
<1>3. QED
    BY InitInv, <1>1, <1>2, PTL DEF Spec

(***************************************************************************)
(* An order's state and filled quantity never disagree (on_fill and        *)
(* _transition), for any table of orders and any delivery order.           *)
(***************************************************************************)
THEOREM StatesMatchFills == Spec => []StateMatchesFills
<1>1. Inv /\ [Next]_vars => Inv'
    BY TypeStep, StateStep DEF Inv
<1>2. Inv => StateMatchesFills
    BY DEF Inv
<1>3. QED
    BY InitInv, <1>1, <1>2, PTL DEF Spec

----------------------------------------------------------------------------
(* Finished orders. *)

\* No step changes a finished order.
LEMMA FinishedFrozen ==
    ASSUME Inv, [Next]_vars, NEW o \in OrderId, Terminal(o)
    PROVE  UNCHANGED <<intent[o], state[o], filled[o]>>
<1> o \in Known /\ state[o] \in TerminalStates
    BY DEF Terminal
<1>1. ASSUME NEW p \in OrderId, NEW i \in Intents, Submit(p, i) \/ SubmitFails(p, i)
      PROVE  UNCHANGED <<intent[o], state[o], filled[o]>>
    BY <1>1 DEF Submit, SubmitFails, Inv, TypeOK
<1>2. ASSUME NEW T, NEW reached, CancelEach(T, reached)
      PROVE  UNCHANGED <<intent[o], state[o], filled[o]>>
    BY <1>2 DEF CancelEach, OpenOrders, Inv, TypeOK
<1>3. ASSUME NEW p \in OrderId, NEW status \in MappedStatus, OnOrderStatus(p, status)
      PROVE  UNCHANGED <<intent[o], state[o], filled[o]>>
    <2>1. Transition(state[o], status) = state[o]
        BY TableFacts DEF MappedStatus, OrderStates
    <2>2. QED
        BY <1>3, <2>1 DEF OnOrderStatus, Inv, TypeOK
<1>4. ASSUME NEW e \in ExecId, NEW r \in -MaxQty..MaxQty, OnFill(e, r)
      PROVE  UNCHANGED <<intent[o], state[o], filled[o]>>
    <2>1. execs[e].order \in OpenOrders
        BY <1>4 DEF OnFill, Accepts
    <2>2. o # execs[e].order
        BY <2>1 DEF OpenOrders
    <2>3. QED
        BY <1>4, <2>2 DEF OnFill, Inv, TypeOK
<1>5. CASE UNCHANGED omsVars
    BY <1>5 DEF omsVars
<1>6. ASSUME NEW s \in Symbols, NEW q \in SeedQty, SeedPosition(s, q)
      PROVE  UNCHANGED <<intent[o], state[o], filled[o]>>
    BY <1>6 DEF SeedPosition
<1>7. QED
    BY <1>1, <1>2, <1>3, <1>4, <1>5, <1>6, BrokerLeavesOms
    DEF Next, OmsNext, vars, Cancel, CancelAll

(***************************************************************************)
(* A finished order is final: no event, however late or repeated, changes  *)
(* its intent, state or filled quantity.                                   *)
(***************************************************************************)
THEOREM FinishedOrdersAreFinal == Spec => TerminalIsFinal
<1>1. Inv /\ [Next]_vars => Inv'
    BY TypeStep, StateStep DEF Inv
<1>2. Inv /\ [Next]_vars =>
        [\A o \in OrderId : Terminal(o) =>
            UNCHANGED <<intent[o], state[o], filled[o]>>]_vars
    BY FinishedFrozen
<1>3. QED
    BY InitInv, <1>1, <1>2, PTL DEF Spec, TerminalIsFinal

----------------------------------------------------------------------------
(* Refinement of OrderBook. *)

\* The orders finished after a step that leaves every other order alone.
LEMMA FinishedAfter ==
    ASSUME Inv, NEW o \in OrderId,
           \A p \in OrderId \ {o} : UNCHANGED <<intent[p], state[p]>>
    PROVE  /\ Terminal(o)' => Finished' = Finished \cup {o}
           /\ ~Terminal(o)' /\ ~Terminal(o) => Finished' = Finished
    BY DEF Finished, Terminal, Known

\* A step that finishes some orders and changes nothing else of the book.
LEMMA SameBook ==
    ASSUME UNCHANGED <<intent, state, filled, position, seen>>
    PROVE  UNCHANGED Book!vars
    BY DEF Book!vars, Finished, Terminal, Known

\* Initially no order is finished.
LEMMA BookInit == Init => Book!Init
    BY DEF Init, Book!Init, Finished, Terminal, Known, TerminalStates

\* Only orders for the contract reach the broker, and it reports the contract.
LEMMA ReportStep == BookInv /\ [Next]_vars => ReportsMatchOrders'
<1> SUFFICES ASSUME BookInv, [Next]_vars PROVE ReportsMatchOrders'
    OBVIOUS
<1> USE DEF BookInv, Inv, ReportsMatchOrders, Known
<1>1. ASSUME NEW o \in OrderId, NEW i \in Intents, Submit(o, i)
      PROVE  ReportsMatchOrders'
    <2>1. i # NoIntent /\ i.symbol = Contract /\ o \notin Known
        BY <1>1, OmsAssumption DEF Submit, Places
    <2>2. QED
        BY <1>1, <2>1 DEF Submit, TypeOK
<1>2. ASSUME NEW o \in OrderId, NEW i \in Intents, SubmitFails(o, i)
      PROVE  ReportsMatchOrders'
    <2>1. i # NoIntent /\ o \notin Known
        BY <1>2, OmsAssumption DEF SubmitFails
    <2>2. QED
        BY <1>2, <2>1 DEF SubmitFails, TypeOK, brokerVars
<1>3. ASSUME NEW T, NEW reached, CancelEach(T, reached)
      PROVE  ReportsMatchOrders'
    BY <1>3 DEF CancelEach
<1>4. ASSUME NEW o \in OrderId, NEW status \in MappedStatus, OnOrderStatus(o, status)
      PROVE  ReportsMatchOrders'
    BY <1>4 DEF OnOrderStatus, brokerVars
<1>5. ASSUME NEW e \in ExecId, NEW r \in -MaxQty..MaxQty, OnFill(e, r)
      PROVE  ReportsMatchOrders'
    BY <1>5 DEF OnFill, brokerVars
<1>6. ASSUME NEW s \in Symbols, NEW q \in SeedQty, SeedPosition(s, q)
      PROVE  ReportsMatchOrders'
    BY <1>6 DEF SeedPosition, brokerVars
<1>7. ASSUME NEW e \in ExecId, NEW o \in OrderId, NEW q \in 1..MaxQty,
             BrokerExecute(e, o, q)
      PROVE  ReportsMatchOrders'
    <2>1. /\ o \in live /\ live' \subseteq live
          /\ execs' = [execs EXCEPT ![e] =
                          [order |-> o, symbol |-> Contract, quantity |-> q]]
          /\ intent' = intent
        BY <1>7 DEF BrokerExecute, omsVars
    <2>2. QED
        BY <2>1 DEF TypeOK
<1>8. ASSUME NEW o \in OrderId, BrokerCancel(o) \/ BrokerReject(o)
      PROVE  ReportsMatchOrders'
    BY <1>8 DEF BrokerCancel, BrokerReject, omsVars
<1>9. CASE UNCHANGED vars
    BY <1>9 DEF vars, omsVars, brokerVars
<1>10. QED
    BY <1>1, <1>2, <1>3, <1>4, <1>5, <1>6, <1>7, <1>8, <1>9
    DEF Next, OmsNext, BrokerNext, Cancel, CancelAll

\* Every step of the order management system is a step of the book, or none.
LEMMA BookStep == BookInv /\ Inv' /\ [Next]_vars => [Book!Next]_Book!vars
<1> SUFFICES ASSUME BookInv, Inv', [Next]_vars PROVE [Book!Next]_Book!vars
    OBVIOUS
<1> Inv
    BY DEF BookInv
<1>1. ASSUME NEW o \in OrderId, NEW i \in Intents, Submit(o, i) \/ SubmitFails(o, i)
      PROVE  Book!Next
    <2>1. \A p \in OrderId \ {o} : UNCHANGED <<intent[p], state[p]>>
        BY <1>1 DEF Submit, SubmitFails, Inv, TypeOK
    <2>2. ~Terminal(o) /\ intent[o] = NoIntent
        BY <1>1 DEF Terminal, Submit, SubmitFails, Known
    <2>3. Finished' \in {Finished, Finished \cup {o}}
        BY <2>1, <2>2, FinishedAfter
    <2>4. Book!Place(o, i)
        BY <1>1, <2>2, <2>3 DEF Book!Place, Submit, SubmitFails
    <2>5. QED
        BY <2>4 DEF Book!Next, Book!Intents, Intents
<1>2. ASSUME NEW T, NEW reached, CancelEach(T, reached)
      PROVE  UNCHANGED Book!vars
    <2>1. \A o \in OpenOrders : Transition(state[o], "PENDING_CANCEL") = "PENDING_CANCEL"
        BY TableFacts, OpenOrderFacts
    <2>2. \A o \in OrderId : Terminal(o)' <=> Terminal(o)
        BY <1>2, <2>1 DEF CancelEach, Terminal, OpenOrders, Known, TerminalStates,
                          Inv, TypeOK
    <2>3. QED
        BY <1>2, <2>2 DEF CancelEach, Book!vars, Finished
<1>3. ASSUME NEW o \in OrderId, NEW status \in MappedStatus, OnOrderStatus(o, status)
      PROVE  [Book!Next]_Book!vars
    <2>1. /\ \A p \in OrderId \ {o} : UNCHANGED <<intent[p], state[p]>>
          /\ UNCHANGED <<intent, filled, position, seen>>
          /\ o \in Known
        BY <1>3 DEF OnOrderStatus, Inv, TypeOK
    <2>2. CASE Terminal(o)'
        <3>1. Finished' = Finished \cup {o}
            BY <2>1, <2>2, FinishedAfter
        <3>2. Book!Finish(o)
            BY <2>1, <3>1 DEF Book!Finish, Known
        <3>3. QED
            BY <3>2 DEF Book!Next
    <2>3. CASE ~Terminal(o)'
        <3>1. ~Terminal(o)
            BY <2>1, <2>3, FinishedFrozen DEF Terminal, Known
        <3>2. Finished' = Finished
            BY <2>1, <2>3, <3>1, FinishedAfter
        <3>3. QED
            BY <2>1, <3>2 DEF Book!vars
    <2>4. QED
        BY <2>2, <2>3
<1>4. ASSUME NEW e \in ExecId, NEW r \in -MaxQty..MaxQty, OnFill(e, r)
      PROVE  Book!Next
    <2> PICK o : o = execs[e].order
        OBVIOUS
    <2> PICK q : q = AbsQty(r)
        OBVIOUS
    <2>1. /\ o \in OpenOrders
          /\ q \in 1..MaxQty
          /\ filled[o] + q <= intent[o].quantity
          /\ filled' = [filled EXCEPT ![o] = @ + q]
          /\ position' = [position EXCEPT ![execs[e].symbol] = @ + Signed(o, q)]
          /\ state' = [state EXCEPT ![o] =
                           IF filled[o] + q = intent[o].quantity
                           THEN "FILLED" ELSE "PARTIALLY_FILLED"]
          /\ e \notin seen
          /\ seen' = seen \cup ({e} \ Untagged)
          /\ UNCHANGED intent
        BY <1>4, FillEffect DEF BookInv
    <2>11. execs[e].symbol = intent[o].symbol
        BY <1>4 DEF OnFill, BookInv, ReportsMatchOrders
    <2>2. /\ o \in OrderId /\ o \in Known /\ ~Terminal(o)
          /\ intent[o] \in Intents
        BY <2>1, OpenOrderFacts DEF Terminal, OpenOrders
    <2>3. Signed(o, q) = intent[o].side * q
        BY <2>1, <2>2 DEF Signed, Intents
    <2>4. \A p \in OrderId \ {o} : UNCHANGED <<intent[p], state[p]>>
        BY <2>1, <2>2 DEF Inv, TypeOK
    <2>5. state'[o] = IF filled[o] + q = intent[o].quantity
                      THEN "FILLED" ELSE "PARTIALLY_FILLED"
        BY <2>1, <2>2 DEF Inv, TypeOK
    <2>6. Terminal(o)' <=> filled[o] + q = intent[o].quantity
        BY <2>1, <2>2, <2>5 DEF Terminal, TerminalStates, Known
    <2>7. Finished' = IF filled[o] + q = intent[o].quantity
                      THEN Finished \cup {o} ELSE Finished
        BY <2>2, <2>4, <2>6, FinishedAfter
    <2>8. o \notin Finished
        BY <2>2 DEF Finished
    <2>9. Book!Credit(e, o, q)
        BY <2>1, <2>2, <2>3, <2>7, <2>8, <2>11 DEF Book!Credit, Known
    <2>10. QED
        BY <2>1, <2>2, <2>9 DEF Book!Next
<1>5. CASE UNCHANGED omsVars
    BY <1>5, SameBook DEF omsVars
<1>6. ASSUME NEW s \in Symbols, NEW q \in SeedQty, SeedPosition(s, q)
      PROVE  Book!Next
    <2>1. Finished' = Finished
        BY <1>6 DEF SeedPosition, Finished, Terminal, Known
    <2>2. Book!Seed(s, q)
        BY <1>6, <2>1 DEF SeedPosition, Book!Seed, Known
    <2>3. QED
        BY <2>2 DEF Book!Next
<1>7. QED
    BY <1>1, <1>2, <1>3, <1>4, <1>5, <1>6, BrokerLeavesOms
    DEF Next, OmsNext, vars, Cancel, CancelAll

(***************************************************************************)
(* The order management system keeps the promise of OrderBook: the ledger  *)
(* moves only when an execution is credited to an unfinished order, for    *)
(* the first time if it has an exec_id, on the order's own symbol, by its  *)
(* quantity and in the order's direction, and an order is finished by      *)
(* fills exactly when its last unit is credited.                           *)
(***************************************************************************)
THEOREM OmsImplementsOrderBook == Spec => ImplementsOrderBook
<1>1. BookInv /\ [Next]_vars => BookInv'
    BY TypeStep, StateStep, ReportStep DEF Inv, BookInv
<1>2. Init => BookInv
    BY InitInv DEF BookInv, ReportsMatchOrders, Init
<1>3. BookInv => Inv
    BY DEF BookInv
<1>4. QED
    BY <1>1, <1>2, <1>3, BookInit, BookStep, PTL DEF Spec, ImplementsOrderBook, Book!Spec
============================================================================
