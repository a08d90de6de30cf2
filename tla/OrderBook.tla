----------------------------- MODULE OrderBook -----------------------------
(***************************************************************************)
(* What the order management system promises to the risk layer and to the  *)
(* strategies: a ledger that moves only by crediting an execution to an    *)
(* order that is still unfinished, on that order's symbol, in its          *)
(* direction and within its quantity, and at most once if the execution    *)
(* has an identifier; finished orders never change.                        *)
(***************************************************************************)
EXTENDS Integers

CONSTANTS OrderId, ExecId, Symbols, Untagged, MaxQty, SeedQty, NoIntent

VARIABLES intent,    \* what each order asks for, or NoIntent
          filled,    \* how much of it has been credited
          position,  \* the ledger
          credited,  \* identified executions credited so far
          finished   \* orders that will never be credited again

vars == <<intent, filled, position, credited, finished>>

Intents == [symbol : Symbols, side : {1, -1}, quantity : 1..MaxQty]

Init ==
    /\ intent = [o \in OrderId |-> NoIntent]
    /\ filled = [o \in OrderId |-> 0]
    /\ position = [s \in Symbols |-> 0]
    /\ credited = {}
    /\ finished = {}

\* An order is recorded once; a failed submission is finished from the start.
Place(o, i) ==
    /\ intent[o] = NoIntent
    /\ intent' = [intent EXCEPT ![o] = i]
    /\ finished' \in {finished, finished \cup {o}}
    /\ UNCHANGED <<filled, position, credited>>

\* The order becomes finished exactly when its last unit is credited.
Credit(e, o, q) ==
    /\ e \notin credited
    /\ intent[o] # NoIntent
    /\ o \notin finished
    /\ filled[o] + q <= intent[o].quantity
    /\ filled' = [filled EXCEPT ![o] = @ + q]
    /\ position' = [position EXCEPT ![intent[o].symbol] = @ + intent[o].side * q]
    /\ credited' = credited \cup ({e} \ Untagged)
    /\ finished' = IF filled[o] + q = intent[o].quantity
                   THEN finished \cup {o} ELSE finished
    /\ UNCHANGED intent

Finish(o) ==
    /\ intent[o] # NoIntent
    /\ finished' = finished \cup {o}
    /\ UNCHANGED <<intent, filled, position, credited>>

\* A position found in the account before any order exists.
Seed(s, q) ==
    /\ position[s] = 0
    /\ \A o \in OrderId : intent[o] = NoIntent
    /\ position' = [position EXCEPT ![s] = q]
    /\ UNCHANGED <<intent, filled, credited, finished>>

Next ==
    \/ \E o \in OrderId, i \in Intents : Place(o, i)
    \/ \E e \in ExecId, o \in OrderId, q \in 1..MaxQty : Credit(e, o, q)
    \/ \E o \in OrderId : Finish(o)
    \/ \E s \in Symbols, q \in SeedQty : Seed(s, q)

Spec == Init /\ [][Next]_vars
============================================================================
