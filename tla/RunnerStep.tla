----------------------------- MODULE RunnerStep -----------------------------
(***************************************************************************)
(* The bookkeeping of execution/runner.py: step reads the open positions,  *)
(* counts the closed ones it knew, remembers the new ones, moves stops to  *)
(* breakeven and lets the bars open new positions.  runner.json is saved   *)
(* twice a step; between those saves the process can die, a broker call    *)
(* can raise, and the broker can close positions on its own.               *)
(*                                                                         *)
(* A time exit is one of the broker's closes.  Prices are left out: any    *)
(* open position may have moved far enough for its breakeven.  The list    *)
(* known_tickets is a set of tickets: an open position is listed at every  *)
(* step, so the list never leaves the order in which the positions opened. *)
(***************************************************************************)
EXTENDS Integers, Sequences, FiniteSets

CONSTANTS MaxTickets,  \* bound: positions opened
          MaxDay,      \* bound: days
          MaxLosses    \* max_consecutive_losses

ASSUME RunnerStepAssumption ==
    /\ MaxTickets \in Nat
    /\ MaxDay \in Nat \ {0}
    /\ MaxLosses \in Nat \ {0}

VARIABLES day,
          next,      \* tickets given out so far
          open,      \* tickets open at the broker
          closings,  \* closed positions, in the order they closed
          visible,   \* tickets whose closing deal is in the history
          atOpen,    \* tickets whose stop stands at the opening price
          moves,     \* breakeven moves executed for each ticket (history)
          file,      \* runner.json
          pc, st,    \* the step in progress and its RunnerState
          ours,      \* the positions it listed: [ticket -> stop at open?]
          counted    \* how often each ticket was counted (history)

broker == <<open, closings, visible, atOpen, moves>>
vars   == <<day, next, open, closings, visible, atOpen, moves, file, pc, st,
            ours, counted>>

Tickets == 1..MaxTickets

RunnerState == [day |-> 0, losses |-> 0, known |-> {}, done |-> {}]

Nothing == [t \in {} |-> FALSE]

Init ==
    /\ day = 1
    /\ next = 0
    /\ open = {}
    /\ closings = <<>>
    /\ visible = {}
    /\ atOpen = {}
    /\ moves = [t \in Tickets |-> 0]
    /\ file = RunnerState
    /\ pc = "idle"
    /\ st = RunnerState
    /\ ours = Nothing
    /\ counted = [t \in Tickets |-> 0]

----------------------------------------------------------------------------
(* The broker and the calendar (external). *)

NextDay ==
    /\ day < MaxDay
    /\ day' = day + 1
    /\ UNCHANGED <<next, broker, file, pc, st, ours, counted>>

Close ==
    /\ \E t \in open, lost \in BOOLEAN :
        /\ open' = open \ {t}
        /\ closings' = Append(closings, [ticket |-> t, lost |-> lost, day |-> day])
    /\ UNCHANGED <<day, next, visible, atOpen, moves, file, pc, st, ours, counted>>

\* The closing deal shows up in the history.
Appear ==
    /\ \E i \in DOMAIN closings :
        /\ closings[i].ticket \notin visible
        /\ visible' = visible \cup {closings[i].ticket}
    /\ UNCHANGED <<day, next, open, closings, atOpen, moves, file, pc, st, ours, counted>>

----------------------------------------------------------------------------
(* One step of the runner. *)

\* closed_pnl of a ticket whose deal is visible.
Lost(t) == \E i \in DOMAIN closings : closings[i].ticket = t /\ closings[i].lost

\* The streak after counting the tickets of c in their order.
Streak(before, c) ==
    LET wins == {t \in c : ~Lost(t)}
    IN  IF wins = {} THEN before + Cardinality(c)
        ELSE Cardinality({t \in c : \A w \in wins : w < t})

ForgetsClosed(known, gone) == known \cap open  \* mutant: also closings not yet in the history

Forgets(known, gone) == known \ gone

\* load_runner to the first save_runner.
Book ==
    /\ pc = "idle"
    /\ LET rolled == IF file.day = day THEN file.losses ELSE 0
           gone   == (file.known \cap visible) \ open
       IN  /\ st' = [day |-> day, losses |-> Streak(rolled, gone),
                     known |-> Forgets(file.known, gone) \cup open,
                     done |-> file.done \ gone]
           /\ counted' = [t \in Tickets |-> IF t \in gone THEN counted[t] + 1 ELSE counted[t]]
    /\ file' = st'
    /\ ours' = [t \in open |-> t \in atOpen]
    /\ pc' = "manage"
    /\ UNCHANGED <<day, next, broker>>

MovesEvenIfMoved(t) == t \in open  \* mutant: a stop already at the opening price is moved again

\* _maybe_breakeven sends a modification unless it sees the stop in place.
Movable(t) == t \in open /\ ~ours[t]

\* _maybe_breakeven for one listed position.
Breakeven ==
    /\ pc = "manage"
    /\ \E t \in DOMAIN ours \ st.done :
        \/ \* the stop is in place already, as after a restart
           /\ ours[t]
           /\ st' = [st EXCEPT !.done = @ \cup {t}]
           /\ UNCHANGED <<ours, broker>>
        \/ \* the modification is executed, and the answer may be lost
           /\ Movable(t)
           /\ atOpen' = atOpen \cup {t}
           /\ moves' = [moves EXCEPT ![t] = @ + 1]
           /\ st' \in {st, [st EXCEPT !.done = @ \cup {t}]}
           /\ ours' = [u \in DOMAIN ours \ {t} |-> ours[u]]
           /\ UNCHANGED <<open, closings, visible>>
    /\ UNCHANGED <<day, next, file, pc, counted>>

\* The second save_runner.
Save ==
    /\ pc = "manage"
    /\ file' = st
    /\ pc' = "bars"
    /\ ours' = Nothing
    /\ UNCHANGED <<day, next, broker, st, counted>>

\* _process_bars with the streak of this step; can_open refuses on a full one.
Bars ==
    /\ pc = "bars"
    /\ \/ /\ st.losses < MaxLosses
          /\ next < MaxTickets
          /\ next' = next + 1
          /\ open' = open \cup {next + 1}
          /\ UNCHANGED pc
       \/ /\ pc' = "idle"
          /\ UNCHANGED <<next, open>>
    /\ st' = IF pc' = "idle" THEN RunnerState ELSE st
    /\ UNCHANGED <<day, closings, visible, atOpen, moves, file, ours, counted>>

\* The process dies, or a broker call raises and run goes to the next step:
\* what is not in the file is forgotten.
Abort ==
    /\ pc # "idle"
    /\ pc' = "idle"
    /\ st' = RunnerState
    /\ ours' = Nothing
    /\ UNCHANGED <<day, next, broker, file, counted>>

Next ==
    \/ NextDay \/ Close \/ Appear
    \/ Book \/ Breakeven \/ Save \/ Bars \/ Abort

Spec == Init /\ [][Next]_vars

\* The loop of run goes on, and the broker publishes what it closed.
FairSpec == Spec /\ WF_vars(Book) /\ WF_vars(Save \/ Bars \/ Abort) /\ WF_vars(Appear)

----------------------------------------------------------------------------
(* Properties. *)

RunnerStates ==
    [day : 0..MaxDay, losses : 0..MaxTickets, known : SUBSET Tickets, done : SUBSET Tickets]

TypeOK ==
    /\ day \in 1..MaxDay
    /\ next \in 0..MaxTickets
    /\ open \subseteq 1..next
    /\ closings \in Seq([ticket : 1..next, lost : BOOLEAN, day : 1..MaxDay])
    /\ visible \subseteq 1..next
    /\ atOpen \subseteq 1..next
    /\ moves \in [Tickets -> Nat]
    /\ file \in RunnerStates
    /\ pc \in {"idle", "manage", "bars"}
    /\ st \in RunnerStates
    /\ DOMAIN ours \subseteq 1..next
    /\ counted \in [Tickets -> Nat]

(***************************************************************************)
(* A position counts once: a closing enters the streak at most once, and   *)
(* the stop gets "the one breakeven move" at most once, however often the  *)
(* runner dies, a step is cut short, or an answer or a save is lost        *)
(* (runner.py, step, _maybe_breakeven).                                    *)
(***************************************************************************)
OncePerPosition == \A t \in Tickets : counted[t] <= 1 /\ moves[t] <= 1

(***************************************************************************)
(* step: a position the runner once saw open is counted after it closed.   *)
(***************************************************************************)
Awaited(t) == t \in file.known /\ t \notin open

KnownClosingsCounted == \A t \in Tickets : Awaited(t) ~> counted[t] > 0
=============================================================================
