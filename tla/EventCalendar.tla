--------------------------- MODULE EventCalendar ---------------------------
(***************************************************************************)
(* The event calendar of mini_prop_os (risk/event_calendar.py): events     *)
(* sorted by time, the starts of their blackout windows beside them, and   *)
(* the search that tells the strategy layer whether to stand aside.        *)
(***************************************************************************)
EXTENDS Integers, Sequences, FiniteSets

CONSTANTS Times,          \* of events and questions, a range
          Impacts,
          Before, After,  \* window, by impact
          Horizon,        \* the day after which the scan gives up
          MaxEvents       \* bound: events in the file

VARIABLES events, now

calVars == <<events, now>>

Event == [at : Times, impact : Impacts]

Start(e) == e.at - Before[e.impact]
End(e)   == e.at + After[e.impact]

\* add: bisect_left on the times, so before the events of the same time.
Place(seq, e) == Cardinality({i \in DOMAIN seq : seq[i].at < e.at}) + 1

Inserted(seq, i, e) == SubSeq(seq, 1, i - 1) \o <<e>> \o SubSeq(seq, i, Len(seq))

Init == events = <<>> /\ now \in Times

Add(e) ==
    /\ Len(events) < MaxEvents
    /\ events' = Inserted(events, Place(events, e), e)
    /\ UNCHANGED now

\* What prune keeps, in its order.
Kept(before) ==
    LET kept[n \in 0..Len(events)] ==
            IF n = 0 THEN <<>>
            ELSE IF events[n].at >= before THEN Append(kept[n - 1], events[n])
            ELSE kept[n - 1]
    IN  kept[Len(events)]

Prune(before) ==
    /\ events' = Kept(before)
    /\ UNCHANGED now

Ask(t) == now' = t /\ UNCHANGED events

Next == (\E e \in Event : Add(e)) \/ (\E t \in Times : Prune(t) \/ Ask(t))

----------------------------------------------------------------------------
\* bisect_left on _starts, which are in the order of the times: the number of
\* entries it takes to lie below t.
Below(t) ==
    LET bisect[range \in (0..Len(events)) \X (0..Len(events))] ==
            LET lo  == range[1]
                hi  == range[2]
                mid == (lo + hi) \div 2
            IN  IF lo >= hi THEN lo
                ELSE IF Start(events[mid + 1]) < t THEN bisect[<<mid + 1, hi>>]
                ELSE bisect[<<lo, mid>>]
    IN  bisect[<<0, Len(events)>>]

Covers(e, t) == Start(e) <= t /\ t <= End(e)

ScanFromBelow(t) == Below(t)  \* mutant: the window that starts at t is not looked at
\* The scan goes back from the first window that starts at t or later.
ScanFrom(t) == IF Below(t) < Len(events) THEN Below(t) + 1 ELSE Len(events)

\* active_event # None: found before an event that ended a day ago.
IsBlackout(t) ==
    \E i \in 1..ScanFrom(t) :
        /\ Covers(events[i], t)
        /\ \A k \in (i + 1)..ScanFrom(t) : End(events[k]) >= t - Horizon

(***************************************************************************)
(* No blackout is called that no window covers, and a window that covers   *)
(* the moment is missed only when an earlier event's window starts later   *)
(* than now, which windows that differ by impact allow: at both ends of a  *)
(* window, through overlaps, additions and pruning (event_calendar.py,     *)
(* active_event, add, prune).                                              *)
(***************************************************************************)
BlackoutFound ==
    /\ IsBlackout(now) => \E i \in DOMAIN events : Covers(events[i], now)
    /\ \A i \in DOMAIN events :
          Covers(events[i], now) /\ (\A k \in 1..(i - 1) : Start(events[k]) <= now)
              => IsBlackout(now)
=============================================================================
