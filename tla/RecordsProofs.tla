---------------------------- MODULE RecordsProofs ----------------------------
(***************************************************************************)
(* What holds of the two records that outlive the process writing them     *)
(* (MCRecords), for every number of positions, days, saves and crashes.    *)
(*                                                                         *)
(* First one step of the ftmo runner around its state file: it reads the   *)
(* file, counts closed trades, saves, moves stops, decides on bars, saves  *)
(* again, and can die in between (runner.py, Runner.step).                 *)
(*                                                                         *)
(* Then the state file of the paper trader, written by write-to-temporary, *)
(* fsync, backup and rename (state.py, StateStore.save and load).  A loss  *)
(* of power can leave any of a set of directories; the invariant is about  *)
(* every directory of that set, and about what a save has made sure of     *)
(* when it gets to its next call.                                          *)
(***************************************************************************)
EXTENDS MCRecords, FiniteSetTheorems, SequenceTheorems, TLAPS

Counted == {t \in Tickets : counted[t] > 0}

Closings(n) == [ticket : 1..n, lost : BOOLEAN, day : 1..MaxDay]

Books(n) ==
    [day : 0..MaxDay, losses : Nat, known : SUBSET (1..n), done : SUBSET (1..n)]

\* The types of everything but the two streaks.
FieldsOK ==
    /\ day \in 1..MaxDay
    /\ next \in 0..MaxTickets
    /\ open \subseteq 1..next
    /\ closings \in Seq(Closings(next))
    /\ visible \subseteq 1..next
    /\ atOpen \subseteq 1..next
    /\ moves \in [Tickets -> Nat]
    /\ file \in Books(next)
    /\ pc \in {"idle", "manage", "bars"}
    /\ st \in Books(next)
    /\ DOMAIN ours \subseteq 1..next
    /\ counted \in [Tickets -> Nat]

\* A streak never exceeds the closings that were counted.
StreaksBounded ==
    file.losses <= Cardinality(Counted) /\ st.losses <= Cardinality(Counted)

\* A counted position is closed and forgotten, in the file and in the step
\* whose state the second save will write.
CountedIsForgotten ==
    \A t \in Tickets :
        /\ counted[t] <= 1
        /\ counted[t] > 0 =>
              /\ t <= next /\ t \notin open /\ t \notin file.known
              /\ pc = "manage" => t \notin st.known

\* A stop that was moved stands at the opening price, and the step knows
\* where the stops it listed stand.
MovedIsAtOpen ==
    /\ \A t \in Tickets : moves[t] <= 1 /\ (moves[t] > 0 => t \in atOpen)
    /\ \A t \in DOMAIN ours : ours[t] <=> t \in atOpen

IInv == FieldsOK /\ StreaksBounded /\ CountedIsForgotten /\ MovedIsAtOpen

\* The invariant holds before the first step.
LEMMA InitIInv == Init => IInv
  <1> SUFFICES ASSUME Init PROVE IInv
    OBVIOUS
  <1> USE RunnerStepAssumption
  <1>1. Counted = {}
    BY DEF Init, Counted
  <1>2. Cardinality(Counted) = 0
    BY <1>1, FS_EmptySet
  <1>3. StreaksBounded
    BY <1>2 DEF Init, RunnerState, StreaksBounded
  <1>4. CountedIsForgotten /\ MovedIsAtOpen
    BY DEF Init, RunnerState, Nothing, CountedIsForgotten, MovedIsAtOpen
  <1>5. FieldsOK
    <2>1. closings \in Seq(Closings(next))
      BY EmptySeq DEF Init
    <2>2. RunnerState \in Books(next)
      BY DEF Init, RunnerState, Books
    <2>3. moves \in [Tickets -> Nat] /\ counted \in [Tickets -> Nat]
      BY DEF Init
    <2>4. DOMAIN ours = {}
      BY DEF Init, Nothing
    <2> QED
      BY <2>1, <2>2, <2>3, <2>4 DEF Init, FieldsOK
  <1> QED
    BY <1>3, <1>4, <1>5 DEF IInv

\* The positions counted are finitely many, at most one for each ticket.
LEMMA CountedFinite ==
    /\ IsFiniteSet(Counted) /\ Cardinality(Counted) \in Nat
    /\ Cardinality(Counted) <= MaxTickets
  <1>1. IsFiniteSet(Tickets) /\ Cardinality(Tickets) = MaxTickets
    BY RunnerStepAssumption, FS_Interval DEF Tickets
  <1> QED
    BY <1>1, FS_Subset, FS_CardinalityType DEF Counted

\* Counting a batch of closed trades adds at most its size to the streak of
\* losses (runner.py, Runner.step).
LEMMA StreakBound ==
    ASSUME NEW before \in Nat, NEW c, IsFiniteSet(c)
    PROVE  Streak(before, c) \in Nat /\ Streak(before, c) <= before + Cardinality(c)
  <1> DEFINE wins == {t \in c : ~Lost(t)}
             late == {t \in c : \A w \in wins : w < t}
  <1>1. Cardinality(c) \in Nat
    BY FS_CardinalityType
  <1>2. Cardinality(late) \in Nat /\ Cardinality(late) <= Cardinality(c)
    BY FS_Subset, FS_CardinalityType
  <1> QED
    BY <1>1, <1>2 DEF Streak

\* A day that passes, a position that closes and a fill that becomes visible
\* disturb nothing.
LEMMA OutsideSteps ==
    ASSUME IInv, NextDay \/ Close \/ Appear
    PROVE  IInv'
  <1> USE RunnerStepAssumption DEF IInv, FieldsOK, broker
  <1>1. UNCHANGED <<next, atOpen, moves, file, pc, st, ours, counted>> /\ open' \subseteq open
    BY DEF NextDay, Close, Appear
  <1>2. Counted' = Counted
    BY <1>1 DEF Counted
  <1>3. StreaksBounded' /\ CountedIsForgotten' /\ MovedIsAtOpen'
    BY <1>1, <1>2 DEF StreaksBounded, CountedIsForgotten, MovedIsAtOpen
  <1>4. CASE NextDay
    BY <1>3, <1>4 DEF NextDay
  <1>5. CASE Close
    <2>1. PICK t \in open, lost \in BOOLEAN :
            closings' = Append(closings, [ticket |-> t, lost |-> lost, day |-> day])
      BY <1>5 DEF Close
    <2>2. [ticket |-> t, lost |-> lost, day |-> day] \in Closings(next)
      BY DEF Closings
    <2>3. closings' \in Seq(Closings(next))
      BY <2>1, <2>2, AppendProperties
    <2> QED
      BY <1>1, <1>3, <1>5, <2>3 DEF Close
  <1>6. CASE Appear
    <2>1. visible' \subseteq 1..next
      <3>1. PICK i \in DOMAIN closings : visible' = visible \cup {closings[i].ticket}
        BY <1>6 DEF Appear
      <3>2. closings[i] \in Closings(next)
        BY ElementOfSeq, LenProperties
      <3> QED
        BY <3>1, <3>2 DEF Closings
    <2> QED
      BY <1>3, <1>6, <2>1 DEF Appear
  <1> QED
    BY <1>4, <1>5, <1>6

\* The first save forgets every position it counted, so that none of them is
\* counted again; a step that counts raises the streak by what it counted at
\* most (runner.py, Runner.step).
LEMMA BookStep ==
    ASSUME IInv, Book
    PROVE  IInv'
  <1> DEFINE gone   == (file.known \cap visible) \ open
             rolled == IF file.day = day THEN file.losses ELSE 0
  <1> USE RunnerStepAssumption DEF IInv, FieldsOK, broker
  <1>1. /\ st' = [day |-> day, losses |-> Streak(rolled, gone),
                  known |-> (file.known \ gone) \cup open, done |-> file.done \ gone]
        /\ file' = st' /\ pc' = "manage"
        /\ counted' = [t \in Tickets |-> IF t \in gone THEN counted[t] + 1 ELSE counted[t]]
        /\ ours' = [t \in open |-> t \in atOpen]
        /\ UNCHANGED <<day, next, open, closings, visible, atOpen, moves>>
    BY DEF Book, Forgets
  <1>2. gone \subseteq Tickets /\ gone \cap Counted = {} /\ Counted' = Counted \cup gone
    <2>1. gone \subseteq Tickets
      <3>1. 1..next \subseteq Tickets /\ visible \subseteq 1..next
        BY DEF Tickets
      <3> QED
        BY <3>1
    <2>2. gone \cap Counted = {}
      BY DEF Counted, CountedIsForgotten
    <2>3. \A t \in Tickets : counted'[t] > 0 <=> counted[t] > 0 \/ t \in gone
      <3> HIDE DEF gone
      <3> QED
        BY <1>1
    <2>4. Counted' = Counted \cup gone
      <3> HIDE DEF gone
      <3> QED
        BY <2>1, <2>3 DEF Counted
    <2> QED
      BY <2>1, <2>2, <2>4
  <1>3. rolled \in Nat /\ rolled <= Cardinality(Counted)
    BY CountedFinite DEF StreaksBounded, Books
  <1>4. IsFiniteSet(gone) /\ Cardinality(gone) \in Nat
    <2>1. IsFiniteSet(Tickets)
      BY FS_Interval DEF Tickets
    <2> HIDE DEF gone
    <2> QED
      BY <1>2, <2>1, FS_Subset, FS_CardinalityType
  <1> HIDE DEF gone, rolled
  <1>5. Cardinality(Counted') = Cardinality(Counted) + Cardinality(gone)
    <2>1. Cardinality(Counted \cap gone) = 0
      BY <1>2, FS_EmptySet
    <2>2. Cardinality(Counted \cup gone) =
            Cardinality(Counted) + Cardinality(gone) - Cardinality(Counted \cap gone)
      BY <1>4, CountedFinite, FS_Union
    <2> QED
      BY <1>2, <1>4, <2>1, <2>2, CountedFinite
  <1>6. Streak(rolled, gone) \in Nat /\ Streak(rolled, gone) <= Cardinality(Counted')
    <2>1. Streak(rolled, gone) \in Nat /\ Streak(rolled, gone) <= rolled + Cardinality(gone)
      BY <1>3, <1>4, StreakBound
    <2>2. Cardinality(Counted) \in Nat
      BY CountedFinite
    <2> QED
      BY <1>3, <1>4, <1>5, <2>1, <2>2
  <1>7. StreaksBounded'
    BY <1>1, <1>6 DEF StreaksBounded
  <1>8. FieldsOK'
    <2>1. (file.known \ gone) \cup open \subseteq 1..next /\ file.done \ gone \subseteq 1..next
      BY DEF Books
    <2>2. st' \in Books(next)
      BY <1>1, <1>6, <2>1, CountedFinite DEF Books
    <2>3. counted' \in [Tickets -> Nat]
      BY <1>1
    <2> QED
      BY <1>1, <2>2, <2>3
  <1>9. CountedIsForgotten'
    BY <1>1, <1>2 DEF CountedIsForgotten, Counted, gone, Books
  <1>10. MovedIsAtOpen'
    BY <1>1 DEF MovedIsAtOpen
  <1> QED
    BY <1>7, <1>8, <1>9, <1>10

\* A stop is moved only where the step listed one that is not at the opening
\* price, and then it is there (runner.py, _maybe_breakeven).
LEMMA BreakevenStep ==
    ASSUME IInv, Breakeven
    PROVE  IInv'
  <1> USE RunnerStepAssumption DEF IInv, FieldsOK, broker
  <1>1. UNCHANGED <<day, next, open, closings, visible, file, pc, counted>>
    BY DEF Breakeven
  <1>2. Counted' = Counted
    BY <1>1 DEF Counted
  <1>3. PICK t \in DOMAIN ours \ st.done :
          \/ /\ ours[t] /\ st' = [st EXCEPT !.done = @ \cup {t}]
             /\ UNCHANGED <<ours, atOpen, moves>>
          \/ /\ Movable(t) /\ atOpen' = atOpen \cup {t}
             /\ moves' = [moves EXCEPT ![t] = @ + 1]
             /\ st' \in {st, [st EXCEPT !.done = @ \cup {t}]}
             /\ ours' = [u \in DOMAIN ours \ {t} |-> ours[u]]
    BY DEF Breakeven
  <1>4. t \in 1..next /\ t \in Tickets
    BY <1>3 DEF Tickets
  <1>5. /\ st' \in Books(next)
        /\ st'.losses = st.losses /\ st'.known = st.known
    <2>1. [st EXCEPT !.done = @ \cup {t}] \in Books(next)
      BY <1>4 DEF Books
    <2>2. st' \in {st, [st EXCEPT !.done = @ \cup {t}]}
      BY <1>3
    <2> QED
      BY <2>1, <2>2 DEF Books
  <1>6. StreaksBounded' /\ CountedIsForgotten'
    BY <1>1, <1>2, <1>5 DEF StreaksBounded, CountedIsForgotten
  <1>7. CASE UNCHANGED <<ours, atOpen, moves>>
    BY <1>1, <1>5, <1>6, <1>7 DEF MovedIsAtOpen
  <1>8. CASE /\ Movable(t) /\ atOpen' = atOpen \cup {t}
             /\ moves' = [moves EXCEPT ![t] = @ + 1]
             /\ ours' = [u \in DOMAIN ours \ {t} |-> ours[u]]
    <2>1. moves[t] = 0
      BY <1>3, <1>4, <1>8 DEF Movable, MovedIsAtOpen
    <2>2. MovedIsAtOpen'
      <3>1. \A u \in Tickets : moves'[u] = IF u = t THEN 1 ELSE moves[u]
        BY <1>4, <1>8, <2>1
      <3>2. \A u \in Tickets : moves'[u] <= 1 /\ (moves'[u] > 0 => u \in atOpen')
        BY <1>8, <3>1 DEF MovedIsAtOpen
      <3>3. \A u \in DOMAIN ours' : u \in DOMAIN ours /\ u # t /\ ours'[u] = ours[u]
        BY <1>8
      <3>4. \A u \in DOMAIN ours' : ours'[u] <=> u \in atOpen'
        BY <1>8, <3>3, Zenon DEF MovedIsAtOpen
      <3> QED
        BY <3>2, <3>4 DEF MovedIsAtOpen
    <2>3. moves' \in [Tickets -> Nat] /\ atOpen' \subseteq 1..next /\ DOMAIN ours' \subseteq 1..next
      BY <1>4, <1>8
    <2>4. FieldsOK'
      BY <1>1, <1>5, <2>3
    <2> QED
      BY <1>6, <2>2, <2>4
  <1> QED
    BY <1>3, <1>7, <1>8

\* The second save writes the state the first one left, and an abort drops it.
LEMMA EndSteps ==
    ASSUME IInv, Save \/ Abort
    PROVE  IInv'
  <1> USE RunnerStepAssumption DEF IInv, FieldsOK, broker
  <1>1. UNCHANGED <<day, next, open, closings, visible, atOpen, moves, counted>>
    BY DEF Save, Abort
  <1>2. Counted' = Counted
    BY <1>1 DEF Counted
  <1>3. /\ pc' \in {"idle", "bars"} /\ ours' = Nothing
        /\ file' \in {file, st} /\ st' \in {st, RunnerState}
        /\ file' = st => pc = "manage" \/ file = st
    BY DEF Save, Abort
  <1>4. RunnerState \in Books(next)
    BY DEF RunnerState, Books
  <1>5. FieldsOK'
    BY <1>1, <1>3, <1>4 DEF Nothing
  <1>6. StreaksBounded'
    BY <1>2, <1>3, CountedFinite DEF StreaksBounded, RunnerState
  <1>7. CountedIsForgotten'
    BY <1>1, <1>3 DEF CountedIsForgotten
  <1>8. MovedIsAtOpen'
    BY <1>1, <1>3 DEF MovedIsAtOpen, Nothing
  <1> QED
    BY <1>5, <1>6, <1>7, <1>8

\* Deciding on bars adds positions of new tickets, which nothing has counted or
\* moved (runner.py, _process_bars).
LEMMA BarsStep ==
    ASSUME IInv, Bars
    PROVE  IInv'
  <1> USE RunnerStepAssumption DEF IInv, FieldsOK
  <1>1. /\ UNCHANGED <<day, closings, visible, atOpen, moves, file, ours, counted>>
        /\ st' \in {st, RunnerState} /\ pc = "bars" /\ pc' \in {"bars", "idle"}
    BY DEF Bars
  <1>2. Counted' = Counted
    BY <1>1 DEF Counted
  <1>3. \/ next' = next /\ open' = open
        \/ next < MaxTickets /\ next' = next + 1 /\ open' = open \cup {next + 1}
    BY DEF Bars
  <1>4. next' \in 0..MaxTickets /\ 1..next \subseteq 1..next' /\ open' \subseteq 1..next'
    <2>1. CASE next' = next /\ open' = open
      BY <2>1
    <2>2. CASE next < MaxTickets /\ next' = next + 1 /\ open' = open \cup {next + 1}
      BY <2>2
    <2> QED
      BY <1>3, <2>1, <2>2
  <1>5. closings' \in Seq(Closings(next'))
    <2>1. Closings(next) \subseteq Closings(next')
      BY <1>4 DEF Closings
    <2> QED
      BY <1>1, <2>1, SeqMonotonic
  <1>6. RunnerState \in Books(next')
    BY DEF RunnerState, Books
  <1>7. {file, st} \subseteq Books(next')
    BY <1>4 DEF Books
  <1>8. FieldsOK'
    BY <1>1, <1>4, <1>5, <1>6, <1>7
  <1>9. StreaksBounded'
    BY <1>1, <1>2, CountedFinite DEF StreaksBounded, RunnerState
  <1>10. CountedIsForgotten'
    BY <1>1, <1>3 DEF CountedIsForgotten, Tickets
  <1>11. MovedIsAtOpen'
    BY <1>1 DEF MovedIsAtOpen
  <1> QED
    BY <1>8, <1>9, <1>10, <1>11

\* Every step keeps the invariant.
LEMMA NextIInv == IInv /\ [Next]_vars => IInv'
  <1> SUFFICES ASSUME IInv, [Next]_vars PROVE IInv'
    OBVIOUS
  <1>1. CASE UNCHANGED vars
    <2>1. UNCHANGED <<day, next, open, closings, visible, atOpen, moves, file, pc, st,
        ours, counted>>
      BY <1>1 DEF vars, broker
    <2> QED
      BY <2>1 DEF IInv, FieldsOK, StreaksBounded, Counted, CountedIsForgotten, MovedIsAtOpen
  <1> QED
    BY <1>1, OutsideSteps, BookStep, BreakevenStep, EndSteps, BarsStep DEF Next

\* The invariant holds throughout.
LEMMA SpecIInv == Spec => []IInv
  BY InitIInv, NextIInv, PTL DEF Spec

(***************************************************************************)
(* The state file keeps its types; the streak of losses stays within the   *)
(* number of tickets, because no closed position is counted twice.         *)
(***************************************************************************)
THEOREM RunnerTypeCorrect == Spec => []TypeOK
  <1>1. IInv => TypeOK
    <2> SUFFICES ASSUME IInv PROVE TypeOK
      OBVIOUS
    <2> USE RunnerStepAssumption DEF IInv, FieldsOK
    <2>1. 1..next \subseteq Tickets
      BY DEF Tickets
    <2>2. file.losses \in 0..MaxTickets /\ st.losses \in 0..MaxTickets
      BY CountedFinite DEF StreaksBounded, Books
    <2>3. file \in RunnerStates /\ st \in RunnerStates
      BY <2>1, <2>2 DEF RunnerStates, Books
    <2> QED
      BY <2>3 DEF TypeOK, Closings
  <1> QED
    BY <1>1, SpecIInv, PTL

(***************************************************************************)
(* Every closed position is counted once at most and every stop is moved   *)
(* once at most, although a step can die between its two saves and the     *)
(* next one reads an older file (runner.py, Runner.step).                  *)
(***************************************************************************)
THEOREM CountsAndMovesOnce == Spec => []OncePerPosition
  <1>1. IInv => OncePerPosition
    BY DEF IInv, CountedIsForgotten, MovedIsAtOpen, OncePerPosition
  <1> QED
    BY <1>1, SpecIInv, PTL

----------------------------------------------------------------------------
(* The state file. *)

\* A directory a process may find: its backup reads, nothing in it is
\* volatile or from the future, and it has not lost the last durable save.
Sound(d) ==
    /\ ~Store!Is(d, "bak", "torn")
    /\ \A f \in {"main", "bak"} : Store!Is(d, f,
            "whole") => d[f].synced /\ d[f].version <= version
    /\ Store!Is(d, "bak", "whole") /\ Store!Is(d, "main", "whole") =>
            d["bak"].version <= d["main"].version
    /\ Store!Is(d, "main", "whole") => saved <= d["main"].version
    /\ saved > 0 /\ Store!Is(d, "main", "absent") =>
            Store!Is(d, "bak", "whole") /\ d["bak"].version >= saved

\* What a save has made sure of when it gets there.
SaveUnderWay ==
    /\ job \in {"write", "fsync", "check", "retire", "replace", "sync"} => version > 0
    /\ job = "fsync" => dir["tmp"] = Store!Whole(version, FALSE)
    /\ job \in {"check", "retire", "replace"} => dir["tmp"] = Store!Whole(version, TRUE)
    /\ job = "retire" => Store!Is(dir, "main", "whole")
    /\ job = "sync" => dir["main"] = Store!Whole(version, TRUE)

StoreInv == Store!TypeOK /\ (\A d \in dirs : Sound(d)) /\ SaveUnderWay

----------------------------------------------------------------------------
\* What a file holds is nothing, a torn write or a whole version, and these
\* differ.
LEMMA ContentFacts ==
    /\ Store!Absent \in Store!Contents /\ Store!Torn \in Store!Contents
    /\ \A v \in Store!Versions, s \in BOOLEAN : Store!Whole(v, s) \in Store!Contents
    /\ \A c \in Store!Contents :
        /\ c.kind \in {"absent", "torn", "whole"} /\ c.synced \in BOOLEAN
        /\ c.kind = "absent" <=> c = Store!Absent
        /\ c.kind = "torn" <=> c = Store!Torn
        /\ c.kind = "whole" =>
              c.version \in Store!Versions /\ c = Store!Whole(c.version, c.synced)
        /\ c.kind # "whole" => c.synced
    /\ Store!Absent.kind = "absent" /\ Store!Absent.synced
    /\ Store!Torn.kind = "torn" /\ Store!Torn.synced
    /\ \A v, s : /\ Store!Whole(v, s).kind = "whole"
                 /\ Store!Whole(v, s).version = v
                 /\ Store!Whole(v, s).synced = s
<1>1. /\ Store!Absent \in Store!Contents /\ Store!Torn \in Store!Contents
      /\ \A v \in Store!Versions, s \in BOOLEAN : Store!Whole(v, s) \in Store!Contents
    BY DEF Store!Contents
<1>2. /\ Store!Absent.kind = "absent" /\ Store!Absent.synced
      /\ Store!Torn.kind = "torn" /\ Store!Torn.synced
      /\ \A v, s : /\ Store!Whole(v, s).kind = "whole"
                   /\ Store!Whole(v, s).version = v
                   /\ Store!Whole(v, s).synced = s
    BY DEF Store!Absent, Store!Torn, Store!Whole
<1>3. ASSUME NEW c \in Store!Contents
      PROVE  /\ c.kind \in {"absent", "torn", "whole"} /\ c.synced \in BOOLEAN
             /\ c.kind = "absent" <=> c = Store!Absent
             /\ c.kind = "torn" <=> c = Store!Torn
             /\ c.kind = "whole" =>
                    c.version \in Store!Versions /\ c = Store!Whole(c.version, c.synced)
             /\ c.kind # "whole" => c.synced
    <2>1. CASE c \in {Store!Absent, Store!Torn}
        BY <1>2, <2>1
    <2>2. CASE \E v \in Store!Versions, s \in BOOLEAN : c = Store!Whole(v, s)
        BY <1>2, <2>2
    <2>3. QED
        BY <2>1, <2>2 DEF Store!Contents
<1>4. QED
    BY <1>1, <1>2, <1>3

\* The fields of a whole version.
LEMMA WholeFacts ==
    \A v : /\ Store!Whole(v, TRUE).kind = "whole" /\ Store!Whole(v, FALSE).kind = "whole"
           /\ Store!Whole(v, TRUE).version = v /\ Store!Whole(v, FALSE).version = v
           /\ Store!Whole(v, TRUE).synced
    BY DEF Store!Whole

\* A directory with one file replaced is a directory.
LEMMA DirectoryUpdates ==
    ASSUME NEW d \in Store!Directories, NEW f \in Store!Names, NEW c \in Store!Contents
    PROVE  /\ [d EXCEPT ![f] = c] \in Store!Directories
           /\ d[f] \in Store!Contents
           /\ [d EXCEPT ![f] = c][f] = c
           /\ \A g \in Store!Names \ {f} : [d EXCEPT ![f] = c][g] = d[g]
    BY DEF Store!Directories

\* Making the content of the files durable changes no file that was durable
\* already, and no version.
LEMMA SyncedDirectories ==
    ASSUME NEW d \in Store!Directories
    PROVE  /\ Store!ContentSynced(d) \in Store!Directories
           /\ \A f \in Store!Names : d[f].synced => Store!ContentSynced(d)[f] = d[f]
           /\ \A f \in Store!Names : Store!Is(d, f, "whole") =>
                    Store!ContentSynced(d)[f] = Store!Whole(d[f].version, TRUE)
<1>1. ASSUME NEW f \in Store!Names
      PROVE  /\ Store!ContentSynced(d)[f] \in Store!Contents
             /\ d[f].synced => Store!ContentSynced(d)[f] = d[f]
             /\ Store!Is(d, f,
                     "whole") => Store!ContentSynced(d)[f] = Store!Whole(d[f].version, TRUE)
    <2>1. d[f] \in Store!Contents
        BY DEF Store!Directories
    <2>2. CASE Store!Is(d, f, "whole")
        <3>1. Store!ContentSynced(d)[f] = Store!Whole(d[f].version, TRUE)
            BY <2>2 DEF Store!ContentSynced
        <3>2. d[f] = Store!Whole(d[f].version, d[f].synced) /\ d[f].version \in Store!Versions
              /\ d[f].synced \in BOOLEAN
            BY <2>1, <2>2, ContentFacts DEF Store!Is
        <3>3. d[f].synced => d[f] = Store!Whole(d[f].version, TRUE)
            BY <3>2
        <3>4. QED
            BY <3>1, <3>2, <3>3, ContentFacts
    <2>3. CASE ~Store!Is(d, f, "whole")
        BY <2>1, <2>3 DEF Store!ContentSynced
    <2>4. QED
        BY <2>2, <2>3
<1>2. Store!ContentSynced(d) = [f \in Store!Names |-> Store!ContentSynced(d)[f]]
    BY DEF Store!ContentSynced
<1>3. QED
    BY <1>1, <1>2 DEF Store!Directories

\* The invariant holds in an empty directory.
LEMMA StoreInitInv == Store!Init => StoreInv
<1> SUFFICES ASSUME Store!Init PROVE StoreInv
    OBVIOUS
<1>1. dir \in Store!Directories /\ dirs = {dir} /\ \A f \in Store!Names : dir[f] = Store!Absent
    BY ContentFacts DEF Store!Init, Store!Directories
<1>2. Store!TypeOK
    BY <1>1, RecordsAssumption DEF Store!Init, Store!TypeOK
<1>3. Sound(dir)
    BY <1>1, ContentFacts DEF Store!Init, Sound, Store!Is, Store!Names
<1>4. QED
    BY <1>1, <1>2, <1>3 DEF StoreInv, SaveUnderWay, Store!Init

\* Every step keeps the types.
LEMMA TypeStep == StoreInv /\ [Store!Next]_Store!vars => Store!TypeOK'
<1> SUFFICES ASSUME StoreInv, [Store!Next]_Store!vars PROVE Store!TypeOK'
    OBVIOUS
<1> USE DEF Store!TypeOK
<1>0. Store!TypeOK /\ MaxVersion \in Nat
    BY RecordsAssumption DEF StoreInv
<1>1. CASE Store!Open
    BY <1>0, <1>1 DEF Store!Open
<1>2. CASE Store!Exit \/ Store!CheckMain \/ Store!Kill \/ UNCHANGED Store!vars
    BY <1>0, <1>2 DEF Store!Exit, Store!CheckMain, Store!Kill, Store!vars
<1>3. CASE Store!OpenTmp
    <2>1. [dir EXCEPT !["tmp"] = Store!Torn] \in Store!Directories
        BY <1>0, ContentFacts, DirectoryUpdates DEF Store!Names
    <2>2. QED
        <3>1. version' \in 0..MaxVersion /\ saved' \in 0..version'
            BY <1>0, <1>3 DEF Store!OpenTmp
        <3>2. dir' \in Store!Directories /\ dirs' \subseteq Store!Directories /\ dir' \in dirs'
            BY <1>0, <1>3, <2>1 DEF Store!OpenTmp, Store!Becomes
        <3>3. QED
            BY <1>3, <3>1, <3>2 DEF Store!OpenTmp
<1>4. CASE Store!WriteTmp
    <2>1. version \in Store!Versions
        BY <1>0, <1>4 DEF Store!WriteTmp, StoreInv, SaveUnderWay, Store!Versions
    <2>2. [dir EXCEPT !["tmp"] = Store!Whole(version, FALSE)] \in Store!Directories
        BY <1>0, <2>1, ContentFacts, DirectoryUpdates DEF Store!Names
    <2>3. QED
        BY <1>0, <1>4, <2>2 DEF Store!WriteTmp, Store!Becomes
<1>5. CASE Store!FsyncTmp
    BY <1>0, <1>5, SyncedDirectories DEF Store!FsyncTmp
<1>6. CASE Store!RetireMain
    <2>1. dir["main"] \in Store!Contents
        BY <1>0, DirectoryUpdates, ContentFacts DEF Store!Names
    <2>2. [dir EXCEPT !["bak"] = dir["main"]] \in Store!Directories
        BY <1>0, <2>1, DirectoryUpdates DEF Store!Names
    <2>3. [dir EXCEPT !["bak"] = dir["main"], !["main"] = Store!Absent] \in Store!Directories
        BY <1>0, <2>2, DirectoryUpdates, ContentFacts DEF Store!Names
    <2>4. QED
        BY <1>0, <1>6, <2>3 DEF Store!RetireMain, Store!Becomes
<1>7. CASE Store!ReplaceMain
    <2>1. dir["tmp"] \in Store!Contents
        BY <1>0, DirectoryUpdates, ContentFacts DEF Store!Names
    <2>2. [dir EXCEPT !["main"] = dir["tmp"]] \in Store!Directories
        BY <1>0, <2>1, DirectoryUpdates DEF Store!Names
    <2>3. [dir EXCEPT !["main"] = dir["tmp"], !["tmp"] = Store!Absent] \in Store!Directories
        BY <1>0, <2>2, DirectoryUpdates, ContentFacts DEF Store!Names
    <2>4. QED
        BY <1>0, <1>7, <2>3 DEF Store!ReplaceMain, Store!Becomes
<1>8. CASE Store!SyncDir
    BY <1>0, <1>8 DEF Store!SyncDir
<1>9. CASE Store!PowerLoss
    <2>1. PICK d \in dirs : dir' = [f \in Store!Names |-> IF d[f].synced THEN d[f] ELSE Store!Torn]
        BY <1>9 DEF Store!PowerLoss
    <2>2. \A f \in Store!Names : dir'[f] \in Store!Contents
        BY <1>0, <2>1, ContentFacts DEF Store!Directories
    <2>3. dir' \in Store!Directories
        BY <2>1, <2>2 DEF Store!Directories
    <2>4. QED
        BY <1>0, <1>9, <2>3 DEF Store!PowerLoss
<1>10. CASE Store!Damage
    <2>1. \A d \in dirs : [d EXCEPT !["main"] = IF @ = dir["main"] THEN Store!Torn ELSE @]
                            \in Store!Directories
        BY <1>0, ContentFacts DEF Store!Names, Store!Directories
    <2>2. dir' = [dir EXCEPT !["main"] = IF @ = dir["main"] THEN Store!Torn ELSE @]
        BY <1>10 DEF Store!Damage
    <2>3. QED
        BY <1>0, <1>10, <2>1, <2>2 DEF Store!Damage
<1>11. CASE Store!Restore
    <2>1. dir["bak"] \in Store!Contents
        BY <1>0, DirectoryUpdates, ContentFacts DEF Store!Names
    <2>2. [dir EXCEPT !["main"] = dir["bak"]] \in Store!Directories
        BY <1>0, <2>1, DirectoryUpdates DEF Store!Names
    <2>3. dir["bak"].version \in Store!Versions /\ dir["bak"].version <= version
        BY <1>0, <1>11, <2>1, ContentFacts DEF Store!Restore, StoreInv, Sound, Store!Is
    <2>4. QED
        BY <1>0, <1>11, <2>2, <2>3 DEF Store!Restore, Store!Versions
<1>12. QED
    BY <1>1, <1>2, <1>3, <1>4, <1>5, <1>6, <1>7, <1>8, <1>9, <1>10, <1>11 DEF Store!Next

\* Only the state file and its backup matter to a directory being sound.
LEMMA SoundAlike ==
    ASSUME NEW d, NEW e, Sound(d), d["main"] = e["main"], d["bak"] = e["bak"],
           version \in Nat, saved \in Nat, version' \in Nat, saved' \in Nat,
           version <= version', saved' <= saved,
           d["main"] \in Store!Contents, d["bak"] \in Store!Contents
    PROVE  Sound(e)'
<1>1. \A f \in {"main", "bak"} : Store!Is(e, f, "whole") => e[f].version \in Nat
    BY ContentFacts DEF Store!Is, Store!Versions
<1>2. QED
    BY <1>1 DEF Sound, Store!Is

\* Every directory a process may find after a step is sound: a rename replaces
\* the state file only after the new content is durable, and the backup takes
\* its place while it is away (state.py, StateStore.save).
LEMMA SoundStep ==
    ASSUME StoreInv, Store!TypeOK', [Store!Next]_Store!vars, NEW e \in dirs'
    PROVE  Sound(e)'
<1>0. /\ Store!TypeOK /\ dir \in dirs
      /\ \A d \in dirs : Sound(d)
      /\ version \in Nat /\ version' \in Nat /\ saved \in Nat /\ saved' \in Nat
      /\ \A d \in dirs, f \in Store!Names : d[f] \in Store!Contents
      /\ \A f \in Store!Names : e[f] \in Store!Contents
    BY RecordsAssumption DEF StoreInv, Store!TypeOK, Store!Directories
<1>1. CASE UNCHANGED <<dirs, version, saved>>
    BY <1>0, <1>1, SoundAlike DEF Store!Names
<1>2. CASE Store!OpenTmp
    <2>1. PICK d \in dirs : d["main"] = e["main"] /\ d["bak"] = e["bak"]
        BY <1>0, <1>2 DEF Store!OpenTmp, Store!Becomes, Store!TypeOK, Store!Directories,
                Store!Names
    <2>2. version <= version' /\ saved' = saved
        BY <1>0, <1>2 DEF Store!OpenTmp
    <2>3. QED
        BY <1>0, <2>1, <2>2, SoundAlike DEF Store!Names
<1>3. CASE Store!WriteTmp
    <2>1. PICK d \in dirs : d["main"] = e["main"] /\ d["bak"] = e["bak"]
        BY <1>0, <1>3 DEF Store!WriteTmp, Store!Becomes, Store!TypeOK, Store!Directories,
                Store!Names
    <2>2. version <= version' /\ saved' = saved
        BY <1>0, <1>3 DEF Store!WriteTmp
    <2>3. QED
        BY <1>0, <2>1, <2>2, SoundAlike DEF Store!Names
<1>4. CASE Store!FsyncTmp
    <2>1. PICK d \in dirs : e = Store!ContentSynced(d)
        BY <1>4 DEF Store!FsyncTmp
    <2>2. d \in Store!Directories
        BY <1>0 DEF Store!TypeOK
    <2>3. ASSUME NEW f \in {"main", "bak"} PROVE d[f].synced
        BY <1>0, ContentFacts DEF Sound, Store!Is, Store!Names
    <2>4. d["main"] = e["main"] /\ d["bak"] = e["bak"]
        BY <2>1, <2>2, <2>3, SyncedDirectories DEF Store!Names
    <2>5. version <= version' /\ saved' = saved
        BY <1>0, <1>4 DEF Store!FsyncTmp
    <2>6. QED
        BY <1>0, <2>4, <2>5, SoundAlike DEF Store!Names
<1>5. CASE Store!RetireMain
    <2>1. version <= version' /\ saved' = saved
        BY <1>0, <1>5 DEF Store!RetireMain
    <2>2. CASE e \in dirs
        BY <1>0, <2>1, <2>2, SoundAlike DEF Store!Names
    <2>3. CASE e \notin dirs
        <3>1. e = [dir EXCEPT !["bak"] = dir["main"], !["main"] = Store!Absent]
            BY <1>5, <2>3 DEF Store!RetireMain, Store!Becomes
        <3>2. e["bak"] = dir["main"] /\ e["main"] = Store!Absent
            BY <1>0, <3>1 DEF Store!TypeOK, Store!Directories, Store!Names
        <3>3. Store!Is(dir, "main", "whole")
            BY <1>5 DEF Store!RetireMain, StoreInv, SaveUnderWay
        <3>4. QED
            BY <1>0, <1>5, <3>2, <3>3, ContentFacts DEF Store!RetireMain, Sound, Store!Is
    <2>4. QED
        BY <2>2, <2>3
<1>6. CASE Store!ReplaceMain
    <2>1. version <= version' /\ saved' = saved
        BY <1>0, <1>6 DEF Store!ReplaceMain
    <2>2. CASE e \in dirs
        BY <1>0, <2>1, <2>2, SoundAlike DEF Store!Names
    <2>3. CASE e \notin dirs
        <3>1. e = [dir EXCEPT !["main"] = dir["tmp"], !["tmp"] = Store!Absent]
            BY <1>6, <2>3 DEF Store!ReplaceMain, Store!Becomes
        <3>2. e["bak"] = dir["bak"] /\ e["main"] = dir["tmp"]
            BY <1>0, <3>1 DEF Store!TypeOK, Store!Directories, Store!Names
        <3>3. dir["tmp"] = Store!Whole(version, TRUE)
            BY <1>6 DEF Store!ReplaceMain, StoreInv, SaveUnderWay
        <3>4. Sound(dir) /\ saved <= version
            BY <1>0 DEF Store!TypeOK
        <3>5. e["main"].kind = "whole" /\ e["main"].synced /\ e["main"].version = version
            BY <3>2, <3>3, WholeFacts
        <3>6. QED
            BY <1>0, <1>6, <3>2, <3>4, <3>5 DEF Store!ReplaceMain, Sound, Store!Is
    <2>4. QED
        BY <2>2, <2>3
<1>7. CASE Store!SyncDir
    <2>1. CASE dirs' = {dir} /\ saved' = version /\ version' = version
        <3>1. e = dir /\ dir["main"] = Store!Whole(version, TRUE) /\ Sound(dir)
            BY <1>0, <1>7, <2>1 DEF Store!SyncDir, StoreInv, SaveUnderWay
        <3>2. e["main"].kind = "whole" /\ e["main"].synced /\ e["main"].version = version
            BY <3>1, WholeFacts
        <3>3. QED
            BY <1>0, <2>1, <3>1, <3>2 DEF Sound, Store!Is
    <2>2. QED
        BY <1>1, <1>7, <2>1 DEF Store!SyncDir
<1>8. CASE Store!PowerLoss
    <2>1. PICK d \in dirs : dir' = [f \in Store!Names |-> IF d[f].synced THEN d[f] ELSE Store!Torn]
        BY <1>8 DEF Store!PowerLoss
    <2>2. e = [f \in Store!Names |-> IF d[f].synced THEN d[f] ELSE Store!Torn]
        BY <1>8, <2>1 DEF Store!PowerLoss
    <2>3. ASSUME NEW f \in {"main", "bak"} PROVE d[f].synced
        BY <1>0, ContentFacts DEF Sound, Store!Is, Store!Names
    <2>4. d["main"] = e["main"] /\ d["bak"] = e["bak"]
        BY <2>2, <2>3 DEF Store!Names
    <2>5. version <= version' /\ saved' = saved
        BY <1>0, <1>8 DEF Store!PowerLoss
    <2>6. QED
        BY <1>0, <2>4, <2>5, SoundAlike DEF Store!Names
<1>9. CASE Store!Damage
    <2>1. PICK d \in dirs : e = [d EXCEPT !["main"] = IF @ = dir["main"] THEN Store!Torn ELSE @]
        BY <1>9 DEF Store!Damage
    <2>2. e["bak"] = d["bak"] /\ e["main"] \in {d["main"], Store!Torn}
        BY <1>0, <2>1 DEF Store!TypeOK, Store!Directories, Store!Names
    <2>3. Sound(d) /\ version' = version /\ saved' = saved
        BY <1>0, <1>9 DEF Store!Damage
    <2>4. CASE e["main"] = d["main"]
        BY <1>0, <2>2, <2>3, <2>4, SoundAlike DEF Store!Names
    <2>5. CASE e["main"] = Store!Torn
        BY <2>2, <2>3, <2>5, ContentFacts DEF Sound, Store!Is
    <2>6. QED
        BY <2>2, <2>4, <2>5
<1>10. CASE Store!Restore
    <2>1. e = [dir EXCEPT !["main"] = dir["bak"]]
        BY <1>10 DEF Store!Restore
    <2>2. e["bak"] = dir["bak"] /\ e["main"] = dir["bak"]
        BY <1>0, <2>1 DEF Store!TypeOK, Store!Directories, Store!Names
    <2>3. Store!Is(dir, "bak", "whole") /\ Sound(dir)
        BY <1>0, <1>10 DEF Store!Restore
    <2>4. dir["bak"].version \in Nat
        BY <1>0, <2>3, ContentFacts DEF Store!Is, Store!Names, Store!Versions
    <2>5. saved' = dir["bak"].version /\ version' = version
        BY <1>10 DEF Store!Restore
    <2>6. QED
        BY <2>2, <2>3, <2>4, <2>5 DEF Sound, Store!Is
<1>11. QED
    BY <1>1, <1>2, <1>3, <1>4, <1>5, <1>6, <1>7, <1>8, <1>9, <1>10
    DEF Store!Next, Store!Open, Store!Exit, Store!CheckMain, Store!Kill, Store!vars

\* A save under way has made sure of what its next call relies on: the
\* temporary file is whole before it is made durable, durable before anything
\* is renamed (state.py, StateStore.save).
LEMMA SaveStep == StoreInv /\ Store!TypeOK' /\ [Store!Next]_Store!vars => SaveUnderWay'
<1> SUFFICES ASSUME StoreInv, Store!TypeOK', [Store!Next]_Store!vars PROVE SaveUnderWay'
    OBVIOUS
<1>0. Store!TypeOK /\ SaveUnderWay /\ dir \in Store!Directories
    BY DEF StoreInv, Store!TypeOK
<1>1. CASE Store!Open \/ Store!Exit \/ Store!Kill \/ Store!PowerLoss
    BY <1>1 DEF Store!Open, Store!Exit, Store!Kill, Store!PowerLoss, SaveUnderWay
<1>2. CASE Store!OpenTmp
    BY <1>0, <1>2 DEF Store!OpenTmp, SaveUnderWay, Store!TypeOK
<1>3. CASE Store!WriteTmp
    <2>1. dir'["tmp"] = Store!Whole(version, FALSE)
        BY <1>0, <1>3 DEF Store!WriteTmp, Store!Becomes, Store!Directories, Store!Names
    <2>2. QED
        BY <1>0, <1>3, <2>1 DEF Store!WriteTmp, SaveUnderWay
<1>4. CASE Store!FsyncTmp
    <2>1. Store!Is(dir, "tmp", "whole") /\ dir["tmp"].version = version
        BY <1>0, <1>4, WholeFacts DEF Store!FsyncTmp, SaveUnderWay, Store!Is
    <2>2. dir'["tmp"] = Store!Whole(version, TRUE)
        BY <1>0, <1>4, <2>1, SyncedDirectories DEF Store!FsyncTmp, Store!Names
    <2>3. QED
        BY <1>0, <1>4, <2>2 DEF Store!FsyncTmp, SaveUnderWay
<1>5. CASE Store!CheckMain
    BY <1>0, <1>5 DEF Store!CheckMain, Store!Retires, SaveUnderWay
<1>6. CASE Store!RetireMain
    <2>1. dir'["tmp"] = dir["tmp"]
        BY <1>0, <1>6 DEF Store!RetireMain, Store!Becomes, Store!Directories, Store!Names
    <2>2. QED
        BY <1>0, <1>6, <2>1 DEF Store!RetireMain, SaveUnderWay
<1>7. CASE Store!ReplaceMain
    <2>1. dir'["main"] = dir["tmp"]
        BY <1>0, <1>7 DEF Store!ReplaceMain, Store!Becomes, Store!Directories, Store!Names
    <2>2. QED
        BY <1>0, <1>7, <2>1 DEF Store!ReplaceMain, SaveUnderWay
<1>8. CASE Store!SyncDir
    BY <1>0, <1>8 DEF Store!SyncDir, SaveUnderWay
<1>9. CASE Store!Damage \/ Store!Restore
    BY <1>9 DEF Store!Damage, Store!Restore, SaveUnderWay
<1>10. CASE UNCHANGED Store!vars
    BY <1>0, <1>10 DEF Store!vars, SaveUnderWay
<1>11. QED
    BY <1>1, <1>2, <1>3, <1>4, <1>5, <1>6, <1>7, <1>8, <1>9, <1>10 DEF Store!Next

\* Every step keeps the invariant.
LEMMA StoreNextInv == StoreInv /\ [Store!Next]_Store!vars => StoreInv'
<1> SUFFICES ASSUME StoreInv, [Store!Next]_Store!vars PROVE StoreInv'
    OBVIOUS
<1>1. Store!TypeOK'
    BY TypeStep
<1>2. \A e \in dirs' : Sound(e)'
    BY <1>1, SoundStep
<1>3. SaveUnderWay'
    BY <1>1, SaveStep
<1>4. QED
    BY <1>1, <1>2, <1>3 DEF StoreInv

\* The invariant holds throughout.
LEMMA StoreSpecInv == Store!Spec => []StoreInv
<1>1. Store!Init => StoreInv
    BY StoreInitInv
<1>2. StoreInv /\ [Store!Next]_Store!vars => StoreInv'
    BY StoreNextInv
<1>3. QED
    BY <1>1, <1>2, PTL DEF Store!Spec

----------------------------------------------------------------------------
(* Theorems. *)

(***************************************************************************)
(* The directory, the set of directories a loss of power may leave and the *)
(* progress of a save keep their types.                                    *)
(***************************************************************************)
THEOREM StoreTypeCorrect == Store!Spec => []Store!TypeOK
<1>1. StoreInv => Store!TypeOK
    BY DEF StoreInv
<1>2. QED
    BY <1>1, StoreSpecInv, PTL

(***************************************************************************)
(* Whatever directory a crash or a loss of power leaves, the state file or *)
(* its backup in it holds the last save that returned, or a later one      *)
(* (state.py, StateStore.save and load).                                   *)
(***************************************************************************)
THEOREM NothingSavedIsLost == Store!Spec => []Store!Recoverable
<1>1. StoreInv => Store!Recoverable
    BY DEF StoreInv, Store!TypeOK, Sound, Store!Recoverable
<1>2. QED
    BY <1>1, StoreSpecInv, PTL

\* The only step after which the state file is torn is the damage from outside.
LEMMA TearsStep ==
    ASSUME StoreInv, [Store!Next]_Store!vars,
           \A d \in dirs : ~Store!Is(d, "main", "torn"), Store!Is(dir', "main", "torn")
    PROVE  Store!Damage
<1>0. /\ dir \in dirs /\ dir \in Store!Directories /\ dir["bak"] \in Store!Contents
      /\ ~Store!Is(dir, "main", "torn") /\ SaveUnderWay
      /\ \A d \in dirs : Sound(d) /\ d["main"] \in Store!Contents
    BY DEF StoreInv, Store!TypeOK, Store!Directories, Store!Names
<1>1. CASE UNCHANGED dir
    BY <1>0, <1>1 DEF Store!Is
<1>2. CASE Store!OpenTmp
    BY <1>0, <1>2 DEF Store!OpenTmp, Store!Becomes, Store!Is, Store!Directories, Store!Names
<1>3. CASE Store!WriteTmp
    BY <1>0, <1>3 DEF Store!WriteTmp, Store!Becomes, Store!Is, Store!Directories, Store!Names
<1>4. CASE Store!FsyncTmp
    <2>1. dir["main"].synced
        BY <1>0, ContentFacts DEF Sound, Store!Is
    <2>2. dir'["main"] = dir["main"]
        BY <1>0, <1>4, <2>1, SyncedDirectories DEF Store!FsyncTmp, Store!Names
    <2>3. QED
        BY <1>0, <2>2 DEF Store!Is
<1>5. CASE Store!RetireMain
    <2>1. UNCHANGED dir \/ dir'["main"] = Store!Absent
        BY <1>0, <1>5 DEF Store!RetireMain, Store!Becomes, Store!Directories, Store!Names
    <2>2. QED
        BY <1>1, <2>1, ContentFacts DEF Store!Is
<1>6. CASE Store!ReplaceMain
    <2>1. dir'["main"] = Store!Whole(version, TRUE)
        BY <1>0, <1>6 DEF Store!ReplaceMain, Store!Becomes, SaveUnderWay,
                Store!Directories, Store!Names
    <2>2. QED
        BY <2>1, WholeFacts DEF Store!Is
<1>7. CASE Store!PowerLoss
    <2>1. PICK d \in dirs : dir' = [f \in Store!Names |-> IF d[f].synced THEN d[f] ELSE Store!Torn]
        BY <1>7 DEF Store!PowerLoss
    <2>2. d["main"].synced
        BY <1>0, ContentFacts DEF Sound, Store!Is
    <2>3. dir'["main"] = d["main"]
        BY <2>1, <2>2 DEF Store!Names
    <2>4. QED
        BY <2>3 DEF Store!Is
<1>8. CASE Store!Restore
    <2>1. dir'["main"] = dir["bak"] /\ Store!Is(dir, "bak", "whole")
        BY <1>0, <1>8 DEF Store!Restore, Store!Directories, Store!Names
    <2>2. QED
        BY <2>1 DEF Store!Is
<1>9. QED
    BY <1>1, <1>2, <1>3, <1>4, <1>5, <1>6, <1>7, <1>8
    DEF Store!Next, Store!Open, Store!Exit, Store!CheckMain, Store!SyncDir, Store!Kill,
            Store!vars

(***************************************************************************)
(* No save, kill or loss of power ever leaves a half-written state file:   *)
(* only damage from outside does (state.py, StateStore.save).              *)
(***************************************************************************)
THEOREM WritesAreAtomic == Store!Spec => Store!OnlyDamageTears
<1>1. StoreInv /\ [Store!Next]_Store!vars =>
        [(\A d \in dirs : ~Store!Is(d, "main", "torn")) /\ Store!Is(dir', "main",
                "torn") => Store!Damage]_Store!vars
    BY TearsStep
<1>2. QED
    BY <1>1, StoreSpecInv, PTL DEF Store!Spec, Store!OnlyDamageTears

----------------------------------------------------------------------------
(* Refinement of DurableRegister. *)

\* What a load may return.
Loadable(value, floor, pending) ==
    value \in {Refused} \cup {v \in Store!Versions : floor <= v /\ v <= pending}
                \cup (IF floor = 0 THEN {Fresh} ELSE {})

\* What a load of a sound directory returns: the version of a save not older
\* than the last one that returned, a refusal, or the fresh state if nothing
\* was ever saved.
LEMMA LoadsNothingElse ==
    ASSUME NEW d \in Store!Directories, Sound(d), saved \in Nat
    PROVE  Loadable(Store!Load(d), saved, version)
<1>1. d["main"] \in Store!Contents /\ d["bak"] \in Store!Contents
    BY DEF Store!Directories, Store!Names
<1>2. CASE Store!Is(d, "main", "whole")
    BY <1>1, <1>2, ContentFacts DEF Store!Load, Loadable, Sound, Store!Is
<1>3. CASE Store!Is(d, "main", "absent") /\ Store!Is(d, "bak", "absent")
    BY <1>1, <1>3 DEF Store!Load, Loadable, Sound, Store!Is
<1>4. CASE ~Store!Is(d, "main", "whole") /\ ~(Store!Is(d, "main", "absent") /\ Store!Is(d,
    "bak", "absent"))
    BY <1>4 DEF Store!Load, Loadable
<1>5. QED
    BY <1>2, <1>3, <1>4

\* An empty directory is the initial register.
LEMMA RegisterInit == Store!Init => Store!Register!Init
<1> SUFFICES ASSUME Store!Init PROVE Store!Register!Init
    OBVIOUS
<1>1. dir["main"] = Store!Absent /\ dir["bak"] = Store!Absent
    BY DEF Store!Init, Store!Names
<1>2. Store!Load(dir) = Fresh
    BY <1>1, ContentFacts DEF Store!Load, Store!Is
<1>3. QED
    BY <1>2 DEF Store!Init, Store!Register!Init

\* Every step is one of the register, or leaves what a load returns as it is.
LEMMA RegisterStep ==
    StoreInv /\ StoreInv' /\ [Store!Next]_Store!vars => [Store!Register!Next]_Store!Register!vars
<1> SUFFICES ASSUME StoreInv, StoreInv', [Store!Next]_Store!vars
             PROVE  [Store!Register!Next]_Store!Register!vars
    OBVIOUS
<1>0. /\ dir \in Store!Directories /\ Sound(dir) /\ saved \in Nat /\ version \in Nat
      /\ dir' \in Store!Directories
      /\ SaveUnderWay /\ dir["bak"] \in Store!Contents
    BY RecordsAssumption DEF StoreInv, Store!TypeOK, Store!Directories, Store!Names
<1>1. ASSUME UNCHANGED <<version, saved>> PROVE Store!Register!Change
    <2>1. PICK d : d = dir'
        OBVIOUS
    <2>2. Sound(d)'
        BY <2>1 DEF StoreInv, Store!TypeOK
    <2>3. Sound(d)
        BY <1>1, <2>2 DEF Sound
    <2>4. Loadable(Store!Load(dir'), saved, version)
        BY <1>0, <2>1, <2>3, LoadsNothingElse
    <2>5. QED
        BY <1>1, <2>4 DEF Loadable, Store!Versions, Store!Register!Change,
                Store!Register!Versions, Store!Load
<1>2. CASE Store!OpenTmp
    <2>1. dir'["main"] = dir["main"] /\ dir'["bak"] = dir["bak"]
        BY <1>0, <1>2 DEF Store!OpenTmp, Store!Becomes, Store!Directories, Store!Names
    <2>2. Store!Load(dir)' = Store!Load(dir)
        BY <2>1 DEF Store!Load, Store!Is
    <2>3. Store!Register!Begin
        BY <1>2, <2>2 DEF Store!OpenTmp, Store!Register!Begin
    <2>4. QED
        BY <2>3 DEF Store!Register!Next
<1>3. CASE Store!SyncDir
    <2>1. Store!Load(dir)' = Store!Load(dir) /\ version' = version
        BY <1>3 DEF Store!SyncDir, Store!Load, Store!Is
    <2>2. CASE saved' = version
        <3>1. dir["main"] = Store!Whole(version, TRUE)
            BY <1>0, <1>3 DEF Store!SyncDir, SaveUnderWay
        <3>2. Store!Load(dir) = version
            BY <3>1, WholeFacts DEF Store!Load, Store!Is
        <3>3. Store!Register!Complete
            BY <2>1, <2>2, <3>2 DEF Store!Register!Complete
        <3>4. QED
            BY <3>3 DEF Store!Register!Next
    <2>3. CASE saved' = saved
        BY <2>1, <2>3 DEF Store!Register!vars
    <2>4. QED
        BY <1>3, <2>2, <2>3 DEF Store!SyncDir
<1>4. CASE Store!Restore
    <2>1. Store!Is(dir, "bak", "whole") /\ Store!Load(dir) = Refused
        BY <1>4 DEF Store!Restore
    <2>2. /\ dir["bak"].version \in Store!Versions
          /\ dir["bak"].version <= version
        BY <1>0, <2>1, ContentFacts DEF Store!Is, Sound
    <2>3. dir'["main"] = dir["bak"]
        BY <1>0, <1>4 DEF Store!Restore, Store!Directories, Store!Names
    <2>4. Store!Load(dir)' = dir["bak"].version
        BY <2>1, <2>3 DEF Store!Load, Store!Is
    <2>5. Store!Register!Restore
        BY <1>4, <2>1, <2>2, <2>4 DEF Store!Restore, Store!Register!Restore,
                Store!Register!Versions, Store!Versions
    <2>6. QED
        BY <2>5 DEF Store!Register!Next
<1>5. CASE Store!Open \/ Store!Exit \/ Store!WriteTmp \/ Store!FsyncTmp
           \/ Store!CheckMain \/ Store!RetireMain \/ Store!ReplaceMain
           \/ Store!Kill \/ Store!PowerLoss \/ Store!Damage
    <2>1. UNCHANGED <<version, saved>>
        BY <1>5 DEF Store!Open, Store!Exit, Store!WriteTmp, Store!FsyncTmp,
                Store!CheckMain, Store!RetireMain, Store!ReplaceMain,
                    Store!Kill, Store!PowerLoss, Store!Damage
    <2>2. QED
        BY <1>1, <2>1 DEF Store!Register!Next
<1>6. CASE UNCHANGED Store!vars
    BY <1>6 DEF Store!vars, Store!Register!vars, Store!Load, Store!Is
<1>7. QED
    BY <1>2, <1>3, <1>4, <1>5, <1>6 DEF Store!Next

(***************************************************************************)
(* The file protocol implements one durable register: a save takes effect  *)
(* at one point, what a load returns never falls behind a completed save,  *)
(* and a damaged file is refused until it is restored (state.py,           *)
(* StateStore.save and load; DurableRegister).                             *)
(***************************************************************************)
THEOREM StoreIsOneRegister == Store!Spec => Store!ImplementsRegister
<1>1. StoreInv /\ [Store!Next]_Store!vars => StoreInv'
    BY StoreNextInv
<1>2. QED
    BY <1>1, StoreInitInv, RegisterInit, RegisterStep, PTL
    DEF Store!Spec, Store!ImplementsRegister, Store!Register!Spec

----------------------------------------------------------------------------
(* Both records. *)

\* The store's part of a behaviour is one of StateStore (state.py).
LEMMA StoreInRecords == RecordsSpec => Store!Spec
  <1>1. RecordsInit => Store!Init
    BY DEF RecordsInit
  <1>2. [RecordsNext]_recordsVars => [Store!Next]_Store!vars
    BY DEF RecordsNext, recordsVars, Store!vars
  <1> QED
    BY <1>1, <1>2, PTL DEF RecordsSpec, Store!Spec

\* The runner's part of a behaviour is one of RunnerStep (runner.py).
LEMMA StepInRecords == RecordsSpec => Spec
  <1>1. RecordsInit => Init
    BY DEF RecordsInit
  <1>2. [RecordsNext]_recordsVars => [Next]_vars
    BY DEF RecordsNext, recordsVars
  <1> QED
    BY <1>1, <1>2, PTL DEF RecordsSpec, Spec

(***************************************************************************)
(* Both records keep their types, and the backup stands in for a save that *)
(* was cut off, whatever dies in between (state.py, StateStore.save and    *)
(* load; runner.py, RunnerState).                                          *)
(***************************************************************************)
THEOREM RecordsAreRecoverable == RecordsSpec => []Recoverable
  BY StoreTypeCorrect, NothingSavedIsLost, StoreInRecords, StepInRecords,
     RunnerTypeCorrect, PTL DEF Recoverable

(***************************************************************************)
(* Only damage from outside tears the state file (state.py,                *)
(* StateStore.save: "Writes are atomic").                                  *)
(***************************************************************************)
THEOREM RecordsTornByDamageOnly == RecordsSpec => OnlyDamageTears
  BY WritesAreAtomic, StoreInRecords, PTL DEF OnlyDamageTears

(***************************************************************************)
(* The three files of the paper trader implement one durable register      *)
(* (state.py, StateStore; DurableRegister).                                *)
(***************************************************************************)
THEOREM RecordsImplementRegister == RecordsSpec => ImplementsRegister
  BY StoreIsOneRegister, StoreInRecords, PTL DEF ImplementsRegister

(***************************************************************************)
(* Counted once and moved once, beside a state file that is written at the *)
(* same time (runner.py, Runner.step).                                     *)
(***************************************************************************)
THEOREM RecordsCountOnce == RecordsSpec => []OncePerPosition
  BY StepInRecords, CountsAndMovesOnce, PTL
=============================================================================
