-------------------------- MODULE DailyCycleProofs --------------------------
(***************************************************************************)
(* What holds of the daily run of the paper trader and of its state file   *)
(* in the repository, for every calendar, price, weight, limit and number  *)
(* of retries, through crashes, stale and repeated runs and lost pushes    *)
(* (scripts/daily_run.py, main; engine/runner.py, run_cycle;               *)
(* engine/state.py).  A stopped book is frozen: a push can only replace    *)
(* the commit the run checked out, so it suffices that a run of a stopped  *)
(* checkout leaves the file as it found it.  The other theorems need to    *)
(* know what every state file in circulation says of its own past: that    *)
(* the deposits in it are those of the Mondays it has lived through, that  *)
(* its periods are in order, and that an attempt made is a retry counted.  *)
(***************************************************************************)
EXTENDS DailyCycle, FiniteSetTheorems, TLAPS

\* The run of a stopped checkout has nothing left to do but push it back.
StoppedRunKeepsFile == pc # "idle" /\ Stopped(base) => pc = "push" /\ disk = base

\* A run refuses the files that are halted or unreadable, and no others
\* (runner.py, run_cycle).
LEMMA RefusesIsStopped ==
    ASSUME NEW file
    PROVE  Refuses(file) <=> Stopped(file)
  BY DEF Refuses, Stopped

\* No run is under way at first.
LEMMA StoppedRunInit == Init => StoppedRunKeepsFile
  BY DEF Init, StoppedRunKeepsFile

\* A run of a stopped checkout never gets past its first check.
LEMMA StoppedRunStep ==
    StoppedRunKeepsFile /\ [Next]_vars => StoppedRunKeepsFile'
  <1> SUFFICES ASSUME StoppedRunKeepsFile, [Next]_vars
               PROVE  StoppedRunKeepsFile'
    OBVIOUS
  <1>1. CASE NextDay
    BY <1>1 DEF NextDay, run, repo, StoppedRunKeepsFile, Stopped, Readable
  <1>2. CASE Trigger
    BY <1>2 DEF Trigger, run, StoppedRunKeepsFile, Stopped, Readable
  <1>3. CASE Start
    <2>1. base' = queued
      BY <1>3 DEF Start
    <2>2. Refuses(queued) => pc' = "push" /\ disk' = queued
      BY <1>3 DEF Start
    <2>3. Stopped(base)' <=> Refuses(queued)
      BY <2>1, RefusesIsStopped DEF Stopped, Readable
    <2> QED
      BY <2>1, <2>2, <2>3 DEF StoppedRunKeepsFile
  <1>4. CASE Kill \/ Liquidate \/ Trade \/ Finish \/ Crash
    <2>1. pc # "idle" /\ pc # "push" /\ base' = base
      BY <1>4 DEF Kill, Liquidate, Trade, Finish, Crash
    <2>2. ~Stopped(base)
      BY <2>1 DEF StoppedRunKeepsFile
    <2> QED
      BY <2>1, <2>2 DEF StoppedRunKeepsFile, Stopped, Readable
  <1>5. CASE Push
    BY <1>5 DEF Push, StoppedRunKeepsFile
  <1>6. CASE UNCHANGED vars
    BY <1>6 DEF vars, StoppedRunKeepsFile, Stopped, Readable
  <1> QED
    BY <1>1, <1>2, <1>3, <1>4, <1>5, <1>6 DEF Next

\* A push that succeeds over a stopped file puts back that file.
LEMMA StoppedRemoteStep ==
    StoppedRunKeepsFile /\ [Next]_vars => (Stopped(remote) => UNCHANGED remote)
  <1> SUFFICES ASSUME StoppedRunKeepsFile, [Next]_vars, Stopped(remote)
               PROVE  remote' = remote
    OBVIOUS
  <1>1. CASE Push
    <2>1. CASE remote = base /\ remote' = disk
      <3>1. pc = "push"
        BY <1>1 DEF Push
      <3> QED
        BY <2>1, <3>1 DEF StoppedRunKeepsFile
    <2> QED
      BY <1>1, <2>1 DEF Push, PushResult
  <1>2. CASE ~Push
    BY <1>2 DEF Next, vars, repo, NextDay, Trigger, Start, Kill, Liquidate,
                Trade, Finish, Crash
  <1> QED
    BY <1>1, <1>2

(***************************************************************************)
(* The halt and the refusal are final in the repository: no run, crashed,  *)
(* stale or repeated, ever replaces a halted or unreadable state file.     *)
(***************************************************************************)
THEOREM StoppedStaysStopped == Spec => StoppedBookIsFrozen
  <1>1. Init => StoppedRunKeepsFile
    BY StoppedRunInit
  <1>2. StoppedRunKeepsFile /\ [Next]_vars => StoppedRunKeepsFile'
    BY StoppedRunStep
  <1>3. StoppedRunKeepsFile /\ [Next]_vars =>
            [Stopped(remote) => UNCHANGED remote]_vars
    BY StoppedRemoteStep
  <1> QED
    BY <1>1, <1>2, <1>3, PTL DEF Spec, StoppedBookIsFrozen

----------------------------------------------------------------------------
(* The inductive invariant behind the other theorems. *)

\* Mondays credited to an account born on one day and last paid on another.
MondaysIn(from, to) == {d \in Mondays : from < d /\ d <= to}

PaidUpTo(s, day) == s.paid = Contribution * (1 + Cardinality(MondaysIn(s.born, day)))

\* The periods of a state are in order, and none lies ahead.
PeriodsInOrder(s) ==
    /\ s.attemptPeriod <= s.retryPeriod
    /\ s.completed <= s.retryPeriod
    /\ s.retryPeriod <= Period(today)

\* In the period of the retries the attempts made are the retries counted,
\* and those `more' that are not counted yet.
AttemptsCounted(s, more) ==
    s.attemptPeriod = s.retryPeriod /\ s.completed # s.retryPeriod
    => s.attempts <= s.retries + more

\* A state a run has recorded.
Record(s) ==
    /\ s \in States
    /\ s.date <= today
    /\ PeriodsInOrder(s)
    /\ AttemptsCounted(s, 0)
    /\ s.date = 0 => s.born = 0 /\ s.paid = 0
    /\ s.date # 0 => s.born \in 1..s.date /\ PaidUpTo(s, s.date)
    /\ s.peak >= s.paid
    /\ s.peak >= s.last

RecordsGood ==
    \A file \in {remote, queued, base, disk} : file \in States => Record(file)

\* What a run leaves on disk is never older than what it checked out.
MovesForward ==
    pc # "idle" /\ Readable(base) =>
        disk # Fresh /\ (Readable(disk) => disk.date >= base.date)

Working == {"kill", "liquidate", "trade", "finish"}

\* The state in memory while a run is under way.
InMemory ==
    pc \in Working =>
        /\ mem.born \in 1..today
        /\ PaidUpTo(mem, today)
        /\ mem.peak + plan.flows >= mem.paid
        /\ PeriodsInOrder(mem)
        /\ AttemptsCounted(mem, IF plan.traded /\ plan.decided THEN 1 ELSE 0)
        /\ plan.decided =>
            /\ mem.retryPeriod = Period(today)
            /\ ~mem.halted
            /\ pc = "trade" \/ plan.traded => mem.retries < MaxRetries

\* Each stage of a run follows from the decision.
Staged ==
    /\ pc \in Working => ~Refuses(base)
    /\ pc = "trade" => plan.decided /\ ~plan.traded /\ mem.completed # Period(today)
    /\ pc \in {"kill", "liquidate"} => mem.halted /\ ~plan.decided
    /\ pc \in {"liquidate", "finish"} /\ mem.halted => Readable(disk) /\ disk.halted

IInv == TypeOK /\ RecordsGood /\ MovesForward /\ InMemory /\ Staged

----------------------------------------------------------------------------
(* Lemmas about the operators. *)

\* What the constants are.
LEMMA CalendarFacts ==
    /\ \A d \in Days : d \in Nat /\ d # 0 /\ Period(d) \in Nat /\ Period(d) # 0
    /\ \A d \in Mondays : d \in Nat /\ d # 0
    /\ \A p \in Prices : p \in Nat /\ p # 0
    /\ \A w \in TargetWeights : w \in 0..100
    /\ Contribution \in Nat /\ MaxRetries \in Nat
  BY DailyCycleAssumption

\* Products of amounts are amounts.
LEMMA ProductIsNat == \A a, b \in Nat : a * b \in Nat
  OBVIOUS

\* Quotients of amounts are amounts.
LEMMA QuotientIsNat ==
    ASSUME NEW a \in Nat, NEW b \in Nat \ {0}
    PROVE  a \div b \in Nat
  OBVIOUS

\* Only finitely many deposits fall due in a stretch of days.
LEMMA MondaysFinite ==
    ASSUME NEW x \in Nat, NEW y \in Nat
    PROVE  IsFiniteSet(MondaysIn(x, y)) /\ Cardinality(MondaysIn(x, y)) \in Nat
  <1>1. MondaysIn(x, y) \subseteq 0..y
    BY CalendarFacts DEF MondaysIn
  <1>2. IsFiniteSet(0..y)
    BY FS_Interval
  <1>3. IsFiniteSet(MondaysIn(x, y))
    BY <1>1, <1>2, FS_Subset
  <1> QED
    BY <1>3, FS_CardinalityType

\* The deposits due in a stretch of days are those due in its parts: none is
\* lost and none is counted twice where two runs meet (daily_run.py,
\* contributions_due).
LEMMA MondaysAdd ==
    ASSUME NEW a \in Nat, NEW b \in Nat, NEW c \in Nat, a <= b, b <= c
    PROVE  Cardinality(MondaysIn(a, c)) =
                Cardinality(MondaysIn(a, b)) + Cardinality(MondaysIn(b, c))
  <1>1. /\ MondaysIn(a, c) = MondaysIn(a, b) \cup MondaysIn(b, c)
        /\ MondaysIn(a, b) \cap MondaysIn(b, c) = {}
    BY CalendarFacts DEF MondaysIn
  <1>2. Cardinality(MondaysIn(a, c)) =
            Cardinality(MondaysIn(a, b)) + Cardinality(MondaysIn(b, c)) - Cardinality({})
    BY <1>1, MondaysFinite, FS_Union
  <1> QED
    BY <1>2, MondaysFinite, FS_EmptySet

\* Nothing falls due between a day and itself: a second run of the day pays in
\* nothing.
LEMMA NoMondaysWithin ==
    ASSUME NEW a \in Nat
    PROVE  Cardinality(MondaysIn(a, a)) = 0
  <1>1. MondaysIn(a, a) = {}
    BY CalendarFacts DEF MondaysIn
  <1> QED
    BY <1>1, FS_EmptySet

\* What is due on a day is an amount.
LEMMA DueIsNat ==
    ASSUME NEW s \in States, NEW day \in Days, s.date <= day
    PROVE  ContributionsDue(s, day) \in Nat
  <1>0. s.date \in Days \cup {0}
    BY DEF States
  <1>1. s.date \in Nat /\ day \in Nat /\ s.date <= day
    BY <1>0, CalendarFacts
  <1>2. Cardinality(MondaysIn(s.date, day)) \in Nat
    BY <1>1, MondaysFinite
  <1> QED
    BY <1>2, ProductIsNat, DailyCycleAssumption DEF ContributionsDue, MondaysIn

\* The equity of an account is an amount.
LEMMA EquityIsNat ==
    ASSUME NEW s \in States, NEW price \in Prices
    PROVE  Equity(s, price) \in Nat
  <1>1. s.cash \in Nat /\ s.shares \in Nat /\ price \in Nat
    BY DailyCycleAssumption DEF States
  <1>2. s.shares * price \in Nat
    BY <1>1, ProductIsNat
  <1> QED
    BY <1>1, <1>2 DEF Equity

\* An order never sells more shares than there are.
LEMMA OrdersSellWhatIsHeld ==
    ASSUME NEW s \in States, NEW weight \in 0..100, NEW equity \in Nat, NEW price \in Prices
    PROVE  /\ OrderShares(s, weight, equity, price) \in Int
           /\ s.shares + OrderShares(s, weight, equity, price) >= 0
  <1>1. weight * equity \in Nat /\ 100 * price \in Nat \ {0} /\ s.shares \in Nat
    BY ProductIsNat, DailyCycleAssumption DEF States
  <1>2. PICK target \in Nat : target = TargetShares(weight, equity, price)
    BY <1>1, QuotientIsNat DEF TargetShares
  <1>3. OrderShares(s, weight, equity, price) \in {0, target - s.shares}
    BY <1>2 DEF OrderShares
  <1> QED
    BY <1>1, <1>3

\* The state before the first run is a record of nothing.
LEMMA DefaultIsRecord == today \in Days => Record(Default) /\ ~Default.halted
  <1> SUFFICES ASSUME today \in Days PROVE Record(Default) /\ ~Default.halted
    OBVIOUS
  <1>1. today \in Nat /\ Period(today) \in Nat
    BY DailyCycleAssumption
  <1>2. Default \in States
    BY DailyCycleAssumption DEF Default, States
  <1> QED
    BY <1>1, <1>2 DEF Default, Record, PeriodsInOrder, AttemptsCounted

\* The account a run works on is that of the file, with what is due since paid
\* in.
LEMMA AccountFacts ==
    ASSUME today \in Days, NEW f, Record(Loaded(f)),
           NEW a, a = Account(f, today),
           NEW flows,
           flows = IF Loaded(f).date = today THEN 0 ELSE ContributionsDue(Loaded(f), today)
    PROVE  /\ a \in States
           /\ a.born \in 1..today
           /\ PaidUpTo(a, today)
           /\ flows \in Nat
           /\ a.peak + flows >= a.paid
           /\ PeriodsInOrder(a)
           /\ AttemptsCounted(a, 0)
           /\ a.halted = Loaded(f).halted
  <1> PICK s : s = Loaded(f)
    OBVIOUS
  <1> PICK c : c = ContributionsDue(s, today)
    OBVIOUS
  <1>1. s \in States /\ s.date <= today /\ today \in Nat \ {0} /\ Contribution \in Nat
    BY DailyCycleAssumption DEF Record
  <1>2. c \in Nat
    BY <1>1, DueIsNat
  <1>3. a = [s EXCEPT !.cash = @ + c, !.paid = @ + c, !.born = IF @ = 0 THEN today ELSE @]
    BY DEF Account
  <1> PICK cash, paid, born : /\ cash = s.cash + c
                              /\ paid = s.paid + c
                              /\ born = IF s.born = 0 THEN today ELSE s.born
    OBVIOUS
  <1>4. /\ a \in States
        /\ a.paid = s.paid + c
        /\ a.born = IF s.born = 0 THEN today ELSE s.born
        /\ a.peak = s.peak /\ a.halted = s.halted
        /\ a.attempts = s.attempts /\ a.retries = s.retries /\ a.completed = s.completed
        /\ a.attemptPeriod = s.attemptPeriod /\ a.retryPeriod = s.retryPeriod
    <2>1. cash \in Nat /\ paid \in Nat /\ born \in Days \cup {0}
      BY <1>1, <1>2 DEF States
    <2>2. a = [s EXCEPT !.cash = cash, !.paid = paid, !.born = born]
      BY <1>3
    <2> QED
      BY <1>1, <2>1, <2>2 DEF States
  <1>5. PeriodsInOrder(a) /\ AttemptsCounted(a, 0)
    BY <1>4 DEF Record, PeriodsInOrder, AttemptsCounted
  <1>6. a.born \in 1..today /\ PaidUpTo(a, today)
    <2>1. CASE s.date = 0
      <3>1. s.born = 0 /\ s.paid = 0 /\ c = Contribution
        BY <2>1 DEF Record, ContributionsDue
      <3>2. Cardinality(MondaysIn(today, today)) = 0
        BY <1>1, NoMondaysWithin
      <3>3. a.born = today /\ a.paid = Contribution
        BY <1>1, <1>4, <3>1
      <3>4. today \in 1..today
        BY <1>1
      <3> QED
        BY <1>1, <3>2, <3>3, <3>4 DEF PaidUpTo
    <2>2. CASE s.date # 0
      <3>1. s.born \in 1..s.date /\ PaidUpTo(s, s.date) /\ s.date \in Nat
        BY <2>2, <1>1, DailyCycleAssumption DEF Record, States
      <3>2. c = Contribution * Cardinality(MondaysIn(s.date, today))
        BY <2>2 DEF ContributionsDue, MondaysIn
      <3>3. /\ a.born = s.born /\ s.born \in 1..today /\ s.born \in Nat
            /\ s.born <= s.date /\ s.date <= today
        BY <1>1, <1>4, <3>1
      <3>4. /\ Cardinality(MondaysIn(s.born, s.date)) \in Nat
            /\ Cardinality(MondaysIn(s.date, today)) \in Nat
            /\ Cardinality(MondaysIn(s.born, today)) =
                 Cardinality(MondaysIn(s.born, s.date)) + Cardinality(MondaysIn(s.date, today))
        <4>1. s.born \in Nat /\ s.date \in Nat /\ today \in Nat
          BY <1>1, <3>1, <3>3
        <4>2. /\ Cardinality(MondaysIn(s.born, s.date)) \in Nat
              /\ Cardinality(MondaysIn(s.date, today)) \in Nat
          BY <4>1, MondaysFinite
        <4> QED
          BY <3>3, <4>1, <4>2, MondaysAdd
      <3>5. \A m, n \in Nat : Contribution * (1 + m) + Contribution * n =
                              Contribution * (1 + (m + n))
        BY <1>1
      <3>6. a.paid = Contribution * (1 + Cardinality(MondaysIn(s.born, s.date)))
                     + Contribution * Cardinality(MondaysIn(s.date, today))
        BY <1>4, <3>1, <3>2 DEF PaidUpTo
      <3> QED
        BY <3>3, <3>4, <3>5, <3>6 DEF PaidUpTo
    <2> QED
      BY <2>1, <2>2
  <1>7. flows \in Nat /\ a.peak + flows >= a.paid
    <2>1. s.peak >= s.paid /\ s.peak \in Nat /\ s.paid \in Nat
      BY <1>1 DEF Record, States
    <2>2. CASE s.date = today
      <3>1. c = Contribution * Cardinality(MondaysIn(today, today))
        BY <1>1, <2>2 DEF ContributionsDue, MondaysIn
      <3>2. Cardinality(MondaysIn(today, today)) = 0
        BY <1>1, NoMondaysWithin
      <3>3. c = 0
        BY <1>1, <3>1, <3>2
      <3> QED
        BY <1>4, <2>1, <2>2, <3>3
    <2>3. CASE s.date # today
      BY <1>2, <1>4, <2>1, <2>3
    <2> QED
      BY <2>2, <2>3
  <1> QED
    BY <1>4, <1>5, <1>6, <1>7

\* Retries belong to the period of the decision.
LEMMA ResetFacts ==
    ASSUME NEW s \in States, today \in Days, PeriodsInOrder(s), AttemptsCounted(s, 0),
           NEW r, r = ResetRetries(s, Period(today))
    PROVE  /\ r \in States
           /\ PeriodsInOrder(r) /\ AttemptsCounted(r, 0)
           /\ r.retryPeriod = Period(today)
           /\ r.born = s.born /\ r.paid = s.paid /\ r.peak = s.peak
           /\ r.halted = s.halted /\ r.completed = s.completed
  <1>1. CASE s.retryPeriod = Period(today)
    BY <1>1 DEF ResetRetries
  <1>2. CASE s.retryPeriod # Period(today)
    <2>1. r = [s EXCEPT !.retryPeriod = Period(today), !.retries = 0]
      BY <1>2 DEF ResetRetries
    <2>2. Period(today) \in Nat /\ 0 \in 0..MaxRetries
      BY CalendarFacts
    <2>3. /\ r \in States
          /\ r.retryPeriod = Period(today)
          /\ r.attemptPeriod = s.attemptPeriod /\ r.completed = s.completed
          /\ r.born = s.born /\ r.paid = s.paid /\ r.peak = s.peak /\ r.halted = s.halted
      BY <2>1, <2>2 DEF States
    <2>4. /\ s.attemptPeriod \in Nat /\ s.retryPeriod \in Nat
          /\ s.attemptPeriod <= s.retryPeriod /\ s.completed <= s.retryPeriod
          /\ s.completed \in Nat /\ s.retryPeriod <= Period(today)
      BY DEF States, PeriodsInOrder
    <2>5. PeriodsInOrder(r)
      BY <2>2, <2>3, <2>4 DEF PeriodsInOrder
    <2>6. r.attemptPeriod # r.retryPeriod
      BY <1>2, <2>2, <2>3, <2>4
    <2> QED
      BY <2>3, <2>5, <2>6 DEF AttemptsCounted
  <1> QED
    BY <1>1, <1>2

\* A checkout a run does not refuse is a record, or no file yet.
LEMMA LoadedFacts ==
    ASSUME today \in Days, NEW file \in Files, ~Refuses(file),
           Readable(file) => Record(file)
    PROVE  Record(Loaded(file)) /\ ~Loaded(file).halted /\ Readable(Loaded(file))
  <1>1. CASE file = Fresh
    <2>1. Record(Default) /\ ~Default.halted /\ Default \in States
      BY DefaultIsRecord DEF Record
    <2> QED
      BY <1>1, <2>1, FilesAssumption DEF Loaded, Readable
  <1>2. CASE file # Fresh
    BY <1>2 DEF Loaded, Refuses, Readable
  <1> QED
    BY <1>1, <1>2

\* A record stays one as the days pass.
LEMMA RecordLater ==
    ASSUME NEW s, Record(s), today \in Days, today' \in Days, today <= today'
    PROVE  Record(s)'
  <1>1. /\ s.date \in Days \cup {0} /\ s.retryPeriod \in Nat
        /\ s.date <= today /\ s.retryPeriod <= Period(today)
    BY DEF Record, PeriodsInOrder, States
  <1>2. Period(today) <= Period(today')
    BY DailyCycleAssumption
  <1>3. s.date <= today' /\ s.retryPeriod <= Period(today')
    BY <1>1, <1>2, CalendarFacts
  <1> QED
    BY <1>3 DEF Record, PeriodsInOrder, AttemptsCounted, PaidUpTo

\* The final state of a run is a record, and says halted if the run did.
LEMMA FinalFacts ==
    ASSUME IInv, pc = "finish", NEW final, final = Final
    PROVE  Record(final) /\ final.date = today /\ final.halted = mem.halted
  <1>1. /\ today \in Days /\ today \in Nat /\ Period(today) \in Nat /\ today # 0
        /\ mem \in States /\ px \in Prices /\ plan.flows \in Nat
        /\ InMemory
    BY CalendarFacts DEF IInv, TypeOK
  <1> PICK s : s = Progress(mem)
    OBVIOUS
  <1>2. /\ s \in States
        /\ s.born = mem.born /\ s.paid = mem.paid /\ s.peak = mem.peak
        /\ s.halted = mem.halted
        /\ PeriodsInOrder(s) /\ AttemptsCounted(s, 0)
    <2>0. /\ PeriodsInOrder(mem)
          /\ AttemptsCounted(mem, IF plan.traded /\ plan.decided THEN 1 ELSE 0)
          /\ plan.decided => /\ mem.retryPeriod = Period(today)
                             /\ plan.traded => mem.retries < MaxRetries
      BY <1>1 DEF InMemory, Working
    <2>1. CASE s = mem /\ ~(plan.traded /\ plan.decided)
      BY <1>1, <2>0, <2>1
    <2>2. CASE plan.decided /\ s = [mem EXCEPT !.completed = Period(today), !.retries = 0]
      <3>1. 0 \in 0..MaxRetries
        BY CalendarFacts
      <3>2. /\ s \in States
            /\ s.born = mem.born /\ s.paid = mem.paid /\ s.peak = mem.peak
            /\ s.halted = mem.halted /\ s.completed = Period(today)
            /\ s.attemptPeriod = mem.attemptPeriod /\ s.retryPeriod = mem.retryPeriod
        BY <1>1, <2>2, <3>1 DEF States
      <3> QED
        BY <1>1, <2>0, <2>2, <3>2 DEF PeriodsInOrder, AttemptsCounted
    <2>3. CASE plan.decided /\ plan.traded /\ s = [mem EXCEPT !.retries = @ + 1]
      <3>1. mem.retries \in Nat /\ mem.attempts \in Nat /\ mem.retries + 1 \in 0..MaxRetries
        BY <1>1, <2>0, <2>3, CalendarFacts DEF States
      <3>2. /\ s \in States
            /\ s.born = mem.born /\ s.paid = mem.paid /\ s.peak = mem.peak
            /\ s.halted = mem.halted /\ s.completed = mem.completed
            /\ s.attempts = mem.attempts /\ s.retries = mem.retries + 1
            /\ s.attemptPeriod = mem.attemptPeriod /\ s.retryPeriod = mem.retryPeriod
        BY <1>1, <2>3, <3>1 DEF States
      <3> QED
        BY <2>0, <2>3, <3>1, <3>2 DEF PeriodsInOrder, AttemptsCounted
    <2>4. \/ s = mem /\ ~(plan.traded /\ plan.decided)
          \/ s = mem /\ plan.decided /\ mem.halted
          \/ plan.decided /\ s = [mem EXCEPT !.completed = Period(today), !.retries = 0]
          \/ plan.decided /\ plan.traded /\ s = [mem EXCEPT !.retries = @ + 1]
      BY DEF Progress
    <2>5. ~(plan.decided /\ mem.halted)
      BY <1>1 DEF InMemory, Working
    <2> QED
      BY <2>1, <2>2, <2>3, <2>4, <2>5
  <1> PICK equity : equity = Equity(s, px)
    OBVIOUS
  <1>3. equity \in Nat
    BY <1>1, <1>2, EquityIsNat
  <1> PICK peak : peak = NewPeak(s, equity)
    OBVIOUS
  <1>4. peak \in Nat /\ peak >= mem.paid /\ peak >= equity
    <2>1. /\ s.peak = mem.peak /\ mem.peak \in Nat /\ mem.paid \in Nat
          /\ mem.peak + plan.flows >= mem.paid
      BY <1>1, <1>2 DEF InMemory, Working, States
    <2> QED
      BY <1>1, <1>3, <2>1 DEF NewPeak, MaxOf
  <1>5. final = [s EXCEPT !.peak = peak, !.last = equity, !.date = today]
    BY DEF Final
  <1>6. /\ final \in States
        /\ final.born = mem.born /\ final.paid = mem.paid /\ final.peak = peak
        /\ final.last = equity /\ final.date = today /\ final.halted = mem.halted
        /\ final.attempts = s.attempts /\ final.retries = s.retries
        /\ final.attemptPeriod = s.attemptPeriod /\ final.retryPeriod = s.retryPeriod
        /\ final.completed = s.completed
    BY <1>1, <1>2, <1>3, <1>4, <1>5 DEF States
  <1>7. PeriodsInOrder(final) /\ AttemptsCounted(final, 0)
    BY <1>2, <1>6 DEF PeriodsInOrder, AttemptsCounted
  <1>8. mem.born \in 1..today /\ PaidUpTo(final, today)
    BY <1>1, <1>6 DEF InMemory, Working, PaidUpTo
  <1> QED
    BY <1>1, <1>4, <1>6, <1>7, <1>8 DEF Record

----------------------------------------------------------------------------
(* Inductiveness. *)

\* The invariant holds before the first run.
LEMMA InitIInv == Init => IInv
  <1> SUFFICES ASSUME Init PROVE IInv
    OBVIOUS
  <1>1. Default \in States
    BY DefaultIsRecord DEF Init, Record
  <1>2. TypeOK
    BY <1>1 DEF Init, TypeOK, Files, NoPlan
  <1>3. RecordsGood
    BY FilesAssumption DEF Init, RecordsGood
  <1> QED
    BY <1>2, <1>3 DEF Init, IInv, MovesForward, InMemory, Staged, Working

\* A run that starts reads a record, refuses it or pays in what is due, and
\* decides on it (runner.py, run_cycle).
LEMMA StartStep ==
    ASSUME IInv, Start
    PROVE  IInv'
  <1>0. /\ TypeOK /\ RecordsGood /\ today \in Days /\ today' = today /\ remote' = remote
        /\ queued # None /\ queued \in Files /\ queued' = None /\ base' = queued
        /\ Readable(queued) => Record(queued)
    BY DEF IInv, TypeOK, Start, RecordsGood, Files, Readable
  <1>1. CASE Refuses(queued)
    <2>1. pc' = "push" /\ disk' = queued /\ UNCHANGED <<mem, px, plan>>
      BY <1>1 DEF Start
    <2>2. TypeOK'
      BY <1>0, <2>1 DEF TypeOK
    <2>3. RecordsGood'
      BY <1>0, <2>1, FilesAssumption
      DEF RecordsGood, Record, PeriodsInOrder, AttemptsCounted, PaidUpTo, Readable
    <2>4. Readable(queued) => queued.date \in Nat
      BY <1>0, CalendarFacts DEF Record, States
    <2> QED
      BY <1>0, <2>1, <2>2, <2>3, <2>4 DEF IInv, MovesForward, InMemory, Staged, Working, Readable
  <1>2. CASE ~Refuses(queued)
    <2> PICK file : file = Loaded(queued)
      OBVIOUS
    <2>1. Record(file) /\ ~file.halted /\ Readable(file) /\ file \in States
      BY <1>0, <1>2, LoadedFacts DEF Record
    <2>2. ASSUME disk' \in {queued, file}
          PROVE  RecordsGood' /\ disk' \in Files
                 /\ (Readable(queued) => disk' # Fresh
                        /\ (Readable(disk)' => disk'.date >= queued.date))
      <3>1. RecordsGood'
        BY <1>0, <2>1, <2>2, FilesAssumption
        DEF RecordsGood, Record, PeriodsInOrder, AttemptsCounted, PaidUpTo, Readable
      <3>2. Readable(queued) => file = queued /\ queued.date \in Nat
        BY <1>0, CalendarFacts DEF Loaded, Readable, Record, States
      <3> QED
        BY <1>0, <2>1, <2>2, <3>1, <3>2 DEF Readable, Files
    <2>3. CASE pc' = "push" /\ disk' \in {queued, file} /\ UNCHANGED <<mem, px, plan>>
      <3>1. TypeOK'
        BY <1>0, <2>2, <2>3 DEF TypeOK
      <3> QED
        BY <1>0, <2>2, <2>3, <3>1 DEF IInv, MovesForward, InMemory, Staged, Working, Readable
    <2>4. CASE ~(pc' = "push" /\ UNCHANGED <<mem, px, plan>>)
      <3> PICK acct : acct = Account(queued, today)
        OBVIOUS
      <3> PICK flows : flows = IF file.date = today THEN 0 ELSE ContributionsDue(file, today)
        OBVIOUS
      <3>1. PICK price, weight, d :
                /\ price \in Prices /\ weight \in TargetWeights
                /\ d = Decide(acct, weight, flows, price, today)
                /\ px' = price
                /\ plan' = [weight |-> weight, flows |-> flows, traded |-> FALSE,
                            decided |-> d.decided]
                /\ mem' = d.mem /\ pc' = d.pc /\ disk' = file
        BY <1>2, <2>4 DEF Start
      <3>2. /\ acct \in States
            /\ acct.born \in 1..today /\ PaidUpTo(acct, today)
            /\ flows \in Nat /\ acct.peak + flows >= acct.paid
            /\ PeriodsInOrder(acct) /\ AttemptsCounted(acct, 0)
            /\ ~acct.halted
        BY <1>0, <2>1, AccountFacts
      <3>3. /\ mem' \in States
            /\ mem'.born = acct.born /\ mem'.paid = acct.paid /\ mem'.peak = acct.peak
            /\ PeriodsInOrder(mem') /\ AttemptsCounted(mem', 0)
            /\ d.decided \in BOOLEAN
            /\ d.decided => mem'.retryPeriod = Period(today) /\ ~mem'.halted
            /\ pc' \in {"kill", "finish", "trade"}
            /\ pc' = "trade" => d.decided /\ mem'.completed # Period(today)
                                /\ mem'.retries < MaxRetries
            /\ pc' = "kill" => mem'.halted /\ ~d.decided
            /\ pc' = "finish" => ~mem'.halted
        <4>1. CASE pc' = "kill" /\ mem' = [acct EXCEPT !.halted = TRUE] /\ d.decided = FALSE
          BY <3>2, <4>1 DEF States, PeriodsInOrder, AttemptsCounted
        <4>2. CASE pc' = "finish" /\ mem' = [acct EXCEPT !.standDownDay = today]
                   /\ d.decided = FALSE
          BY <1>0, <3>2, <4>2 DEF States, PeriodsInOrder, AttemptsCounted
        <4>3. CASE pc' = "finish" /\ mem' = acct /\ d.decided = FALSE
          BY <3>2, <4>3
        <4>4. CASE /\ pc' \in {"finish", "trade"} /\ d.decided = TRUE
                   /\ mem' = ResetRetries(acct, Period(today))
                   /\ pc' = "trade" => acct.completed # Period(today) /\ RetriesLeft(mem')
          BY <1>0, <3>2, <4>4, ResetFacts DEF RetriesLeft
        <4>5. \/ pc' = "kill" /\ mem' = [acct EXCEPT !.halted = TRUE] /\ d.decided = FALSE
              \/ pc' = "finish" /\ mem' = [acct EXCEPT !.standDownDay = today]
                   /\ d.decided = FALSE
              \/ pc' = "finish" /\ mem' = acct /\ d.decided = FALSE
              \/ /\ pc' \in {"finish", "trade"} /\ d.decided = TRUE
                 /\ mem' = ResetRetries(acct, Period(today))
                 /\ pc' = "trade" => acct.completed # Period(today) /\ RetriesLeft(mem')
          <5>1. \/ d.pc = "kill" /\ d.mem = [acct EXCEPT !.halted = TRUE] /\ d.decided = FALSE
                \/ d.pc = "finish" /\ d.mem = [acct EXCEPT !.standDownDay = today]
                     /\ d.decided = FALSE
                \/ d.pc = "finish" /\ d.mem = acct /\ d.decided = FALSE
                \/ /\ d.pc \in {"finish", "trade"} /\ d.decided = TRUE
                   /\ d.mem = ResetRetries(acct, Period(today))
                   /\ d.pc = "trade" => acct.completed # Period(today) /\ RetriesLeft(d.mem)
            BY <3>1 DEF Decide, PreTrade
          <5> QED
            BY <3>1, <5>1
        <4> QED
          BY <4>1, <4>2, <4>3, <4>4, <4>5
      <3>4. /\ plan'.flows = flows /\ ~plan'.traded /\ plan'.decided = d.decided
            /\ plan' \in [weight : TargetWeights \cup {0}, flows : Nat,
                          traded : BOOLEAN, decided : BOOLEAN]
        BY <3>1, <3>2, <3>3
      <3>5. TypeOK'
        BY <1>0, <2>1, <3>1, <3>3, <3>4 DEF TypeOK, Files
      <3>6. RecordsGood' /\ MovesForward'
        BY <1>0, <2>2, <3>1 DEF MovesForward, Readable
      <3>7. InMemory'
        BY <1>0, <3>2, <3>3, <3>4 DEF InMemory, PaidUpTo, PeriodsInOrder, AttemptsCounted
      <3>8. Staged'
        BY <1>0, <1>2, <3>3, <3>4 DEF Staged, Refuses, Readable
      <3> QED
        BY <3>5, <3>6, <3>7, <3>8 DEF IInv
    <2> QED
      BY <1>2, <2>3, <2>4 DEF Start
  <1> QED
    BY <1>1, <1>2

\* Selling f shares, or buying -f, at the price of the run.
LEMMA TradeKeeps ==
    ASSUME NEW s \in States, NEW t, NEW f \in Int, NEW price \in Prices,
           s.shares - f >= 0, s.cash + f * price >= 0,
           t = [s EXCEPT !.shares = @ - f, !.cash = @ + f * price]
    PROVE  /\ t \in States
           /\ t.born = s.born /\ t.paid = s.paid /\ t.peak = s.peak /\ t.halted = s.halted
           /\ t.attempts = s.attempts /\ t.retries = s.retries /\ t.completed = s.completed
           /\ t.attemptPeriod = s.attemptPeriod /\ t.retryPeriod = s.retryPeriod
  <1> PICK shares, cash : shares = s.shares - f /\ cash = s.cash + f * price
    OBVIOUS
  <1>1. s.shares \in Nat /\ s.cash \in Nat /\ f * price \in Int
    BY CalendarFacts DEF States
  <1>2. shares \in Nat /\ cash \in Nat
    BY <1>1
  <1>3. t = [s EXCEPT !.shares = shares, !.cash = cash]
    OBVIOUS
  <1> QED
    BY <1>2, <1>3 DEF States

\* The kill is saved before anything is sold (runner.py, run_cycle).
LEMMA KillStep ==
    ASSUME IInv, Kill
    PROVE  IInv'
  <1>0. /\ TypeOK /\ RecordsGood /\ InMemory /\ Staged /\ pc = "kill" /\ today \in Days
        /\ pc' \in {"liquidate", "finish"}
        /\ UNCHANGED <<today, remote, queued, base, mem, px, plan>>
        /\ base \in Files /\ ~Refuses(base)
        /\ disk' = [Loaded(base) EXCEPT !.halted = TRUE]
    BY DEF IInv, TypeOK, Kill, SaveKill, repo, Staged, Working
  <1> PICK file : file = Loaded(base)
    OBVIOUS
  <1>1. Readable(base) => Record(base) /\ file = base
    BY <1>0 DEF RecordsGood, Files, Readable, Loaded
  <1>2. Record(file)
    BY <1>0, <1>1, LoadedFacts
  <1>3. /\ disk' \in States /\ disk'.halted /\ disk'.date = file.date /\ Record(disk')
    BY <1>0, <1>2 DEF Record, States, PeriodsInOrder, AttemptsCounted, PaidUpTo
  <1>4. Readable(disk')
    BY <1>3, FilesAssumption DEF Readable
  <1>5. TypeOK'
    BY <1>0, <1>3 DEF TypeOK, Files
  <1>6. RecordsGood'
    BY <1>0, <1>3, FilesAssumption
    DEF RecordsGood, Record, PeriodsInOrder, AttemptsCounted, PaidUpTo
  <1>7. MovesForward'
    <2>1. file.date \in Nat
      BY <1>2, CalendarFacts DEF Record, States
    <2> QED
      BY <1>0, <1>1, <1>3, <1>4, <2>1 DEF MovesForward, Readable
  <1>8. InMemory' /\ Staged'
    BY <1>0, <1>3, <1>4 DEF InMemory, Staged, Working, PaidUpTo, PeriodsInOrder, AttemptsCounted,
                            Readable
  <1> QED
    BY <1>5, <1>6, <1>7, <1>8 DEF IInv

\* What stays as it is when only the memory of a run changes.
LEMMA FilesUntouched ==
    ASSUME IInv, UNCHANGED <<today, remote, queued, base, disk>>, pc # "idle"
    PROVE  RecordsGood' /\ MovesForward'
  BY DEF IInv, RecordsGood, MovesForward, Record, PeriodsInOrder, AttemptsCounted, PaidUpTo,
         Readable

\* A liquidation sells what is held and leaves the saved halt alone.
LEMMA LiquidateStep ==
    ASSUME IInv, Liquidate
    PROVE  IInv'
  <1>0. /\ TypeOK /\ InMemory /\ Staged /\ pc = "liquidate" /\ pc' = "finish"
        /\ today \in Days /\ mem \in States /\ px \in Prices
        /\ UNCHANGED <<today, remote, queued, base, disk, px>>
        /\ plan' = [plan EXCEPT !.traded = TRUE]
        /\ mem.halted /\ ~plan.decided /\ Readable(disk) /\ disk.halted /\ ~Refuses(base)
    BY DEF IInv, TypeOK, Liquidate, repo, Staged, Working
  <1> PICK f \in 0..mem.shares :
            mem' = [mem EXCEPT !.shares = @ - f, !.cash = @ + f * px]
    BY DEF Liquidate
  <1>1. mem.shares \in Nat /\ mem.cash \in Nat /\ f \in Nat /\ f * px \in Nat
    BY <1>0, CalendarFacts, ProductIsNat DEF States
  <1>2. /\ mem' \in States
        /\ mem'.born = mem.born /\ mem'.paid = mem.paid /\ mem'.peak = mem.peak
        /\ mem'.halted = mem.halted /\ mem'.attempts = mem.attempts
        /\ mem'.retries = mem.retries /\ mem'.completed = mem.completed
        /\ mem'.attemptPeriod = mem.attemptPeriod /\ mem'.retryPeriod = mem.retryPeriod
    <2>1. f \in Int /\ mem.shares - f >= 0 /\ mem.cash + f * px >= 0
      BY <1>1
    <2> QED
      BY <1>0, <2>1, TradeKeeps
  <1>3. /\ plan'.flows = plan.flows /\ plan'.decided = plan.decided
        /\ plan' \in [weight : TargetWeights \cup {0}, flows : Nat,
                      traded : BOOLEAN, decided : BOOLEAN]
    BY <1>0 DEF TypeOK
  <1>4. TypeOK'
    BY <1>0, <1>2, <1>3 DEF TypeOK
  <1>5. InMemory'
    BY <1>0, <1>2, <1>3 DEF InMemory, Working, PaidUpTo, PeriodsInOrder, AttemptsCounted
  <1>6. Staged'
    BY <1>0, <1>2, <1>3 DEF Staged, Working, Readable, Refuses
  <1> QED
    BY <1>0, <1>4, <1>5, <1>6, FilesUntouched DEF IInv

\* A rebalance counts its attempt, whatever the orders come to (runner.py,
\* run_cycle).
LEMMA TradeStep ==
    ASSUME IInv, Trade
    PROVE  IInv'
  <1>0. /\ TypeOK /\ InMemory /\ Staged /\ pc = "trade" /\ pc' = "finish"
        /\ today \in Days /\ mem \in States /\ px \in Prices
        /\ plan.weight \in 0..100 /\ plan.flows \in Nat
        /\ UNCHANGED <<today, remote, queued, base, disk, px>>
        /\ plan' = [plan EXCEPT !.traded = TRUE]
        /\ plan.decided /\ ~plan.traded /\ mem.completed # Period(today) /\ ~Refuses(base)
    BY CalendarFacts DEF IInv, TypeOK, Trade, repo, Staged, Working
  <1> PICK n : n = OrderShares(mem, plan.weight, Equity(mem, px), px)
    OBVIOUS
  <1>1. n \in Int /\ mem.shares + n >= 0
    BY <1>0, EquityIsNat, OrdersSellWhatIsHeld
  <1> PICK attempts : attempts = IF mem.attemptPeriod = Period(today)
                                 THEN mem.attempts + 1 ELSE 1
    OBVIOUS
  <1>2. PICK f, signed :
            /\ f \in 0..AbsVal(n)
            /\ signed = IF n < 0 THEN -f ELSE f
            /\ signed * px <= mem.cash
            /\ mem' = [mem EXCEPT !.shares = @ + signed, !.cash = @ - signed * px,
                                  !.attempts = attempts,
                                  !.attemptPeriod = Period(today), !.tradeDay = today]
    BY DEF Trade
  <1>3. /\ mem.retryPeriod = Period(today) /\ mem.retries < MaxRetries /\ ~mem.halted
        /\ PeriodsInOrder(mem) /\ AttemptsCounted(mem, 0)
        /\ mem.retries \in Nat /\ mem.attempts \in Nat
    BY <1>0 DEF InMemory, Working, States
  <1>4. attempts \in 0..MaxRetries /\ attempts <= mem.retries + 1
    BY <1>0, <1>3, CalendarFacts DEF AttemptsCounted
  <1>5. signed \in Int /\ mem.shares + signed \in Nat
    BY <1>0, <1>1, <1>2 DEF AbsVal, States
  <1>6. mem.cash - signed * px \in Nat
    BY <1>0, <1>2, <1>5, CalendarFacts DEF States
  <1> PICK shares, cash : shares = mem.shares + signed /\ cash = mem.cash - signed * px
    OBVIOUS
  <1>7. /\ mem' \in States
        /\ mem'.born = mem.born /\ mem'.paid = mem.paid /\ mem'.peak = mem.peak
        /\ mem'.halted = mem.halted /\ mem'.attempts = attempts
        /\ mem'.retries = mem.retries /\ mem'.completed = mem.completed
        /\ mem'.attemptPeriod = Period(today) /\ mem'.retryPeriod = mem.retryPeriod
    <2>1. mem' = [mem EXCEPT !.shares = shares, !.cash = cash, !.attempts = attempts,
                             !.attemptPeriod = Period(today), !.tradeDay = today]
      BY <1>2
    <2>2. shares \in Nat /\ cash \in Nat /\ Period(today) \in Nat
      BY <1>0, <1>5, <1>6, CalendarFacts
    <2> QED
      BY <1>0, <1>4, <2>1, <2>2 DEF States
  <1>8. /\ plan'.flows = plan.flows /\ plan'.decided /\ plan'.traded
        /\ plan' \in [weight : TargetWeights \cup {0}, flows : Nat,
                      traded : BOOLEAN, decided : BOOLEAN]
    BY <1>0 DEF TypeOK
  <1>9. TypeOK'
    BY <1>0, <1>7, <1>8 DEF TypeOK
  <1>10. InMemory'
    <2>1. PeriodsInOrder(mem') /\ AttemptsCounted(mem', 1)
      BY <1>0, <1>3, <1>4, <1>7, CalendarFacts DEF PeriodsInOrder, AttemptsCounted
    <2> QED
      BY <1>0, <1>3, <1>7, <1>8, <2>1
      DEF InMemory, Working, PaidUpTo, PeriodsInOrder, AttemptsCounted
  <1>11. Staged'
    BY <1>0, <1>3, <1>7, <1>8 DEF Staged, Working, Readable, Refuses
  <1> QED
    BY <1>0, <1>9, <1>10, <1>11, FilesUntouched DEF IInv

\* What a run writes at its end is a record of today.
LEMMA FinishStep ==
    ASSUME IInv, Finish
    PROVE  IInv'
  <1>0. /\ TypeOK /\ RecordsGood /\ Staged /\ pc = "finish" /\ pc' = "push" /\ today \in Days
        /\ UNCHANGED <<today, remote, queued, base, mem, px, plan>>
        /\ disk' = Final /\ base \in Files
    BY DEF IInv, TypeOK, Finish, repo
  <1>1. Record(disk') /\ disk'.date = today /\ disk' \in States
    BY <1>0, FinalFacts DEF Record
  <1>2. TypeOK'
    BY <1>0, <1>1 DEF TypeOK, Files
  <1>3. RecordsGood'
    BY <1>0, <1>1, FilesAssumption
    DEF RecordsGood, Record, PeriodsInOrder, AttemptsCounted, PaidUpTo
  <1>4. MovesForward'
    BY <1>0, <1>1, FilesAssumption DEF MovesForward, RecordsGood, Record, Readable, Files
  <1> QED
    BY <1>0, <1>2, <1>3, <1>4 DEF IInv, InMemory, Staged, Working

\* A crash loses the memory of the run, and nothing else.
LEMMA CrashStep ==
    ASSUME IInv, Crash
    PROVE  IInv'
  <1>0. /\ TypeOK /\ RecordsGood /\ MovesForward /\ pc # "idle" /\ pc' = "push"
        /\ UNCHANGED <<today, remote, queued, base, mem, px, plan>>
        /\ disk' \in {disk, Refused}
    BY DEF IInv, Crash, repo
  <1>1. TypeOK'
    BY <1>0 DEF TypeOK, Files
  <1>2. RecordsGood' /\ MovesForward'
    BY <1>0, FilesAssumption
    DEF RecordsGood, MovesForward, Record, PeriodsInOrder, AttemptsCounted, PaidUpTo, Readable
  <1> QED
    BY <1>0, <1>1, <1>2 DEF IInv, InMemory, Staged, Working

\* A push replaces the file in the repository by that of the run, or leaves it.
LEMMA PushStep ==
    ASSUME IInv, Push
    PROVE  IInv'
  <1>0. /\ TypeOK /\ RecordsGood /\ pc' = "idle" /\ today \in Days
        /\ UNCHANGED <<today, queued, px>>
        /\ remote' \in {disk, remote} /\ base' = Fresh /\ disk' = Fresh
        /\ mem' = Default /\ plan' = NoPlan
    BY DEF IInv, TypeOK, Push, PushResult
  <1>1. Default \in States
    BY <1>0, DefaultIsRecord DEF Record
  <1>2. TypeOK'
    BY <1>0, <1>1 DEF TypeOK, Files, NoPlan
  <1>3. RecordsGood'
    BY <1>0, FilesAssumption
    DEF RecordsGood, Record, PeriodsInOrder, AttemptsCounted, PaidUpTo
  <1> QED
    BY <1>0, <1>2, <1>3 DEF IInv, MovesForward, InMemory, Staged, Working

\* Days that pass and runs that are triggered keep the invariant.
LEMMA WorldStep ==
    ASSUME IInv, NextDay \/ Trigger \/ UNCHANGED vars
    PROVE  IInv'
  <1>0. TypeOK /\ RecordsGood /\ today \in Days
    BY DEF IInv, TypeOK
  <1>1. CASE NextDay
    <2>1. /\ pc = "idle" /\ today' \in Days /\ today <= today'
          /\ UNCHANGED <<remote, queued, pc, base, disk, mem, px, plan>>
      BY <1>0, <1>1, CalendarFacts DEF NextDay, repo, run
    <2>2. RecordsGood'
      BY <1>0, <2>1, RecordLater DEF RecordsGood
    <2>3. TypeOK'
      BY <1>0, <2>1 DEF TypeOK
    <2> QED
      BY <2>1, <2>2, <2>3 DEF IInv, MovesForward, InMemory, Staged, Working
  <1>2. CASE Trigger \/ UNCHANGED vars
    <2>1. UNCHANGED <<today, remote, pc, base, disk, mem, px, plan>>
          /\ queued' \in {queued, remote}
      BY <1>2 DEF Trigger, run, vars
    <2>2. RecordsGood'
      BY <1>0, <2>1 DEF RecordsGood, Record, PeriodsInOrder, AttemptsCounted, PaidUpTo
    <2>3. TypeOK'
      BY <1>0, <2>1 DEF TypeOK
    <2> QED
      BY <2>1, <2>2, <2>3 DEF IInv, MovesForward, InMemory, Staged, Working, Readable, PaidUpTo,
                              PeriodsInOrder, AttemptsCounted, Refuses
  <1> QED
    BY <1>1, <1>2

\* Every step keeps the invariant.
LEMMA NextIInv == IInv /\ [Next]_vars => IInv'
  BY StartStep, KillStep, LiquidateStep, TradeStep, FinishStep, CrashStep, PushStep, WorldStep
  DEF Next

\* The invariant holds throughout.
LEMMA SpecIInv == Spec => []IInv
  BY InitIInv, NextIInv, PTL DEF Spec

----------------------------------------------------------------------------
(* Theorems. *)

(***************************************************************************)
(* Every state file and every run keeps its types; shares, cash and        *)
(* deposits stay amounts, and a period sees no more attempts than there    *)
(* are retries (runner.py, run_cycle).                                     *)
(***************************************************************************)
THEOREM DailyTypeCorrect == Spec => []TypeOK
  <1>1. IInv => TypeOK
    BY DEF IInv
  <1> QED
    BY <1>1, SpecIInv, PTL

(***************************************************************************)
(* A run that liquidates has its halt on disk before the first order: a    *)
(* crash in the middle of it leaves a file no later run trades on          *)
(* (runner.py, run_cycle).                                                 *)
(***************************************************************************)
THEOREM KillIsDurable == Spec => []KillSavedBeforeLiquidation
  <1>1. IInv => KillSavedBeforeLiquidation
    BY DEF IInv, Staged, KillSavedBeforeLiquidation
  <1> QED
    BY <1>1, SpecIInv, PTL

(***************************************************************************)
(* The deposits in the repository's state are those of the Mondays since   *)
(* the account was opened, each once, whatever runs were skipped,          *)
(* repeated, crashed or lost their push (daily_run.py, contributions_due). *)
(***************************************************************************)
THEOREM DepositsCountedOnce == Spec => []DepositsCounted
  <1>1. IInv => DepositsCounted
    <2> SUFFICES ASSUME IInv, Readable(remote) PROVE DepositsCounted
      BY DEF DepositsCounted
    <2>1. Record(remote)
      BY DEF IInv, TypeOK, RecordsGood, Files, Readable
    <2> QED
      BY <2>1 DEF Record, PaidUpTo, MondaysIn, DepositsCounted
  <1> QED
    BY <1>1, SpecIInv, PTL

(***************************************************************************)
(* The repository never goes back: a state is replaced by one of the same  *)
(* or a later day, and never by none (daily_run.py, main; paper.yml).      *)
(***************************************************************************)
THEOREM RecordsMoveForward == Spec => RecordNeverGoesBack
  <1>1. ASSUME IInv, [Next]_vars, Readable(remote)
        PROVE  remote' # Fresh /\ (Readable(remote') => remote'.date >= remote.date)
    <2>1. remote.date \in Nat
      BY <1>1, CalendarFacts DEF IInv, TypeOK, Files, Readable, States
    <2>2. CASE remote' = remote
      BY <1>1, <2>1, <2>2 DEF Readable
    <2>3. CASE Push /\ remote = base /\ remote' = disk
      BY <1>1, <2>3 DEF IInv, MovesForward, Push, Readable
    <2> QED
      BY <1>1, <2>2, <2>3 DEF Next, NextDay, Trigger, Start, Kill, Liquidate, Trade, Finish,
                              Crash, Push, PushResult, repo, vars
  <1>2. IInv /\ [Next]_vars =>
            [Readable(remote) =>
                /\ remote' # Fresh
                /\ Readable(remote') => remote'.date >= remote.date]_vars
    BY <1>1
  <1> QED
    BY <1>2, SpecIInv, PTL DEF Spec, RecordNeverGoesBack
=============================================================================
