----------------------------- MODULE FtmoProofs -----------------------------
(***************************************************************************)
(* What holds of the guard, the runner and the files between them for      *)
(* every number of symbols, slots, days and crashes, and every order in    *)
(* which the two processes and the people poll, write and die.  The        *)
(* invariant says what each process may still rely on when it acts on      *)
(* something it read some steps ago: the guard on the account it polled    *)
(* (guard.py, tick), the runner on the gates it passed (order_router.py,   *)
(* place).                                                                 *)
(***************************************************************************)
EXTENDS FtmoLive, SequenceTheorems, FiniteSetTheorems, TLAPS

\* A later time is not on an earlier day (ftmo_rules.py, trading_day).
LEMMA DayFacts ==
    ASSUME NEW t \in Nat, NEW u \in Nat, t <= u
    PROVE  Day(t) \in Nat /\ Day(t) <= Day(u)
  BY FtmoAssumption, SMT DEF Day

\* The day of a time of the model is one of its days.
LEMMA DaysFacts ==
    ASSUME NEW t \in Times
    PROVE  Day(t) \in Days
  BY FtmoAssumption, DayFacts, SMT DEF Times, Days

\* Closing one position of the book leaves the others, in their order
\* (mt5_client.py, close_position).
LEMMA RemoveFacts ==
    ASSUME NEW S, NEW s \in Seq(S), NEW i \in DOMAIN s
    PROVE  /\ Remove(s, i) \in Seq(S)
           /\ Len(Remove(s, i)) = Len(s) - 1
           /\ \A j \in DOMAIN Remove(s, i) :
                 Remove(s, i)[j] = s[IF j < i THEN j ELSE j + 1]
  <1> DEFINE front == SubSeq(s, 1, i - 1)
             back  == SubSeq(s, i + 1, Len(s))
  <1>1. i \in 1..Len(s) /\ Len(s) \in Nat
    BY LenProperties
  <1>2. /\ front \in Seq(S) /\ Len(front) = i - 1
        /\ \A j \in 1..(i - 1) : front[j] = s[j]
    BY <1>1, SMT
  <1>3. /\ back \in Seq(S) /\ Len(back) = Len(s) - i
        /\ \A j \in 1..(Len(s) - i) : back[j] = s[i + j]
    BY <1>1, SMT
  <1>4. Remove(s, i) = front \o back
    BY DEF Remove
  <1> HIDE DEF front, back
  <1>5. /\ front \o back \in Seq(S)
        /\ Len(front \o back) = Len(s) - 1
        /\ \A j \in 1..(Len(s) - 1) :
              (front \o back)[j] = IF j <= i - 1 THEN front[j] ELSE back[j - (i - 1)]
    BY <1>1, <1>2, <1>3, SMTT(30)
  <1>6. \A j \in 1..(Len(s) - 1) :
              (front \o back)[j] = s[IF j < i THEN j ELSE j + 1]
    BY <1>1, <1>2, <1>3, <1>5, SMT
  <1> QED
    BY <1>4, <1>5, <1>6, LenProperties

----------------------------------------------------------------------------
(* The inductive invariant. *)

\* The guard's tick has the account it polled.
Polled == {"baseline", "clear", "unlink", "judge", "write", "list", "close", "beat"}

\* The times in the files are those of polls that succeeded.
FilesTrailPolls ==
    /\ read # None => read <= now
    /\ guard.pc \in Polled => read # None /\ guard.time = read
    /\ guard.pc = "baseline" => guard.equity \in EquityLevels
    /\ heartbeat # None => read # None /\ heartbeat <= read
    /\ baseline # None => read # None /\ baseline.day <= Day(read)

\* What the guard is about to do to HALT is justified by what is there now,
\* although it decided on what was there before.
HaltAsRead ==
    /\ guard.pc = "unlink" =>
          halt = None \/ halt.kind = "manual" \/ Expired(Day(guard.time))
    /\ guard.pc = "write" =>
          /\ guard.halt # None
          /\ halt = None \/ halt.kind = "manual"
                \/ (halt.kind = "daily" /\ guard.halt.kind = "overall")

\* can_open's answer about the open positions: the key's symbol and slot are
\* free, and nothing is open against it.
Free(key) ==
    /\ key.symbol \notin OpenSymbols
    /\ SlotsUsed(OpenSymbols \cup {key.symbol}) <= MaxSlots
    /\ \A i \in DOMAIN book :
            book[i].symbol \in SlotOf(key.symbol) => book[i].side = key.side

\* What the runner decided on still holds when it acts on it.
DecisionStands ==
    /\ runner.pc \in {"gate", "check", "key", "send"} => runner.key \in Keys
    /\ \A k \in Keys : orders[k] > 0 => k \in keys
    /\ runner.pc \in {"check", "key"} => runner.key \notin keys
    /\ runner.pc = "send" => runner.key \in keys /\ orders[runner.key] = 0
    /\ runner.pc \in {"key", "send"} => Free(runner.key)

IInv == TypeOK /\ FilesTrailPolls /\ HaltAsRead /\ DecisionStands /\ NoDoubleEntry

\* The invariant holds when both processes are off and the files are missing.
LEMMA InitIInv == Init => IInv
  <1> SUFFICES ASSUME Init PROVE IInv
    OBVIOUS
  <1> USE FtmoAssumption
  <1>1. 0 \in Times /\ Times \subseteq Nat
    BY DEF Times
  <1>2. guard \in GuardStates
    BY <1>1 DEF Init, GuardDown, GuardStates, Halts
  <1>3. runner \in RunnerStates
    BY <1>1 DEF Init, RunnerDown, RunnerStates
  <1>4. TypeOK
    BY <1>1, <1>2, <1>3 DEF Init, TypeOK, Halts, Baselines, GuardDown
  <1>5. FilesTrailPolls /\ HaltAsRead /\ DecisionStands
    BY DEF Init, FilesTrailPolls, Polled, HaltAsRead, DecisionStands, GuardDown, RunnerDown
  <1>6. NoDoubleEntry
    <2>1. book = <<>> /\ {SlotOf(s) : s \in OpenSymbols} = {}
      BY DEF Init, OpenSymbols
    <2>2. SlotsUsed(OpenSymbols) = 0
      BY <2>1, FS_EmptySet DEF SlotsUsed
    <2> QED
      BY <2>1, <2>2 DEF Init, NoDoubleEntry
  <1> QED
    BY <1>4, <1>5, <1>6 DEF IInv

\* What the guard judges is a halt, and one that may be written over what it
\* read: nothing, or a daily halt that becomes an overall one (guard.py, tick).
LEMMA JudgementFacts ==
    ASSUME TypeOK, guard.pc = "judge"
    PROVE  /\ Judgement # None => Judgement \in [kind : {"daily", "overall"}, day : Days]
           /\ Judgement # None => halt = None \/ (halt.kind = "daily" /\ Judgement.kind = "overall")
  <1> DEFINE d == ShouldHalt(guard.equity, baseline.equity, Day(guard.time))
  <1>1. Day(guard.time) \in Days
    BY DaysFacts DEF TypeOK, GuardStates
  <1>2. d = None \/ d \in [kind : {"daily", "overall"}, day : Days]
    BY <1>1 DEF ShouldHalt, Breach
  <1> QED
    BY <1>2 DEF Judgement

\* A book with a position removed is a book.
LEMMA ClosedType ==
    ASSUME TypeOK, NEW i \in DOMAIN book
    PROVE  Remove(book, i) \in Seq(Keys)
  BY RemoveFacts DEF TypeOK

\* Time, prices, broker exits and people keep the types.
LEMMA WorldType ==
    ASSUME TypeOK, Advance \/ Move \/ Exit \/ QuotesEnd \/ HumanHalt \/ HumanClear
    PROVE  TypeOK'
  <1> USE FtmoAssumption DEF TypeOK
  <1>1. CASE Advance
    BY <1>1 DEF Advance, market, files, budgets, Times
  <1>2. CASE Move
    BY <1>2 DEF Move, files, budgets
  <1>3. CASE Exit
    BY <1>3, ClosedType DEF Exit, files, budgets
  <1>4. CASE QuotesEnd
    BY <1>4 DEF QuotesEnd, files, budgets
  <1>5. CASE HumanHalt \/ HumanClear
    <2>1. Breach("manual", 0) \in Halts
      <3>1. 0 \in Days
        BY DayFacts DEF Days
      <3> QED
        BY <3>1 DEF Breach, Halts
    <2> QED
      BY <1>5, <2>1 DEF HumanHalt, HumanClear, market, Halts
  <1> QED
    BY <1>1, <1>2, <1>3, <1>4, <1>5

\* Every step of the guard keeps the types (guard.py, tick).
LEMMA GuardType ==
    ASSUME TypeOK, guard.pc = "baseline" => guard.equity \in EquityLevels,
           \/ GuardStart \/ GuardCrash \/ GuardPoll \/ GuardBlind \/ GuardBaseline
           \/ GuardClear \/ GuardUnlink \/ GuardJudge \/ GuardWrite \/ GuardList
           \/ GuardDone \/ GuardClose \/ GuardCloseRefused \/ GuardMT5Error \/ GuardBeat
    PROVE  TypeOK'
  <1> USE FtmoAssumption DEF TypeOK
  <1>1. CASE GuardStart
    BY <1>1 DEF GuardStart, GuardTo, GuardStates, market, files, budgets
  <1>2. CASE GuardCrash
    <2>1. 0 \in Times /\ None \in Halts /\ <<>> \in Seq(Keys)
      BY EmptySeq DEF Times, Halts
    <2>2. guard' \in GuardStates /\ guard'.pc = "down"
      BY <1>2, <2>1 DEF GuardCrash, GuardDown, GuardStates
    <2>3. UNCHANGED <<now, market, files, runner, read, human>> /\ crashes' \in 0..MaxCrashes
      BY <1>2 DEF GuardCrash
    <2> QED
      BY <2>2, <2>3 DEF market, files
  <1>3. CASE GuardPoll
    BY <1>3 DEF GuardPoll, GuardStates, market, files, budgets
  <1>4. CASE GuardBlind
    BY <1>4 DEF GuardBlind, vars
  <1>5. CASE GuardBaseline
    <2>1. Day(guard.time) \in Days
      BY DaysFacts DEF GuardStates
    <2>2. guard'.pc = "clear" /\ guard' \in GuardStates
      BY <1>5 DEF GuardBaseline, GuardTo, GuardStates
    <2>3. [day |-> Day(guard.time), equity |-> guard.equity] \in [day : Days, equity : EquityLevels]
      BY <1>5, <2>1 DEF GuardBaseline
    <2>4. [day : Days, equity : EquityLevels] \subseteq [day : Nat, equity : EquityLevels]
      BY DEF Days
    <2>5. baseline' \in Baselines /\ baseline' # None
      BY <1>5, <2>3, <2>4 DEF GuardBaseline, Baselines, TakesSnapshot
    <2> QED
      BY <1>5, <2>2, <2>5 DEF GuardBaseline, market, budgets
  <1>6. CASE GuardClear
    BY <1>6 DEF GuardClear, GuardTo, GuardStates, market, files, budgets
  <1>7. CASE GuardUnlink
    BY <1>7 DEF GuardUnlink, GuardTo, GuardStates, Halts, market, budgets
  <1>8. CASE GuardJudge
    BY <1>8, JudgementFacts DEF GuardJudge, GuardStates, Halts, market, files, budgets
  <1>9. CASE GuardWrite
    BY <1>9 DEF GuardWrite, GuardTo, GuardStates, market, budgets
  <1>10. CASE GuardList
    <2>1. Targets \in Seq(Keys)
      BY DEF Targets
    <2>2. guard' \in GuardStates /\ guard'.pc = "close"
      BY <1>10, <2>1 DEF GuardList, GuardStates, Halts
    <2> QED
      BY <1>10, <2>2 DEF GuardList, market, files, budgets
  <1>11. CASE GuardDone
    BY <1>11 DEF GuardDone, GuardTo, GuardStates, market, files, budgets
  <1>12. CASE GuardClose \/ GuardCloseRefused
    <2>1. guard' \in GuardStates /\ guard'.pc \in {"beat", "close"}
      <3>1. Tail(guard.todo) \in Seq(Keys)
        BY <1>12 DEF GuardClose, GuardCloseRefused, GuardStates
      <3> QED
        BY <1>12, <3>1 DEF GuardClose, GuardCloseRefused, GuardCloses, GuardStates
    <2>2. book' \in Seq(Keys)
      BY <1>12, ClosedType DEF GuardClose, GuardCloseRefused, market
    <2> QED
      BY <1>12, <2>1, <2>2 DEF GuardClose, GuardCloseRefused, market, files, budgets
  <1>13. CASE GuardMT5Error
    <2>1. guard' \in GuardStates /\ guard'.pc = "beat"
      BY <1>13, EmptySeq DEF GuardMT5Error, GuardStates, Halts
    <2> QED
      BY <1>13, <2>1 DEF GuardMT5Error, market, files, budgets
  <1>14. CASE GuardBeat
    <2>1. guard' = [pc |-> "poll", time |-> 0, equity |-> 0, halt |-> None, todo |-> <<>>]
      BY <1>14 DEF GuardBeat, GuardDown
    <2>2. guard' \in GuardStates /\ guard'.pc = "poll"
      BY <2>1, EmptySeq DEF GuardStates, Halts, Times
    <2> QED
      BY <1>14, <2>2 DEF GuardBeat, GuardStates, market, budgets
  <1> QED
    BY <1>1, <1>2, <1>3, <1>4, <1>5, <1>6, <1>7, <1>8, <1>9, <1>10, <1>11, <1>12, <1>13, <1>14

\* Whatever the runner drops a signal for leaves it in a state of its own
\* (runner.py, _process_bars).
LEMMA GivesUpType ==
    ASSUME NEW done \in SUBSET (Symbols \X Days), RunnerGivesUp(done)
    PROVE  runner' \in RunnerStates
  <1>1. runner' = [pc |-> "step", time |-> 0, key |-> None, base |-> 0, done |-> done]
    BY DEF RunnerGivesUp, RunnerDown
  <1>2. 0 \in Times
    BY FtmoAssumption DEF Times
  <1> QED
    BY <1>1, <1>2 DEF RunnerStates

\* A runner that drops a signal goes on with its step.
LEMMA GivesUpWaits ==
    ASSUME NEW done, RunnerGivesUp(done)
    PROVE  runner'.pc = "step"
  BY DEF RunnerGivesUp, RunnerDown

\* Every step of the runner keeps the types, if a key in hand is a key
\* (runner.py, Runner.step; order_router.py, place).
LEMMA RunnerType ==
    ASSUME TypeOK,
           \/ RunnerStart \/ RunnerCrash \/ RunnerTimeExit \/ RunnerSignal \/ RunnerGate
           \/ RunnerCheck \/ RunnerKey \/ RunnerSend \/ RunnerRefused \/ RunnerMT5Error,
           runner.pc \in {"gate", "check", "key", "send"} => runner.key \in Keys
    PROVE  TypeOK'
  <1> USE FtmoAssumption DEF TypeOK
  <1>0. runner.done \in SUBSET (Symbols \X Days)
    BY DEF RunnerStates
  <1>1. CASE RunnerStart
    BY <1>1 DEF RunnerStart, RunnerTo, RunnerStates, market, files, budgets
  <1>2. CASE RunnerCrash
    BY <1>2 DEF RunnerCrash, RunnerDown, RunnerStates, Times, market, files
  <1>3. CASE RunnerTimeExit
    BY <1>3, ClosedType DEF RunnerTimeExit, files, budgets
  <1>4. CASE RunnerSignal
    <2>1. PICK k \in Keys :
            LET done == runner.done \cup {<<k.symbol, k.day>>}
            IN  \/ runner' = [pc |-> "gate", time |-> now, key |-> k, base |-> 0, done |-> done]
                \/ RunnerGivesUp(done)
      BY <1>4 DEF RunnerSignal
    <2> DEFINE done == runner.done \cup {<<k.symbol, k.day>>}
    <2>2. done \in SUBSET (Symbols \X Days)
      BY <1>0 DEF Keys
    <2>3. RunnerGivesUp(done) => runner' \in RunnerStates
      BY <2>2, GivesUpType
    <2> HIDE DEF done
    <2>4. runner' = [pc |-> "gate", time |-> now, key |-> k, base |-> 0, done |-> done]
          => runner' \in RunnerStates
      BY <2>2 DEF RunnerStates
    <2>5. runner' \in RunnerStates
      BY <2>1, <2>3, <2>4 DEF done
    <2> QED
      BY <1>4, <2>5 DEF RunnerSignal, market, files, budgets
  <1>5. CASE RunnerGate
    <2>1. CASE RunnerGivesUp(runner.done)
      BY <1>5, <1>0, <2>1, GivesUpType DEF RunnerGate, market, files, budgets
    <2>2. CASE baseline # None /\ runner' = [runner EXCEPT !.pc = "check", !.base = baseline.equity]
      <3>1. runner' \in RunnerStates
        BY <2>2 DEF RunnerStates, Baselines
      <3> QED
        BY <1>5, <3>1 DEF RunnerGate, market, files, budgets
    <2> QED
      BY <1>5, <2>1, <2>2 DEF RunnerGate
  <1>6. CASE RunnerCheck
    <2>1. RunnerTo("key") => runner' \in RunnerStates
      BY DEF RunnerTo, RunnerStates
    <2>2. runner' \in RunnerStates
      BY <1>6, <1>0, <2>1, GivesUpType DEF RunnerCheck
    <2> QED
      BY <1>6, <2>2 DEF RunnerCheck, market, files, budgets
  <1>7. CASE RunnerKey
    BY <1>7 DEF RunnerKey, RunnerTo, RunnerStates, market, budgets
  <1>8. CASE RunnerSend
    <2>1. runner' \in RunnerStates
      BY <1>8, <1>0, GivesUpType DEF RunnerSend
    <2>2. book' \in Seq(Keys) /\ orders' \in [Keys -> Nat]
      BY <1>8 DEF RunnerSend
    <2> QED
      BY <1>8, <2>1, <2>2 DEF RunnerSend, files, budgets
  <1>9. CASE RunnerRefused
    BY <1>9, <1>0, GivesUpType DEF RunnerRefused, market, files, budgets
  <1>10. CASE RunnerMT5Error
    <2>1. runner' \in RunnerStates
      BY <1>10, <1>0, GivesUpType DEF RunnerMT5Error
    <2> QED
      BY <1>10, <2>1 DEF RunnerMT5Error, market, files, budgets
  <1> QED
    BY <1>1, <1>2, <1>3, <1>4, <1>5, <1>6, <1>7, <1>8, <1>9, <1>10

\* Heartbeat and baseline stay dated by a poll that succeeded: the guard writes
\* them after the poll of the same tick, and only then (guard.py, tick).
LEMMA PollsStep == IInv /\ TypeOK' /\ [Next]_vars => FilesTrailPolls'
  <1> SUFFICES ASSUME IInv, TypeOK', [Next]_vars PROVE FilesTrailPolls'
    OBVIOUS
  <1> USE FtmoAssumption DEF IInv, FilesTrailPolls
  <1>1. /\ now \in Nat /\ now' \in Nat
        /\ read \in Nat \cup {None} /\ read' \in Nat \cup {None}
        /\ heartbeat \in Nat \cup {None}
        /\ guard.time \in Nat
        /\ baseline # None => baseline.day \in Nat
    <2>1. Times \subseteq Nat /\ Days \subseteq Nat
      BY DEF Times, Days
    <2> QED
      BY <2>1 DEF TypeOK, GuardStates, Baselines
  <1>2. CASE Advance \/ Move \/ Exit \/ QuotesEnd \/ HumanHalt \/ HumanClear
    BY <1>1, <1>2 DEF Advance, Move, Exit, QuotesEnd, HumanHalt, HumanClear, files
  <1>3. CASE GuardPoll
    <2>1. read' = now /\ now' = now /\ guard'.time = now /\ guard'.equity = equity
      BY <1>3 DEF GuardPoll, TypeOK, GuardStates
    <2>2. baseline # None => Day(read) <= Day(now)
      BY <1>1, DayFacts
    <2>3. baseline # None => baseline.day <= Day(now)
      BY <1>1, <2>2, DayFacts
    <2> QED
      <3>1. now # None /\ equity \in EquityLevels
        BY <1>1 DEF TypeOK
      <3>2. UNCHANGED <<heartbeat, baseline>>
        BY <1>3 DEF GuardPoll, files
      <3> QED
        BY <1>1, <2>1, <2>3, <3>1, <3>2
  <1>4. CASE GuardBaseline
    <2>1. guard'.pc = "clear" /\ guard'.time = guard.time /\ guard.pc \in Polled
      BY <1>4 DEF GuardBaseline, GuardTo, Polled, TypeOK, GuardStates
    <2>2. baseline' # baseline => baseline'.day = Day(guard.time)
      BY <1>4 DEF GuardBaseline
    <2>3. UNCHANGED <<now, read, heartbeat>>
      BY <1>4 DEF GuardBaseline
    <2>4. Day(read) \in Nat /\ Day(read) <= Day(read)
      BY <1>1, <2>1, DayFacts
    <2> QED
      BY <1>1, <2>1, <2>2, <2>3, <2>4
  <1>5. CASE GuardBeat
    BY <1>1, <1>5 DEF GuardBeat, GuardDown, Polled, TypeOK, GuardStates
  <1>6. CASE GuardStart \/ GuardCrash \/ GuardBlind
    <2>1. guard' = guard \/ guard'.pc \in {"poll", "down"}
      BY <1>6 DEF GuardStart, GuardCrash, GuardBlind, GuardTo, GuardDown, TypeOK,
                  GuardStates, vars
    <2>2. UNCHANGED <<now, read, heartbeat, baseline>>
      BY <1>6 DEF GuardStart, GuardCrash, GuardBlind, files, vars
    <2> QED
      BY <2>1, <2>2 DEF Polled
  <1>7. CASE \/ GuardClear \/ GuardUnlink \/ GuardJudge \/ GuardWrite \/ GuardList
             \/ GuardDone \/ GuardClose \/ GuardCloseRefused \/ GuardMT5Error
    <2>1. guard'.pc \in Polled \ {"baseline"} /\ guard'.time = guard.time /\ guard.pc \in Polled
      BY <1>7 DEF GuardClear, GuardUnlink, GuardJudge, GuardWrite, GuardList, GuardDone,
                  GuardClose, GuardCloseRefused, GuardMT5Error, GuardCloses, GuardTo,
                  Polled, TypeOK, GuardStates
    <2>2. UNCHANGED <<now, read, heartbeat, baseline>>
      BY <1>7 DEF GuardClear, GuardUnlink, GuardJudge, GuardWrite, GuardList, GuardDone,
                  GuardClose, GuardCloseRefused, GuardMT5Error, files
    <2> QED
      BY <2>1, <2>2
  <1>8. CASE \/ RunnerStart \/ RunnerCrash \/ RunnerTimeExit \/ RunnerSignal \/ RunnerGate
             \/ RunnerCheck \/ RunnerKey \/ RunnerSend \/ RunnerRefused \/ RunnerMT5Error
    <2>1. UNCHANGED <<now, read, heartbeat, baseline, guard>>
      BY <1>8 DEF RunnerStart, RunnerCrash, RunnerTimeExit, RunnerSignal, RunnerGate,
                  RunnerCheck, RunnerKey, RunnerSend, RunnerRefused, RunnerMT5Error, files
    <2> QED
      BY <2>1
  <1>9. CASE UNCHANGED vars
    BY <1>9 DEF vars
  <1> QED
    BY <1>2, <1>3, <1>4, <1>5, <1>6, <1>7, <1>8, <1>9 DEF Next

\* The guard read HALT before it decided to write or to remove it; nobody but a
\* person touches the file in between, and a person leaves a manual halt or
\* none (guard.py, tick; state.py, clear_daily_halt).
LEMMA HaltStep == IInv /\ TypeOK' /\ [Next]_vars => HaltAsRead'
  <1> SUFFICES ASSUME IInv, TypeOK', [Next]_vars PROVE HaltAsRead'
    OBVIOUS
  <1> USE DEF IInv, HaltAsRead
  <1>1. CASE HumanHalt \/ HumanClear
    BY <1>1 DEF HumanHalt, HumanClear, Breach
  <1>2. CASE GuardClear
    BY <1>2 DEF GuardClear, GuardTo, TypeOK, GuardStates, Expired, files
  <1>3. CASE GuardJudge
    BY <1>3, JudgementFacts DEF GuardJudge, TypeOK, GuardStates, files
  <1>4. CASE GuardUnlink \/ GuardWrite
    BY <1>4 DEF GuardUnlink, GuardWrite, GuardTo, TypeOK, GuardStates
  <1>5. CASE \/ GuardStart \/ GuardCrash \/ GuardPoll \/ GuardBaseline \/ GuardList
             \/ GuardDone \/ GuardClose \/ GuardCloseRefused \/ GuardMT5Error \/ GuardBeat
    <2>1. CASE GuardStart \/ GuardPoll \/ GuardBaseline \/ GuardList
      BY <2>1 DEF GuardStart, GuardPoll, GuardBaseline, GuardList, GuardTo, TypeOK, GuardStates
    <2>3. CASE GuardCrash
      BY <2>3 DEF GuardCrash, GuardDown
    <2>2. CASE GuardDone \/ GuardClose \/ GuardCloseRefused \/ GuardMT5Error \/ GuardBeat
      BY <1>5, <2>2 DEF GuardDone, GuardClose, GuardCloseRefused, GuardMT5Error, GuardBeat,
                  GuardTo, GuardCloses, GuardDown, TypeOK, GuardStates
    <2> QED
      BY <1>5, <2>1, <2>2, <2>3
  <1>6. CASE ~(\/ HumanHalt \/ HumanClear \/ GuardClear \/ GuardJudge \/ GuardUnlink \/ GuardWrite
               \/ GuardStart \/ GuardCrash \/ GuardPoll \/ GuardBaseline \/ GuardList
               \/ GuardDone \/ GuardClose \/ GuardCloseRefused \/ GuardMT5Error \/ GuardBeat)
    <2>1. UNCHANGED <<halt, guard>>
      BY <1>6 DEF Next, Advance, Move, Exit, QuotesEnd, GuardBlind, RunnerStart, RunnerCrash,
                  RunnerTimeExit, RunnerSignal, RunnerGate, RunnerCheck, RunnerKey, RunnerSend,
                  RunnerRefused, RunnerMT5Error, files, vars
    <2> QED
      BY <2>1 DEF Expired
  <1> QED
    BY <1>1, <1>2, <1>3, <1>4, <1>5, <1>6

OnePerSymbol(positions) ==
    \A i, j \in DOMAIN positions : positions[i].symbol = positions[j].symbol => i = j

\* A step that opens nothing.
BookShrinks ==
    /\ \A i \in DOMAIN book' : \E j \in DOMAIN book : book'[i] = book[j]
    /\ OnePerSymbol(book')

\* A book has finitely many slots, and fewer symbols take no more of them
\* (ftmo_rules.py, slots_used).
LEMMA SlotsFinite ==
    ASSUME TypeOK, NEW x, NEW S \in SUBSET (OpenSymbols \cup {x})
    PROVE  /\ IsFiniteSet({SlotOf(s) : s \in S})
           /\ SlotsUsed(S) \in Nat
           /\ \A T \in SUBSET S : SlotsUsed(T) \in Nat /\ SlotsUsed(T) <= SlotsUsed(S)
  <1> DEFINE D == 1..Len(book)
             I == {SlotOf(s) : s \in OpenSymbols}
             f == [i \in D |-> SlotOf(book[i].symbol)]
             J == {SlotOf(s) : s \in S}
  <1>1. DOMAIN book = D /\ Len(book) \in Nat
    BY DEF TypeOK
  <1>2. IsFiniteSet(D)
    BY <1>1, FS_Interval
  <1>3. f \in Surjection(D, I)
    <2>1. f \in [D -> I]
      BY <1>1 DEF OpenSymbols
    <2>2. \A t \in I : \E i \in D : f[i] = t
      BY <1>1 DEF OpenSymbols
    <2> QED
      BY <2>1, <2>2 DEF Surjection
  <1>4. IsFiniteSet(I)
    <2> HIDE DEF f, I, D
    <2> QED
      BY <1>2, <1>3, FS_Surjection
  <1>5. IsFiniteSet(I \cup {SlotOf(x)})
    BY <1>4, FS_AddElement
  <1>6. J \subseteq I \cup {SlotOf(x)}
    OBVIOUS
  <1>7. IsFiniteSet(J)
    BY <1>5, <1>6, FS_Subset
  <1>8. ASSUME NEW T \in SUBSET S
        PROVE  SlotsUsed(T) \in Nat /\ SlotsUsed(T) <= SlotsUsed(S)
    <2>1. {SlotOf(s) : s \in T} \subseteq J
      OBVIOUS
    <2> QED
      BY <1>7, <2>1, FS_Subset, FS_CardinalityType DEF SlotsUsed
  <1> QED
    BY <1>7, <1>8, FS_CardinalityType DEF SlotsUsed

\* What is free stays free while nothing is opened, and what is open stays
\* within the slots and on one side.
LEMMA ShrinkingFrees ==
    ASSUME TypeOK, BookShrinks
    PROVE  /\ OpenSymbols' \subseteq OpenSymbols
           /\ \A key : Free(key) => Free(key)'
           /\ SlotsUsed(OpenSymbols) <= MaxSlots => SlotsUsed(OpenSymbols') <= MaxSlots
  <1>1. OpenSymbols' \subseteq OpenSymbols
    BY DEF BookShrinks, OpenSymbols
  <1>2. MaxSlots \in Nat
    BY FtmoAssumption
  <1>3. ASSUME NEW key, Free(key) PROVE Free(key)'
    <2> DEFINE S == OpenSymbols \cup {key.symbol}
               T == OpenSymbols' \cup {key.symbol}
    <2>1. S \in SUBSET (OpenSymbols \cup {key.symbol}) /\ T \in SUBSET S
      BY <1>1
    <2>2. SlotsUsed(T) \in Nat /\ SlotsUsed(S) \in Nat /\ SlotsUsed(T) <= SlotsUsed(S)
      BY <2>1, SlotsFinite
    <2>3. SlotsUsed(T) <= MaxSlots
      BY <1>2, <1>3, <2>2 DEF Free
    <2>4. SlotsUsed(OpenSymbols \cup {key.symbol})' <= MaxSlots
      BY <2>3 DEF SlotsUsed, SlotOf
    <2> QED
      BY <1>1, <1>3, <2>4 DEF Free, BookShrinks, SlotOf
  <1>4. ASSUME SlotsUsed(OpenSymbols) <= MaxSlots
        PROVE  SlotsUsed(OpenSymbols') <= MaxSlots
    <2>1. OpenSymbols \in SUBSET (OpenSymbols \cup {0}) /\ OpenSymbols' \in SUBSET OpenSymbols
      BY <1>1
    <2>2. /\ SlotsUsed(OpenSymbols) \in Nat /\ SlotsUsed(OpenSymbols') \in Nat
          /\ SlotsUsed(OpenSymbols') <= SlotsUsed(OpenSymbols)
      BY <2>1, SlotsFinite
    <2> QED
      BY <1>2, <1>4, <2>2
  <1> QED
    BY <1>1, <1>3, <1>4

\* A book with a position removed still has one per symbol at most.
LEMMA RemoveShrinks ==
    ASSUME TypeOK, OnePerSymbol(book), NEW i \in DOMAIN book, book' = Remove(book, i)
    PROVE  BookShrinks
  <1>1. book \in Seq(Keys) /\ Len(book) \in Nat /\ DOMAIN book = 1..Len(book)
    BY DEF TypeOK
  <1>2. /\ book' \in Seq(Keys)
        /\ Len(book') = Len(book) - 1
        /\ \A j \in DOMAIN book' : book'[j] = book[IF j < i THEN j ELSE j + 1]
    BY <1>1, RemoveFacts
  <1>3. DOMAIN book' = 1..(Len(book) - 1)
    BY <1>2, LenProperties
  <1>4. \A j \in DOMAIN book' : (IF j < i THEN j ELSE j + 1) \in DOMAIN book
    BY <1>1, <1>3
  <1>5. \A j \in DOMAIN book' : \E k \in DOMAIN book : book'[j] = book[k]
    BY <1>2, <1>4
  <1>6. OnePerSymbol(book')
    <2> SUFFICES ASSUME NEW m \in DOMAIN book', NEW n \in DOMAIN book',
                        book'[m].symbol = book'[n].symbol
                 PROVE  m = n
      BY DEF OnePerSymbol
    <2>1. (IF m < i THEN m ELSE m + 1) = (IF n < i THEN n ELSE n + 1)
      BY <1>2, <1>4 DEF OnePerSymbol
    <2> QED
      BY <1>1, <1>3, <2>1
  <1> QED
    BY <1>5, <1>6 DEF BookShrinks

\* Only a send adds a position or an order: any other step leaves the orders as
\* they are and can only shrink the book.
LEMMA ClosingStep ==
    IInv /\ TypeOK' /\ [Next]_vars /\ ~RunnerSend => BookShrinks /\ UNCHANGED orders
  <1> SUFFICES ASSUME IInv, [Next]_vars, ~RunnerSend
               PROVE  BookShrinks /\ UNCHANGED orders
    OBVIOUS
  <1>1. TypeOK /\ OnePerSymbol(book)
    BY DEF IInv, NoDoubleEntry, OnePerSymbol
  <1>2. UNCHANGED book => BookShrinks
    BY <1>1 DEF BookShrinks, OnePerSymbol
  <1>3. CASE Exit \/ GuardClose \/ RunnerTimeExit
    BY <1>1, <1>2, <1>3, RemoveShrinks DEF Exit, GuardClose, RunnerTimeExit
  <1>4. CASE ~(Exit \/ GuardClose \/ RunnerTimeExit)
    <2>1. UNCHANGED <<book, orders>>
      BY <1>4 DEF Next, vars, market, Advance, Move, QuotesEnd, HumanHalt, HumanClear,
          GuardStart, GuardCrash, GuardPoll, GuardBlind, GuardBaseline, GuardClear,
          GuardUnlink, GuardJudge, GuardWrite, GuardList, GuardDone, GuardCloseRefused,
          GuardMT5Error, GuardBeat, RunnerStart, RunnerCrash, RunnerSignal, RunnerGate,
          RunnerCheck, RunnerKey, RunnerRefused, RunnerMT5Error
    <2> QED
      BY <1>2, <2>1
  <1> QED
    BY <1>3, <1>4

\* The keys file and the runner move by the steps of the runner alone.
LEMMA OtherProcesses ==
    ASSUME [Next]_vars,
           ~(\/ RunnerStart \/ RunnerCrash \/ RunnerSignal \/ RunnerGate \/ RunnerCheck
             \/ RunnerKey \/ RunnerSend \/ RunnerRefused \/ RunnerMT5Error)
    PROVE  UNCHANGED <<keys, runner>>
  BY DEF Next, vars, files, Advance, Move, Exit, QuotesEnd, HumanHalt, HumanClear,
         GuardStart, GuardCrash, GuardPoll, GuardBlind, GuardBaseline, GuardClear,
         GuardUnlink, GuardJudge, GuardWrite, GuardList, GuardDone, GuardClose,
         GuardCloseRefused, GuardMT5Error, GuardBeat, RunnerTimeExit

\* The order sent is the first of its key, and the symbol and the slot the
\* runner checked are still free (order_router.py, place).
LEMMA SendStep ==
    ASSUME IInv, RunnerSend
    PROVE  DecisionStands' /\ NoDoubleEntry'
  <1>1. /\ runner.key \in Keys /\ runner.key \in keys /\ orders[runner.key] = 0
        /\ Free(runner.key)
    BY DEF RunnerSend, IInv, DecisionStands
  <1>2. book \in Seq(Keys) /\ orders \in [Keys -> Nat]
    BY DEF IInv, TypeOK
  <1>3. orders' = [orders EXCEPT ![runner.key] = 1]
    BY <1>1, <1>2 DEF RunnerSend
  <1>4. runner'.pc = "step" /\ keys' = keys
    BY DEF RunnerSend, RunnerGivesUp, RunnerDown, files
  <1>5. DecisionStands'
    BY <1>1, <1>2, <1>3, <1>4 DEF DecisionStands, IInv
  <1>6. /\ Len(book') = Len(book) + 1
        /\ DOMAIN book' = 1..(Len(book) + 1)
        /\ \A i \in 1..Len(book) : book'[i] = book[i]
        /\ book'[Len(book) + 1] = runner.key
    BY <1>1, <1>2, AppendProperties DEF RunnerSend
  <1>7. Len(book) \in Nat /\ DOMAIN book = 1..Len(book)
    BY <1>2
  <1>8. SlotsUsed(OpenSymbols)' <= MaxSlots
    <2>1. OpenSymbols' = OpenSymbols \cup {runner.key.symbol}
      BY <1>6, <1>7 DEF OpenSymbols
    <2>2. SlotsUsed(OpenSymbols)' = SlotsUsed(OpenSymbols \cup {runner.key.symbol})
      BY <2>1 DEF SlotsUsed, SlotOf
    <2> QED
      BY <1>1, <2>2 DEF Free
  <1>9. \A i, j \in DOMAIN book' : book'[i].symbol = book'[j].symbol => i = j
    <2>1. \A i \in 1..Len(book) : book[i].symbol # runner.key.symbol
      BY <1>1, <1>7 DEF OpenSymbols, Free
    <2> QED
      BY <1>6, <1>7, <2>1 DEF IInv, NoDoubleEntry
  <1>11. ASSUME NEW i \in DOMAIN book', NEW j \in DOMAIN book',
                book'[i].symbol \in SlotOf(book'[j].symbol)
         PROVE  book'[i].side = book'[j].side
    <2>1. book'[j].symbol \in SlotOf(book'[i].symbol)
      BY <1>11 DEF SlotOf
    <2>2. CASE i \in DOMAIN book /\ j \in DOMAIN book
      BY <1>6, <1>7, <1>11, <2>2 DEF IInv, NoDoubleEntry
    <2>3. CASE i \in DOMAIN book /\ j \notin DOMAIN book
      BY <1>1, <1>6, <1>7, <1>11, <2>3 DEF Free
    <2>4. CASE i \notin DOMAIN book /\ j \in DOMAIN book
      BY <1>1, <1>6, <1>7, <2>1, <2>4 DEF Free
    <2>5. CASE i \notin DOMAIN book /\ j \notin DOMAIN book
      BY <1>6, <1>7, <2>5
    <2> QED
      BY <2>2, <2>3, <2>4, <2>5
  <1>10. \A k \in Keys : orders'[k] <= 1
    BY <1>2, <1>3 DEF IInv, NoDoubleEntry
  <1> QED
    BY <1>5, <1>8, <1>9, <1>10, <1>11 DEF NoDoubleEntry, SlotOf

\* What the runner decided on still holds when it sends, whatever happened in
\* between; a crash before the send loses the decision with the process.
LEMMA EntryStep ==
    IInv /\ TypeOK' /\ [Next]_vars => DecisionStands' /\ NoDoubleEntry'
  <1> SUFFICES ASSUME IInv, TypeOK', [Next]_vars PROVE DecisionStands' /\ NoDoubleEntry'
    OBVIOUS
  <1>1. CASE RunnerSend
    BY <1>1, SendStep
  <1>2. CASE ~RunnerSend
    <2>1. BookShrinks /\ orders' = orders
      BY <1>2, ClosingStep
    <2>2. /\ \A key : Free(key) => Free(key)'
          /\ SlotsUsed(OpenSymbols)' <= MaxSlots
      <3>1. /\ \A key : Free(key) => Free(key)'
            /\ SlotsUsed(OpenSymbols') <= MaxSlots
        BY <2>1, ShrinkingFrees DEF IInv, NoDoubleEntry
      <3> QED
        BY <3>1 DEF SlotsUsed, SlotOf
    <2>3. NoDoubleEntry'
      BY <2>1, <2>2 DEF IInv, NoDoubleEntry, BookShrinks, OnePerSymbol, SlotOf
    <2> USE DEF IInv, DecisionStands
    <2>4. CASE RunnerStart \/ RunnerCrash \/ RunnerRefused \/ RunnerMT5Error
      <3>1. runner'.pc \in {"down", "step"} /\ keys' = keys
        <4>1. CASE RunnerStart \/ RunnerCrash
          BY <4>1 DEF RunnerStart, RunnerCrash, RunnerTo, RunnerDown, files, TypeOK, RunnerStates
        <4>2. CASE RunnerRefused \/ RunnerMT5Error
          BY <4>2, GivesUpWaits DEF RunnerRefused, RunnerMT5Error, files
        <4> QED
          BY <2>4, <4>1, <4>2
      <3>2. DecisionStands'
        BY <2>1, <3>1
      <3> QED
        BY <2>3, <3>2
    <2>5. CASE RunnerSignal
      <3>1. /\ runner'.pc \in {"gate", "step"} /\ keys' = keys
            /\ runner'.pc = "gate" => runner'.key \in Keys
        <4>1. PICK k \in Keys, done \in SUBSET (runner.done \cup (Symbols \X Days)) :
                runner' = [pc |-> "gate", time |-> now, key |-> k, base |-> 0, done |-> done]
                \/ RunnerGivesUp(done)
          BY <2>5 DEF RunnerSignal, Keys
        <4> QED
          BY <2>5, <4>1, GivesUpWaits DEF RunnerSignal, files
      <3> QED
        BY <2>1, <2>3, <3>1
    <2>6. CASE RunnerGate
      <3>1. /\ runner'.pc \in {"check", "step"} /\ keys' = keys
            /\ runner'.pc = "check" => runner'.key = runner.key /\ runner.key \notin keys
        BY <2>6 DEF RunnerGate, RunnerGivesUp, RunnerDown, files, TypeOK, RunnerStates
      <3> QED
        BY <2>1, <2>3, <2>6, <3>1 DEF RunnerGate
    <2>7. CASE RunnerCheck
      <3>1. /\ runner'.pc \in {"key", "step"} /\ keys' = keys /\ book' = book
            /\ runner'.pc = "key" =>
                  /\ runner'.key = runner.key
                  /\ Free(runner.key)
        BY <2>7 DEF RunnerCheck, RunnerTo, RunnerGivesUp, RunnerDown, CanOpen, Free, files,
                    market, TypeOK, RunnerStates
      <3>2. runner'.pc = "key" => Free(runner.key)'
        BY <2>2, <3>1
      <3>3. DecisionStands'
        BY <2>1, <2>7, <3>1, <3>2 DEF RunnerCheck
      <3> QED
        BY <2>3, <3>3
    <2>8. CASE RunnerKey
      <3>1. /\ runner'.pc = "send" /\ runner'.key = runner.key
            /\ keys' = keys \cup {runner.key} /\ book' = book
        BY <2>8 DEF RunnerKey, RunnerTo, market, TypeOK, RunnerStates
      <3>2. orders[runner.key] = 0
        BY <2>8 DEF RunnerKey, TypeOK
      <3>3. Free(runner.key)'
        BY <2>2, <2>8, <3>1 DEF RunnerKey
      <3>4. DecisionStands'
        BY <2>1, <2>8, <3>1, <3>2, <3>3 DEF RunnerKey
      <3> QED
        BY <2>3, <3>4
    <2>9. CASE ~(\/ RunnerStart \/ RunnerCrash \/ RunnerSignal \/ RunnerGate \/ RunnerCheck
                 \/ RunnerKey \/ RunnerRefused \/ RunnerMT5Error)
      <3>1. UNCHANGED <<keys, runner>>
        BY <1>2, <2>9, OtherProcesses
      <3>2. DecisionStands'
        BY <2>1, <2>2, <3>1
      <3> QED
        BY <2>3, <3>2
    <2> QED
      BY <2>4, <2>5, <2>6, <2>7, <2>8, <2>9
  <1> QED
    BY <1>1, <1>2

\* Every step keeps the invariant.
LEMMA NextIInv == IInv /\ [Next]_vars => IInv'
  <1> SUFFICES ASSUME IInv, [Next]_vars PROVE IInv'
    OBVIOUS
  <1>1. TypeOK'
    <2>1. /\ TypeOK
          /\ guard.pc = "baseline" => guard.equity \in EquityLevels
          /\ runner.pc \in {"gate", "check", "key", "send"} => runner.key \in Keys
      BY DEF IInv, FilesTrailPolls, DecisionStands
    <2>2. CASE UNCHANGED vars
      BY <2>1, <2>2 DEF vars, TypeOK
    <2> QED
      BY <2>1, <2>2, WorldType, GuardType, RunnerType DEF Next
  <1> QED
    BY <1>1, PollsStep, HaltStep, EntryStep DEF IInv

\* The invariant holds throughout.
LEMMA SpecIInv == Spec => []IInv
  BY InitIInv, NextIInv, PTL DEF Spec

(***************************************************************************)
(* Every file, the broker's book and both processes keep their types, for  *)
(* every instance of the constants.                                        *)
(***************************************************************************)
THEOREM FtmoTypeCorrect == Spec => []TypeOK
  BY SpecIInv, PTL DEF IInv

(***************************************************************************)
(* A key is sent to the broker once at most, no symbol is entered twice    *)
(* and no more slots are used than there are, a correlated group being one *)
(* slot with one side, through crashes of the runner between the key file  *)
(* and the send and restarts that recompute the same signal                *)
(* (order_router.py, place; runner.py, Runner.step; ftmo_rules.py,         *)
(* slots_used, can_open).                                                  *)
(***************************************************************************)
THEOREM NeverDoubleEnters == Spec => []NoDoubleEntry
  BY SpecIInv, PTL DEF IInv

(***************************************************************************)
(* The heartbeat never says more than a guard knows: a file dated t was    *)
(* written by a tick that polled the account at t, so a guard that cannot  *)
(* read its account looks dead to the runner (guard.py, tick; state.py,    *)
(* heartbeat_fresh).                                                       *)
(***************************************************************************)
THEOREM BlindGuardIsSilent == Spec => []BlindGuardLooksDead
  <1>1. IInv => BlindGuardLooksDead
    BY DEF IInv, FilesTrailPolls, BlindGuardLooksDead
  <1> QED
    BY <1>1, SpecIInv, PTL

(***************************************************************************)
(* The start-of-day equity is written once a day: a restarted guard reads  *)
(* it back and never replaces it by the equity of the moment (guard.py,    *)
(* tick; ftmo_rules.py, resolve_baseline).                                 *)
(***************************************************************************)
THEOREM BaselineIsKept == Spec => BaselineKeptAllDay
  <1>1. IInv /\ [Next]_vars =>
          [baseline # None /\ baseline' # baseline => baseline'.day > baseline.day]_vars
    <2> SUFFICES ASSUME IInv, Next, baseline # None, baseline' # baseline
                 PROVE  baseline'.day > baseline.day
      BY DEF vars
    <2>1. GuardBaseline
      BY DEF Next, vars, files, Advance, Move, Exit, QuotesEnd, HumanHalt, HumanClear,
             GuardStart, GuardCrash, GuardPoll, GuardBlind, GuardClear, GuardUnlink,
             GuardJudge, GuardWrite, GuardList, GuardDone, GuardClose, GuardCloseRefused,
             GuardMT5Error, GuardBeat, RunnerStart, RunnerCrash, RunnerTimeExit,
             RunnerSignal, RunnerGate, RunnerCheck, RunnerKey, RunnerSend, RunnerRefused,
             RunnerMT5Error
    <2>2. /\ baseline'.day = Day(guard.time) /\ baseline.day # Day(guard.time)
          /\ guard.time = read /\ baseline.day <= Day(read)
      BY <2>1 DEF GuardBaseline, TakesSnapshot, IInv, FilesTrailPolls, Polled
    <2>3. baseline.day \in Int /\ Day(read) \in Int
      <3>1. guard.time \in Nat /\ Days \subseteq Nat
        BY FtmoAssumption DEF IInv, TypeOK, GuardStates, Times, Days
      <3> QED
        <4>1. Day(guard.time) \in Nat
          BY <3>1, DayFacts
        <4>2. baseline.day \in Nat
          BY <3>1 DEF IInv, TypeOK, Baselines
        <4> QED
          BY <2>2, <4>1, <4>2
    <2> QED
      BY <2>2, <2>3
  <1> QED
    BY <1>1, SpecIInv, PTL DEF Spec, BaselineKeptAllDay

(***************************************************************************)
(* A halt of the guard outlives everything but its own expiry and a        *)
(* person: no crash, restart or stale decision of the guard removes a halt *)
(* whose day has not passed, or weakens an overall halt (guard.py, tick;   *)
(* state.py, clear_daily_halt).                                            *)
(***************************************************************************)
THEOREM HaltOutlasts == Spec => HaltOutlastsItsCause
  <1>1. IInv /\ [Next]_vars =>
          [halt # None /\ halt.kind # "manual" /\ halt' # halt =>
             \/ HumanHalt \/ HumanClear
             \/ /\ halt.kind = "daily"
                /\ IF halt' = None THEN halt.day < Day(now) ELSE halt'.kind = "overall"]_vars
    <2> SUFFICES ASSUME IInv, Next, halt # None, halt.kind # "manual", halt' # halt,
                        ~HumanHalt, ~HumanClear
                 PROVE  /\ halt.kind = "daily"
                        /\ IF halt' = None THEN halt.day < Day(now) ELSE halt'.kind = "overall"
      BY DEF vars
    <2>1. GuardUnlink \/ GuardWrite
      BY DEF Next, vars, files, Advance, Move, Exit, QuotesEnd,
             GuardStart, GuardCrash, GuardPoll, GuardBlind, GuardBaseline, GuardClear,
             GuardJudge, GuardList, GuardDone, GuardClose, GuardCloseRefused,
             GuardMT5Error, GuardBeat, RunnerStart, RunnerCrash, RunnerTimeExit,
             RunnerSignal, RunnerGate, RunnerCheck, RunnerKey, RunnerSend, RunnerRefused,
             RunnerMT5Error
    <2>2. CASE GuardUnlink
      <3>1. halt' = None /\ halt.kind = "daily" /\ halt.day < Day(guard.time)
        BY <2>2 DEF GuardUnlink, IInv, HaltAsRead, Expired
      <3>2. guard.time \in Nat /\ now \in Nat /\ guard.time <= now /\ Days \subseteq Nat
        BY <2>2, FtmoAssumption DEF GuardUnlink, IInv, FilesTrailPolls, Polled, TypeOK,
           GuardStates, Times, Days
      <3>3. halt.day \in Nat
        BY <3>2 DEF IInv, TypeOK, Halts
      <3> QED
        BY <3>1, <3>2, <3>3, DayFacts
    <2>3. CASE GuardWrite
      BY <2>3 DEF GuardWrite, IInv, HaltAsRead
    <2> QED
      BY <2>1, <2>2, <2>3
  <1> QED
    BY <1>1, SpecIInv, PTL DEF Spec, HaltOutlastsItsCause
=============================================================================
