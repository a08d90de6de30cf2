--------------------------- MODULE OfflineProofs ---------------------------
(***************************************************************************)
(* What holds of the parts that keep no process alive, for every value of  *)
(* their constants: the bootstrap of the challenge reports no FTMO breach  *)
(* and a pass is clean; the files and the ledger of the research pipeline  *)
(* are whole and in order; the backtest keeps the day inside its loss      *)
(* limit as long as no fill is worse than planned, its slots and its       *)
(* books; the search of the news calendar answers like a scan; a session   *)
(* is entered at most once; one rebalance never oversells, stays inside    *)
(* the order cap and pays for what it buys, and so does every one the      *)
(* paper backtest makes; and the replay of mini_prop_os keeps its stops    *)
(* and teaches the sizing one lesson a bar. The last section states the    *)
(* results for all of them together, as the run of MCOffline does.         *)
(***************************************************************************)
EXTENDS MCOffline, DataLemmas, FunctionTheorems, SequenceTheorems

\* Between two days the overall room of the engine is left, and inside a day
\* of the bootstrap the guard keeps the low at the engine's daily limit.
Room ==
    /\ verdict = "running" => Initial - start < EngineOverall
    /\ low <= cum /\ low <= 0
    /\ replay = "bootstrap" => -low <= EngineDaily
    /\ stage # "between" => day < MaxDays /\ replay = "bootstrap"
    /\ tradingDays <= day /\ engineDaily <= day

IInv == TypeOK /\ Room /\ GuardShieldsFtmo /\ PassIsClean

(* Every initial state satisfies the inductive invariant. *)
LEMMA InitIInv == Init => IInv
  BY ChallengeAssumption, SMT DEF Init, IInv, TypeOK, Room, GuardShieldsFtmo, PassIsClean,
     Verdicts, Breaches, Daily, Overall

(***************************************************************************)
(* Judging a day whose low is inside the limits the replay allows keeps    *)
(* the invariant: the core of both replays' loops.                         *)
(***************************************************************************)
LEMMA JudgeIInv ==
  ASSUME IInv, verdict = "running", day < MaxDays,
         NEW bottom \in Int, NEW end \in Int, NEW traded \in 0..(tradingDays + 1),
         NEW halt \in {0, 1},
         bottom <= end, bottom <= 0, traded >= tradingDays,
         replay = "bootstrap" => -bottom <= EngineDaily,
         Judge(bottom, end, traded, halt), replay' = replay
  PROVE  IInv'
<1> USE ChallengeAssumption DEF IInv, Room
<1>1. Verdict(bottom, end, traded) \in Verdicts
  BY DEF Verdict, Verdicts, Breaches
<1>2. TypeOK'
  BY <1>1, SMT DEF TypeOK, Judge, Lower
<1>3. verdict' \in {"running", "target", "data_end"} =>
        /\ ~Overall(start + bottom, EngineOverall)
        /\ ~Daily(-bottom, FtmoDaily)
  BY SMT DEF Judge, Verdict
<1>4. Room'
  <2>1. verdict' = "running" => Initial - start' < EngineOverall
    BY <1>3, SMT DEF TypeOK, Judge, Overall
  <2>2. QED
    BY <2>1, SMT DEF TypeOK, Judge
<1>5. GuardShieldsFtmo'
  <2>1. replay = "bootstrap" => /\ ~Overall(start + bottom, FtmoOverall)
                                /\ ~Daily(-bottom, FtmoDaily)
    BY SMT DEF TypeOK, Overall, Daily
  <2>2. QED
    BY <2>1, SMT DEF GuardShieldsFtmo, Judge, Verdict, Breaches
<1>6. PassIsClean'
  <2> SUFFICES ASSUME verdict' \in {"running", "target", "data_end"}
               PROVE  ~Daily(-worst', FtmoDaily) /\ ~Overall(lowest', EngineOverall)
    BY DEF PassIsClean
  <2>1. ~Daily(-worst, FtmoDaily) /\ ~Overall(lowest, EngineOverall)
    BY DEF PassIsClean
  <2>2. QED
    BY <1>3, <2>1, SMT DEF TypeOK, Judge, Lower, Daily, Overall
<1>7. QED
  BY <1>2, <1>4, <1>5, <1>6

(* A trade inside a day leaves the low above the guard's floor. *)
LEMMA TradeIInv ==
  ASSUME IInv, NEW pnl \in Int, NEW mae \in Int, Trade(pnl, mae)
  PROVE  IInv'
<1> USE ChallengeAssumption DEF IInv, Room, TypeOK, Trade
<1> DEFINE reached == cum + Lower(mae, pnl)
<1>1. CASE EngineHalts(reached)
  <2>1. cum' = -EngineDaily /\ low' = -EngineDaily
    BY <1>1, SMT DEF Floor, Lower
  <2>2. QED
    BY <1>1, <2>1, SMT DEF GuardShieldsFtmo, PassIsClean
<1>2. CASE ~EngineHalts(reached)
  <2>1. reached \in Int /\ reached <= cum + pnl /\ -reached < EngineDaily
    BY <1>2, SMT DEF EngineHalts, Daily, Lower
  <2>2. /\ low' \in Int /\ low' <= cum + pnl /\ low' <= low
        /\ -low' <= EngineDaily
    BY <1>2, <2>1, SMT DEF Lower
  <2>3. QED
    BY <1>2, <2>2, SMT DEF GuardShieldsFtmo, PassIsClean
<1>3. QED
  BY <1>1, <1>2

(* Every step keeps the inductive invariant. *)
LEMMA NextIInv == IInv /\ [Next]_vars => IInv'
<1> SUFFICES ASSUME IInv, [Next]_vars PROVE IInv'
  OBVIOUS
<1> USE ChallengeAssumption
<1>1. CASE Skip
  BY <1>1, SMT DEF Skip, IInv, TypeOK, Room, GuardShieldsFtmo, PassIsClean
<1>2. CASE DayPlayed
  <2>1. /\ verdict = "running" /\ replay = "bootstrap" /\ day < MaxDays
        /\ low \in Int /\ cum \in Int /\ low <= cum /\ low <= 0 /\ -low <= EngineDaily
        /\ tradingDays + 1 \in 0..(tradingDays + 1)
    BY <1>2, SMT DEF DayPlayed, IInv, TypeOK, Room
  <2>2. PICK halt \in {0, 1} : Judge(low, cum, tradingDays + 1, halt)
    BY <1>2 DEF DayPlayed
  <2>3. tradingDays + 1 >= tradingDays /\ replay' = replay
    BY <1>2, SMT DEF DayPlayed, IInv, TypeOK
  <2>4. QED
    BY <2>1, <2>2, <2>3, JudgeIInv
<1>3. CASE DataEnd
  BY <1>3, SMT DEF DataEnd, IInv, TypeOK, Room, GuardShieldsFtmo, PassIsClean, Verdicts, Breaches
<1>4. CASE \E n \in 1..Blocks : Draw(n)
  BY <1>4, SMT DEF Draw, IInv, TypeOK, Room, GuardShieldsFtmo, PassIsClean
<1>5. ASSUME NEW a \in Results, NEW b \in Results, Trade(a, b) PROVE IInv'
  BY <1>5, TradeIInv
<1>6. ASSUME NEW a \in Results, NEW b \in Results, NEW traded \in {0, 1},
             DayReplayed(a, b, traded)
      PROVE  IInv'
  <2>1. /\ verdict = "running" /\ replay = "window" /\ day < MaxDays
        /\ a \in Int /\ b \in Int /\ a <= b /\ a <= 0 /\ replay' = replay
    BY <1>6 DEF DayReplayed
  <2>2. tradingDays + traded \in 0..(tradingDays + 1) /\ tradingDays + traded >= tradingDays
    BY SMT DEF IInv, TypeOK
  <2>3. PICK halt \in {0, 1} : Judge(a, b, tradingDays + traded, halt)
    BY <1>6 DEF DayReplayed
  <2>4. QED
    BY <2>1, <2>2, <2>3, JudgeIInv
<1>7. CASE UNCHANGED vars
  BY <1>7 DEF vars, IInv, TypeOK, Room, GuardShieldsFtmo, PassIsClean
<1>8. QED
  BY <1>1, <1>2, <1>3, <1>4, <1>5, <1>6, <1>7 DEF Next

(* The inductive invariant holds of every behavior. *)
LEMMA SpecIInv == Spec => []IInv
  BY InitIInv, NextIInv, PTL DEF Spec

(***************************************************************************)
(* Type correctness of the replays (backtest/montecarlo.py, ftmo_sim.py).  *)
(***************************************************************************)
THEOREM ChallengeType == Spec => []TypeOK
  BY SpecIInv, PTL DEF IInv

(***************************************************************************)
(* For every set of limits with room for one more engine day, and every    *)
(* trade, the bootstrap's probability of an FTMO breach is zero            *)
(* (montecarlo.py, run_phase, p_ftmo_daily_breach).                        *)
(***************************************************************************)
THEOREM BootstrapNeverBreaches == Spec => []GuardShieldsFtmo
  BY SpecIInv, PTL DEF IInv

(***************************************************************************)
(* A path or a window that passes never touched FTMO's daily loss or the   *)
(* engine's overall loss (ftmo_sim.py, montecarlo.py).                     *)
(***************************************************************************)
THEOREM CleanPass == Spec => []PassIsClean
  BY SpecIInv, PTL DEF IInv

(***************************************************************************)
(* Both together: what a report of the two replays may be trusted for.     *)
(***************************************************************************)
THEOREM ChallengeIsSound == Spec => []ChallengeSound
  BY SpecIInv, PTL DEF IInv, ChallengeSound

----------------------------------------------------------------------------
(* The research pipeline. *)

Runs == [split : Pipeline!Splits, hash : Hashes]

\* What the ledger must say of a run with these parameters.
Permitted(split, h) ==
    /\ split = "oos" => Pipeline!Done("insample", h) /\ ~Pipeline!Done("oos", h)
    /\ split = "holdout" => /\ Pipeline!Done("oos", h)
                            /\ \A other \in Hashes : ~Pipeline!Done("holdout", other)

\* A download is about days that are over and holds all hours before its
\* next one; a backtest is still permitted.
TaskOK ==
    \/ task = Pipeline!Idle
    \/ /\ task \in [cmd : {"download"}, day : Int, next : 1..LastHour + 1,
                     got : SUBSET Pipeline!Hours, end : Int]
       /\ task.end < today
       /\ task.got = {h \in Pipeline!Hours : h < task.next}
    \/ /\ task \in [cmd : {"backtest", "record"}, split : Pipeline!Splits, hash : Hashes]
       /\ Permitted(task.split, task.hash)

PipelineInv ==
    /\ today \in Int /\ hash \in Hashes
    /\ raw \in [Pipeline!Days -> (SUBSET Pipeline!Hours) \cup {None}]
    /\ ledger \in Seq(Runs)
    /\ TaskOK
    /\ Pipeline!LedgerInOrder
    /\ Pipeline!DayFilesWhole

\* The pipeline starts with nothing downloaded and nothing run.
LEMMA PipelineInit == Pipeline!Init => PipelineInv
  <1> SUFFICES ASSUME Pipeline!Init PROVE PipelineInv
    OBVIOUS
  <1>1. ledger \in Seq(Runs) /\ DOMAIN ledger = {}
    <2>1. ledger = << >>
      BY DEF Pipeline!Init
    <2> QED
      BY <2>1, EmptySeq
  <1>2. /\ raw \in [Pipeline!Days -> (SUBSET Pipeline!Hours) \cup {None}]
        /\ \A d \in Pipeline!Days : raw[d] = None
    <2>1. raw = [d \in Pipeline!Days |-> None] /\ None \in (SUBSET Pipeline!Hours) \cup {None}
      BY DEF Pipeline!Init
    <2> QED
      BY <2>1, Zenon
  <1>3. Pipeline!LedgerInOrder /\ Pipeline!DayFilesWhole
    BY <1>1, <1>2 DEF Pipeline!LedgerInOrder, Pipeline!DayFilesWhole, Pipeline!Files
  <1>4. today \in Int /\ hash \in Hashes /\ TaskOK
    BY PipelineAssumption DEF Pipeline!Init, TaskOK
  <1> QED
    BY <1>1, <1>2, <1>3, <1>4 DEF PipelineInv

\* Recording a permitted run keeps the ledger in order (ledger.py, record).
LEMMA RecordKeepsOrder ==
  ASSUME ledger \in Seq(Runs), Pipeline!LedgerInOrder,
         NEW split \in Pipeline!Splits, NEW h \in Hashes, Permitted(split, h),
         ledger' = Append(ledger, [split |-> split, hash |-> h])
  PROVE  ledger' \in Seq(Runs) /\ Pipeline!LedgerInOrder'
  <1> DEFINE run == [split |-> split, hash |-> h]
  <1>1. run \in Runs /\ ledger' \in Seq(Runs)
    BY DEF Runs
  <1>2. /\ Len(ledger) \in Nat /\ Len(ledger') = Len(ledger) + 1
        /\ DOMAIN ledger = 1..Len(ledger) /\ DOMAIN ledger' = 1..(Len(ledger) + 1)
        /\ \A j \in 1..Len(ledger) : ledger'[j] = ledger[j]
        /\ ledger'[Len(ledger) + 1] = run
    BY <1>1, AppendProperties
  <1>3. \A i \in 1..(Len(ledger) + 1) :
            {ledger'[j] : j \in 1..(i - 1)} = {ledger[j] : j \in 1..(i - 1)}
    BY <1>2
  <1>4. ASSUME NEW i \in 1..Len(ledger) PROVE ledger'[i] = ledger[i]
    BY <1>2
  <1>5. \A s, o : Pipeline!Done(s, o) <=>
            [split |-> s, hash |-> o] \in {ledger[j] : j \in 1..Len(ledger)}
    BY <1>2 DEF Pipeline!Done
  <1>6. \A e \in {ledger[j] : j \in 1..Len(ledger)} :
            e \in Runs /\ e = [split |-> e.split, hash |-> e.hash]
    <2>1. \A j \in 1..Len(ledger) : ledger[j] \in Runs
      BY <1>2
    <2> QED
      BY <2>1 DEF Runs
  <1>7. /\ run.split = "oos" => /\ [split |-> "insample", hash |-> run.hash]
                                      \in {ledger[j] : j \in 1..Len(ledger)}
                                /\ run \notin {ledger[j] : j \in 1..Len(ledger)}
        /\ run.split = "holdout" => /\ [split |-> "oos", hash |-> run.hash]
                                          \in {ledger[j] : j \in 1..Len(ledger)}
                                    /\ \A e \in {ledger[j] : j \in 1..Len(ledger)} :
                                          e.split # "holdout"
    <2>1. run.split = split /\ run.hash = h
      OBVIOUS
    <2>2. ASSUME split = "holdout", NEW e \in {ledger[j] : j \in 1..Len(ledger)}
          PROVE  e.split # "holdout"
      BY <2>2, <1>5, <1>6 DEF Permitted, Runs
    <2> QED
      BY <2>1, <2>2, <1>5 DEF Permitted
  <1>8. ASSUME NEW i \in 1..(Len(ledger) + 1)
        PROVE  LET r       == ledger'[i]
                   earlier == {ledger'[j] : j \in 1..(i - 1)}
               IN  /\ r.split = "oos" => /\ [split |-> "insample", hash |-> r.hash] \in earlier
                                         /\ r \notin earlier
                   /\ r.split = "holdout" =>
                         /\ [split |-> "oos", hash |-> r.hash] \in earlier
                         /\ \A e \in earlier : e.split # "holdout"
    <2>1. CASE i = Len(ledger) + 1
      BY <2>1, <1>2, <1>3, <1>7
    <2>2. CASE i \in 1..Len(ledger)
      BY <2>2, <1>2, <1>3, <1>4 DEF Pipeline!LedgerInOrder
    <2> QED
      BY <2>1, <2>2, <1>2
  <1> QED
    BY <1>1, <1>2, <1>8 DEF Pipeline!LedgerInOrder

\* The clock runs on, parameters are edited, a command dies.
LEMMA PipelineWorld ==
  ASSUME PipelineInv,
         Pipeline!Clock \/ Pipeline!EditParams \/ Pipeline!Crash \/ UNCHANGED Pipeline!vars
  PROVE  PipelineInv'
  <1>1. today' \in Int /\ today' >= today /\ hash' \in Hashes
    BY DEF PipelineInv, Pipeline!Clock, Pipeline!EditParams, Pipeline!Crash, Pipeline!vars
  <1>2. UNCHANGED <<raw, ledger>> /\ (task' = task \/ task' = Pipeline!Idle)
    BY DEF Pipeline!Clock, Pipeline!EditParams, Pipeline!Crash, Pipeline!vars
  <1>3. TaskOK'
    BY <1>1, <1>2 DEF PipelineInv, TaskOK, Permitted, Pipeline!Done, Pipeline!Idle
  <1> QED
    BY <1>1, <1>2, <1>3 DEF PipelineInv, Pipeline!LedgerInOrder, Pipeline!DayFilesWhole,
                            Pipeline!Files

\* A download, hour by hour and day by day (dukascopy.py).
LEMMA PipelineDownload ==
  ASSUME PipelineInv,
         Pipeline!Download \/ Pipeline!FetchHour \/ Pipeline!DayDone \/ Pipeline!Downloaded
  PROVE  PipelineInv'
  <1> USE PipelineAssumption DEF PipelineInv
  <1>1. UNCHANGED <<today, hash, ledger>> /\ Pipeline!LedgerInOrder'
    <2>1. UNCHANGED <<today, hash, ledger>>
      BY DEF Pipeline!Download, Pipeline!FetchHour, Pipeline!DayDone, Pipeline!Downloaded
    <2> QED
      BY <2>1 DEF Pipeline!LedgerInOrder
  <1>2. CASE Pipeline!Download
    <2>1. {h \in Pipeline!Hours : h < 1} = {}
      BY DEF Pipeline!Hours
    <2>2. TaskOK'
      BY <1>2, <2>1 DEF Pipeline!Download, TaskOK, Pipeline!EndOfRange
    <2> QED
      BY <1>1, <1>2, <2>2 DEF Pipeline!Download, Pipeline!DayFilesWhole, Pipeline!Files
  <1>3. CASE Pipeline!FetchHour
    <2>1. Pipeline!Served(task.day, task.next)
      BY <1>3 DEF Pipeline!FetchHour, TaskOK, Pipeline!Idle, Pipeline!Served
    <2>2. {h \in Pipeline!Hours : h < task.next + 1}
             = {h \in Pipeline!Hours : h < task.next} \cup {task.next}
      BY <1>3 DEF Pipeline!FetchHour, Pipeline!Hours
    <2>3. task' = [task EXCEPT !.next = @ + 1, !.got = @ \cup {task.next}]
      BY <1>3, <2>1 DEF Pipeline!FetchHour
    <2>4. TaskOK'
      <3>1. /\ task \in [cmd : {"download"}, day : Int, next : 1..LastHour + 1,
                         got : SUBSET Pipeline!Hours, end : Int]
            /\ task.end < today /\ task.next \in Pipeline!Hours
            /\ task.got = {h \in Pipeline!Hours : h < task.next}
        BY <1>3 DEF Pipeline!FetchHour, TaskOK, Pipeline!Idle
      <3>2. task.next + 1 \in 1..LastHour + 1
        BY <3>1 DEF Pipeline!Hours
      <3>3. /\ task' \in [cmd : {"download"}, day : Int, next : 1..LastHour + 1,
                          got : SUBSET Pipeline!Hours, end : Int]
            /\ task'.end = task.end /\ task'.next = task.next + 1
            /\ task'.got = task.got \cup {task.next}
        BY <2>3, <3>1, <3>2
      <3> QED
        BY <1>1, <2>2, <3>1, <3>3 DEF TaskOK, Pipeline!Hours
    <2> QED
      BY <1>1, <1>3, <2>4 DEF Pipeline!FetchHour, Pipeline!DayFilesWhole, Pipeline!Files
  <1>4. CASE Pipeline!DayDone
    <2>0. task.cmd = "download"
      BY <1>4 DEF Pipeline!DayDone
    <2>1. /\ task \in [cmd : {"download"}, day : Int, next : 1..LastHour + 1,
                       got : SUBSET Pipeline!Hours, end : Int]
          /\ task.end < today
          /\ task.got = {h \in Pipeline!Hours : h < task.next}
      BY <2>0 DEF TaskOK, Pipeline!Idle
    <2>2. {h \in Pipeline!Hours : h < 1} = {}
      BY DEF Pipeline!Hours
    <2>3. TaskOK'
      <3>1. task' = [task EXCEPT !.day = @ + 1, !.next = 1, !.got = {}]
        BY <1>4 DEF Pipeline!DayDone
      <3>2. /\ task' \in [cmd : {"download"}, day : Int, next : 1..LastHour + 1,
                          got : SUBSET Pipeline!Hours, end : Int]
            /\ task'.end = task.end /\ task'.next = 1 /\ task'.got = {}
        <4>1. /\ task.day + 1 \in Int /\ 1 \in 1..LastHour + 1
              /\ {} \in SUBSET Pipeline!Hours
          BY <2>1
        <4> QED
          BY <2>1, <3>1, <4>1
      <3> QED
        BY <1>1, <2>1, <2>2, <3>2 DEF TaskOK, Pipeline!Hours
    <2>4. \/ raw' = raw
          \/ raw' = [raw EXCEPT ![task.day] = task.got] /\ task.got = Pipeline!Hours
      BY <1>4, <2>1 DEF Pipeline!DayDone, Pipeline!Hours
    <2> QED
      BY <1>1, <2>3, <2>4 DEF Pipeline!DayFilesWhole, Pipeline!Files
  <1>5. CASE Pipeline!Downloaded
    BY <1>1, <1>5 DEF Pipeline!Downloaded, TaskOK, Pipeline!DayFilesWhole, Pipeline!Files
  <1> QED
    BY <1>2, <1>3, <1>4, <1>5

\* The commands that read the day files, and the backtest under the ledger.
LEMMA PipelineCommands ==
  ASSUME PipelineInv,
         \/ Pipeline!Integrity \/ Pipeline!Resample
         \/ \E split \in Pipeline!Splits : Pipeline!Backtest(split)
         \/ Pipeline!WriteResults \/ Pipeline!Record
  PROVE  PipelineInv'
  <1>1. UNCHANGED <<today, hash, raw>> /\ Pipeline!DayFilesWhole'
    BY DEF PipelineInv, Pipeline!Integrity, Pipeline!Resample, Pipeline!Backtest,
           Pipeline!WriteResults, Pipeline!Record, Pipeline!DayFilesWhole, Pipeline!Files
  <1>2. CASE Pipeline!Integrity \/ Pipeline!Resample
    BY <1>1, <1>2 DEF PipelineInv, Pipeline!Integrity, Pipeline!Resample, TaskOK, Permitted,
                      Pipeline!Done, Pipeline!LedgerInOrder
  <1>3. ASSUME NEW split \in Pipeline!Splits, Pipeline!Backtest(split) PROVE PipelineInv'
    <2>1. Permitted(split, hash)
      BY <1>3 DEF Pipeline!Backtest, Pipeline!Allows, Permitted, Pipeline!Splits
    <2>2. UNCHANGED ledger /\ task' = [cmd |-> "backtest", split |-> split, hash |-> hash]
      BY <1>3 DEF Pipeline!Backtest
    <2>3. TaskOK'
      BY <2>1, <2>2 DEF PipelineInv, TaskOK, Permitted, Pipeline!Done
    <2> QED
      BY <1>1, <2>2, <2>3 DEF PipelineInv, Pipeline!LedgerInOrder
  <1>4. CASE Pipeline!WriteResults
    <2>1. UNCHANGED ledger /\ task' = [task EXCEPT !.cmd = "record"] /\ task.cmd = "backtest"
      BY <1>4 DEF Pipeline!WriteResults
    <2>2. TaskOK'
      BY <2>1 DEF PipelineInv, TaskOK, Permitted, Pipeline!Done, Pipeline!Idle
    <2> QED
      BY <1>1, <2>1, <2>2 DEF PipelineInv, Pipeline!LedgerInOrder
  <1>5. CASE Pipeline!Record
    <2>1. /\ task.cmd = "record" /\ task' = Pipeline!Idle
          /\ ledger' = Append(ledger, [split |-> task.split, hash |-> task.hash])
      BY <1>5 DEF Pipeline!Record
    <2>2. task.split \in Pipeline!Splits /\ task.hash \in Hashes /\ Permitted(task.split, task.hash)
      BY <2>1 DEF PipelineInv, TaskOK, Pipeline!Idle
    <2>3. ledger' \in Seq(Runs) /\ Pipeline!LedgerInOrder'
      BY <2>1, <2>2, RecordKeepsOrder DEF PipelineInv
    <2> QED
      BY <1>1, <2>1, <2>3 DEF PipelineInv, TaskOK
  <1> QED
    BY <1>2, <1>3, <1>4, <1>5

(***************************************************************************)
(* The ledger of runs keeps its order and every day file is whole, for     *)
(* every number of days, hours, parameter files and deaths in between      *)
(* (ledger.py, check and record; dukascopy.py, download_day).              *)
(***************************************************************************)
THEOREM PipelineIsSound == OfflineSpec => []ResearchSound
  <1> DEFINE I == part = "research" => PipelineInv
  <1>1. OfflineInit => I
    BY PipelineInit DEF OfflineInit
  <1>2. I /\ [OfflineNext]_offlineVars => I'
    <2> SUFFICES ASSUME I, [OfflineNext]_offlineVars, part' = "research" PROVE PipelineInv'
      OBVIOUS
    <2>1. part = "research" /\ (Pipeline!Next \/ UNCHANGED Pipeline!vars)
      BY DEF OfflineNext, offlineVars, researchGroup, Pipeline!vars
    <2> QED
      BY <2>1, PipelineWorld, PipelineDownload, PipelineCommands DEF Pipeline!Next
  <1>3. I => ResearchSound
    BY DEF PipelineInv, ResearchSound
  <1> QED
    BY <1>1, <1>2, <1>3, PTL DEF OfflineSpec

----------------------------------------------------------------------------
(* The backtest of ftmo-bot. *)

Positions == [side : {1, -1}, lots : Nat, entry : Int, stop : Int, initial : Int,
              target : Int, bid : Int, paid : Nat]

\* What _try_open accepts and the breakeven move keeps: the stop is not beyond
\* the entry, the target is.
Placed(p) == /\ p.side * (p.entry - p.stop) >= 0
             /\ p.side * (p.entry - p.initial) >= 0
             /\ p.side * (p.target - p.entry) > 0

Books == [Symbols -> {p \in Positions : Placed(p)} \cup {None}]

\* What a position is worth if its stop is hit, with all costs, and the cash
\* if every stop is.
Worst(p) == Ftmo!Unrealized(p, Ftmo!Mark(p)) - Ftmo!RiskToStop(p)
WorstCash(money, book) ==
    money + SumFunction([s \in Ftmo!OpenSymbols(book) |-> Worst(book[s])])

\* The instance sums like the lemmas do.
LEMMA SameSum == \A f : Ftmo!SumFunction(f) = SumFunction(f)
  BY DEF Ftmo!SumFunction, Ftmo!SumFunctionOnSet, Ftmo!FoldFunctionOnSet,
         Ftmo!MapThenFoldSet, SumFunction, SumFunctionOnSet, FoldFunctionOnSet, MapThenFoldSet

\* The smaller of two (sizing.py, size_for: never more than the largest lot).
LEMMA SmallerOfTwo ==
  \A a, b \in Int : Ftmo!Min({a, b}) = IF a <= b THEN a ELSE b
  BY DEF Ftmo!Min

\* ... and the larger (sizing.py, risk_to_stop: never less than nothing).
LEMMA LargerOfTwo ==
  \A a, b \in Int : Ftmo!Max({a, b}) = IF a >= b THEN a ELSE b
  BY DEF Ftmo!Max

\* More lots, or a longer way to the stop, lose more (sizing.py, projected_loss).
LEMMA ProductOrder ==
  \A a, b \in Int, n \in Nat : a <= b => a * n <= b * n
  OBVIOUS

\* Rounding down keeps the size inside the risk and its costs inside the
\* projection at the unrounded size (sizing.py, size_for and projected_loss).
LEMMA SizeWithinRisk ==
  ASSUME NEW r \in Nat, NEW k \in Nat, NEW d \in Nat \ {0}, NEW n \in Nat, n <= r \div d
  PROVE  n * d <= r /\ n * k <= (r * k) \div d
  <1> DEFINE q == r \div d
             m == (r * k) \div d
  <1>1. q \in Nat /\ q * d <= r
    OBVIOUS
  <1>2. m \in Int /\ r * k < (m + 1) * d
    OBVIOUS
  <1> QED
    OBVIOUS

\* The size of an entry against the projection that admitted it.
LEMMA LotsWithinProjection ==
  ASSUME NEW dist \in Distances
  PROVE  /\ Ftmo!Lots(dist) \in Nat
         /\ Ftmo!Projected(dist) \in Int
         /\ Ftmo!Lots(dist) * (dist + 2 * Commission + Spread + 2 * Slippage)
               <= Ftmo!Projected(dist)
  <1> DEFINE k == 2 * Commission + Spread + 2 * Slippage
             n == Ftmo!Lots(dist)
  <1>1. RiskAmount \in Nat /\ k \in Nat /\ dist \in Nat \ {0} /\ MinLot \in Nat /\ MaxLot \in Nat
    BY BacktestAssumption
  <1>2. RiskAmount \div dist \in Nat
    BY <1>1
  <1>3. n \in Nat /\ n <= RiskAmount \div dist
    BY <1>1, <1>2, SmallerOfTwo DEF Ftmo!Lots
  <1>4. n * dist <= RiskAmount /\ n * k <= (RiskAmount * k) \div dist
    <2> HIDE DEF k, n
    <2> QED
      BY <1>1, <1>3, SizeWithinRisk
  <1>5. (RiskAmount * k) \div dist \in Int
    <2> HIDE DEF k
    <2> QED
      BY <1>1
  <1>6. Ftmo!Projected(dist) = RiskAmount + (RiskAmount * k) \div dist
    BY DEF Ftmo!Projected
  <1>7. n * (dist + k) = n * dist + n * k
    <2> HIDE DEF k, n
    <2> QED
      BY <1>1, <1>3
  <1>8. dist + 2 * Commission + Spread + 2 * Slippage = dist + k
    BY BacktestAssumption
  <1> QED
    <2> HIDE DEF k, n
    <2>1. n * (dist + k) <= RiskAmount + (RiskAmount * k) \div dist
      BY <1>1, <1>3, <1>4, <1>5, <1>7
    <2> QED
      BY <1>1, <1>3, <1>5, <1>6, <1>8, <2>1 DEF n

\* What a position loses at its stop, against the distance from its entry.
LEMMA WorstOfPosition ==
  ASSUME NEW p \in Positions
  PROVE  /\ Ftmo!Mark(p) \in Int /\ Ftmo!RiskToStop(p) \in Nat /\ Worst(p) \in Int
         /\ \A price \in Int : Ftmo!Unrealized(p, price) \in Int
         /\ Worst(p) <= -((p.side * (p.entry - p.stop) + Commission + Slippage) * p.lots)
         /\ p.side * (Ftmo!Mark(p) - p.stop) >= 0 =>
               Worst(p) = -((p.side * (p.entry - p.stop) + Commission + Slippage) * p.lots)
         /\ p.side * (Ftmo!Mark(p) - p.stop) <= 0 =>
               Worst(p) = (p.side * (Ftmo!Mark(p) - p.entry) - Commission - Slippage) * p.lots
  <1> DEFINE x == p.side * (Ftmo!Mark(p) - p.stop)
             y == p.side * (Ftmo!Mark(p) - p.entry)
             z == p.side * (p.entry - p.stop)
             c == Commission + Slippage
             m == Ftmo!Max({0, x})
             n == p.lots
  <1>1. c \in Nat /\ Spread \in Nat /\ Commission \in Nat /\ Slippage \in Nat /\ n \in Nat
    BY BacktestAssumption DEF Positions
  <1>2. Ftmo!Mark(p) \in Int
    BY <1>1 DEF Ftmo!Mark, Positions
  <1>3. x \in Int /\ y \in Int /\ z \in Int /\ y = x - z
    BY <1>2 DEF Positions
  <1>4. m \in Nat /\ m = IF x >= 0 THEN x ELSE 0
    <2>1. m = IF 0 >= x THEN 0 ELSE x
      BY <1>3, LargerOfTwo
    <2> HIDE DEF m, x
    <2> QED
      BY <1>3, <2>1
  <1>5. Ftmo!RiskToStop(p) = (m + Commission + Slippage) * n
    BY DEF Ftmo!RiskToStop
  <1>6. Ftmo!Unrealized(p, Ftmo!Mark(p)) = y * n
    BY DEF Ftmo!Unrealized
  <1>7. \A price \in Int : Ftmo!Unrealized(p, price) \in Int
    BY DEF Ftmo!Unrealized, Positions
  <1> HIDE DEF x, y, z, m, n
  <1>8. Ftmo!RiskToStop(p) \in Nat /\ Worst(p) = (y - m - Commission - Slippage) * n
    BY <1>1, <1>3, <1>4, <1>5, <1>6 DEF Worst
  <1>9. y - m - Commission - Slippage <= -(z + Commission + Slippage)
    BY <1>1, <1>3, <1>4
  <1>10. Worst(p) \in Int /\ Worst(p) <= (-(z + Commission + Slippage)) * n
    BY <1>1, <1>3, <1>4, <1>8, <1>9, ProductOrder
  <1>11. (-(z + Commission + Slippage)) * n = -((z + Commission + Slippage) * n)
    BY <1>1, <1>3
  <1>12. x >= 0 => y - m - Commission - Slippage = -(z + Commission + Slippage)
    BY <1>1, <1>3, <1>4
  <1>13. x <= 0 => y - m - Commission - Slippage = y - Commission - Slippage
    BY <1>1, <1>3, <1>4
  <1> QED
    BY <1>2, <1>7, <1>8, <1>10, <1>11, <1>12, <1>13 DEF x, y, z, n

----------------------------------------------------------------------------
(* Sums over the book. *)

\* What the open positions are worth, risk and may still lose are quantities of
\* finitely many positions (engine.py, _equity and _state).
LEMMA SumsOfBook ==
  ASSUME NEW book \in Books, NEW money \in Int
  PROVE  /\ IsFiniteSet(Ftmo!OpenSymbols(book))
         /\ \A s \in Ftmo!OpenSymbols(book) : s \in Symbols /\ book[s] \in Positions /\ Placed(book[s])
         /\ [s \in Ftmo!OpenSymbols(book) |-> Worst(book[s])]
                \in [Ftmo!OpenSymbols(book) -> Int]
         /\ [s \in Ftmo!OpenSymbols(book) |-> Ftmo!RiskToStop(book[s])]
                \in [Ftmo!OpenSymbols(book) -> Int]
         /\ SumFunction([s \in Ftmo!OpenSymbols(book) |-> Ftmo!RiskToStop(book[s])]) \in Nat
         /\ WorstCash(money, book) \in Int
         /\ Ftmo!Equity(money, book) = WorstCash(money, book)
               + SumFunction([s \in Ftmo!OpenSymbols(book) |-> Ftmo!RiskToStop(book[s])])
  <1> DEFINE A == Ftmo!OpenSymbols(book)
             w == [s \in A |-> Worst(book[s])]
             r == [s \in A |-> Ftmo!RiskToStop(book[s])]
             u == [s \in A |-> Ftmo!Unrealized(book[s], Ftmo!Mark(book[s]))]
  <1>1. IsFiniteSet(A)
    <2>1. A \subseteq Symbols
      BY DEF Ftmo!OpenSymbols
    <2> QED
      BY <2>1, BacktestAssumption, FS_Subset
  <1>2. ASSUME NEW s \in A PROVE s \in Symbols /\ book[s] \in Positions /\ Placed(book[s])
    BY DEF Ftmo!OpenSymbols, Books
  <1>3. ASSUME NEW s \in A
        PROVE  /\ w[s] \in Int /\ r[s] \in Nat /\ u[s] \in Int
               /\ u[s] = w[s] + r[s]
    <2>1. book[s] \in Positions
      BY <1>2
    <2>2. /\ Ftmo!RiskToStop(book[s]) \in Nat /\ Worst(book[s]) \in Int
          /\ Ftmo!Unrealized(book[s], Ftmo!Mark(book[s])) \in Int
      BY <2>1, WorstOfPosition
    <2>3. u[s] = Worst(book[s]) + Ftmo!RiskToStop(book[s])
      BY <2>2 DEF Worst
    <2> QED
      BY <2>2, <2>3
  <1>4. w \in [A -> Int] /\ r \in [A -> Int] /\ u \in [A -> Int]
    <2>1. /\ w = [s \in A |-> w[s]] /\ r = [s \in A |-> r[s]] /\ u = [s \in A |-> u[s]]
      OBVIOUS
    <2> HIDE DEF A, w, r, u
    <2> QED
      BY <1>3, <2>1
  <1>5. Ftmo!Equity(money, book) = money + SumFunction(u)
    BY SameSum DEF Ftmo!Equity
  <1>6. WorstCash(money, book) = money + SumFunction(w)
    BY DEF WorstCash
  <1> HIDE DEF A, w, r, u
  <1>7. SumFunction(w) \in Int /\ SumFunction(r) \in Nat
    BY <1>1, <1>3, <1>4, SumFunctionType
  <1>8. SumFunction(u) = SumFunction(w) + SumFunction(r)
    BY <1>1, <1>3, <1>4, SumFunctionPlus
  <1>9. Ftmo!Equity(money, book) = WorstCash(money, book) + SumFunction(r)
    BY <1>5, <1>6, <1>7, <1>8
  <1>10. WorstCash(money, book) \in Int
    BY <1>6, <1>7
  <1> QED
    BY <1>1, <1>2, <1>4, <1>7, <1>9, <1>10 DEF A, w, r

\* A change of one position changes the worst case by that position alone.
LEMMA WorstCashMoves ==
  ASSUME NEW book \in Books, NEW money \in Int, NEW s \in Symbols,
         NEW q, q = None \/ (q \in Positions /\ Placed(q))
  PROVE  /\ [book EXCEPT ![s] = q] \in Books
         /\ WorstCash(money, [book EXCEPT ![s] = q]) = WorstCash(money, book)
               - (IF book[s] # None THEN Worst(book[s]) ELSE 0)
               + (IF q # None THEN Worst(q) ELSE 0)
  <1> DEFINE next == [book EXCEPT ![s] = q]
             A == Ftmo!OpenSymbols(book)
             B == Ftmo!OpenSymbols(next)
             f == [o \in A |-> Worst(book[o])]
             g == [o \in B |-> Worst(next[o])]
  <1>1. next \in Books
    BY DEF Books
  <1>2. IsFiniteSet(A) /\ IsFiniteSet(B) /\ f \in [A -> Int] /\ g \in [B -> Int]
    <2> HIDE DEF next
    <2> QED
      BY <1>1, SumsOfBook
  <1>3. A \ {s} = B \ {s} /\ \A o \in A \ {s} : f[o] = g[o]
    BY DEF Ftmo!OpenSymbols, Books
  <1>4. /\ s \in A <=> book[s] # None
        /\ s \in B <=> q # None
        /\ s \in A => f[s] = Worst(book[s])
        /\ s \in B => g[s] = Worst(q)
    BY DEF Ftmo!OpenSymbols, Books
  <1>5. SumFunction(g) = SumFunction(f) - (IF s \in A THEN f[s] ELSE 0)
                                        + (IF s \in B THEN g[s] ELSE 0)
    <2> HIDE DEF A, B, f, g
    <2> QED
      BY <1>2, <1>3, SumChangesAt
  <1>6. SumFunction(f) \in Int /\ SumFunction(g) \in Int
    <2> HIDE DEF A, B, f, g
    <2> QED
      BY <1>2, SumFunctionType
  <1>7. WorstCash(money, next) = money + SumFunction(g) /\ WorstCash(money, book) = money + SumFunction(f)
    BY DEF WorstCash
  <1>8. (s \in A => f[s] \in Int) /\ (s \in B => g[s] \in Int)
    BY <1>2
  <1> HIDE DEF next, A, B, f, g
  <1>9. WorstCash(money, next) = WorstCash(money, book)
               - (IF book[s] # None THEN Worst(book[s]) ELSE 0)
               + (IF q # None THEN Worst(q) ELSE 0)
    BY <1>4, <1>5, <1>6, <1>7, <1>8
  <1> QED
    BY <1>1, <1>9 DEF next

\* The low of the day after a tick: the lowest of what it saw (engine.py, _record).
LEMMA LowestOfThree ==
  \A a, b, c \in Int : /\ Ftmo!Min({a, b, c}) \in {a, b, c}
                        /\ Ftmo!Min({a, b, c}) <= a
  <1> SUFFICES ASSUME NEW a \in Int, NEW b \in Int, NEW c \in Int
               PROVE  \E x \in {a, b, c} : \A y \in {a, b, c} : x =< y
    BY DEF Ftmo!Min
  <1>1. CASE a <= b /\ a <= c
    BY <1>1
  <1>2. CASE b <= a /\ b <= c
    BY <1>2
  <1>3. CASE c <= a /\ c <= b
    BY <1>3
  <1> QED
    BY <1>1, <1>2, <1>3

----------------------------------------------------------------------------
\* The worst case is inside both limits.
Covered ==
    /\ ~halted
    /\ dayStart - dayLow < DailyLimit
    /\ dayStart - WorstCash(cash, open) < DailyLimit
    /\ dayStart - WorstCash(cash, open) < OverallLimit

\* Unless a fill was worse than planned, every stop together stays inside them.
BacktestInv ==
    /\ open \in Books
    /\ cash \in Int /\ dayStart \in Int /\ dayLow \in Int
    /\ halted \in BOOLEAN /\ gapped \in BOOLEAN
    /\ ~gapped => Covered

\* With no position open, no stop can cost anything (engine.py, run: a new day).
LEMMA NothingAtStake ==
  ASSUME NEW book, \A s \in Symbols : book[s] = None, NEW money \in Int
  PROVE  WorstCash(money, book) = money
  <1> DEFINE A == Ftmo!OpenSymbols(book)
             f == [s \in A |-> Worst(book[s])]
  <1>1. A = {}
    BY DEF Ftmo!OpenSymbols
  <1>2. f \in [A -> Int] /\ IsFiniteSet(A)
    BY <1>1, FS_EmptySet
  <1>3. WorstCash(money, book) = money + SumFunction(f)
    BY DEF WorstCash
  <1> HIDE DEF A, f
  <1>4. SumFunction(f) = 0
    BY <1>1, <1>2, SumFunctionType
  <1> QED
    BY <1>3, <1>4

\* Each limit of the profile is an amount to lose, as the thresholds of the
\* rules assume (ftmo_rules.py, can_open).
LEMMA LimitsLeaveRoom == DailyLimit \in Nat /\ DailyLimit > 0 /\ OverallLimit \in Nat /\ OverallLimit > 0
  BY BacktestAssumption

\* A run starts flat, with the initial balance (engine.py, run).
LEMMA BacktestInit == Ftmo!Init => BacktestInv
  <1> SUFFICES ASSUME Ftmo!Init PROVE BacktestInv
    OBVIOUS
  <1>1. open \in Books /\ \A s \in Symbols : open[s] = None
    BY DEF Ftmo!Init, Books
  <1>2. WorstCash(cash, open) = cash
    BY <1>1, NothingAtStake, BacktestAssumption DEF Ftmo!Init
  <1>3. /\ cash = InitialBalance /\ dayStart = InitialBalance /\ dayLow = InitialBalance
        /\ halted = FALSE /\ gapped = FALSE /\ InitialBalance \in Int
    BY BacktestAssumption DEF Ftmo!Init
  <1>4. halted \in BOOLEAN /\ gapped \in BOOLEAN /\ ~halted
    BY <1>3
  <1>5. Covered
    BY <1>2, <1>3, <1>4, LimitsLeaveRoom DEF Covered
  <1> QED
    BY <1>1, <1>3, <1>4, <1>5 DEF BacktestInv

\* A day begins with nothing open.
LEMMA BacktestDayEnd == BacktestInv /\ Ftmo!DayEnd => BacktestInv'
  <1> SUFFICES ASSUME BacktestInv, Ftmo!DayEnd PROVE BacktestInv'
    OBVIOUS
  <1> DEFINE A == Ftmo!OpenSymbols(open)
             V(s) == Ftmo!Proceeds(open[s], Ftmo!Mark(open[s]))
  <1>1. IsFiniteSet(A) /\ \A s \in A : open[s] \in Positions
    BY SumsOfBook DEF BacktestInv
  <1>2. \A s \in A : V(s) \in Int
    <2> SUFFICES ASSUME NEW s \in A PROVE V(s) \in Int
      OBVIOUS
    <2>1. Ftmo!Unrealized(open[s], Ftmo!Mark(open[s])) \in Int /\ open[s].lots \in Nat
      BY <1>1, WorstOfPosition DEF Positions
    <2> QED
      BY <2>1, BacktestAssumption DEF Ftmo!Proceeds
  <1>3. SumFunction([s \in A |-> V(s)]) \in Int
    <2> DEFINE f == [s \in A |-> V(s)]
    <2>1. f \in [A -> Int]
      BY <1>2
    <2> HIDE DEF f
    <2>2. SumFunction(f) \in Int
      BY <1>1, <2>1, SumFunctionType
    <2> QED
      BY <2>2 DEF f
  <1>4. cash' = cash + SumFunction([s \in A |-> V(s)])
    BY SameSum DEF Ftmo!DayEnd
  <1>5. cash' \in Int
    BY <1>3, <1>4 DEF BacktestInv
  <1>6. dayStart' = cash' /\ dayLow' = cash'
    BY DEF Ftmo!DayEnd
  <1>7. ~halted' /\ halted' \in BOOLEAN /\ gapped' \in BOOLEAN
    BY DEF Ftmo!DayEnd
  <1>8. open' \in Books /\ WorstCash(cash', open') = cash'
    <2>1. open' = [s \in Symbols |-> None]
      BY DEF Ftmo!DayEnd
    <2> QED
      BY <1>5, <2>1, NothingAtStake DEF Books
  <1>9. /\ dayStart' - dayLow' < DailyLimit
        /\ dayStart' - WorstCash(cash', open') < DailyLimit
        /\ dayStart' - WorstCash(cash', open') < OverallLimit
    <2>1. dayStart' = dayLow'
      BY <1>6
    <2>3. dayStart' \in Int
      BY <1>5, <1>6
    <2>2. dayStart' = WorstCash(cash', open')
      BY <1>6, <1>8
    <2> QED
      BY <2>1, <2>2, <2>3, LimitsLeaveRoom
  <1>10. Covered'
    BY <1>7, <1>9 DEF Covered, WorstCash, Ftmo!OpenSymbols
  <1> QED
    BY <1>5, <1>6, <1>7, <1>8, <1>10 DEF BacktestInv

\* What an entry may lose, commission included, is what can_open projected for
\* it, unless it fills worse than the close of its bar.
LEMMA EntryIsProjected ==
  ASSUME NEW s \in Symbols, NEW side \in {1, -1}, NEW close0 \in Closes,
         NEW dist \in Distances, NEW bid \in Prices,
         NEW p, p = Ftmo!Opened(s, side, close0, dist, bid), Ftmo!Fillable(p)
  PROVE  /\ p \in Positions /\ Placed(p)
         /\ side * (bid - close0) <= 0 => p.paid - Worst(p) <= Ftmo!Projected(dist)
  <1> DEFINE n == Ftmo!Lots(dist)
             k == dist + 2 * Commission + Spread + 2 * Slippage
  <1>1. /\ n \in Nat /\ Ftmo!Projected(dist) \in Int /\ n * k <= Ftmo!Projected(dist)
    BY LotsWithinProjection
  <1>2. /\ Commission \in Nat /\ Slippage \in Nat /\ Spread \in Nat /\ TargetR \in Nat
        /\ close0 \in Int /\ bid \in Int /\ dist \in Nat
    BY BacktestAssumption
  <1>3. /\ p.side = side /\ p.lots = n /\ p.bid = bid /\ p.paid = Commission * n
        /\ p.entry = IF side = 1 THEN bid + Spread + Slippage ELSE bid - Slippage
        /\ p.stop = close0 - side * dist /\ p.initial = p.stop
        /\ p.target = close0 + side * TargetR * dist
        /\ p = [side |-> p.side, lots |-> p.lots, entry |-> p.entry, stop |-> p.stop,
                initial |-> p.initial, target |-> p.target, bid |-> p.bid, paid |-> p.paid]
    BY DEF Ftmo!Opened
  <1>4. p \in Positions
    <2>1. /\ p.entry \in Int /\ p.stop \in Int /\ p.target \in Int /\ p.paid \in Nat
          /\ p.side \in {1, -1} /\ p.lots \in Nat /\ p.initial \in Int /\ p.bid \in Int
      <3> HIDE DEF n
      <3> QED
        BY <1>1, <1>2, <1>3
    <2> QED
      BY <1>3, <2>1 DEF Positions
  <1>5. Placed(p)
    BY <1>3, <1>4 DEF Placed, Ftmo!Fillable, Positions
  <1>6. ASSUME side * (bid - close0) <= 0
        PROVE  p.paid - Worst(p) <= Ftmo!Projected(dist)
    <2> DEFINE far == p.side * (p.entry - p.stop) + Commission + Slippage
               mark == Ftmo!Mark(p)
               x == p.side * (mark - p.stop)
    <2>1. /\ mark \in Int /\ Worst(p) \in Int
          /\ x >= 0 => Worst(p) = -(far * p.lots)
          /\ x <= 0 => Worst(p) = (p.side * (mark - p.entry) - Commission - Slippage) * p.lots
      BY <1>4, WorstOfPosition
    <2>2. mark = IF side = 1 THEN bid ELSE bid + Spread
      BY <1>3 DEF Ftmo!Mark
    <2>3. far \in Int /\ x \in Int /\ far + Commission <= k
      BY <1>2, <1>3, <1>6, <2>1
    <2>4. -(p.side * (mark - p.entry) - Commission - Slippage) + Commission <= k
      BY <1>2, <1>3, <2>2
    <2>5. p.side * (mark - p.entry) - Commission - Slippage \in Int /\ k \in Int
      BY <1>2, <1>3, <2>1
    <2> DEFINE loss == IF x >= 0 THEN far
                       ELSE -(p.side * (mark - p.entry) - Commission - Slippage)
    <2>6. Worst(p) = -(loss * n) /\ loss \in Int /\ loss + Commission <= k
      <3> DEFINE y == p.side * (mark - p.entry) - Commission - Slippage
      <3>1. x >= 0 => Worst(p) = -(far * n)
        BY <1>3, <2>1
      <3>2. x <= 0 => Worst(p) = y * n
        BY <1>3, <2>1
      <3> HIDE DEF x, far, n, y, mark
      <3>3. y * n = -((-y) * n)
        BY <1>1, <2>5 DEF y
      <3> HIDE DEF k
      <3> QED
        BY <3>1, <3>2, <3>3, <2>3, <2>4, <2>5 DEF y
    <2> HIDE DEF n, k, loss
    <2>7. p.paid - Worst(p) = (loss + Commission) * n
      BY <1>1, <1>2, <1>3, <2>6
    <2>8. (loss + Commission) * n <= k * n
      BY <1>1, <1>2, <2>5, <2>6, ProductOrder
    <2> QED
      BY <1>1, <1>2, <2>5, <2>6, <2>7, <2>8
  <1> QED
    BY <1>4, <1>5, <1>6

\* Nothing that the worst case is made of moves.
LEMMA BacktestStutters ==
  ASSUME BacktestInv, UNCHANGED <<cash, open, dayStart, dayLow, halted, gapped>>
  PROVE  BacktestInv'
  BY DEF BacktestInv, Covered, WorstCash, Ftmo!OpenSymbols

\* A covered state, told of values and not of variables.
LEMMA CoveredFrom ==
  ASSUME cash' \in Int, dayStart' \in Int, dayLow' \in Int, open' \in Books,
         halted' \in BOOLEAN, gapped' \in BOOLEAN,
         ~gapped' => /\ ~halted'
                     /\ dayStart' - dayLow' < DailyLimit
                     /\ dayStart' - WorstCash(cash', open') < DailyLimit
                     /\ dayStart' - WorstCash(cash', open') < OverallLimit
  PROVE  BacktestInv'
  <1>1. ~gapped' => Covered'
    BY DEF Covered, WorstCash, Ftmo!OpenSymbols
  <1> QED
    BY <1>1 DEF BacktestInv

\* The equity never falls below the worst-case cash.
LEMMA EquityOverWorst ==
  ASSUME NEW book \in Books, NEW money \in Int
  PROVE  /\ Ftmo!Equity(money, book) \in Int /\ WorstCash(money, book) \in Int
         /\ Ftmo!Equity(money, book) >= WorstCash(money, book)
  <1> DEFINE r == SumFunction([s \in Ftmo!OpenSymbols(book) |-> Ftmo!RiskToStop(book[s])])
  <1>1. r \in Nat /\ WorstCash(money, book) \in Int /\ Ftmo!Equity(money, book) = WorstCash(money, book) + r
    BY SumsOfBook
  <1> HIDE DEF r
  <1> QED
    BY <1>1

\* What cash gains or loses, the worst case gains or loses (engine.py, _close and
\* _try_open).
LEMMA MoneyMoves ==
  ASSUME NEW book \in Books, NEW money \in Int, NEW more \in Int
  PROVE  WorstCash(money + more, book) = WorstCash(money, book) + more
  <1> DEFINE w == SumFunction([s \in Ftmo!OpenSymbols(book) |-> Worst(book[s])])
  <1>1. w \in Int
    BY SumsOfBook, SumFunctionType
  <1>2. WorstCash(money + more, book) = money + more + w /\ WorstCash(money, book) = money + w
    BY DEF WorstCash
  <1> HIDE DEF w
  <1> QED
    BY <1>1, <1>2

\* An entry costs no more than can_open projected, if it fills no worse than the
\* close it was sized at (engine.py, _try_open; ftmo_rules.py, can_open).
LEMMA BacktestDecide ==
  ASSUME BacktestInv, NEW s \in Symbols, NEW side \in {1, -1}, NEW close0 \in Closes,
         NEW dist \in Distances, NEW bid \in Prices,
         Ftmo!Decide(s, side, close0, dist, bid)
  PROVE  BacktestInv'
  <1> DEFINE p == Ftmo!Opened(s, side, close0, dist, bid)
             book == [open EXCEPT ![s] = p]
             risks == SumFunction([o \in Ftmo!OpenSymbols(open) |-> Ftmo!RiskToStop(open[o])])
             opened == Ftmo!Equity(cash - p.paid, book)
  <1>1. UNCHANGED <<dayStart, halted>>
    BY DEF Ftmo!Decide
  <1>2. CASE UNCHANGED <<open, cash, dayLow, gapped>>
    BY <1>1, <1>2, BacktestStutters
  <1>3. CASE ~UNCHANGED <<open, cash, dayLow, gapped>>
    <2>1. /\ Ftmo!CanOpen(s, side, dist) /\ Ftmo!Fillable(p)
          /\ open' = book /\ cash' = cash - p.paid
          /\ dayLow' = Ftmo!Min({dayLow, opened})
          /\ gapped' = (gapped \/ side * (bid - close0) > 0)
      BY <1>3, Zenon DEF Ftmo!Decide
    <2>2. /\ p \in Positions /\ Placed(p)
          /\ side * (bid - close0) <= 0 => p.paid - Worst(p) <= Ftmo!Projected(dist)
      BY <2>1, EntryIsProjected
    <2>3. /\ open[s] = None
          /\ dayStart - Ftmo!Equity(cash, open) + (Ftmo!Projected(dist) + risks) < DailyLimit
          /\ dayStart - Ftmo!Equity(cash, open) + (Ftmo!Projected(dist) + risks) < OverallLimit
      BY <2>1, SameSum DEF Ftmo!CanOpen, Ftmo!OpenSymbols
    <2>4. /\ open \in Books /\ cash \in Int /\ dayStart \in Int /\ dayLow \in Int
          /\ halted \in BOOLEAN /\ gapped \in BOOLEAN /\ (~gapped => Covered)
      BY DEF BacktestInv
    <2>5. /\ p.paid \in Nat /\ Worst(p) \in Int /\ Ftmo!Projected(dist) \in Int
          /\ p # None
      BY <2>2, WorstOfPosition, LotsWithinProjection, BacktestAssumption DEF Positions
    <2>6. /\ risks \in Nat /\ WorstCash(cash, open) \in Int
          /\ Ftmo!Equity(cash, open) = WorstCash(cash, open) + risks
      BY <2>4, SumsOfBook
    <2> HIDE DEF p, risks
    <2>7. /\ book \in Books
          /\ WorstCash(cash, book) = WorstCash(cash, open) + Worst(p)
      BY <2>2, <2>3, <2>4, <2>5, <2>6, WorstCashMoves
    <2> HIDE DEF book
    <2>8. cash - p.paid \in Int /\ WorstCash(cash - p.paid, book) = WorstCash(cash, open) + Worst(p) - p.paid
      <3>1. cash - p.paid = cash + (-p.paid) /\ -p.paid \in Int
        BY <2>4, <2>5
      <3>2. WorstCash(cash + (-p.paid), book) = WorstCash(cash, book) + (-p.paid)
        BY <2>4, <2>7, <3>1, MoneyMoves
      <3> QED
        BY <2>4, <2>5, <2>6, <2>7, <3>1, <3>2
    <2>9. opened \in Int /\ opened >= WorstCash(cash - p.paid, book)
      BY <2>7, <2>8, EquityOverWorst
    <2> HIDE DEF opened
    <2>10. dayLow' \in {dayLow, opened}
      BY <2>1, <2>4, <2>9, SmallerOfTwo
    <2>11. ASSUME ~gapped'
           PROVE  /\ ~halted'
                  /\ dayStart' - dayLow' < DailyLimit
                  /\ dayStart' - WorstCash(cash', open') < DailyLimit
                  /\ dayStart' - WorstCash(cash', open') < OverallLimit
      <3>1. ~gapped /\ ~(side * (bid - close0) > 0)
        BY <2>1, <2>11
      <3>2. side * (bid - close0) <= 0
        BY <3>1, BacktestAssumption
      <3>3. Covered
        BY <2>4, <3>1
      <3>4. p.paid - Worst(p) <= Ftmo!Projected(dist)
        BY <2>2, <3>2
      <3>5. WorstCash(cash', open') = WorstCash(cash, open) + Worst(p) - p.paid
        BY <2>1, <2>8
      <3>6. /\ dayStart - WorstCash(cash', open') < DailyLimit
            /\ dayStart - WorstCash(cash', open') < OverallLimit
        BY <2>3, <2>4, <2>5, <2>6, <3>4, <3>5, LimitsLeaveRoom
      <3>7. dayStart - opened < DailyLimit
        BY <2>1, <2>4, <2>9, <3>5, <3>6, LimitsLeaveRoom, <2>5, <2>6
      <3>8. dayStart - dayLow < DailyLimit /\ ~halted
        BY <3>3 DEF Covered
      <3>9. dayStart - dayLow' < DailyLimit
        BY <2>10, <3>7, <3>8
      <3> QED
        BY <1>1, <3>6, <3>8, <3>9
    <2>12. /\ cash' \in Int /\ dayStart' \in Int /\ dayLow' \in Int /\ open' \in Books
           /\ halted' \in BOOLEAN /\ gapped' \in BOOLEAN
      BY <1>1, <2>1, <2>4, <2>7, <2>8, <2>9, <2>10
    <2> QED
      BY <2>11, <2>12, CoveredFrom
  <1> QED
    BY <1>2, <1>3

\* The least a position is worth at its stop, wherever it is marked.
AtStop(p) == -((p.side * (p.entry - p.stop) + Commission + Slippage) * p.lots)

\* A tick that closes nothing leaves the position with no more to lose, and
\* one that closes it at its stop or better pays what the stop promised.
LEMMA TickCoversWorst ==
  ASSUME NEW s \in Symbols, NEW q \in Positions, Placed(q), NEW bid \in Prices,
         NEW p, p = [q EXCEPT !.bid = bid]
  PROVE  /\ p \in Positions /\ Ftmo!Mark(p) \in Int
         /\ Ftmo!ExitPrice(s, p) = None =>
               /\ Ftmo!Protected(p) \in Positions /\ Placed(Ftmo!Protected(p))
               /\ Worst(Ftmo!Protected(p)) >= Worst(q)
         /\ Ftmo!ExitPrice(s, p) # None =>
               /\ Ftmo!Proceeds(p, Ftmo!ExitPrice(s, p)) \in Int
               /\ p.side * (Ftmo!Mark(p) - p.stop) >= 0 =>
                     Ftmo!Proceeds(p, Ftmo!ExitPrice(s, p)) >= Worst(q)
  <1> DEFINE mark == Ftmo!Mark(p)
             exit == Ftmo!ExitPrice(s, p)
             n == p.lots
             far == p.side * (p.entry - p.stop)
  <1>1. /\ Commission \in Nat /\ Slippage \in Nat /\ BreakevenR \in Nat /\ bid \in Int
        /\ None \notin Int
    BY BacktestAssumption
  <1>2. /\ p \in Positions
        /\ p.side = q.side /\ p.lots = q.lots /\ p.entry = q.entry /\ p.stop = q.stop
        /\ p.initial = q.initial /\ p.target = q.target
    BY <1>1 DEF Positions
  <1>3. /\ p.side \in {1, -1} /\ p.entry \in Int /\ p.stop \in Int /\ p.initial \in Int
        /\ p.target \in Int /\ n \in Nat
    BY <1>2 DEF Positions
  <1>4. /\ far \in Nat
        /\ p.side * (p.entry - p.initial) >= 0
        /\ p.side * (p.target - p.entry) > 0
    BY <1>2, <1>3 DEF Placed
  <1>5. mark \in Int
    BY <1>2, WorstOfPosition
  <1>6. Worst(q) \in Int /\ Worst(q) <= AtStop(p) /\ AtStop(p) = (-(far + Commission + Slippage)) * n
    <2>1. Worst(q) \in Int /\ Worst(q) <= AtStop(q)
      BY WorstOfPosition DEF AtStop
    <2>2. AtStop(q) = AtStop(p) /\ AtStop(p) = -((far + Commission + Slippage) * n)
      BY <1>2 DEF AtStop
    <2> HIDE DEF far, n
    <2>3. -((far + Commission + Slippage) * n) = (-(far + Commission + Slippage)) * n
      BY <1>1, <1>3, <1>4
    <2> QED
      BY <2>1, <2>2, <2>3
  <1>7. ASSUME exit = None
        PROVE  /\ Ftmo!Protected(p) \in Positions /\ Placed(Ftmo!Protected(p))
               /\ Worst(Ftmo!Protected(p)) >= Worst(q)
    <2>1. p.side * (mark - p.stop) > 0
      <3>1. Ftmo!MarketExit(p) \in Int
        BY <1>1, <1>3, <1>5 DEF Ftmo!MarketExit
      <3>2. ~(p.side * (mark - p.stop) <= 0)
        BY <1>1, <1>3, <1>7, <3>1 DEF Ftmo!ExitPrice
      <3> QED
        BY <1>3, <1>5, <3>2
    <2>2. CASE Ftmo!Protected(p) = p
      <3>1. Placed(p)
        BY <1>3, <1>4 DEF Placed
      <3>2. Worst(p) = AtStop(p)
        <4>1. p.side * (Ftmo!Mark(p) - p.stop) >= 0
          BY <1>3, <1>5, <2>1
        <4>2. Worst(p) = -((p.side * (p.entry - p.stop) + Commission + Slippage) * p.lots)
          BY <1>2, <4>1, WorstOfPosition
        <4> QED
          BY <4>2 DEF AtStop
      <3>3. AtStop(p) \in Int
        BY <1>2, <3>2, WorstOfPosition
      <3> QED
        BY <1>2, <1>6, <2>2, <3>1, <3>2, <3>3
    <2>3. CASE Ftmo!Protected(p) # p
      <3> DEFINE w == [p EXCEPT !.stop = p.entry]
      <3>1. /\ Ftmo!Protected(p) = w
            /\ p.side * (mark - p.entry) >= BreakevenR * (p.side * (p.entry - p.initial))
        BY <2>3 DEF Ftmo!Protected
      <3>2. /\ w \in Positions /\ Placed(w)
            /\ w.side = p.side /\ w.lots = n /\ w.entry = p.entry /\ w.stop = p.entry
            /\ Ftmo!Mark(w) = mark
        <4>1. /\ w \in Positions /\ w.side = p.side /\ w.lots = n /\ w.entry = p.entry
              /\ w.stop = p.entry /\ w.initial = p.initial /\ w.target = p.target
              /\ w.bid = p.bid
          BY <1>2, <1>3 DEF Positions
        <4>2. p.side * (p.entry - p.entry) = 0
          BY <1>3
        <4>3. Placed(w)
          BY <1>4, <4>1, <4>2 DEF Placed
        <4>4. Ftmo!Mark(w) = mark
          BY <4>1 DEF Ftmo!Mark
        <4> QED
          BY <4>1, <4>3, <4>4
      <3>3. BreakevenR * (p.side * (p.entry - p.initial)) >= 0
        BY <1>1, <1>3, <1>4, ProductOrder
      <3>4. w.side * (Ftmo!Mark(w) - w.stop) >= 0
        BY <1>1, <1>3, <1>5, <3>1, <3>2, <3>3
      <3>5. Worst(w) = -((w.side * (w.entry - w.stop) + Commission + Slippage) * w.lots)
        BY <3>2, <3>4, WorstOfPosition
      <3>6. w.side * (w.entry - w.stop) = 0
        BY <1>3, <3>2
      <3> HIDE DEF w, n, far
      <3>7. Worst(w) = (-(Commission + Slippage)) * n
        BY <1>1, <1>3, <3>2, <3>5, <3>6
      <3>8. (-(far + Commission + Slippage)) * n <= (-(Commission + Slippage)) * n
        BY <1>1, <1>3, <1>4, ProductOrder
      <3>9. Worst(w) \in Int /\ AtStop(p) \in Int
        BY <1>1, <1>3, <1>4, <1>6, <3>7
      <3> QED
        BY <1>6, <3>1, <3>2, <3>7, <3>8, <3>9
    <2> QED
      BY <2>2, <2>3
  <1>8. ASSUME exit # None
        PROVE  /\ Ftmo!Proceeds(p, exit) \in Int
               /\ p.side * (mark - p.stop) >= 0 => Ftmo!Proceeds(p, exit) >= Worst(q)
    <2> DEFINE gain == p.side * (exit - p.entry) - Commission
    <2>1. exit \in {mark - p.side * Slippage, p.target}
      BY <1>8 DEF Ftmo!ExitPrice, Ftmo!MarketExit
    <2>2. gain \in Int
      BY <1>1, <1>3, <1>5, <2>1
    <2>3. Ftmo!Proceeds(p, exit) = p.side * (exit - p.entry) * n - Commission * n
      BY DEF Ftmo!Proceeds, Ftmo!Unrealized
    <2>4. Ftmo!Proceeds(p, exit) = gain * n
      <3>1. p.side * (exit - p.entry) \in Int
        BY <1>1, <1>3, <1>5, <2>1
      <3> QED
        BY <1>1, <1>3, <2>3, <3>1
    <2>5. p.side * (mark - p.stop) >= 0 => -(far + Commission + Slippage) <= gain
      BY <1>1, <1>3, <1>4, <1>5, <2>1
    <2> HIDE DEF gain, far, n, exit, mark
    <2>6. -(far + Commission + Slippage) \in Int
      BY <1>1, <1>4
    <2>7. p.side * (mark - p.stop) >= 0 => (-(far + Commission + Slippage)) * n <= gain * n
      BY <1>3, <2>2, <2>5, <2>6, ProductOrder
    <2>8. gain * n \in Int /\ AtStop(p) \in Int
      BY <1>3, <1>6, <2>2, <2>6
    <2> QED
      BY <1>6, <2>4, <2>7, <2>8
  <1> QED
    BY <1>2, <1>5, <1>7, <1>8

\* What the halt pays for the positions it closes is an amount of cash.
LEMMA SumOfMarketExits ==
  ASSUME NEW book \in Books, NEW A \in SUBSET Ftmo!OpenSymbols(book)
  PROVE  SumFunction([o \in A |-> Ftmo!Proceeds(book[o], Ftmo!MarketExit(book[o]))]) \in Int
  <1> DEFINE f == [o \in A |-> Ftmo!Proceeds(book[o], Ftmo!MarketExit(book[o]))]
  <1>1. IsFiniteSet(A) /\ \A o \in A : book[o] \in Positions
    <2>1. 0 \in Int
      OBVIOUS
    <2>2. IsFiniteSet(Ftmo!OpenSymbols(book)) /\ \A o \in Ftmo!OpenSymbols(book) : book[o] \in Positions
      BY <2>1, SumsOfBook
    <2> QED
      BY <2>2, FS_Subset
  <1>2. ASSUME NEW o \in A PROVE f[o] \in Int
    <2>1. /\ book[o].side \in {1, -1} /\ book[o].lots \in Nat /\ book[o].entry \in Int
          /\ Ftmo!Mark(book[o]) \in Int /\ Slippage \in Nat /\ Commission \in Nat
      BY <1>1, WorstOfPosition, BacktestAssumption DEF Positions
    <2>2. Ftmo!MarketExit(book[o]) \in Int
      BY <2>1 DEF Ftmo!MarketExit
    <2>3. Ftmo!Unrealized(book[o], Ftmo!MarketExit(book[o])) \in Int
      BY <1>1, <2>2, WorstOfPosition
    <2>4. Ftmo!Proceeds(book[o], Ftmo!MarketExit(book[o])) \in Int
      BY <2>1, <2>3 DEF Ftmo!Proceeds
    <2> QED
      BY <2>4
  <1>3. f \in [A -> Int]
    BY <1>2
  <1> HIDE DEF f
  <1>4. SumFunction(f) \in Int
    BY <1>1, <1>3, SumFunctionType
  <1> QED
    BY <1>4 DEF f

\* A tick moves, closes or halts; unless a fill was worse than its stop it
\* does not lower the worst-case cash, and so does not halt.
LEMMA BacktestTick ==
  ASSUME BacktestInv, NEW s \in Symbols, NEW bid \in Prices, Ftmo!Tick(s, bid)
  PROVE  BacktestInv'
  <1> DEFINE q == open[s]
             p == [open[s] EXCEPT !.bid = bid]
             exit == Ftmo!ExitPrice(s, p)
             after == IF exit = None THEN Ftmo!Protected(p) ELSE None
             book == [open EXCEPT ![s] = after]
             paid == IF exit = None THEN 0 ELSE Ftmo!Proceeds(p, exit)
             money == IF exit = None THEN cash ELSE cash + Ftmo!Proceeds(p, exit)
             equity == Ftmo!Equity(money, book)
             halts == Ftmo!ShouldHalt(equity)
             goes == IF halts THEN Ftmo!OpenSymbols(book) ELSE {}
             final == [o \in Symbols |-> IF o \in goes THEN None ELSE book[o]]
             proceeds == SumFunction([o \in goes |->
                            Ftmo!Proceeds(book[o], Ftmo!MarketExit(book[o]))])
  <1>1. /\ q # None /\ open' = final /\ cash' = money + proceeds
        /\ halted' = (halted \/ halts)
        /\ dayLow' = Ftmo!Min({dayLow, equity, Ftmo!Equity(cash', final)})
        /\ gapped' = (gapped \/ (exit # None /\ p.side * (Ftmo!Mark(p) - p.stop) < 0))
        /\ dayStart' = dayStart
    BY SameSum DEF Ftmo!Tick
  <1>2. /\ open \in Books /\ cash \in Int /\ dayStart \in Int /\ dayLow \in Int
        /\ halted \in BOOLEAN /\ gapped \in BOOLEAN /\ (~gapped => Covered)
    BY DEF BacktestInv
  <1>3. q \in Positions /\ Placed(q)
    BY <1>1, <1>2 DEF Books
  <1>4. /\ p \in Positions /\ Ftmo!Mark(p) \in Int
        /\ exit = None =>
              /\ Ftmo!Protected(p) \in Positions /\ Placed(Ftmo!Protected(p))
              /\ Worst(Ftmo!Protected(p)) >= Worst(q)
        /\ exit # None =>
              /\ Ftmo!Proceeds(p, exit) \in Int
              /\ p.side * (Ftmo!Mark(p) - p.stop) >= 0 => Ftmo!Proceeds(p, exit) >= Worst(q)
    BY <1>3, TickCoversWorst
  <1>5. None \notin Positions
    BY BacktestAssumption DEF Positions
  <1>6. /\ after = None \/ (after \in Positions /\ Placed(after))
        /\ money = cash + paid /\ paid \in Int /\ money \in Int
    BY <1>2, <1>4
  <1>7. /\ book \in Books
        /\ WorstCash(cash, book) = WorstCash(cash, open) - Worst(q)
                               + (IF after # None THEN Worst(after) ELSE 0)
    <2> HIDE DEF after
    <2> QED
      BY <1>1, <1>2, <1>6, WorstCashMoves
  <1>8. \A o \in Symbols : book[o] = None \/ (book[o] \in Positions /\ Placed(book[o]))
    <2> HIDE DEF book
    <2> QED
      BY <1>7 DEF Books
  <1>9. final \in Books
    <2> HIDE DEF book, goes
    <2> QED
      BY <1>8 DEF Books
  <1>10. proceeds \in Int
    <2>1. goes \in SUBSET Ftmo!OpenSymbols(book)
      OBVIOUS
    <2> HIDE DEF book, goes
    <2> QED
      BY <1>7, <2>1, SumOfMarketExits
  <1>11. cash' \in Int
    <2> HIDE DEF money, proceeds
    <2> QED
      BY <1>1, <1>6, <1>10
  <1>12. /\ equity \in Int /\ WorstCash(money, book) \in Int /\ equity >= WorstCash(money, book)
         /\ Ftmo!Equity(cash', final) \in Int
         /\ Ftmo!Equity(cash', final) >= WorstCash(cash', final)
    <2> HIDE DEF book, money, final
    <2> QED
      BY <1>6, <1>7, <1>9, <1>11, EquityOverWorst
  <1>13. dayLow' \in {dayLow, equity, Ftmo!Equity(cash', final)}
    <2> HIDE DEF equity, final
    <2> QED
      BY <1>1, <1>2, <1>12, LowestOfThree
  <1>14. /\ dayStart' \in Int /\ dayLow' \in Int /\ open' \in Books
         /\ halted' \in BOOLEAN /\ gapped' \in BOOLEAN
    <2>1. halts \in BOOLEAN
      BY DEF Ftmo!ShouldHalt
    <2> HIDE DEF halts, equity, final
    <2> QED
      BY <1>1, <1>2, <1>9, <1>12, <1>13, <2>1
  <1>15. ASSUME ~gapped'
         PROVE  /\ ~halted'
                /\ dayStart' - dayLow' < DailyLimit
                /\ dayStart' - WorstCash(cash', open') < DailyLimit
                /\ dayStart' - WorstCash(cash', open') < OverallLimit
    <2>1. Covered /\ (exit = None \/ ~(p.side * (Ftmo!Mark(p) - p.stop) < 0))
      BY <1>1, <1>2, <1>15
    <2>2. exit # None => p.side * (Ftmo!Mark(p) - p.stop) >= 0
      BY <1>4, <2>1 DEF Positions
    <2>3. /\ Worst(q) \in Int /\ WorstCash(cash, open) \in Int
          /\ after # None => Worst(after) \in Int
      BY <1>2, <1>3, <1>6, WorstOfPosition, EquityOverWorst
    <2>4. /\ exit = None => after # None /\ paid = 0 /\ Worst(after) >= Worst(q)
          /\ exit # None => after = None /\ paid >= Worst(q)
      BY <1>4, <1>5, <2>2
    <2>5. WorstCash(money, book) = WorstCash(cash, book) + paid
      <3> HIDE DEF book, paid, money
      <3> QED
        BY <1>2, <1>6, <1>7, MoneyMoves
    <2>6. WorstCash(money, book) >= WorstCash(cash, open)
      <3> HIDE DEF book, paid, money, after
      <3> QED
        BY <1>6, <1>7, <2>3, <2>4, <2>5
    <2>7. /\ dayStart - WorstCash(money, book) < DailyLimit
          /\ dayStart - WorstCash(money, book) < OverallLimit
          /\ dayStart - equity < DailyLimit /\ dayStart - equity < OverallLimit
      <3>1. /\ dayStart - WorstCash(cash, open) < DailyLimit
            /\ dayStart - WorstCash(cash, open) < OverallLimit
        BY <2>1 DEF Covered
      <3> HIDE DEF equity, money, book
      <3> QED
        BY <1>2, <1>12, <2>3, <2>6, <3>1, LimitsLeaveRoom
    <2>8. ~halts
      <3> HIDE DEF equity
      <3> QED
        BY <1>2, <1>12, <2>7, LimitsLeaveRoom DEF Ftmo!ShouldHalt
    <2>9. goes = {} /\ final = book
      <3>1. goes = {}
        BY <2>8
      <3>2. final = [o \in Symbols |-> book[o]]
        <4> HIDE DEF book, goes
        <4> QED
          BY <3>1
      <3>3. book = [o \in Symbols |-> book[o]]
        <4> HIDE DEF book
        <4> QED
          BY <1>7 DEF Books
      <3> QED
        BY <3>1, <3>2, <3>3
    <2>10. proceeds = 0
      <3> DEFINE f == [o \in goes |-> Ftmo!Proceeds(book[o], Ftmo!MarketExit(book[o]))]
      <3>1. f \in [goes -> Int] /\ IsFiniteSet(goes)
        BY <2>9, FS_EmptySet
      <3> HIDE DEF f, goes
      <3>2. SumFunction(f) = 0
        BY <2>9, <3>1, SumFunctionType
      <3> QED
        BY <3>2 DEF f
    <2> HIDE DEF final, book, money, proceeds, equity, goes, halts
    <2>11. cash' = money
      BY <1>1, <1>6, <2>10
    <2>12. ~halted'
      BY <1>1, <2>1, <2>8 DEF Covered
    <2>13. WorstCash(cash', open') = WorstCash(money, book)
      BY <1>1, <2>9, <2>11
    <2>14. Ftmo!Equity(cash', final) = equity
      BY <2>9, <2>11 DEF equity
    <2>15. dayStart - dayLow' < DailyLimit
      <3>1. dayStart - dayLow < DailyLimit
        BY <2>1 DEF Covered
      <3> QED
        BY <1>13, <2>7, <2>14, <3>1
    <2> QED
      BY <1>1, <2>7, <2>12, <2>13, <2>15
  <1> HIDE DEF final, book, money, proceeds, equity, goes, halts
  <1> QED
    BY <1>11, <1>14, <1>15, CoveredFrom

\* The invariant of the backtest is kept by every step of the data.
LEMMA BacktestNext == BacktestInv /\ [Ftmo!Next]_Ftmo!vars => BacktestInv'
  <1> SUFFICES ASSUME BacktestInv, [Ftmo!Next]_Ftmo!vars PROVE BacktestInv'
    OBVIOUS
  <1>1. CASE Ftmo!DayEnd
    BY <1>1, BacktestDayEnd
  <1>2. ASSUME NEW s \in Symbols, Ftmo!Pass(s) \/ Ftmo!TimeExit(s) PROVE BacktestInv'
    BY <1>2, BacktestStutters DEF Ftmo!Pass, Ftmo!TimeExit
  <1>3. ASSUME NEW s \in Symbols, NEW bid \in Prices, Ftmo!Tick(s, bid) PROVE BacktestInv'
    BY <1>3, BacktestTick
  <1>4. ASSUME NEW s \in Symbols, NEW side \in {1, -1}, NEW close0 \in Closes,
               NEW dist \in Distances, NEW bid \in Prices,
               Ftmo!Decide(s, side, close0, dist, bid)
        PROVE  BacktestInv'
    BY <1>4, BacktestDecide
  <1>5. CASE UNCHANGED Ftmo!vars
    BY <1>5, BacktestStutters DEF Ftmo!vars
  <1> QED
    BY <1>1, <1>2, <1>3, <1>4, <1>5 DEF Ftmo!Next

(***************************************************************************)
(* For every limit, risk, cost, price and set of symbols: on a day whose   *)
(* fills are no worse than planned no stop, nor all of them together, can  *)
(* lose the daily limit, and the halt is not needed (ftmo_rules.py,        *)
(* can_open; sizing.py, projected_loss and risk_to_stop; engine.py).       *)
(***************************************************************************)
THEOREM ProjectionHolds == OfflineSpec => []DailyLimitHolds
  <1> DEFINE Inv == part = "ftmo" => BacktestInv
  <1>1. OfflineInit => Inv
    BY BacktestInit DEF OfflineInit
  <1>2. Inv /\ [OfflineNext]_offlineVars => Inv'
    <2> SUFFICES ASSUME Inv, [OfflineNext]_offlineVars, part' = "ftmo" PROVE BacktestInv'
      OBVIOUS
    <2>1. part = "ftmo" /\ ([Ftmo!Next]_Ftmo!vars)
      BY DEF OfflineNext, offlineVars, Ftmo!vars, ftmoGroup
    <2> QED
      BY <2>1, BacktestNext
  <1>3. Inv => DailyLimitHolds
    BY DEF BacktestInv, Covered, DailyLimitHolds, Ftmo!DailyLimitHolds
  <1> QED
    BY <1>1, <1>2, <1>3, PTL DEF OfflineSpec

----------------------------------------------------------------------------
(* The slots and the money of the backtest. *)

\* The instance counts like the theorems about finite sets do.
LEMMA SameCount == \A S : Ftmo!Cardinality(S) = Cardinality(S)
  BY DEF Ftmo!Cardinality, Cardinality

\* Fewer positions take no more slots (ftmo_rules.py, slots_used).
LEMMA FewerSlots ==
  ASSUME NEW A, IsFiniteSet(A), NEW B \in SUBSET A
  PROVE  Ftmo!SlotsUsed(B) <= Ftmo!SlotsUsed(A)
  <1>1. IsFiniteSet(A \ Group) /\ B \ Group \subseteq A \ Group
    BY FS_Subset
  <1>2. /\ Cardinality(A \ Group) \in Nat /\ Cardinality(B \ Group) \in Nat
        /\ Cardinality(B \ Group) <= Cardinality(A \ Group)
    BY <1>1, FS_Subset, FS_CardinalityType
  <1>3. A \cap Group = {} => B \cap Group = {}
    OBVIOUS
  <1> QED
    BY <1>2, <1>3, SameCount DEF Ftmo!SlotsUsed

\* The slots and the sides of the correlated group are kept by `book'.
Kept(book) ==
    LET names == Ftmo!OpenSymbols(book)
    IN  /\ Ftmo!SlotsUsed(names) <= MaxSlots
        /\ \A s, o \in names \cap Group : book[s].side = book[o].side

\* Positions that close leave what can_open allowed (engine.py, _close).
LEMMA KeptWithFewer ==
  ASSUME NEW a \in Books, Kept(a), NEW b,
         \A s \in Ftmo!OpenSymbols(b) : s \in Ftmo!OpenSymbols(a) /\ b[s].side = a[s].side
  PROVE  Kept(b)
  <1>1. IsFiniteSet(Ftmo!OpenSymbols(a))
    BY FS_Subset, BacktestAssumption DEF Ftmo!OpenSymbols
  <1>2. Ftmo!OpenSymbols(b) \in SUBSET Ftmo!OpenSymbols(a)
    OBVIOUS
  <1>3. Ftmo!SlotsUsed(Ftmo!OpenSymbols(b)) <= Ftmo!SlotsUsed(Ftmo!OpenSymbols(a))
    BY <1>1, <1>2, FewerSlots
  <1>4. \A A : IsFiniteSet(A) => Ftmo!SlotsUsed(A) \in Nat
    <2> SUFFICES ASSUME NEW A, IsFiniteSet(A) PROVE Ftmo!SlotsUsed(A) \in Nat
      OBVIOUS
    <2>1. IsFiniteSet(A \ Group)
      BY FS_Subset
    <2>2. Cardinality(A \ Group) \in Nat
      BY <2>1, FS_CardinalityType
    <2> QED
      BY <2>2, SameCount DEF Ftmo!SlotsUsed
  <1>5. IsFiniteSet(Ftmo!OpenSymbols(b))
    BY <1>1, <1>2, FS_Subset
  <1>6. MaxSlots \in Nat
    BY BacktestAssumption
  <1>7. Ftmo!SlotsUsed(Ftmo!OpenSymbols(b)) <= MaxSlots
    BY <1>1, <1>3, <1>4, <1>5, <1>6 DEF Kept
  <1> QED
    BY <1>7 DEF Kept

\* An empty book takes no slot (ftmo_rules.py, slots_used).
LEMMA EmptyKept ==
  ASSUME NEW b, Ftmo!OpenSymbols(b) = {}
  PROVE  Kept(b)
  <1>1. Cardinality({} \ Group) = 0
    <2>1. {} \ Group = {}
      OBVIOUS
    <2> QED
      BY <2>1, FS_EmptySet
  <1>2. Ftmo!SlotsUsed({}) = 0
    BY <1>1, SameCount DEF Ftmo!SlotsUsed
  <1>3. 0 <= MaxSlots
    BY BacktestAssumption
  <1> QED
    BY <1>2, <1>3 DEF Kept

\* Halted and open exclude each other, and Kept.
Exposure == (halted => Ftmo!OpenSymbols(open) = {}) /\ Kept(open)

\* An entry is one that can_open let in (engine.py, _try_open).
LEMMA DecideExposure ==
  ASSUME BacktestInv, Exposure, NEW s \in Symbols, NEW side \in {1, -1}, NEW close0 \in Closes,
         NEW dist \in Distances, NEW bid \in Prices,
         Ftmo!Decide(s, side, close0, dist, bid)
  PROVE  Exposure'
  <1> DEFINE p == Ftmo!Opened(s, side, close0, dist, bid)
             book == [open EXCEPT ![s] = p]
  <1>1. halted' = halted
    BY DEF Ftmo!Decide
  <1>2. CASE UNCHANGED open
    BY <1>1, <1>2 DEF Exposure, Kept, Ftmo!OpenSymbols
  <1>3. CASE ~halted /\ Ftmo!CanOpen(s, side, dist) /\ Ftmo!Fillable(p) /\ open' = book
    <2> DEFINE names == Ftmo!OpenSymbols(open)
    <2>1. p \in Positions /\ p.side = side /\ p # None
      <3>1. p \in Positions
        BY <1>3, EntryIsProjected
      <3> QED
        BY <3>1, BacktestAssumption DEF Ftmo!Opened, Positions
    <2>2. /\ Ftmo!SlotsUsed(names \cup {s}) <= MaxSlots
          /\ s \in Group => \A o \in names \cap Group : open[o].side = side
          /\ s \notin names
      BY <1>3 DEF Ftmo!CanOpen
    <2> HIDE DEF p
    <2>3. /\ book[s] = p /\ \A o \in Symbols \ {s} : book[o] = open[o]
      BY DEF BacktestInv, Books
    <2>4. Ftmo!OpenSymbols(book) = names \cup {s}
      BY <2>1, <2>3 DEF Ftmo!OpenSymbols
    <2>5. Ftmo!SlotsUsed(Ftmo!OpenSymbols(book)) <= MaxSlots
      BY <2>2, <2>4
    <2>6. ASSUME NEW a \in Ftmo!OpenSymbols(book) \cap Group,
                 NEW b \in Ftmo!OpenSymbols(book) \cap Group
          PROVE  book[a].side = book[b].side
      <3>1. \A o \in names \cap Group : book[o] = open[o] /\ o \in Symbols
        BY <2>2, <2>3 DEF Ftmo!OpenSymbols
      <3>2. \A x, y \in names \cap Group : open[x].side = open[y].side
        BY DEF Exposure, Kept
      <3>3. book[s].side = side
        BY <2>1, <2>3
      <3> HIDE DEF book, names
      <3> QED
        BY <2>2, <2>4, <2>6, <3>1, <3>2, <3>3
    <2>7. Kept(book)
      <3> HIDE DEF book
      <3> QED
        BY <2>5, <2>6 DEF Kept
    <2> QED
      BY <1>1, <1>3, <2>7 DEF Exposure, Kept, Ftmo!OpenSymbols
  <1> QED
    BY <1>2, <1>3 DEF Ftmo!Decide

\* A tick closes positions or moves a stop, and the halt it causes closes them
\* all (engine.py, _advance).
LEMMA TickExposure ==
  ASSUME BacktestInv, Exposure, NEW s \in Symbols, NEW bid \in Prices, Ftmo!Tick(s, bid)
  PROVE  Exposure'
  <1> DEFINE p == [open[s] EXCEPT !.bid = bid]
             exit == Ftmo!ExitPrice(s, p)
             after == IF exit = None THEN Ftmo!Protected(p) ELSE None
             book == [open EXCEPT ![s] = after]
             money == IF exit = None THEN cash ELSE cash + Ftmo!Proceeds(p, exit)
             halts == Ftmo!ShouldHalt(Ftmo!Equity(money, book))
             goes == IF halts THEN Ftmo!OpenSymbols(book) ELSE {}
             final == [o \in Symbols |-> IF o \in goes THEN None ELSE book[o]]
  <1>1. open[s] # None /\ open' = final /\ halted' = (halted \/ halts)
    BY DEF Ftmo!Tick
  <1>2. ~halted
    BY <1>1 DEF Exposure, Ftmo!OpenSymbols
  <1>3. open[s] \in Positions
    BY <1>1 DEF BacktestInv, Books
  <1>4. after # None => after.side = open[s].side
    BY <1>3 DEF Ftmo!Protected, Positions
  <1>5. \A o \in Ftmo!OpenSymbols(final) :
            o \in Ftmo!OpenSymbols(open) /\ final[o].side = open[o].side
    <2> SUFFICES ASSUME NEW o \in Ftmo!OpenSymbols(final)
                 PROVE  o \in Ftmo!OpenSymbols(open) /\ final[o].side = open[o].side
      OBVIOUS
    <2> HIDE DEF after, goes
    <2>1. o \in Symbols /\ final[o] # None /\ final[o] = book[o] /\ book[o] # None
      BY DEF Ftmo!OpenSymbols
    <2>2. book[o] = IF o = s THEN after ELSE open[o]
      BY <2>1 DEF BacktestInv, Books
    <2> QED
      BY <1>1, <1>4, <2>1, <2>2 DEF Ftmo!OpenSymbols
  <1>6. Kept(final)
    <2>1. open \in Books /\ Kept(open)
      BY DEF BacktestInv, Exposure
    <2> HIDE DEF final
    <2> QED
      BY <1>5, <2>1, KeptWithFewer
  <1>7. halts => Ftmo!OpenSymbols(final) = {}
    <2> HIDE DEF book, halts
    <2> QED
      BY DEF Ftmo!OpenSymbols
  <1> HIDE DEF final, halts
  <1> QED
    BY <1>1, <1>2, <1>6, <1>7 DEF Exposure, Kept, Ftmo!OpenSymbols

\* A day begins with an empty book, and time alone opens nothing.
LEMMA OtherExposure ==
  ASSUME Exposure,
         Ftmo!DayEnd \/ UNCHANGED <<open, halted>>
  PROVE  Exposure'
  <1>1. CASE UNCHANGED <<open, halted>>
    BY <1>1 DEF Exposure, Kept, Ftmo!OpenSymbols
  <1>2. CASE Ftmo!DayEnd
    <2> DEFINE none == [s \in Symbols |-> None]
    <2>1. ~halted' /\ open' = none
      BY <1>2 DEF Ftmo!DayEnd
    <2>2. Kept(none)
      <3>1. Ftmo!OpenSymbols(none) = {}
        BY DEF Ftmo!OpenSymbols
      <3> HIDE DEF none
      <3> QED
        BY <3>1, EmptyKept
    <2> QED
      BY <2>1, <2>2 DEF Exposure, Kept, Ftmo!OpenSymbols
  <1> QED
    BY <1>1, <1>2

----------------------------------------------------------------------------
\* The entry commissions of the open positions, which no trade reports yet.
Paid(book) == SumFunction([s \in Ftmo!OpenSymbols(book) |-> book[s].paid])

\* ... are an amount.
LEMMA PaidType ==
  ASSUME NEW book \in Books
  PROVE  /\ IsFiniteSet(Ftmo!OpenSymbols(book))
         /\ [s \in Ftmo!OpenSymbols(book) |-> book[s].paid] \in [Ftmo!OpenSymbols(book) -> Int]
         /\ Paid(book) \in Int
  <1> DEFINE A == Ftmo!OpenSymbols(book)
             f == [s \in A |-> book[s].paid]
  <1>1. 0 \in Int
    OBVIOUS
  <1>2. IsFiniteSet(A) /\ \A s \in A : book[s] \in Positions
    BY <1>1, SumsOfBook
  <1>3. f \in [A -> Int]
    BY <1>2 DEF Positions
  <1>4. Paid(book) = SumFunction(f)
    BY DEF Paid
  <1> HIDE DEF A, f
  <1>5. SumFunction(f) \in Int
    BY <1>2, <1>3, SumFunctionType
  <1> QED
    BY <1>2, <1>3, <1>4, <1>5 DEF A, f

\* One position opens, closes or moves: the others have paid what they had
\* (engine.py, _try_open and _close).
LEMMA PaidMoves ==
  ASSUME NEW book \in Books, NEW s \in Symbols,
         NEW q, q = None \/ (q \in Positions /\ Placed(q))
  PROVE  /\ [book EXCEPT ![s] = q] \in Books
         /\ Paid([book EXCEPT ![s] = q]) = Paid(book)
               - (IF book[s] # None THEN book[s].paid ELSE 0)
               + (IF q # None THEN q.paid ELSE 0)
  <1> DEFINE next == [book EXCEPT ![s] = q]
             A == Ftmo!OpenSymbols(book)
             B == Ftmo!OpenSymbols(next)
             f == [o \in A |-> book[o].paid]
             g == [o \in B |-> next[o].paid]
  <1>1. next \in Books
    BY DEF Books
  <1>2. IsFiniteSet(A) /\ IsFiniteSet(B) /\ f \in [A -> Int] /\ g \in [B -> Int]
    <2> HIDE DEF next
    <2> QED
      BY <1>1, PaidType
  <1>3. A \ {s} = B \ {s} /\ \A o \in A \ {s} : f[o] = g[o]
    BY DEF Ftmo!OpenSymbols, Books
  <1>4. /\ s \in A <=> book[s] # None
        /\ s \in B <=> q # None
        /\ s \in A => f[s] = book[s].paid
        /\ s \in B => g[s] = q.paid
    BY DEF Ftmo!OpenSymbols, Books
  <1>5. SumFunction(g) = SumFunction(f) - (IF s \in A THEN f[s] ELSE 0)
                                        + (IF s \in B THEN g[s] ELSE 0)
    <2> HIDE DEF A, B, f, g
    <2> QED
      BY <1>2, <1>3, SumChangesAt
  <1>6. Paid(next) = SumFunction(g) /\ Paid(book) = SumFunction(f)
    BY DEF Paid
  <1> HIDE DEF next, A, B, f, g
  <1>7. Paid(next) = Paid(book) - (IF book[s] # None THEN book[s].paid ELSE 0)
                                + (IF q # None THEN q.paid ELSE 0)
    BY <1>4, <1>5, <1>6
  <1> QED
    BY <1>1, <1>7 DEF next

\* What closing some positions pays into cash and what their trades told
\* differ by what was paid at the entries (engine.py, _close).
LEMMA ClosingReports ==
  ASSUME NEW book \in Books, NEW A \in SUBSET Ftmo!OpenSymbols(book),
         NEW price, \A s \in A : price[s] \in Int
  PROVE  /\ SumFunction([s \in A |-> Ftmo!Proceeds(book[s], price[s])]) \in Int
         /\ SumFunction([s \in A |-> Ftmo!Pnl(book[s], price[s])]) \in Int
         /\ SumFunction([s \in A |-> Ftmo!Proceeds(book[s], price[s])])
               = SumFunction([s \in A |-> Ftmo!Pnl(book[s], price[s])])
                 + SumFunction([s \in A |-> book[s].paid])
         /\ SumFunction([s \in A |-> book[s].paid]) \in Int
  <1> DEFINE h == [s \in A |-> Ftmo!Proceeds(book[s], price[s])]
             f == [s \in A |-> Ftmo!Pnl(book[s], price[s])]
             g == [s \in A |-> book[s].paid]
  <1>1. IsFiniteSet(A) /\ \A s \in A : book[s] \in Positions
    <2>1. 0 \in Int
      OBVIOUS
    <2>2. IsFiniteSet(Ftmo!OpenSymbols(book)) /\ \A s \in Ftmo!OpenSymbols(book) : book[s] \in Positions
      BY <2>1, SumsOfBook
    <2> QED
      BY <2>2, FS_Subset
  <1>2. ASSUME NEW s \in A
        PROVE  h[s] \in Int /\ g[s] \in Int /\ f[s] \in Int /\ h[s] = f[s] + g[s]
    <2>1. /\ book[s].lots \in Nat /\ book[s].paid \in Nat /\ Commission \in Nat
          /\ Ftmo!Unrealized(book[s], price[s]) \in Int
      BY <1>1, WorstOfPosition, BacktestAssumption DEF Positions
    <2>2. Ftmo!Proceeds(book[s], price[s]) \in Int
      BY <2>1 DEF Ftmo!Proceeds
    <2>3. Ftmo!Pnl(book[s], price[s]) = Ftmo!Proceeds(book[s], price[s]) - book[s].paid
      BY DEF Ftmo!Pnl
    <2> QED
      BY <2>1, <2>2, <2>3
  <1>3. h \in [A -> Int] /\ f \in [A -> Int] /\ g \in [A -> Int]
    BY <1>2
  <1>4. \A s \in A : h[s] = f[s] + g[s]
    BY <1>2
  <1> HIDE DEF h, f, g
  <1>5. SumFunction(h) = SumFunction(f) + SumFunction(g)
    BY <1>1, <1>3, <1>4, SumFunctionPlus
  <1>6. SumFunction(h) \in Int /\ SumFunction(f) \in Int /\ SumFunction(g) \in Int
    BY <1>1, <1>3, SumFunctionType
  <1> QED
    BY <1>5, <1>6 DEF h, f, g

Cash == booked \in Int /\ cash = InitialBalance + booked - Paid(open)

\* An entry pays its commission (engine.py, _try_open).
LEMMA DecideCash ==
  ASSUME BacktestInv, Cash, NEW s \in Symbols, NEW side \in {1, -1}, NEW close0 \in Closes,
         NEW dist \in Distances, NEW bid \in Prices,
         Ftmo!Decide(s, side, close0, dist, bid)
  PROVE  Cash'
  <1> DEFINE p == Ftmo!Opened(s, side, close0, dist, bid)
             book == [open EXCEPT ![s] = p]
  <1>1. booked' = booked
    BY DEF Ftmo!Decide
  <1>2. CASE UNCHANGED <<open, cash>>
    <2>1. Paid(open') = Paid(open)
      BY <1>2
    <2> QED
      BY <1>1, <1>2, <2>1 DEF Cash, Paid, Ftmo!OpenSymbols
  <1>3. CASE /\ Ftmo!CanOpen(s, side, dist) /\ Ftmo!Fillable(p) /\ open' = book
             /\ cash' = cash - p.paid
    <2>1. p \in Positions /\ Placed(p) /\ p # None
      <3>1. p \in Positions /\ Placed(p)
        BY <1>3, EntryIsProjected
      <3> QED
        BY <3>1, BacktestAssumption DEF Positions
    <2>2. open[s] = None
      BY <1>3 DEF Ftmo!CanOpen, Ftmo!OpenSymbols
    <2>3. p.paid \in Int
      BY <2>1 DEF Positions
    <2>4. open \in Books /\ booked \in Int /\ cash = InitialBalance + booked - Paid(open)
      BY DEF BacktestInv, Cash
    <2>5. Paid(open) \in Int /\ InitialBalance \in Int
      BY <2>4, PaidType, BacktestAssumption
    <2> HIDE DEF p
    <2>6. Paid(book) = Paid(open) + p.paid
      BY <2>1, <2>2, <2>3, <2>4, <2>5, PaidMoves
    <2> HIDE DEF book
    <2>7. cash' = InitialBalance + booked - Paid(book)
      BY <1>3, <2>3, <2>4, <2>5, <2>6
    <2> QED
      BY <1>1, <1>3, <2>4, <2>7 DEF Cash, Paid, Ftmo!OpenSymbols
  <1> QED
    BY <1>2, <1>3 DEF Ftmo!Decide

\* What a tick closes, and what the halt it causes closes, is reported
\* (engine.py, _advance and _close).
LEMMA TickCash ==
  ASSUME BacktestInv, Cash, NEW s \in Symbols, NEW bid \in Prices, Ftmo!Tick(s, bid)
  PROVE  Cash'
  <1> DEFINE q == open[s]
             p == [open[s] EXCEPT !.bid = bid]
             exit == Ftmo!ExitPrice(s, p)
             after == IF exit = None THEN Ftmo!Protected(p) ELSE None
             book == [open EXCEPT ![s] = after]
             money == IF exit = None THEN cash ELSE cash + Ftmo!Proceeds(p, exit)
             told == IF exit = None THEN 0 ELSE Ftmo!Pnl(p, exit)
             halts == Ftmo!ShouldHalt(Ftmo!Equity(money, book))
             goes == IF halts THEN Ftmo!OpenSymbols(book) ELSE {}
             final == [o \in Symbols |-> IF o \in goes THEN None ELSE book[o]]
             price == [o \in goes |-> Ftmo!MarketExit(book[o])]
             proceeds == SumFunction([o \in goes |->
                            Ftmo!Proceeds(book[o], Ftmo!MarketExit(book[o]))])
             pnls == SumFunction([o \in goes |-> Ftmo!Pnl(book[o], Ftmo!MarketExit(book[o]))])
             back == SumFunction([o \in goes |-> book[o].paid])
  <1>1. /\ q # None /\ open' = final /\ cash' = money + proceeds
        /\ booked' = booked + told + pnls
    BY SameSum DEF Ftmo!Tick
  <1>2. open \in Books /\ cash \in Int /\ booked \in Int
        /\ cash = InitialBalance + booked - Paid(open)
    BY DEF BacktestInv, Cash
  <1>3. q \in Positions /\ Placed(q)
    BY <1>1, <1>2 DEF Books
  <1>4. /\ p \in Positions
        /\ exit = None => Ftmo!Protected(p) \in Positions /\ Placed(Ftmo!Protected(p))
        /\ exit # None => Ftmo!Proceeds(p, exit) \in Int
    BY <1>3, TickCoversWorst
  <1>5. None \notin Positions
    BY BacktestAssumption DEF Positions
  <1>6. p.paid = q.paid /\ q.paid \in Int /\ Ftmo!Protected(p).paid = q.paid
    BY <1>3, <1>4 DEF Positions, Ftmo!Protected
  <1>7. /\ after = None \/ (after \in Positions /\ Placed(after))
        /\ after # None <=> exit = None
        /\ after # None => after.paid = q.paid
    BY <1>4, <1>5, <1>6
  <1>8. /\ book \in Books
        /\ Paid(book) = Paid(open) - q.paid + (IF after # None THEN after.paid ELSE 0)
    <2> HIDE DEF after
    <2> QED
      BY <1>1, <1>2, <1>7, PaidMoves
  <1>9. Paid(open) \in Int /\ Paid(book) \in Int /\ InitialBalance \in Int
    <2> HIDE DEF book
    <2> QED
      BY <1>2, <1>8, PaidType, BacktestAssumption
  <1>10. money = InitialBalance + (booked + told) - Paid(book) /\ told \in Int /\ money \in Int
    <2>1. CASE exit = None
      <3>1. Paid(book) = Paid(open)
        <4> HIDE DEF book
        <4> QED
          BY <1>6, <1>7, <1>8, <1>9, <2>1
      <3> HIDE DEF book
      <3> QED
        BY <1>2, <1>9, <2>1, <3>1
    <2>2. CASE exit # None
      <3>1. Paid(book) = Paid(open) - q.paid
        <4> HIDE DEF book
        <4> QED
          BY <1>6, <1>7, <1>8, <1>9, <2>2
      <3>2. told = Ftmo!Proceeds(p, exit) - q.paid
        BY <1>6, <2>2 DEF Ftmo!Pnl
      <3>3. money = cash + Ftmo!Proceeds(p, exit)
        BY <2>2
      <3> HIDE DEF book, told, money
      <3> QED
        BY <1>2, <1>4, <1>6, <1>9, <2>2, <3>1, <3>2, <3>3
    <2> QED
      BY <2>1, <2>2
  <1>11. /\ proceeds = pnls + back
         /\ proceeds \in Int /\ pnls \in Int /\ back \in Int
    <2>1. goes \in SUBSET Ftmo!OpenSymbols(book)
      OBVIOUS
    <2> HIDE DEF book, goes
    <2>2. \A o \in goes : price[o] = Ftmo!MarketExit(book[o]) /\ price[o] \in Int
      <3> SUFFICES ASSUME NEW o \in goes PROVE Ftmo!MarketExit(book[o]) \in Int
        OBVIOUS
      <3>1. book[o] \in Positions
        BY <1>8, <2>1 DEF Books, Ftmo!OpenSymbols
      <3> QED
        BY <3>1, WorstOfPosition, BacktestAssumption DEF Ftmo!MarketExit, Positions
    <2> DEFINE h == [o \in goes |-> Ftmo!Proceeds(book[o], price[o])]
               f == [o \in goes |-> Ftmo!Pnl(book[o], price[o])]
    <2>3. /\ h = [o \in goes |-> Ftmo!Proceeds(book[o], Ftmo!MarketExit(book[o]))]
          /\ f = [o \in goes |-> Ftmo!Pnl(book[o], Ftmo!MarketExit(book[o]))]
      BY <2>2
    <2>4. /\ SumFunction(h) \in Int /\ SumFunction(f) \in Int /\ back \in Int
          /\ SumFunction(h) = SumFunction(f) + back
      <3> HIDE DEF price
      <3> QED
        BY <1>8, <2>1, <2>2, ClosingReports
    <2> QED
      BY <2>3, <2>4
  <1>12. Paid(final) = Paid(book) - back
    <2>1. CASE halts
      <3>1. Ftmo!OpenSymbols(final) = {} /\ back = Paid(book)
        <4> HIDE DEF book, halts
        <4> QED
          BY <2>1 DEF Ftmo!OpenSymbols, Paid
      <3>2. Paid(final) = 0
        <4> HIDE DEF final
        <4>1. [s1 \in {} |-> final[s1].paid] \in [{} -> Int] /\ IsFiniteSet({})
          BY FS_EmptySet
        <4>2. SumFunction([s1 \in {} |-> final[s1].paid]) = 0
          BY <4>1, SumFunctionType
        <4> QED
          BY <3>1, <4>2 DEF Paid
      <3> HIDE DEF final, book, back
      <3> QED
        BY <1>9, <3>1, <3>2
    <2>2. CASE ~halts
      <3>1. goes = {}
        BY <2>2
      <3>2. final = book
        <4>1. final = [o \in Symbols |-> book[o]]
          <5> HIDE DEF book, goes
          <5> QED
            BY <3>1
        <4>2. book = [o \in Symbols |-> book[o]]
          <5> HIDE DEF book
          <5> QED
            BY <1>8 DEF Books
        <4> QED
          BY <4>1, <4>2
      <3>3. back = 0
        <4> DEFINE g == [o \in goes |-> book[o].paid]
        <4>1. g \in [goes -> Int] /\ IsFiniteSet(goes)
          BY <3>1, FS_EmptySet
        <4> HIDE DEF g, goes
        <4>2. SumFunction(g) = 0
          BY <3>1, <4>1, SumFunctionType
        <4> QED
          BY <4>2 DEF g
      <3> HIDE DEF final, book, back
      <3> QED
        BY <1>9, <3>2, <3>3
    <2> QED
      BY <2>1, <2>2
  <1> HIDE DEF final, book, money, proceeds, pnls, back, told
  <1>13. cash' = InitialBalance + booked' - Paid(final) /\ booked' \in Int
    BY <1>1, <1>2, <1>9, <1>10, <1>11, <1>12
  <1> QED
    BY <1>1, <1>13 DEF Cash, Paid, Ftmo!OpenSymbols

\* The end of a day's data closes everything at its mark (engine.py, run).
LEMMA DayEndCash ==
  ASSUME BacktestInv, Cash, Ftmo!DayEnd
  PROVE  Cash'
  <1> DEFINE A == Ftmo!OpenSymbols(open)
             price == [s \in A |-> Ftmo!Mark(open[s])]
             h == [s \in A |-> Ftmo!Proceeds(open[s], Ftmo!Mark(open[s]))]
             f == [s \in A |-> Ftmo!Pnl(open[s], Ftmo!Mark(open[s]))]
             none == [s \in Symbols |-> None]
  <1>1. /\ cash' = cash + SumFunction(h) /\ booked' = booked + SumFunction(f) /\ open' = none
    BY SameSum DEF Ftmo!DayEnd
  <1>2. open \in Books /\ booked \in Int /\ cash = InitialBalance + booked - Paid(open)
    BY DEF BacktestInv, Cash
  <1>3. \A s \in A : price[s] \in Int
    BY <1>2, WorstOfPosition DEF Ftmo!OpenSymbols, Books
  <1>4. /\ h = [s \in A |-> Ftmo!Proceeds(open[s], price[s])]
        /\ f = [s \in A |-> Ftmo!Pnl(open[s], price[s])]
    OBVIOUS
  <1>5. /\ SumFunction(h) \in Int /\ SumFunction(f) \in Int
        /\ SumFunction(h) = SumFunction(f) + Paid(open)
    <2> HIDE DEF price
    <2>1. A \in SUBSET Ftmo!OpenSymbols(open)
      OBVIOUS
    <2>2. Paid(open) = SumFunction([s \in A |-> open[s].paid])
      BY DEF Paid
    <2> HIDE DEF A, h, f
    <2> QED
      BY <1>2, <1>3, <1>4, <2>1, <2>2, ClosingReports
  <1>6. Paid(none) = 0
    <2> DEFINE g == [s \in {} |-> none[s].paid]
    <2>1. g \in [{} -> Int] /\ IsFiniteSet({})
      BY FS_EmptySet
    <2>2. Ftmo!OpenSymbols(none) = {}
      BY DEF Ftmo!OpenSymbols
    <2>3. Paid(none) = SumFunction(g)
      BY <2>2 DEF Paid
    <2> HIDE DEF g
    <2>4. SumFunction(g) = 0
      BY <2>1, SumFunctionType
    <2> QED
      BY <2>3, <2>4
  <1>7. Paid(open) \in Int /\ InitialBalance \in Int
    BY <1>2, PaidType, BacktestAssumption
  <1> HIDE DEF h, f, none, A
  <1>8. cash' = InitialBalance + booked' - Paid(none) /\ booked' \in Int
    BY <1>1, <1>2, <1>5, <1>6, <1>7
  <1> QED
    BY <1>1, <1>8 DEF Cash, Paid, Ftmo!OpenSymbols

----------------------------------------------------------------------------
\* What the two theorems below rest on, together.
AccountInv == BacktestInv /\ Exposure /\ Cash

\* A run starts with no position and no trade.
LEMMA AccountInit == Ftmo!Init => AccountInv
  <1> SUFFICES ASSUME Ftmo!Init PROVE AccountInv
    OBVIOUS
  <1>1. /\ open = [s \in Symbols |-> None] /\ ~halted /\ booked = 0 /\ cash = InitialBalance
    BY DEF Ftmo!Init
  <1>2. Ftmo!OpenSymbols(open) = {}
    BY <1>1 DEF Ftmo!OpenSymbols
  <1>3. Exposure
    BY <1>1, <1>2, EmptyKept DEF Exposure
  <1>4. Paid(open) = 0
    <2> DEFINE g == [s \in {} |-> open[s].paid]
    <2>1. g \in [{} -> Int] /\ IsFiniteSet({})
      BY FS_EmptySet
    <2>2. Paid(open) = SumFunction(g)
      BY <1>2 DEF Paid
    <2> HIDE DEF g
    <2>3. SumFunction(g) = 0
      BY <2>1, SumFunctionType
    <2> QED
      BY <2>2, <2>3
  <1>5. Cash
    BY <1>1, <1>4, BacktestAssumption DEF Cash
  <1> QED
    BY <1>3, <1>5, BacktestInit DEF AccountInv

\* Every tick, bar, time exit and day end keeps them (engine.py, run).
LEMMA AccountNext == AccountInv /\ [Ftmo!Next]_Ftmo!vars => AccountInv'
  <1> SUFFICES ASSUME AccountInv, [Ftmo!Next]_Ftmo!vars PROVE Exposure' /\ Cash'
    BY BacktestNext DEF AccountInv
  <1>1. BacktestInv /\ Exposure /\ Cash
    BY DEF AccountInv
  <1>2. ASSUME UNCHANGED <<open, halted, cash, booked>> PROVE Exposure' /\ Cash'
    BY <1>1, <1>2, OtherExposure DEF Cash, Paid, Ftmo!OpenSymbols
  <1>3. CASE Ftmo!DayEnd
    BY <1>1, <1>3, OtherExposure, DayEndCash
  <1>4. ASSUME NEW s \in Symbols, Ftmo!Pass(s) \/ Ftmo!TimeExit(s) PROVE Exposure' /\ Cash'
    BY <1>2, <1>4 DEF Ftmo!Pass, Ftmo!TimeExit
  <1>5. ASSUME NEW s \in Symbols, NEW bid \in Prices, Ftmo!Tick(s, bid) PROVE Exposure' /\ Cash'
    BY <1>1, <1>5, TickExposure, TickCash
  <1>6. ASSUME NEW s \in Symbols, NEW side \in {1, -1}, NEW close0 \in Closes,
               NEW dist \in Distances, NEW bid \in Prices,
               Ftmo!Decide(s, side, close0, dist, bid)
        PROVE  Exposure' /\ Cash'
    BY <1>1, <1>6, DecideExposure, DecideCash
  <1>7. CASE UNCHANGED Ftmo!vars
    BY <1>2, <1>7 DEF Ftmo!vars
  <1> QED
    BY <1>3, <1>4, <1>5, <1>6, <1>7 DEF Ftmo!Next

(***************************************************************************)
(* For every cost, price and set of symbols: the cash of a backtest is the *)
(* initial balance and what its trades told, less the commissions its    *)
(* open positions have paid, through stops, targets, time exits, halts and *)
(* ends of days; a halted day holds nothing, and the slots and the side of *)
(* the correlated group are kept (engine.py, _try_open, _close, _advance;  *)
(* ftmo_rules.py, can_open).                                               *)
(***************************************************************************)
THEOREM BacktestAddsUp ==
    OfflineSpec => [](part = "ftmo" => Ftmo!CashAddsUp /\ Ftmo!ExposureKept)
  <1> DEFINE Inv == part = "ftmo" => AccountInv
             Good == part = "ftmo" => Ftmo!CashAddsUp /\ Ftmo!ExposureKept
  <1>1. OfflineInit => Inv
    BY AccountInit DEF OfflineInit
  <1>2. Inv /\ [OfflineNext]_offlineVars => Inv'
    <2> SUFFICES ASSUME Inv, [OfflineNext]_offlineVars, part' = "ftmo" PROVE AccountInv'
      OBVIOUS
    <2>1. part = "ftmo" /\ ([Ftmo!Next]_Ftmo!vars)
      BY DEF OfflineNext, offlineVars, Ftmo!vars, ftmoGroup
    <2> QED
      BY <2>1, AccountNext
  <1>3. Inv => Good
    BY SameSum DEF AccountInv, Cash, Paid, Exposure, Kept, Ftmo!CashAddsUp, Ftmo!ExposureKept
  <1> HIDE DEF Inv, Good
  <1>4. OfflineSpec => []Good
    BY <1>1, <1>2, <1>3, PTL DEF OfflineSpec
  <1> QED
    BY <1>4 DEF Good

----------------------------------------------------------------------------
(* The event calendar of mini_prop_os. *)

Sorted(seq) == \A i, j \in 1..Len(seq) : i < j => seq[i].at <= seq[j].at

CalendarInv ==
    /\ events \in Seq(Calendar!Event) /\ Sorted(events)
    /\ now \in Times

\* A window starts and ends at a minute (event_calendar.py, EconomicEvent).
LEMMA WindowTypes ==
  ASSUME NEW e \in Calendar!Event
  PROVE  /\ e.at \in Int /\ e.impact \in Impacts
         /\ Before[e.impact] \in Nat /\ After[e.impact] \in Nat
         /\ Calendar!Start(e) \in Int /\ Calendar!End(e) \in Int
         /\ Calendar!Start(e) <= Calendar!End(e)
         /\ Calendar!End(e) = e.at + After[e.impact]
  <1>1. e.at \in Int /\ e.impact \in Impacts
    BY CalendarAssumption DEF Calendar!Event
  <1>2. PICK b, a \in Nat : b = Before[e.impact] /\ a = After[e.impact]
    BY <1>1, CalendarAssumption
  <1> QED
    BY <1>1, <1>2 DEF Calendar!Start, Calendar!End

\* add puts an event behind all that are earlier (event_calendar.py, add).
LEMMA AddKeepsOrder ==
  ASSUME NEW s \in Seq(Calendar!Event), Sorted(s), NEW e \in Calendar!Event
  PROVE  /\ Calendar!Inserted(s, Calendar!Place(s, e), e) \in Seq(Calendar!Event)
         /\ Sorted(Calendar!Inserted(s, Calendar!Place(s, e), e))
  <1>1. PICK n \in Nat : n = Len(s)
    BY LenProperties
  <1>2. DOMAIN s = 1..n /\ \A i \in 1..n : s[i] \in Calendar!Event /\ s[i].at \in Int
    <2>1. DOMAIN s = 1..n /\ \A i \in 1..n : s[i] \in Calendar!Event
      BY <1>1, LenProperties
    <2> QED
      BY <2>1, CalendarAssumption DEF Calendar!Event
  <1>3. e.at \in Int
    BY CalendarAssumption DEF Calendar!Event
  <1>4. PICK D : D = {i \in DOMAIN s : s[i].at < e.at}
    OBVIOUS
  <1>5. PICK k \in 0..n : Cardinality(D) = k /\ \A i \in 1..n : i \in D <=> i <= k
    <2>1. \A i \in D : i \in 1..n
      BY <1>2, <1>4
    <2>2. ASSUME NEW i \in D, NEW j \in 1..(i - 1) PROVE j \in D
      <3>1. i \in 1..n /\ j \in 1..n /\ j < i
        BY <2>1
      <3>2. s[j].at <= s[i].at
        BY <1>1, <3>1 DEF Sorted
      <3> QED
        BY <1>2, <1>3, <1>4, <3>1, <3>2
    <2> QED
      BY <2>1, <2>2, InitialSegment
  <1>6. Calendar!Place(s, e) = k + 1
    BY <1>4, <1>5 DEF Calendar!Place, Calendar!Cardinality, Cardinality
  <1>7. \A i \in 1..n : IF i <= k THEN s[i].at < e.at ELSE e.at <= s[i].at
    BY <1>2, <1>3, <1>4, <1>5
  <1>8. PICK a, c, m : a = SubSeq(s, 1, k) /\ c = SubSeq(s, k + 1, n) /\ m = a \o <<e>>
    OBVIOUS
  <1>9. PICK r : r = m \o c
    OBVIOUS
  <1>10. Calendar!Inserted(s, Calendar!Place(s, e), e) = r
    <2>1. (k + 1) - 1 = k
      OBVIOUS
    <2> QED
      BY <1>1, <1>6, <1>8, <1>9, <2>1 DEF Calendar!Inserted
  <1>11. /\ a \in Seq(Calendar!Event) /\ Len(a) = k /\ \A i \in 1..k : a[i] = s[i]
    BY <1>1, <1>2, <1>8, SubSeqProperties
  <1>12. /\ c \in Seq(Calendar!Event) /\ Len(c) = n - k /\ \A i \in 1..(n - k) : c[i] = s[k + i]
    BY <1>1, <1>2, <1>8, SubSeqProperties
  <1>13. /\ m \in Seq(Calendar!Event) /\ Len(m) = k + 1
         /\ \A i \in 1..k : m[i] = s[i]
         /\ m[k + 1] = e
    <2>1. <<e>> \in Seq(Calendar!Event) /\ Len(<<e>>) = 1 /\ <<e>>[1] = e
      OBVIOUS
    <2> QED
      BY <1>8, <1>11, <2>1, ConcatProperties
  <1>14. /\ r \in Seq(Calendar!Event) /\ Len(r) = n + 1
         /\ \A i \in 1..(k + 1) : r[i] = m[i]
         /\ \A i \in (k + 2)..(n + 1) : r[i] = s[i - 1]
    <2>0. PICK l : l = k + 1
      OBVIOUS
    <2>1. r \in Seq(Calendar!Event) /\ Len(r) = n + 1
          /\ \A i \in 1..(n + 1) : r[i] = IF i <= k + 1 THEN m[i] ELSE c[i - (k + 1)]
      <3>1. Len(m) = l /\ l + Len(c) = n + 1
        BY <1>12, <1>13, <2>0
      <3>2. r \in Seq(Calendar!Event) /\ Len(r) = n + 1
            /\ \A i \in 1..(n + 1) : r[i] = IF i <= l THEN m[i] ELSE c[i - l]
        BY <1>9, <1>12, <1>13, <3>1, ConcatProperties, SMTT(20)
      <3> QED
        BY <2>0, <3>2
    <2>2. ASSUME NEW i \in (k + 2)..(n + 1) PROVE r[i] = s[i - 1]
      <3>1. PICK q \in 1..(n - k) : q = i - (k + 1)
        OBVIOUS
      <3>0. i \in 1..(n + 1) /\ ~(i <= k + 1) /\ k + q = i - 1
        BY <3>1
      <3>2. r[i] = c[q] /\ k + q = i - 1
        BY <2>1, <3>0, <3>1
      <3> QED
        BY <1>12, <3>2
    <2> QED
      BY <2>1, <2>2
  <1>15. ASSUME NEW i \in 1..(n + 1)
         PROVE  \/ i <= k /\ i \in 1..n /\ r[i] = s[i]
                \/ i = k + 1 /\ r[i] = e
                \/ i > k + 1 /\ i - 1 \in 1..n /\ r[i] = s[i - 1]
    <2>1. i <= k \/ i = k + 1 \/ i \in (k + 2)..(n + 1)
      OBVIOUS
    <2> QED
      BY <1>13, <1>14, <2>1
  <1>16. ASSUME NEW i \in 1..(n + 1), NEW j \in 1..(n + 1), i < j
         PROVE  r[i].at <= r[j].at
    <2>0. \A x, y \in 1..n : x < y => s[x].at <= s[y].at
      BY <1>1 DEF Sorted
    <2>1. CASE i <= k
      <3>1. r[i] = s[i] /\ i \in 1..n /\ s[i].at < e.at
        BY <1>7, <1>15, <2>1
      <3>2. CASE j <= k
        BY <1>15, <1>16, <2>0, <3>1, <3>2
      <3>3. CASE j = k + 1
        BY <1>2, <1>3, <1>15, <3>1, <3>3
      <3>4. CASE j > k + 1
        <4>1. r[j] = s[j - 1] /\ j - 1 \in 1..n /\ i < j - 1
          BY <1>15, <2>1, <3>4
        <4> QED
          BY <2>0, <3>1, <4>1
      <3> QED
        BY <3>2, <3>3, <3>4
    <2>2. CASE i = k + 1
      <3>1. r[i] = e /\ r[j] = s[j - 1] /\ j - 1 \in 1..n /\ ~(j - 1 <= k)
        BY <1>15, <1>16, <2>2
      <3> QED
        BY <1>7, <3>1
    <2>3. CASE i > k + 1
      <3>1. r[i] = s[i - 1] /\ r[j] = s[j - 1] /\ i - 1 \in 1..n /\ j - 1 \in 1..n
            /\ i - 1 < j - 1
        BY <1>15, <1>16, <2>3
      <3> QED
        BY <2>0, <3>1
    <2> QED
      BY <2>1, <2>2, <2>3
  <1> QED
    BY <1>10, <1>14, <1>16 DEF Sorted

\* What prune keeps is still in order (event_calendar.py, prune).
LEMMA PruneKeepsOrder ==
  ASSUME CalendarInv, NEW t
  PROVE  Calendar!Kept(t) \in Seq(Calendar!Event) /\ Sorted(Calendar!Kept(t))
  <1>1. PICK S : S = Calendar!Event
    OBVIOUS
  <1>2. PICK keep : keep = {e \in S : e.at >= t}
    OBVIOUS
  <1>3. events \in Seq(S)
    BY <1>1 DEF CalendarInv
  <1>4. PICK n \in Nat : n = Len(events)
    BY <1>3, LenProperties
  <1>5. \A i \in 1..n : events[i] \in S /\ (events[i].at >= t <=> events[i] \in keep)
    BY <1>2, <1>3, <1>4, LenProperties
  <1> DEFINE F(f) == f = [k \in 0..Len(events) |->
                            IF k = 0 THEN <<>>
                            ELSE IF events[k].at >= t THEN Append(f[k - 1], events[k])
                            ELSE f[k - 1]]
  <1>6. ASSUME NEW f PROVE F(f) <=> Filters(f, events, keep)
    BY <1>4, <1>5 DEF Filters
  <1>7. PICK kept : F(kept) /\ Calendar!Kept(t) = kept[Len(events)]
    <2>1. \E f : F(f)
      BY <1>3, <1>6, FilterExists
    <2> HIDE DEF F
    <2>2. F(CHOOSE f : F(f))
      BY <2>1
    <2>3. Calendar!Kept(t) = (CHOOSE f : F(f))[Len(events)]
      BY DEF Calendar!Kept, F
    <2> QED
      BY <2>2, <2>3
  <1>8. Filters(kept, events, keep)
    BY <1>6, <1>7
  <1>9. PICK r : r = Calendar!Kept(t)
    OBVIOUS
  <1>10. r \in Seq(S) /\ \E h : SelectedBy(h, r, events, n, keep)
    <2>1. n \in 0..Len(events) /\ r = kept[n]
      BY <1>4, <1>7, <1>9
    <2> QED
      BY <1>3, <1>8, <2>1, FilterSelects
  <1>11. PICK h : SelectedBy(h, r, events, n, keep)
    BY <1>10
  <1>12. ASSUME NEW i \in 1..Len(r), NEW j \in 1..Len(r), i < j PROVE r[i].at <= r[j].at
    <2>1. h[i] \in 1..n /\ h[j] \in 1..n /\ h[i] < h[j]
      BY <1>11, <1>12 DEF SelectedBy
    <2>2. r[i] = events[h[i]] /\ r[j] = events[h[j]]
      BY <1>11 DEF SelectedBy
    <2> QED
      BY <1>4, <2>1, <2>2 DEF CalendarInv, Sorted
  <1> QED
    BY <1>1, <1>9, <1>10, <1>12 DEF Sorted

\* Wherever the bisection stops, in order or not, the next window starts at t
\* or later (event_calendar.py, active_event).
LEMMA BelowStops ==
  ASSUME CalendarInv, NEW t \in Int
  PROVE  /\ Calendar!Below(t) \in 0..Len(events)
         /\ Calendar!Below(t) < Len(events) =>
               Calendar!Start(events[Calendar!Below(t) + 1]) >= t
  <1>1. PICK N \in Nat : N = Len(events)
    BY LenProperties DEF CalendarInv
  <1>2. PICK starts \in [1..N -> Int] : \A i \in 1..N : starts[i] = Calendar!Start(events[i])
    <2>1. \A i \in 1..N : Calendar!Start(events[i]) \in Int
      <3> SUFFICES ASSUME NEW i \in 1..N PROVE Calendar!Start(events[i]) \in Int
        OBVIOUS
      <3>1. events[i] \in Calendar!Event
        BY <1>1, LenProperties DEF CalendarInv
      <3> QED
        BY <3>1, WindowTypes
    <2>2. [i \in 1..N |-> Calendar!Start(events[i])] \in [1..N -> Int]
      BY <2>1
    <2> QED
      BY <2>2
  <1> DEFINE D == (0..N) \X (0..N)
             Mid(p) == (p[1] + p[2]) \div 2
             Nearer(p) == IF p[1] >= p[2] THEN p
                          ELSE IF starts[Mid(p) + 1] < t THEN <<Mid(p) + 1, p[2]>>
                          ELSE <<p[1], Mid(p)>>
             Gap(p) == IF p[1] >= p[2] THEN 0 ELSE p[2] - p[1]
             stop == {p \in D : p[1] >= p[2]}
             Search(f) == \A lo, hi \in 0..N :
                            f[<<lo, hi>>] = IF lo >= hi THEN lo
                                            ELSE IF starts[((lo + hi) \div 2) + 1] < t
                                            THEN f[<<((lo + hi) \div 2) + 1, hi>>]
                                            ELSE f[<<lo, (lo + hi) \div 2>>]
  <1>4. ASSUME NEW p \in D
        PROVE  /\ Nearer(p) \in D /\ Gap(p) \in 0..N /\ p[1] \in 0..N
               /\ p \notin stop => Gap(Nearer(p)) < Gap(p)
    <2>1. PICK lo, hi \in 0..N : p = <<lo, hi>>
      OBVIOUS
    <2>2. CASE lo >= hi
      BY <2>1, <2>2
    <2>3. CASE lo < hi
      <3>1. PICK mid \in 0..(N - 1) : mid = Mid(p) /\ lo <= mid /\ mid < hi
        BY <2>1, <2>3
      <3> QED
        BY <2>1, <2>3, <3>1
    <2> QED
      BY <2>1, <2>2, <2>3
  <1>5. \E f \in [D -> 0..N] : Search(f)
    <2>1. PICK E, V, m, S, val, next :
             /\ E = D /\ V = 0..N /\ m = [p \in D |-> Gap(p)] /\ S = stop
             /\ val = [p \in D |-> p[1]] /\ next = [p \in D |-> Nearer(p)]
      OBVIOUS
    <2>2. /\ m \in [E -> 0..N] /\ val \in [E -> V] /\ next \in [E -> E]
          /\ \A p \in E : p \notin S => m[next[p]] < m[p]
      <3>1. \A p \in D : Nearer(p) \in D /\ Gap(p) \in 0..N /\ p[1] \in 0..N
        BY <1>4
      <3>2. \A p \in D : p \notin stop => Gap(Nearer(p)) < Gap(p)
        BY <1>4
      <3> HIDE DEF D, Nearer, Gap, stop
      <3> QED
        BY <2>1, <3>1, <3>2
    <2>3. PICK f \in [E -> V] : PassesOn(f, E, S, val, next)
      <3> HIDE DEF D, Nearer, Gap, stop
      <3> QED
        BY <1>1, <2>2, RecursionDown
    <2>4. ASSUME NEW lo \in 0..N, NEW hi \in 0..N
          PROVE  f[<<lo, hi>>] = IF lo >= hi THEN lo
                                 ELSE IF starts[((lo + hi) \div 2) + 1] < t
                                 THEN f[<<((lo + hi) \div 2) + 1, hi>>]
                                 ELSE f[<<lo, (lo + hi) \div 2>>]
      <3>1. PICK p \in D : p = <<lo, hi>>
        OBVIOUS
      <3>2. f[p] = IF p \in stop THEN p[1] ELSE f[Nearer(p)]
        <4> HIDE DEF D, Nearer, stop
        <4> QED
          BY <2>1, <2>3 DEF PassesOn
      <3> QED
        BY <3>1, <3>2
    <2> QED
      BY <2>1, <2>3, <2>4
  <1>6. PICK f : Search(f) /\ Calendar!Below(t) = f[<<0, N>>]
    <2> DEFINE F(f) == f = [range \in (0..Len(events)) \X (0..Len(events)) |->
                              IF range[1] >= range[2] THEN range[1]
                              ELSE IF Calendar!Start(events[((range[1] + range[2]) \div 2) + 1]) < t
                              THEN f[<<((range[1] + range[2]) \div 2) + 1, range[2]>>]
                              ELSE f[<<range[1], (range[1] + range[2]) \div 2>>]]
               G(f) == \A lo, hi \in 0..N :
                          f[<<lo, hi>>] = IF lo >= hi THEN lo
                                          ELSE IF Calendar!Start(events[((lo + hi) \div 2) + 1]) < t
                                          THEN f[<<((lo + hi) \div 2) + 1, hi>>]
                                          ELSE f[<<lo, (lo + hi) \div 2>>]
    <2>1. ASSUME NEW f, F(f) PROVE G(f)
      BY <1>1, <2>1
    <2>2. ASSUME NEW f PROVE G(f) <=> Search(f)
      <3>1. ASSUME NEW lo \in 0..N, NEW hi \in 0..N
            PROVE  (IF lo >= hi THEN lo
                    ELSE IF starts[((lo + hi) \div 2) + 1] < t
                    THEN f[<<((lo + hi) \div 2) + 1, hi>>]
                    ELSE f[<<lo, (lo + hi) \div 2>>])
                 = (IF lo >= hi THEN lo
                    ELSE IF Calendar!Start(events[((lo + hi) \div 2) + 1]) < t
                    THEN f[<<((lo + hi) \div 2) + 1, hi>>]
                    ELSE f[<<lo, (lo + hi) \div 2>>])
        <4>1. CASE lo < hi
          <5>1. PICK mid \in 1..N : mid = ((lo + hi) \div 2) + 1
            BY <4>1
          <5>2. starts[mid] = Calendar!Start(events[mid])
            BY <1>2
          <5> QED
            BY <5>1, <5>2
        <4> QED
          BY <4>1
      <3>2. ASSUME NEW lo \in 0..N, NEW hi \in 0..N, NEW x, NEW y, x = y
            PROVE  f[<<lo, hi>>] = x <=> f[<<lo, hi>>] = y
        BY <3>2
      <3> QED
        BY <3>1
    <2>3. ASSUME NEW f \in [D -> 0..N], G(f) PROVE F(f)
      <3>1. ASSUME NEW range \in (0..Len(events)) \X (0..Len(events))
            PROVE  f[range] = IF range[1] >= range[2] THEN range[1]
                              ELSE IF Calendar!Start(events[((range[1] + range[2]) \div 2) + 1]) < t
                              THEN f[<<((range[1] + range[2]) \div 2) + 1, range[2]>>]
                              ELSE f[<<range[1], (range[1] + range[2]) \div 2>>]
        <4>1. PICK lo, hi \in 0..N : range = <<lo, hi>>
          BY <1>1
        <4> QED
          BY <2>3, <4>1
      <3>2. f = [range \in (0..Len(events)) \X (0..Len(events)) |-> f[range]]
        BY <1>1
      <3> QED
        BY <3>1, <3>2
    <2>4. PICK f : F(f)
      <3> HIDE DEF F, G
      <3> QED
        BY <1>5, <2>2, <2>3
    <2>5. Calendar!Below(t) = (CHOOSE g : F(g))[<<0, Len(events)>>]
      BY DEF Calendar!Below, F
    <2> HIDE DEF F, G, Search
    <2>6. F(CHOOSE g : F(g))
      BY <2>4
    <2>7. Search(CHOOSE g : F(g))
      BY <2>1, <2>2, <2>6
    <2> QED
      BY <1>1, <2>5, <2>7
  <1> DEFINE Found(lo, hi) == f[<<lo, hi>>]
             Right(lo, hi, r) == /\ lo <= r /\ r <= hi /\ r \in 0..N
                                 /\ r < hi => starts[r + 1] >= t
             Good(w) == \A lo, hi \in 0..N : lo <= hi /\ hi - lo <= w =>
                                                Right(lo, hi, Found(lo, hi))
             P == {w \in 0..N : Good(w)}
  <1>7. /\ \A lo, hi \in 0..N :
              Found(lo, hi) = IF lo >= hi THEN lo
                              ELSE IF starts[((lo + hi) \div 2) + 1] < t
                              THEN Found(((lo + hi) \div 2) + 1, hi)
                              ELSE Found(lo, (lo + hi) \div 2)
        /\ Calendar!Below(t) = Found(0, N)
    BY <1>6
  <1> HIDE DEF Found, Search, D, Nearer, Gap, stop
  <1>12. Good(0)
    <2> SUFFICES ASSUME NEW lo \in 0..N, NEW hi \in 0..N, lo = hi
                 PROVE  Right(lo, hi, Found(lo, hi))
      OBVIOUS
    <2>1. Found(lo, hi) = lo
      BY <1>7
    <2> QED
      BY <2>1
  <1>8. ASSUME NEW w \in 0..(N - 1), Good(w) PROVE Good(w + 1)
    <2> SUFFICES ASSUME NEW lo \in 0..N, NEW hi \in 0..N, lo <= hi, hi - lo <= w + 1
                 PROVE  Right(lo, hi, Found(lo, hi))
      OBVIOUS
    <2>1. CASE lo = hi
      <3>1. Found(lo, hi) = lo
        BY <1>7, <2>1
      <3> QED
        BY <2>1, <3>1
    <2>2. CASE lo < hi
      <3>1. PICK mid \in 1..N : /\ mid = ((lo + hi) \div 2) + 1 /\ mid - 1 = (lo + hi) \div 2
                                /\ mid - 1 \in 0..N /\ lo < mid /\ mid <= hi
                                /\ hi - mid <= w /\ (mid - 1) - lo <= w
        BY <2>2
      <3>2. Found(lo, hi) = IF starts[mid] < t THEN Found(mid, hi) ELSE Found(lo, mid - 1)
        BY <1>7, <2>2, <3>1
      <3>3. CASE starts[mid] < t
        <4>1. Right(mid, hi, Found(mid, hi))
          BY <1>8, <3>1
        <4>2. PICK r : r = Found(lo, hi) /\ r = Found(mid, hi)
          BY <3>2, <3>3
        <4>3. mid <= r /\ r <= hi /\ r \in 0..N /\ (r < hi => starts[r + 1] >= t)
          BY <4>1, <4>2
        <4>4. lo <= r
          BY <3>1, <4>3
        <4> QED
          BY <4>2, <4>3, <4>4
      <3>4. CASE ~(starts[mid] < t)
        <4>1. Right(lo, mid - 1, Found(lo, mid - 1))
          BY <1>8, <3>1
        <4>2. starts[mid] \in Int /\ Found(lo, hi) = Found(lo, mid - 1)
          BY <1>2, <3>1, <3>2, <3>4
        <4>3. PICK r : r = Found(lo, hi)
          OBVIOUS
        <4>4. lo <= r /\ r <= mid - 1 /\ r \in 0..N /\ (r < mid - 1 => starts[r + 1] >= t)
          BY <4>1, <4>2, <4>3
        <4>5. r <= hi /\ (r < hi => starts[r + 1] >= t)
          BY <3>1, <3>4, <4>2, <4>4
        <4> QED
          BY <4>3, <4>4, <4>5
      <3> QED
        BY <3>3, <3>4
    <2> QED
      BY <2>1, <2>2
  <1>9. Good(N)
    <2> HIDE DEF Good
    <2>1. PICK Q : Q = P
      OBVIOUS
    <2>2. 0 \in Q
      BY <1>12, <2>1
    <2>3. ASSUME NEW w \in 0..(N - 1), w \in Q PROVE w + 1 \in Q
      BY <1>8, <2>1, <2>3
    <2>4. N \in Q
      <3> HIDE DEF P
      <3> QED
        BY <2>2, <2>3, InductionTo
    <2> QED
      BY <2>1, <2>4
  <1>10. Right(0, N, Found(0, N))
    BY <1>9
  <1>11. /\ Calendar!Below(t) \in 0..N
         /\ Calendar!Below(t) < N => starts[Calendar!Below(t) + 1] >= t
    BY <1>7, <1>10
  <1> QED
    BY <1>1, <1>2, <1>11

\* The scan meets a window that covers now, or one that starts now in front of
\* it, before an event that ended a day ago (event_calendar.py, active_event).
LEMMA CoveredIsFound ==
  ASSUME CalendarInv PROVE Calendar!BlackoutFound
  <1>1. PICK N \in Nat : N = Len(events)
    BY LenProperties DEF CalendarInv
  <1>2. /\ DOMAIN events = 1..N /\ now \in Int
        /\ \A i \in 1..N : events[i] \in Calendar!Event
        /\ \A i, j \in 1..N : i < j => events[i].at <= events[j].at
    BY <1>1, LenProperties, CalendarAssumption DEF CalendarInv, Sorted
  <1>3. PICK B \in 0..N : /\ B = Calendar!Below(now)
                          /\ B < N => Calendar!Start(events[B + 1]) >= now
    BY <1>1, <1>2, BelowStops
  <1>4. PICK F : F = Calendar!ScanFrom(now)
    OBVIOUS
  <1>5. F = IF B < N THEN B + 1 ELSE N
    BY <1>1, <1>3, <1>4 DEF Calendar!ScanFrom
  <1>6. F \in 0..N
    BY <1>5
  <1>7. Calendar!IsBlackout(now) <=>
           \E i \in 1..F : /\ Calendar!Covers(events[i], now)
                           /\ \A k \in (i + 1)..F : Calendar!End(events[k]) >= now - Horizon
    BY <1>4 DEF Calendar!IsBlackout
  <1>8. ASSUME NEW i \in 1..N, Calendar!Covers(events[i], now),
               \A k \in 1..(i - 1) : Calendar!Start(events[k]) <= now
        PROVE  Calendar!IsBlackout(now)
    <2>1. /\ Calendar!Start(events[i]) <= now /\ now <= Calendar!End(events[i])
          /\ Calendar!Start(events[i]) \in Int /\ Calendar!End(events[i]) \in Int
      BY <1>2, <1>8, WindowTypes DEF Calendar!Covers
    <2>2. CASE i <= F
      <3>1. ASSUME NEW k \in (i + 1)..F PROVE Calendar!End(events[k]) >= now - Horizon
        <4>1. k \in 1..N /\ i < k
          BY <1>6
        <4>2. events[i].at <= events[k].at
          BY <1>2, <4>1
        <4>3. PICK a, b \in Nat : a = After[events[i].impact] /\ b = After[events[k].impact]
          BY <1>2, <4>1, WindowTypes
        <4>4. /\ Calendar!End(events[i]) = events[i].at + a /\ events[i].at \in Int
              /\ Calendar!End(events[k]) = events[k].at + b /\ events[k].at \in Int
              /\ events[i].impact \in Impacts /\ events[k].impact \in Impacts
          BY <1>2, <4>1, <4>3, WindowTypes
        <4>5. a <= b + Horizon /\ Horizon \in Nat
          BY <4>3, <4>4, CalendarAssumption
        <4> QED
          BY <1>2, <2>1, <4>2, <4>4, <4>5, SMTT(20)
      <3>2. i \in 1..F
        BY <1>6, <2>2
      <3> QED
        BY <1>7, <1>8, <3>1, <3>2
    <2>3. CASE F < i
      <3>1. B < N /\ F = B + 1 /\ F \in 1..N /\ F \in 1..(i - 1)
        BY <1>5, <2>3
      <3>2. Calendar!Start(events[F]) <= now
        BY <1>8, <3>1
      <3>3. Calendar!Start(events[F]) >= now
        BY <1>3, <3>1
      <3>4. Calendar!Covers(events[F], now)
        <4>1. /\ Calendar!Start(events[F]) \in Int /\ Calendar!End(events[F]) \in Int
              /\ Calendar!Start(events[F]) <= Calendar!End(events[F])
          BY <1>2, <3>1, WindowTypes
        <4> QED
          BY <1>2, <3>2, <3>3, <4>1 DEF Calendar!Covers
      <3>5. F \in 1..F /\ (F + 1)..F = {}
        BY <3>1
      <3> QED
        BY <1>7, <3>4, <3>5
    <2> QED
      BY <1>6, <2>2, <2>3
  <1>9. Calendar!IsBlackout(now) => \E i \in 1..N : Calendar!Covers(events[i], now)
    <2>1. \A i \in 1..F : i \in 1..N
      BY <1>6
    <2> QED
      BY <1>7, <2>1
  <1> QED
    BY <1>2, <1>8, <1>9 DEF Calendar!BlackoutFound

(***************************************************************************)
(* No blackout is called without a window, and a window that covers the    *)
(* moment is missed only past an earlier event whose window starts after   *)
(* it: in whatever order the windows start, at both ends of a window and   *)
(* through overlaps, additions and pruning, where none lasts longer than   *)
(* the day the scan looks past (event_calendar.py, active_event, add,      *)
(* prune).                                                                 *)
(***************************************************************************)
THEOREM BlackoutAnswers == OfflineSpec => []BlackoutFound
  <1> DEFINE I == part = "calendar" => CalendarInv
  <1>1. OfflineInit => I
    <2> SUFFICES ASSUME part = "calendar", Calendar!Init PROVE CalendarInv
      BY DEF OfflineInit
    <2>1. << >> \in Seq(Calendar!Event) /\ Len(<< >>) = 0
      OBVIOUS
    <2> QED
      BY <2>1 DEF Calendar!Init, CalendarInv, Sorted
  <1>2. I /\ [OfflineNext]_offlineVars => I'
    <2> SUFFICES ASSUME I, [OfflineNext]_offlineVars, part' = "calendar" PROVE CalendarInv'
      OBVIOUS
    <2>1. CalendarInv /\ (Calendar!Next \/ UNCHANGED Calendar!calVars)
      BY DEF OfflineNext, offlineVars, calendarGroup, Calendar!calVars
    <2>2. ASSUME NEW e \in Calendar!Event, Calendar!Add(e) PROVE CalendarInv'
      BY <2>1, <2>2, AddKeepsOrder DEF Calendar!Add, CalendarInv
    <2>3. ASSUME NEW t \in Times, Calendar!Prune(t) PROVE CalendarInv'
      BY <2>1, <2>3, PruneKeepsOrder DEF Calendar!Prune, CalendarInv
    <2>4. ASSUME NEW t \in Times, Calendar!Ask(t) PROVE CalendarInv'
      BY <2>1, <2>4 DEF Calendar!Ask, CalendarInv, Sorted
    <2>5. CASE UNCHANGED Calendar!calVars
      BY <2>1, <2>5 DEF Calendar!calVars, CalendarInv, Sorted
    <2> QED
      BY <2>1, <2>2, <2>3, <2>4, <2>5 DEF Calendar!Next
  <1>3. I => BlackoutFound
    BY CoveredIsFound DEF BlackoutFound
  <1> QED
    BY <1>1, <1>2, <1>3, PTL DEF OfflineSpec

----------------------------------------------------------------------------
(* The breakout entry of ftmo-bot. *)

DayRecords == [today : BOOLEAN, ranged : BOOLEAN, done : BOOLEAN]

\* Bar k of the tape t decides the session, if nothing before it did.
Deciding(t, news, k) ==
    /\ Entry!Today(k) /\ ~Entry!InRange(k)
    /\ t[k].side # 0
    /\ ~Entry!Blocked(news, k)

First(t, news, k) ==
    /\ k \in 1..Len(t)
    /\ Deciding(t, news, k)
    /\ \A j \in FirstBar..(k - 1) : ~Deciding(t, news, j)

\* What a strategy fed up to bar k of the day knows of it.
Knows(d, t, news, k) ==
    /\ d.today /\ d.ranged
    /\ \A j \in FirstBar..k : Deciding(t, news, j) => d.done

\* Yesterday's bars and those of the range break out of nothing, and a pass of
\* a new process sees the whole day.
TapeInv ==
    /\ tape \in Seq(Entry!Bars)
    /\ Len(tape) >= FirstBar - 1 /\ Len(tape) < FirstBar + Lookback
    /\ \A i \in 1..Len(tape) : ~Entry!Today(i) \/ Entry!InRange(i) => tape[i].side = 0

RunnerInv ==
    /\ published \subseteq EventTimes /\ cache \subseteq EventTimes
    /\ process \in [up : BOOLEAN, news : SUBSET EventTimes, last : Nat, day : DayRecords]
    /\ process.last <= Len(tape)
    /\ process.last >= FirstBar => Knows(process.day, tape, process.news, process.last)
    /\ IsFiniteSet(calendars)
    /\ process.up => process.news \in calendars

\* An entry on side s is one that some calendar of cals decided.
Decided(s, cals, t) ==
    \E news \in cals, k \in 1..Len(t) : First(t, news, k) /\ t[k].side = s

\* Every entry has its key, and was made on the first deciding bar of the
\* calendar its process had read.
EntryInv ==
    /\ keys \subseteq Entry!Sides
    /\ entries \in [Entry!Sides -> 0..1]
    /\ \A s \in Entry!Sides : entries[s] > 0 => s \in keys /\ Decided(s, calendars, tape)

BreakoutInv == TapeInv /\ RunnerInv /\ EntryInv

\* The later of two positions (runner.py, completed_bars' count).
LEMMA LaterOfTwo == \A a, b \in Int : Entry!Max({a, b}) = IF a >= b THEN a ELSE b
  BY DEF Entry!Max

\* A bar has a side (strategy/asian_breakout.py, on_bar).
LEMMA BarTypes == \A b \in Entry!Bars : b.side \in {0, 1, -1}
  BY DEF Entry!Bars, Entry!Quiet, Entry!Sides

\* A bar that decides the day leaves it decided, and the range is seen on its
\* first bar (asian_breakout.py, on_bar).
LEMMA OnBarKnows ==
  ASSUME NEW d \in DayRecords, NEW news, NEW k \in Int
  PROVE  /\ Entry!OnBar(d, news, k) \in DayRecords
         /\ k = FirstBar => Knows(Entry!OnBar(d, news, k), tape, news, k)
         /\ k > FirstBar /\ Knows(d, tape, news, k - 1) =>
               Knows(Entry!OnBar(d, news, k), tape, news, k)
  <1> DEFINE o == Entry!DayOf(d, k)
             n == Entry!OnBar(d, news, k)
  <1>1. o \in DayRecords /\ o.today = Entry!Today(k) /\ (d.today = Entry!Today(k) => o = d)
    BY DEF Entry!DayOf, Entry!NewDay, DayRecords, Entry!Today
  <1>2. Entry!InRange(k) \in BOOLEAN /\ Entry!Decides(d, news, k) \in BOOLEAN
    BY DEF Entry!InRange, Entry!Decides, Entry!Today
  <1>3. /\ n \in DayRecords
        /\ n.today = o.today
        /\ n.ranged = (o.ranged \/ Entry!InRange(k))
        /\ n.done = (o.done \/ Entry!Decides(d, news, k))
    <2> HIDE DEF o
    <2>1. n = [o EXCEPT !.ranged = @ \/ Entry!InRange(k),
                        !.done = @ \/ Entry!Decides(d, news, k)]
      BY DEF Entry!OnBar, o
    <2> HIDE DEF n
    <2> QED
      BY <1>1, <1>2, <2>1 DEF DayRecords
  <1>4. FirstBar \in Nat /\ RangeBars \in Nat /\ RangeBars > 0
    BY BreakoutAssumption
  <1> HIDE DEF o, n
  <1>5. ASSUME k = FirstBar PROVE Knows(n, tape, news, k)
    <2>1. Entry!Today(k) /\ Entry!InRange(k)
      BY <1>4, <1>5 DEF Entry!Today, Entry!InRange
    <2>2. \A j \in FirstBar..k : j = k
      BY <1>5
    <2> QED
      BY <1>1, <1>3, <2>1, <2>2 DEF Knows, Deciding
  <1>6. ASSUME k > FirstBar, Knows(d, tape, news, k - 1) PROVE Knows(n, tape, news, k)
    <2>1. Entry!Today(k) /\ d.today = Entry!Today(k)
      <3>1. Entry!Today(k) = TRUE
        BY <1>4, <1>6 DEF Entry!Today
      <3>2. d.today = TRUE
        BY <1>6 DEF Knows, DayRecords
      <3> QED
        BY <3>1, <3>2
    <2>2. o = d
      BY <1>1, <2>1
    <2>3. n.today /\ n.ranged /\ (d.done => n.done)
      BY <1>3, <1>6, <2>1, <2>2 DEF Knows
    <2>4. Deciding(tape, news, k) => n.done
      BY <1>3, <1>6, <2>2 DEF Deciding, Knows, Entry!Decides, o
    <2>5. \A j \in FirstBar..k : j = k \/ j \in FirstBar..(k - 1)
      BY <1>4
    <2> QED
      BY <1>6, <2>3, <2>4, <2>5 DEF Knows
  <1> QED
    BY <1>3, <1>5, <1>6 DEF n

\* A pass, whatever day it starts from, knows what the bars it saw decided: a
\* new process replays the day to the same decision (runner.py, _process_bars).
LEMMA PassKnows ==
  ASSUME TapeInv, RunnerInv
  PROVE  /\ Entry!FirstFed \in Nat /\ Entry!FirstFed > 0 /\ Entry!FirstFed - 1 <= Len(tape)
         /\ \A k \in (Entry!FirstFed - 1)..Len(tape) :
               /\ Entry!DayAfter(k) \in DayRecords
               /\ k >= FirstBar => Knows(Entry!DayAfter(k), tape, process.news, k)
  <1>1. PICK N \in Nat : N = Len(tape)
    BY LenProperties DEF TapeInv
  <1>2. FirstBar \in Nat /\ FirstBar > 0 /\ Lookback \in Nat
    BY BreakoutAssumption
  <1>3. PICK a \in Nat : /\ a = Entry!FirstFed - 1 /\ Entry!FirstFed = a + 1 /\ a <= N
                         /\ a >= FirstBar => a = process.last
    <2>1. process.last \in Nat /\ process.last <= N /\ N < FirstBar + Lookback
      BY <1>1 DEF TapeInv, RunnerInv
    <2>2. Entry!FirstFed = IF process.last = 0
                           THEN IF 1 >= N - Lookback + 1 THEN 1 ELSE N - Lookback + 1
                           ELSE process.last + 1
      BY <1>1, <1>2, LaterOfTwo DEF Entry!FirstFed
    <2> QED
      BY <1>2, <2>1, <2>2
  <1>4. PICK d, news : d = process.day /\ news = process.news
    OBVIOUS
  <1>5. d \in DayRecords /\ (a >= FirstBar => Knows(d, tape, news, a))
    BY <1>3, <1>4 DEF RunnerInv
  <1> DEFINE F(f) == f = [k \in Entry!FirstFed - 1..Len(tape) |->
                            IF k = Entry!FirstFed - 1 THEN process.day
                            ELSE Entry!OnBar(f[k - 1], process.news, k)]
             Replays(f) == \A k \in a..N : f[k] = IF k = a THEN d ELSE Entry!OnBar(f[k - 1], news, k)
  <1>6. ASSUME NEW f, F(f) PROVE Replays(f)
    BY <1>1, <1>3, <1>4, <1>6
  <1>7. \E f : F(f)
    <2>1. PICK S, step : /\ S = DayRecords
                         /\ step = [p \in (a..N) \X DayRecords |-> Entry!OnBar(p[2], news, p[1])]
      OBVIOUS
    <2>2. step \in [(a..N) \X S -> S]
      <3>1. ASSUME NEW p \in (a..N) \X DayRecords PROVE Entry!OnBar(p[2], news, p[1]) \in DayRecords
        <4>1. p[1] \in Int /\ p[2] \in DayRecords
          BY <1>1, <1>3
        <4> QED
          BY <4>1, OnBarKnows
      <3> QED
        BY <2>1, <3>1
    <2>3. PICK f \in [a..N -> S] : Follows(f, a, N, d, step)
      <3>1. a \in Int /\ N \in Int /\ d \in S
        BY <1>1, <1>3, <1>5, <2>1
      <3> QED
        BY <2>2, <3>1, RecursionAlong
    <2>4. ASSUME NEW k \in Entry!FirstFed - 1..Len(tape)
          PROVE  f[k] = IF k = Entry!FirstFed - 1 THEN process.day
                        ELSE Entry!OnBar(f[k - 1], process.news, k)
      <3>1. k \in a..N /\ (k # a => k - 1 \in a..N)
        BY <1>1, <1>3
      <3>2. f[k] = IF k = a THEN d ELSE step[<<k, f[k - 1]>>]
        BY <2>3, <3>1 DEF Follows
      <3>3. k # a => step[<<k, f[k - 1]>>] = Entry!OnBar(f[k - 1], news, k)
        <4>1. k # a => <<k, f[k - 1]>> \in (a..N) \X DayRecords
          BY <2>1, <3>1
        <4> QED
          BY <2>1, <4>1
      <3> QED
        BY <1>3, <1>4, <3>2, <3>3
    <2>5. f = [k \in Entry!FirstFed - 1..Len(tape) |-> f[k]]
      BY <1>1, <1>3, <2>3
    <2> QED
      BY <2>4, <2>5
  <1>8. PICK f : Replays(f) /\ \A k : Entry!DayAfter(k) = f[k]
    <2> HIDE DEF F, Replays
    <2>1. F(CHOOSE f : F(f))
      BY <1>7
    <2>2. \A k : Entry!DayAfter(k) = (CHOOSE f : F(f))[k]
      BY DEF Entry!DayAfter, F
    <2> QED
      BY <1>6, <2>1, <2>2
  <1> DEFINE Good(k) == f[k] \in DayRecords /\ (k >= FirstBar => Knows(f[k], tape, news, k))
             P == {k \in a..N : Good(k)}
  <1>9. Good(a)
    <2>1. f[a] = d
      BY <1>1, <1>3, <1>8
    <2> QED
      BY <1>5, <2>1
  <1>10. ASSUME NEW k \in a..(N - 1), Good(k) PROVE Good(k + 1)
    <2>1. PICK m \in a..N : m = k + 1 /\ k = m - 1 /\ m # a
      BY <1>1, <1>3
    <2>2. f[m] = Entry!OnBar(f[m - 1], news, m)
      BY <1>8, <2>1
    <2>3. m \in Int /\ (m >= FirstBar => m = FirstBar \/ (m > FirstBar /\ m - 1 >= FirstBar))
      BY <1>1, <1>2, <1>3
    <2>4. f[m - 1] \in DayRecords /\ (m - 1 >= FirstBar => Knows(f[m - 1], tape, news, m - 1))
      BY <1>10, <2>1
    <2>5. Good(m)
      BY <2>2, <2>3, <2>4, OnBarKnows
    <2> QED
      BY <2>1, <2>5
  <1>11. \A k \in a..N : Good(k)
    <2> HIDE DEF Good
    <2>1. PICK Q : Q = P
      OBVIOUS
    <2>2. a \in Q
      BY <1>1, <1>3, <1>9, <2>1
    <2>3. \A k \in a..(N - 1) : k \in Q => k + 1 \in Q
      <3> SUFFICES ASSUME NEW k \in a..(N - 1), k \in Q PROVE k + 1 \in Q
        OBVIOUS
      <3>1. k + 1 \in a..N
        BY <1>1, <1>3
      <3> QED
        BY <1>10, <2>1, <3>1
    <2>4. \A k \in a..N : k \in Q
      <3> HIDE DEF P
      <3>1. a \in Int /\ N \in Int
        BY <1>1, <1>3
      <3> QED
        BY <2>2, <2>3, <3>1, Induction
    <2> QED
      BY <2>1, <2>4
  <1> QED
    BY <1>1, <1>3, <1>4, <1>8, <1>11

\* A signal is on the first bar that decides the day of its calendar.
LEMMA SignalIsFirst ==
  ASSUME TapeInv, RunnerInv, Entry!Signals
  PROVE  /\ First(tape, process.news, Len(tape))
         /\ tape[Len(tape)].side \in Entry!Sides
  <1>1. PICK N \in Nat : N = Len(tape)
    BY LenProperties DEF TapeInv
  <1>2. FirstBar \in Nat /\ FirstBar > 0 /\ RangeBars \in Nat /\ RangeBars > 0
    BY BreakoutAssumption
  <1>3. PICK a \in Nat : /\ a = Entry!FirstFed - 1 /\ Entry!FirstFed = a + 1 /\ a < N
                         /\ \A k \in a..N : /\ Entry!DayAfter(k) \in DayRecords
                                            /\ k >= FirstBar =>
                                                  Knows(Entry!DayAfter(k), tape, process.news, k)
    <2>1. Entry!FirstFed <= N
      BY <1>1 DEF Entry!Signals
    <2> QED
      BY <1>1, <2>1, PassKnows
  <1>4. PICK m \in Nat : m = N - 1 /\ m \in a..N /\ N \in 1..N
    BY <1>1, <1>3
  <1>5. PICK d, news : d = Entry!DayAfter(m) /\ news = process.news
    OBVIOUS
  <1>6. Entry!Decides(d, news, N)
    BY <1>1, <1>4, <1>5 DEF Entry!Signals
  <1>7. tape[N].side \in {0, 1, -1} /\ tape[N].side # 0
    BY <1>1, <1>4, <1>6, BarTypes, LenProperties DEF TapeInv, Entry!Decides
  <1>8. Entry!Today(N) /\ ~Entry!InRange(N)
    BY <1>1, <1>4, <1>7 DEF TapeInv
  <1>9. m >= FirstBar
    BY <1>2, <1>4, <1>8 DEF Entry!Today, Entry!InRange
  <1>10. d \in DayRecords /\ Knows(d, tape, news, m)
    BY <1>3, <1>4, <1>5, <1>9
  <1>11. ~d.done
    <2>1. d.today = Entry!Today(N)
      BY <1>8, <1>10 DEF Knows, DayRecords, Entry!Today
    <2> QED
      BY <1>6, <2>1 DEF Entry!Decides, Entry!DayOf
  <1>12. \A j \in FirstBar..m : ~Deciding(tape, news, j)
    BY <1>10, <1>11 DEF Knows
  <1>13. Deciding(tape, news, N)
    BY <1>6, <1>7, <1>8 DEF Deciding, Entry!Decides
  <1> QED
    BY <1>1, <1>4, <1>5, <1>7, <1>12, <1>13 DEF First, Entry!Sides

\* The end of a pass, whether it raised or not, leaves a day that knows the
\* bars it will not see again.
LEMMA FedKeepsDay ==
  ASSUME TapeInv, RunnerInv, NEW raised \in BOOLEAN, Entry!Fed(raised), UNCHANGED tape
  PROVE  /\ process' \in [up : BOOLEAN, news : SUBSET EventTimes, last : Nat, day : DayRecords]
         /\ process'.up = process.up /\ process'.news = process.news
         /\ process'.last <= Len(tape)
         /\ process'.last >= FirstBar =>
               Knows(process'.day, tape, process.news, process'.last)
  <1>1. PICK N \in Nat : N = Len(tape)
    BY LenProperties DEF TapeInv
  <1>2. PICK d : d = Entry!DayAfter(N)
    OBVIOUS
  <1>3. d \in DayRecords /\ (N >= FirstBar => Knows(d, tape, process.news, N))
    BY <1>1, <1>2, PassKnows
  <1>4. PICK q : q = process
    OBVIOUS
  <1>5. /\ q \in [up : BOOLEAN, news : SUBSET EventTimes, last : Nat, day : DayRecords]
        /\ q.last <= N
    BY <1>1, <1>4 DEF RunnerInv
  <1>6. process' = [q EXCEPT !.day = d, !.last = IF raised THEN @ ELSE N]
    BY <1>1, <1>2, <1>4 DEF Entry!Fed
  <1>7. /\ process' \in [up : BOOLEAN, news : SUBSET EventTimes, last : Nat, day : DayRecords]
        /\ process'.up = q.up /\ process'.news = q.news
        /\ process'.day = d
        /\ process'.last = IF raised THEN q.last ELSE N
    BY <1>3, <1>5, <1>6
  <1>8. ASSUME NEW l \in Nat, l <= N, l >= FirstBar PROVE Knows(d, tape, process.news, l)
    <2>1. N >= FirstBar /\ \A j \in FirstBar..l : j \in FirstBar..N
      BY <1>8, BreakoutAssumption
    <2> QED
      BY <1>3, <2>1 DEF Knows
  <1> QED
    BY <1>1, <1>4, <1>5, <1>7, <1>8

\* Another bar changes nothing of what the earlier ones decided.
LEMMA BarKeepsHistory ==
  ASSUME TapeInv, NEW b, NEW t, t = Append(tape, b), NEW news, NEW k
  PROVE  /\ k \in 1..Len(tape) => /\ Deciding(t, news, k) <=> Deciding(tape, news, k)
                                  /\ First(tape, news, k) => First(t, news, k)
         /\ k <= Len(tape) /\ k \in Nat => \A d : Knows(d, tape, news, k) => Knows(d, t, news, k)
  <1>1. PICK N \in Nat : N = Len(tape)
    BY LenProperties DEF TapeInv
  <1>2. Len(t) = N + 1 /\ \A i \in 1..N : t[i] = tape[i]
    BY <1>1, AppendProperties DEF TapeInv
  <1>3. \A i \in 1..N : Deciding(t, news, i) <=> Deciding(tape, news, i)
    BY <1>2 DEF Deciding
  <1>4. FirstBar \in Nat /\ FirstBar > 0
    BY BreakoutAssumption
  <1>5. ASSUME k \in 1..N, First(tape, news, k) PROVE First(t, news, k)
    <2>1. \A j \in FirstBar..(k - 1) : j \in 1..N
      BY <1>4, <1>5
    <2>2. k \in 1..Len(t)
      BY <1>2, <1>5
    <2> QED
      BY <1>3, <1>5, <2>1, <2>2 DEF First
  <1>6. ASSUME k <= N, k \in Nat, NEW d, Knows(d, tape, news, k) PROVE Knows(d, t, news, k)
    <2>1. \A j \in FirstBar..k : j \in 1..N
      BY <1>4, <1>6
    <2> QED
      BY <1>3, <1>6, <2>1 DEF Knows
  <1> QED
    BY <1>1, <1>3, <1>5, <1>6

\* A bar completes at the broker.
LEMMA BreakoutBar == BreakoutInv /\ Entry!BarCompletes => BreakoutInv'
  <1> SUFFICES ASSUME BreakoutInv, Entry!BarCompletes PROVE BreakoutInv'
    OBVIOUS
  <1> USE DEF BreakoutInv
  <1>1. PICK N \in Nat : N = Len(tape)
    BY LenProperties DEF TapeInv
  <1>2. PICK b \in IF Entry!InRange(N + 1) THEN {Entry!Quiet} ELSE Entry!Bars :
           tape' = Append(tape, b)
    BY <1>1 DEF Entry!BarCompletes
  <1>3. b \in Entry!Bars
    BY <1>2 DEF Entry!Bars
  <1>4. /\ tape' \in Seq(Entry!Bars) /\ Len(tape') = N + 1
        /\ tape'[N + 1] = b /\ \A i \in 1..N : tape'[i] = tape[i]
    BY <1>1, <1>2, <1>3, AppendProperties DEF TapeInv
  <1>5. TapeInv'
    <2>1. N >= FirstBar - 1 /\ N < LastBar
      BY <1>1 DEF TapeInv, Entry!BarCompletes
    <2>2. N + 1 >= FirstBar - 1 /\ N + 1 < FirstBar + Lookback
      BY <2>1, BreakoutAssumption
    <2>3. Entry!Today(N + 1)
      BY <2>1, BreakoutAssumption DEF Entry!Today
    <2>4. Entry!InRange(N + 1) => b.side = 0
      BY <1>2 DEF Entry!Quiet
    <2>5. \A i \in 1..N : ~Entry!Today(i) \/ Entry!InRange(i) => tape[i].side = 0
      BY <1>1 DEF TapeInv
    <2>6. \A i \in 1..(N + 1) : ~Entry!Today(i) \/ Entry!InRange(i) => tape'[i].side = 0
      <3> SUFFICES ASSUME NEW i \in 1..(N + 1), ~Entry!Today(i) \/ Entry!InRange(i)
                   PROVE  tape'[i].side = 0
        OBVIOUS
      <3>1. i = N + 1 \/ i \in 1..N
        OBVIOUS
      <3> QED
        BY <1>4, <2>3, <2>4, <2>5, <3>1
    <2> QED
      BY <1>4, <2>2, <2>6 DEF TapeInv, Entry!Today, Entry!InRange
  <1>6. UNCHANGED <<published, cache, process, calendars, keys, entries>>
    BY DEF Entry!BarCompletes, Entry!feed, Entry!trade
  <1>7. RunnerInv'
    <2>1. process.last \in Nat /\ process.last <= N
      BY <1>1 DEF RunnerInv
    <2>2. process.last >= FirstBar => Knows(process.day, tape', process.news, process.last)
      BY <1>1, <1>2, <2>1, BarKeepsHistory DEF RunnerInv
    <2> QED
      BY <1>4, <1>6, <2>1, <2>2 DEF RunnerInv, Knows, Deciding
  <1>8. EntryInv'
    <2>1. ASSUME NEW s \in Entry!Sides, Decided(s, calendars, tape)
          PROVE  Decided(s, calendars, tape')
      <3>1. PICK news \in calendars, k \in 1..N : First(tape, news, k) /\ tape[k].side = s
        BY <1>1, <2>1 DEF Decided
      <3>2. PICK t : t = tape'
        OBVIOUS
      <3>3. k \in 1..Len(tape)
        BY <1>1
      <3>4. First(t, news, k)
        BY <1>1, <1>2, <3>1, <3>2, <3>3, BarKeepsHistory
      <3>5. t[k].side = s /\ k \in 1..Len(t)
        BY <1>1, <1>4, <3>1, <3>2
      <3> QED
        BY <3>2, <3>4, <3>5 DEF Decided
    <2> QED
      BY <1>6, <2>1 DEF EntryInv, Decided, First, Deciding
  <1> QED
    BY <1>5, <1>7, <1>8

\* What a step that leaves the bars and the orders alone has to keep.
LEMMA EntriesKept ==
  ASSUME BreakoutInv, UNCHANGED <<tape, entries>>,
         keys \subseteq keys', keys' \subseteq Entry!Sides, calendars \subseteq calendars'
  PROVE  TapeInv' /\ EntryInv'
  <1>1. TapeInv'
    BY DEF BreakoutInv, TapeInv
  <1>2. ASSUME NEW s \in Entry!Sides, Decided(s, calendars, tape)
        PROVE  Decided(s, calendars', tape)
    BY <1>2 DEF Decided
  <1>3. EntryInv'
    <2>1. \A s \in Entry!Sides : entries[s] > 0 => s \in keys' /\ Decided(s, calendars', tape)
      BY <1>2 DEF BreakoutInv, EntryInv
    <2> QED
      BY <2>1 DEF BreakoutInv, EntryInv, Decided, First, Deciding
  <1> QED
    BY <1>1, <1>3

\* The market, the feed and the life of the process.
LEMMA BreakoutWorld ==
  ASSUME BreakoutInv,
         Entry!Exit \/ Entry!Reschedule \/ Entry!Start \/ Entry!Dies \/ UNCHANGED Entry!breakoutVars
  PROVE  BreakoutInv'
  <1>1. TapeInv' /\ EntryInv'
    BY EntriesKept DEF Entry!Exit, Entry!Reschedule, Entry!Start, Entry!Dies,
       Entry!breakoutVars, Entry!feed, Entry!trade, BreakoutInv, EntryInv
  <1>2. ASSUME UNCHANGED <<tape, process, calendars>>, published' \subseteq EventTimes,
               cache' \subseteq EventTimes
        PROVE  RunnerInv'
    BY <1>2 DEF BreakoutInv, RunnerInv, Knows, Deciding
  <1>3. CASE Entry!Exit \/ Entry!Reschedule \/ UNCHANGED Entry!breakoutVars
    <2>1. published \subseteq EventTimes /\ cache \subseteq EventTimes
      BY DEF BreakoutInv, RunnerInv
    <2>2. UNCHANGED <<tape, process, calendars, cache>>
          /\ (published' = published \/ published' \subseteq EventTimes)
      BY <1>3 DEF Entry!Exit, Entry!Reschedule, Entry!breakoutVars, Entry!feed, Entry!trade
    <2> QED
      BY <1>1, <1>2, <2>1, <2>2 DEF BreakoutInv
  <1>4. /\ Entry!Down \in [up : BOOLEAN, news : SUBSET EventTimes, last : Nat, day : DayRecords]
        /\ Entry!Down.last = 0 /\ ~Entry!Down.up
    BY DEF Entry!Down, Entry!NewDay, DayRecords
  <1>5. FirstBar > 0 /\ FirstBar \in Nat /\ Len(tape) \in Nat
    BY BreakoutAssumption, LenProperties DEF BreakoutInv, TapeInv
  <1>6. CASE Entry!Start
    <2>1. /\ cache' \subseteq EventTimes /\ published' \subseteq EventTimes /\ tape' = tape
          /\ process' = [Entry!Down EXCEPT !.up = TRUE, !.news = cache']
          /\ calendars' = calendars \cup {cache'}
      BY <1>6 DEF Entry!Start, BreakoutInv, RunnerInv
    <2>2. /\ process' \in [up : BOOLEAN, news : SUBSET EventTimes, last : Nat, day : DayRecords]
          /\ process'.last = 0 /\ process'.news = cache'
      BY <1>4, <2>1
    <2>3. IsFiniteSet(calendars')
      BY <2>1, FS_AddElement DEF BreakoutInv, RunnerInv
    <2>4. ~(process'.last >= FirstBar) /\ process'.last <= Len(tape')
      BY <1>5, <2>1, <2>2
    <2> QED
      BY <1>1, <2>1, <2>2, <2>3, <2>4 DEF BreakoutInv, RunnerInv
  <1>7. CASE Entry!Dies
    <2>1. process' = Entry!Down /\ UNCHANGED <<tape, published, cache, calendars>>
      BY <1>7 DEF Entry!Dies, Entry!feed
    <2>2. ~(process'.last >= FirstBar) /\ process'.last <= Len(tape') /\ ~process'.up
      BY <1>4, <1>5, <2>1
    <2> QED
      BY <1>1, <1>4, <2>1, <2>2 DEF BreakoutInv, RunnerInv
  <1> QED
    BY <1>1, <1>3, <1>6, <1>7 DEF BreakoutInv

\* A pass that raises nothing, or an order that does.
LEMMA BreakoutPass ==
  ASSUME BreakoutInv, Entry!Pass \/ Entry!PlaceRaises
  PROVE  BreakoutInv'
  <1>1. PICK raised \in BOOLEAN : Entry!Fed(raised)
    BY DEF Entry!Pass, Entry!PlaceRaises
  <1>2. UNCHANGED <<tape, published, cache, entries, calendars>> /\ process.up
    BY DEF Entry!Pass, Entry!PlaceRaises, Entry!feed, Entry!trade
  <1>3. keys \subseteq keys' /\ keys' \subseteq Entry!Sides
    <2>1. CASE Entry!Pass
      BY <2>1 DEF Entry!Pass, Entry!trade, BreakoutInv, EntryInv
    <2>2. CASE Entry!PlaceRaises
      <3>1. tape[Len(tape)].side \in Entry!Sides
        BY <2>2, SignalIsFirst DEF Entry!PlaceRaises, BreakoutInv
      <3> QED
        BY <2>2, <3>1 DEF Entry!PlaceRaises, BreakoutInv, EntryInv
    <2> QED
      BY <2>1, <2>2
  <1>4. TapeInv' /\ EntryInv'
    BY <1>2, <1>3, EntriesKept
  <1>5. RunnerInv'
    <2>1. TapeInv /\ RunnerInv
      BY DEF BreakoutInv
    <2>2. /\ process' \in [up : BOOLEAN, news : SUBSET EventTimes, last : Nat, day : DayRecords]
          /\ process'.up = process.up /\ process'.news = process.news
          /\ process'.last <= Len(tape)
          /\ process'.last >= FirstBar =>
                Knows(process'.day, tape, process.news, process'.last)
      BY <1>1, <1>2, <2>1, FedKeepsDay
    <2> QED
      BY <1>2, <2>1, <2>2 DEF RunnerInv, Knows, Deciding
  <1> QED
    BY <1>4, <1>5 DEF BreakoutInv

\* An order is on a side that has no key yet, and on the bar that decides.
LEMMA BreakoutPlace == ASSUME BreakoutInv, Entry!Place PROVE BreakoutInv'
  <1> DEFINE side == tape[Len(tape)].side
  <1>1. /\ First(tape, process.news, Len(tape)) /\ side \in Entry!Sides
        /\ process.news \in calendars /\ side \notin keys
    BY SignalIsFirst DEF Entry!Place, BreakoutInv, RunnerInv
  <1>2. /\ UNCHANGED <<tape, published, cache, calendars>>
        /\ keys' = keys \cup {side} /\ entries' = [entries EXCEPT ![side] = @ + 1]
        /\ Entry!Fed(FALSE) \/ process' = Entry!Down
    BY DEF Entry!Place, Entry!feed
  <1>3. TapeInv'
    BY <1>2 DEF BreakoutInv, TapeInv
  <1>4. EntryInv'
    <2>1. Decided(side, calendars, tape)
      <3>1. Len(tape) \in 1..Len(tape)
        BY <1>1 DEF First
      <3> QED
        BY <1>1, <3>1 DEF Decided
    <2>2. entries[side] = 0
      BY <1>1 DEF BreakoutInv, EntryInv
    <2> HIDE DEF side
    <2>3. entries' \in [Entry!Sides -> 0..1]
      BY <1>1, <1>2, <2>2 DEF BreakoutInv, EntryInv
    <2>4. ASSUME NEW s \in Entry!Sides, entries'[s] > 0
          PROVE  s \in keys' /\ Decided(s, calendars, tape)
      <3>1. CASE s = side
        BY <1>2, <2>1, <3>1
      <3>2. CASE s # side
        BY <1>1, <1>2, <2>4, <3>2 DEF BreakoutInv, EntryInv
      <3> QED
        BY <3>1, <3>2
    <2> QED
      BY <1>1, <1>2, <2>3, <2>4 DEF BreakoutInv, EntryInv, Decided, First, Deciding
  <1>5. RunnerInv'
    <2>1. TapeInv /\ RunnerInv
      BY DEF BreakoutInv
    <2>2. CASE Entry!Fed(FALSE)
      <3>1. /\ process' \in [up : BOOLEAN, news : SUBSET EventTimes, last : Nat, day : DayRecords]
            /\ process'.up = process.up /\ process'.news = process.news
            /\ process'.last <= Len(tape)
            /\ process'.last >= FirstBar =>
                  Knows(process'.day, tape, process.news, process'.last)
        BY <1>2, <2>1, <2>2, FedKeepsDay
      <3> QED
        BY <1>2, <2>1, <3>1 DEF RunnerInv, Knows, Deciding
    <2>3. CASE process' = Entry!Down
      <3>1. /\ process' \in [up : BOOLEAN, news : SUBSET EventTimes, last : Nat, day : DayRecords]
            /\ process'.last = 0 /\ ~process'.up
        BY <2>3 DEF Entry!Down, Entry!NewDay, DayRecords
      <3>2. ~(process'.last >= FirstBar) /\ process'.last <= Len(tape')
        BY <1>2, <2>1, <3>1, BreakoutAssumption, LenProperties DEF TapeInv
      <3> QED
        BY <1>2, <2>1, <3>1, <3>2 DEF RunnerInv
    <2> QED
      BY <1>2, <2>2, <2>3
  <1> QED
    BY <1>3, <1>4, <1>5 DEF BreakoutInv

\* The instance counts like the lemmas do.
LEMMA SameSize == \A S : Entry!Cardinality(S) = Cardinality(S)
  BY DEF Entry!Cardinality, Cardinality

\* Two first bars of one calendar are the same bar.
LEMMA OneSessionOneSide ==
  ASSUME BreakoutInv PROVE Entry!OneEntryPerSession
  <1>1. ASSUME Cardinality(calendars) <= 1, entries[1] > 0, entries[-1] > 0 PROVE FALSE
    <2>1. Decided(1, calendars, tape) /\ Decided(-1, calendars, tape)
      BY <1>1 DEF BreakoutInv, EntryInv, Entry!Sides
    <2>2. PICK c1 \in calendars, k1 \in 1..Len(tape) : First(tape, c1, k1) /\ tape[k1].side = 1
      BY <2>1 DEF Decided
    <2>3. PICK c2 \in calendars, k2 \in 1..Len(tape) : First(tape, c2, k2) /\ tape[k2].side = -1
      BY <2>1 DEF Decided
    <2>4. c1 = c2
      <3>1. IsFiniteSet(calendars) /\ Cardinality(calendars) = 1
        BY <1>1, <2>2, FS_CardinalityType, FS_EmptySet DEF BreakoutInv, RunnerInv
      <3>2. PICK c : calendars = {c}
        BY <3>1, FS_Singleton
      <3> QED
        BY <3>2
    <2>5. k1 \in Int /\ k2 \in Int /\ k1 >= FirstBar /\ k2 >= FirstBar /\ FirstBar \in Int
      BY <2>2, <2>3, BreakoutAssumption DEF First, Deciding, Entry!Today
    <2>6. ~(k1 < k2)
      <3> SUFFICES ASSUME k1 < k2 PROVE FALSE
        OBVIOUS
      <3>1. k1 \in FirstBar..(k2 - 1)
        BY <2>5
      <3> QED
        BY <2>2, <2>3, <2>4, <3>1 DEF First
    <2>7. ~(k2 < k1)
      <3> SUFFICES ASSUME k2 < k1 PROVE FALSE
        OBVIOUS
      <3>1. k2 \in FirstBar..(k1 - 1)
        BY <2>5
      <3> QED
        BY <2>2, <2>3, <2>4, <3>1 DEF First
    <2>8. k1 = k2
      BY <2>5, <2>6, <2>7
    <2> QED
      BY <2>2, <2>3, <2>8
  <1>2. entries \in [Entry!Sides -> 0..1] /\ entries[1] \in 0..1 /\ entries[-1] \in 0..1
    BY DEF BreakoutInv, EntryInv, Entry!Sides
  <1> QED
    BY <1>1, <1>2, SameSize DEF Entry!OneEntryPerSession

(***************************************************************************)
(* One session is entered at most once, whatever dies, raises or is late,  *)
(* as long as every start of the day read the same calendar, and at most   *)
(* once a side when it did not (SPEC.md, max 1 entry per instrument per    *)
(* session; asian_breakout.py, on_bar; runner.py, _process_bars).          *)
(***************************************************************************)
THEOREM SessionEnteredOnce == OfflineSpec => []OneEntryPerSession
  <1> DEFINE I == part = "breakout" => BreakoutInv
  <1>1. OfflineInit => I
    <2> SUFFICES ASSUME part = "breakout", Entry!Init PROVE BreakoutInv
      BY DEF OfflineInit
    <2>1. TapeInv
      <3>1. PICK n \in Nat : n = FirstBar - 1 /\ n < FirstBar + Lookback
        BY BreakoutAssumption
      <3>2. tape = [i \in 1..n |-> Entry!Quiet]
        BY <3>1 DEF Entry!Init
      <3>3. tape \in [1..n -> Entry!Bars] /\ DOMAIN tape = 1..n
        BY <3>2 DEF Entry!Bars
      <3>4. tape \in Seq(Entry!Bars)
        BY <3>3
      <3>5. Len(tape) = n
        BY <3>1, <3>3, <3>4, LenProperties
      <3>6. \A i \in 1..n : tape[i].side = 0
        BY <3>2 DEF Entry!Quiet
      <3> QED
        BY <3>1, <3>4, <3>5, <3>6 DEF TapeInv
    <2>2. RunnerInv
      <3>1. /\ process \in [up : BOOLEAN, news : SUBSET EventTimes, last : Nat, day : DayRecords]
            /\ process.last = 0 /\ ~process.up
        BY DEF Entry!Init, Entry!Down, Entry!NewDay, DayRecords
      <3>2. ~(process.last >= FirstBar) /\ process.last <= Len(tape)
        BY <2>1, <3>1, BreakoutAssumption, LenProperties DEF TapeInv
      <3> QED
        BY <3>1, <3>2, FS_EmptySet DEF RunnerInv, Entry!Init
    <2>3. EntryInv
      BY DEF EntryInv, Entry!Init
    <2> QED
      BY <2>1, <2>2, <2>3 DEF BreakoutInv
  <1>2. I /\ [OfflineNext]_offlineVars => I'
    <2> SUFFICES ASSUME I, [OfflineNext]_offlineVars, part' = "breakout" PROVE BreakoutInv'
      OBVIOUS
    <2>1. BreakoutInv /\ (Entry!Next \/ UNCHANGED Entry!breakoutVars)
      BY DEF OfflineNext, offlineVars, breakoutGroup, Entry!breakoutVars, Entry!feed, Entry!trade
    <2> QED
      BY <2>1, BreakoutBar, BreakoutWorld, BreakoutPass, BreakoutPlace DEF Entry!Next
  <1>3. I => OneEntryPerSession
    BY OneSessionOneSide DEF OneEntryPerSession
  <1> QED
    BY <1>1, <1>2, <1>3, PTL DEF OfflineSpec

----------------------------------------------------------------------------
(* One rebalance of the paper trader. *)

Orders == [symbol : Venue!Names, side : {"buy", "sell"}, shares : Nat,
           full : BOOLEAN, limit : BOOLEAN, hop : BOOLEAN]
Dealings == [symbol : Venue!Names, side : {"buy", "sell"}, units : Nat,
            answer : {"unfilled", "bounced", "filled", "partial"}]

AllOn(seq, side) == \A i \in 1..Len(seq) : seq[i].side = side
NoSellAfterBuy(seq) ==
    \A i, j \in 1..Len(seq) : seq[i].side = "buy" /\ seq[j].side = "sell" => j < i

\* k is picked from orders, each at most once, and stands sells first.
PickedFrom(k, orders) ==
    /\ k \in Seq(Orders)
    /\ NoSellAfterBuy(k)
    /\ \E h : /\ h \in [1..Len(k) -> 1..Len(orders)]
              /\ \A i, j \in 1..Len(k) : h[i] = h[j] => i = j
              /\ \A i \in 1..Len(k) : k[i] = orders[h[i]]

\* The instance sums like the lemmas do.
LEMMA VenueSum == \A f : Venue!SumFunction(f) = SumFunction(f)
  BY DEF Venue!SumFunction, Venue!SumFunctionOnSet, Venue!FoldFunctionOnSet,
         Venue!MapThenFoldSet, SumFunction, SumFunctionOnSet, FoldFunctionOnSet, MapThenFoldSet

\* What one side of some orders or dealt is (orders.py, sort_for_submission).
LEMMA SideSelects ==
  ASSUME NEW S, NEW seq \in Seq(S), NEW side
  PROVE  /\ Venue!Side(seq, side) \in Seq(S)
         /\ \E h : SelectedBy(h, Venue!Side(seq, side), seq, Len(seq),
                              {o \in S : o.side = side})
  <1>1. PICK keep : keep = {o \in S : o.side = side}
    OBVIOUS
  <1>2. PICK n \in Nat : n = Len(seq)
    BY LenProperties
  <1>3. \A i \in 1..n : seq[i] \in S /\ (seq[i].side = side <=> seq[i] \in keep)
    BY <1>1, <1>2, LenProperties
  <1> DEFINE F(f) == f = [i \in 0..Len(seq) |->
                            IF i = 0 THEN <<>>
                            ELSE IF seq[i].side = side THEN Append(f[i - 1], seq[i])
                            ELSE f[i - 1]]
  <1>4. ASSUME NEW f PROVE F(f) <=> Filters(f, seq, keep)
    BY <1>2, <1>3 DEF Filters
  <1>5. PICK kept : F(kept) /\ Venue!Side(seq, side) = kept[Len(seq)]
    <2>1. \E f : F(f)
      BY <1>4, FilterExists
    <2> HIDE DEF F
    <2>2. F(CHOOSE f : F(f))
      BY <2>1
    <2>3. Venue!Side(seq, side) = (CHOOSE f : F(f))[Len(seq)]
      BY DEF Venue!Side, F
    <2> QED
      BY <2>2, <2>3
  <1>6. Filters(kept, seq, keep)
    BY <1>4, <1>5
  <1>7. n \in 0..Len(seq) /\ Venue!Side(seq, side) = kept[n]
    BY <1>2, <1>5
  <1> QED
    BY <1>1, <1>2, <1>6, <1>7, FilterSelects

\* The sells of a plan, then its buys: each order once (sort_for_submission).
LEMMA SellsFirstPicks ==
  ASSUME NEW orders \in Seq(Orders)
  PROVE  /\ PickedFrom(Venue!SellsFirst(orders), orders)
         /\ Len(Venue!SellsFirst(orders)) = Len(orders)
         /\ \A i \in 1..Len(Venue!SellsFirst(orders)) :
               i <= Len(Venue!Side(orders, "sell")) => Venue!SellsFirst(orders)[i].side = "sell"
  <1>1. PICK a, b, k : /\ a = Venue!Side(orders, "sell") /\ b = Venue!Side(orders, "buy")
                       /\ k = a \o b
    OBVIOUS
  <1>a. a \in Seq(Orders) /\ b \in Seq(Orders)
    BY <1>1, SideSelects
  <1>b. PICK x \in Nat : x = Len(a)
    BY <1>a, LenProperties
  <1>c. PICK y \in Nat : y = Len(b)
    BY <1>a, LenProperties
  <1>d. PICK N \in Nat : N = Len(orders)
    BY LenProperties
  <1>2. x = Len(a) /\ y = Len(b) /\ N = Len(orders) /\ a \in Seq(Orders) /\ b \in Seq(Orders)
    BY <1>a, <1>b, <1>c, <1>d
  <1>3. PICK ha : /\ ha \in [1..x -> 1..N]
                  /\ \A i, j \in 1..x : i < j => ha[i] < ha[j]
                  /\ \A i \in 1..x : a[i] = orders[ha[i]] /\ a[i].side = "sell"
                  /\ \A i \in 1..N : orders[i].side = "sell" => \E j \in 1..x : ha[j] = i
    <2>1. PICK ha : SelectedBy(ha, a, orders, N, {o \in Orders : o.side = "sell"})
      BY <1>1, <1>2, SideSelects
    <2>2. \A i \in 1..N : orders[i] \in Orders
      BY <1>2, LenProperties
    <2>3. ha \in [1..x -> 1..N] /\ \A i, j \in 1..x : i < j => ha[i] < ha[j]
      BY <1>2, <2>1 DEF SelectedBy
    <2>4. \A i \in 1..x : a[i] = orders[ha[i]] /\ a[i].side = "sell"
      BY <1>2, <2>1 DEF SelectedBy
    <2>5. \A i \in 1..N : orders[i].side = "sell" => \E j \in 1..x : ha[j] = i
      BY <1>2, <2>1, <2>2 DEF SelectedBy
    <2> QED
      BY <2>3, <2>4, <2>5
  <1>4. PICK hb : /\ hb \in [1..y -> 1..N]
                  /\ \A i, j \in 1..y : i < j => hb[i] < hb[j]
                  /\ \A i \in 1..y : b[i] = orders[hb[i]] /\ b[i].side = "buy"
                  /\ \A i \in 1..N : orders[i].side = "buy" => \E j \in 1..y : hb[j] = i
    <2>1. PICK hb : SelectedBy(hb, b, orders, N, {o \in Orders : o.side = "buy"})
      BY <1>1, <1>2, SideSelects
    <2>2. \A i \in 1..N : orders[i] \in Orders
      BY <1>2, LenProperties
    <2>3. hb \in [1..y -> 1..N] /\ \A i, j \in 1..y : i < j => hb[i] < hb[j]
      BY <1>2, <2>1 DEF SelectedBy
    <2>4. \A i \in 1..y : b[i] = orders[hb[i]] /\ b[i].side = "buy"
      BY <1>2, <2>1 DEF SelectedBy
    <2>5. \A i \in 1..N : orders[i].side = "buy" => \E j \in 1..y : hb[j] = i
      BY <1>2, <2>1, <2>2 DEF SelectedBy
    <2> QED
      BY <2>3, <2>4, <2>5
  <1>5. /\ k \in Seq(Orders) /\ Len(k) = x + y
        /\ \A i \in 1..(x + y) : k[i] = IF i <= x THEN a[i] ELSE b[i - x]
    BY <1>1, <1>2, ConcatProperties
  <1> DEFINE h == [i \in 1..(x + y) |-> IF i <= x THEN ha[i] ELSE hb[i - x]]
  <1>6. ASSUME NEW i \in 1..(x + y)
        PROVE  /\ h[i] \in 1..N /\ k[i] = orders[h[i]]
               /\ k[i].side = IF i <= x THEN "sell" ELSE "buy"
    <2>1. CASE i <= x
      BY <1>2, <1>3, <1>5, <2>1
    <2>2. CASE i > x
      <3>1. PICK j \in 1..y : j = i - x
        <4>1. i - x \in 1..y
          BY <2>2
        <4> QED
          BY <4>1
      <3>2. h[i] = hb[j] /\ k[i] = b[j]
        BY <1>2, <1>5, <2>2, <3>1
      <3>3. hb[j] \in 1..N /\ b[j] = orders[hb[j]] /\ b[j].side = "buy"
        BY <1>4, <3>1
      <3>4. ~(i <= x)
        BY <1>2, <2>2
      <3> QED
        BY <3>2, <3>3, <3>4
    <2> QED
      BY <1>2, <2>1, <2>2
  <1>7. ASSUME NEW i \in 1..(x + y), NEW j \in 1..(x + y), h[i] = h[j] PROVE i = j
    <2>1. k[i].side = k[j].side
      <3>1. k[i] = orders[h[i]] /\ k[j] = orders[h[j]]
        BY <1>6
      <3> QED
        BY <1>7, <3>1
    <2>2. CASE i <= x
      <3>1. j <= x
        BY <1>2, <1>6, <2>1, <2>2
      <3>2. i \in 1..x /\ j \in 1..x /\ ha[i] = ha[j] /\ ha[i] \in Int /\ ha[j] \in Int
        <4>1. i \in 1..x /\ j \in 1..x
          BY <2>2, <3>1
        <4>2. h[i] = ha[i] /\ h[j] = ha[j]
          BY <2>2, <3>1
        <4>3. ha[i] \in 1..N /\ ha[j] \in 1..N
          BY <1>3, <4>1
        <4> QED
          BY <1>2, <1>7, <4>1, <4>2, <4>3
      <3>3. ~(i < j) /\ ~(j < i)
        BY <1>3, <3>2
      <3> QED
        BY <3>2, <3>3
    <2>3. CASE i > x
      <3>1. j > x
        BY <1>2, <1>6, <2>1, <2>3
      <3>2. i - x \in 1..y /\ j - x \in 1..y
        BY <2>3, <3>1
      <3>3. PICK p \in 1..y : p = i - x
        BY <3>2
      <3>4. PICK q \in 1..y : q = j - x
        BY <3>2
      <3>5. h[i] = hb[p] /\ h[j] = hb[q]
        BY <2>3, <3>1, <3>3, <3>4
      <3>6. hb[p] = hb[q] /\ hb[p] \in Int /\ hb[q] \in Int
        BY <1>4, <1>7, <3>5
      <3>7. ~(p < q) /\ ~(q < p)
        BY <1>4, <3>6
      <3> QED
        BY <3>3, <3>4, <3>7
    <2> QED
      BY <1>2, <2>2, <2>3
  <1>8. h \in [1..(x + y) -> 1..N]
    BY <1>6
  <1>9. ASSUME NEW i \in 1..N PROVE \E j \in 1..(x + y) : h[j] = i
    <2>1. orders[i] \in Orders
      BY <1>2, LenProperties
    <2>2. orders[i].side \in {"sell", "buy"}
      BY <2>1 DEF Orders
    <2>3. CASE orders[i].side = "sell"
      <3>1. PICK j \in 1..x : ha[j] = i
        BY <1>3, <2>3
      <3>2. j \in 1..(x + y) /\ j <= x
        OBVIOUS
      <3> QED
        BY <3>1, <3>2
    <2>4. CASE orders[i].side = "buy"
      <3>1. PICK j \in 1..y : hb[j] = i
        BY <1>4, <2>4
      <3>2. x + j \in 1..(x + y) /\ ~(x + j <= x) /\ (x + j) - x = j
        OBVIOUS
      <3>3. PICK m \in 1..(x + y) : ~(m <= x) /\ m - x = j
        BY <3>2
      <3> QED
        BY <3>1, <3>3
    <2> QED
      BY <2>2, <2>3, <2>4
  <1> HIDE DEF h
  <1>10. NoSellAfterBuy(k)
    BY <1>2, <1>5, <1>6 DEF NoSellAfterBuy
  <1>11. x + y = N
    <2>1. h \in Injection(1..(x + y), 1..N)
      BY <1>7, <1>8, Fun_IsInj
    <2>2. h \in Surjection(1..(x + y), 1..N)
      BY <1>8, <1>9, Fun_IsSurj
    <2>3. IsFiniteSet(1..N) /\ Cardinality(1..N) = N /\ Cardinality(1..(x + y)) = x + y
      BY FS_Interval
    <2>4. Cardinality(1..(x + y)) = Cardinality(1..N)
      BY <2>1, <2>2, <2>3, FS_Injection
    <2> QED
      BY <2>3, <2>4
  <1>12. k = Venue!SellsFirst(orders)
    BY <1>1 DEF Venue!SellsFirst
  <1>13. PickedFrom(k, orders)
    <2>1. /\ h \in [1..Len(k) -> 1..Len(orders)]
          /\ \A i, j \in 1..Len(k) : h[i] = h[j] => i = j
          /\ \A i \in 1..Len(k) : k[i] = orders[h[i]]
      BY <1>2, <1>5, <1>6, <1>7, <1>8
    <2> QED
      BY <1>5, <1>10, <2>1 DEF PickedFrom
  <1>14. \A i \in 1..Len(k) : i <= Len(a) => k[i].side = "sell"
    BY <1>2, <1>5, <1>6
  <1>15. Len(k) = Len(orders)
    BY <1>2, <1>5, <1>11
  <1> QED
    BY <1>1, <1>12, <1>13, <1>14, <1>15

----------------------------------------------------------------------------
(* Costs, and the size of a buy. *)

\* The smaller of two numbers: how much of a buy a shaky venue leaves over
\* (paper_broker.py).
LEMMA VenueSmaller == \A a, b \in Int : Venue!Min({a, b}) = IF a <= b THEN a ELSE b
  BY DEF Venue!Min

\* The larger of two numbers: no order is worth less than nothing (orders.py).
LEMMA VenueLarger == \A a, b \in Int : Venue!Max({a, b}) = IF a >= b THEN a ELSE b
  BY DEF Venue!Max

\* More of something costs more (costs.py, order_cost).
LEMMA Grows ==
    \A a, b, c \in Nat :
        a <= b => /\ a * c \in Nat /\ c * a \in Nat
                  /\ a * c <= b * c /\ c * a <= c * b
  OBVIOUS

\* A larger order costs no less and none costs nothing: the fee per share has a
\* floor, and the floor is only paid when something trades (costs.py, order_cost).
LEMMA CostGrows ==
  ASSUME NEW n \in Nat, NEW m \in Nat, n <= m, NEW price \in Nat
  PROVE  /\ Venue!Cost(n, price) \in Nat
         /\ Venue!Cost(n, price) <= Venue!Cost(m, price)
         /\ Venue!Cost(0, price) = 0
  <1>1. /\ FixedMinFee \in Nat /\ PerShareFee \in Nat /\ CostPct \in Nat
    BY RebalanceAssumption
  <1>2. PICK fn \in Nat : fn = PerShareFee * n
    BY <1>1, Grows
  <1>3. PICK fm \in Nat : fm = PerShareFee * m /\ fn <= fm
    BY <1>1, <1>2, Grows
  <1>4. PICK un \in Nat : un = CostPct * n
    BY <1>1, Grows
  <1>5. PICK um \in Nat : um = CostPct * m /\ un <= um
    BY <1>1, <1>4, Grows
  <1>6. PICK cn \in Nat : cn = un * price
    BY Grows
  <1>7. PICK cm \in Nat : cm = um * price /\ cn <= cm
    BY <1>5, <1>6, Grows
  <1>8. PICK sn, sm \in Nat : sn = cn \div 100 /\ sm = cm \div 100 /\ sn <= sm
    <2>1. cn \div 100 \in Nat /\ cm \div 100 \in Nat /\ cn \div 100 <= cm \div 100
      BY <1>7
    <2> QED
      BY <2>1
  <1>9. PICK bn, bm \in Nat : /\ bn = Venue!Max({FixedMinFee, PerShareFee * n})
                              /\ bm = Venue!Max({FixedMinFee, PerShareFee * m})
                              /\ bn <= bm
    <2>1. /\ Venue!Max({FixedMinFee, PerShareFee * n}) = IF FixedMinFee >= fn THEN FixedMinFee ELSE fn
          /\ Venue!Max({FixedMinFee, PerShareFee * m}) = IF FixedMinFee >= fm THEN FixedMinFee ELSE fm
      BY <1>1, <1>2, <1>3, VenueLarger
    <2> QED
      BY <1>1, <1>3, <2>1
  <1>10. Venue!Cost(n, price) = IF n = 0 THEN 0 ELSE bn + sn
    BY <1>4, <1>6, <1>8, <1>9 DEF Venue!Cost
  <1>11. Venue!Cost(m, price) = IF m = 0 THEN 0 ELSE bm + sm
    BY <1>5, <1>7, <1>8, <1>9 DEF Venue!Cost
  <1>12. Venue!Cost(0, price) = 0
    BY DEF Venue!Cost
  <1> QED
    BY <1>8, <1>9, <1>10, <1>11, <1>12

\* The resize loop ends, at a size the cash pays for or at none at all
\* (execution.py, _size_buy_to_cash).
LEMMA ResizedFits ==
  ASSUME NEW o \in Orders, NEW price \in Nat \ {0}, NEW available \in Nat
  PROVE  /\ Venue!Resized(o, price, available) \in 0..o.shares
         /\ \/ Venue!Resized(o, price, available) = 0
            \/ Venue!Affordable(Venue!Resized(o, price, available), price, available)
  <1>1. PICK N \in Nat : N = o.shares
    BY DEF Orders
  <1> DEFINE Stops(n) == n = 0 \/ Venue!Affordable(n, price, available)
             Fewer(n) == Venue!Max({0, Venue!Min({n - 1, (available - Venue!Cost(n, price)) \div price})})
             F(f) == f = [n \in 0..o.shares |->
                            IF n = 0 \/ Venue!Affordable(n, price, available) THEN n
                            ELSE f[Venue!Max({0, Venue!Min({n - 1, (available - Venue!Cost(n, price)) \div price})})]]
             Fits(v) == v \in 0..N /\ Stops(v)
  <1>2. ASSUME NEW n \in 0..N PROVE Fewer(n) \in 0..N /\ (n # 0 => Fewer(n) \in 0..(n - 1))
    <2>1. PICK c \in Nat : c = Venue!Cost(n, price)
      BY CostGrows
    <2>2. PICK r \in Int : r = (available - c) \div price
      OBVIOUS
    <2>3. PICK x \in Int : x = Venue!Min({n - 1, r}) /\ x <= n - 1
      <3>1. Venue!Min({n - 1, r}) = IF n - 1 <= r THEN n - 1 ELSE r
        BY VenueSmaller
      <3> QED
        BY <3>1
    <2>4. Fewer(n) = IF 0 >= x THEN 0 ELSE x
      BY <2>1, <2>2, <2>3, VenueLarger
    <2> HIDE DEF Fewer
    <2> QED
      BY <2>3, <2>4
  <1>3. \E f : F(f)
    <2>1. PICK E, m, S, next : /\ E = 0..N /\ m = [n \in 0..N |-> n] /\ S = {n \in 0..N : Stops(n)}
                               /\ next = [n \in 0..N |-> Fewer(n)]
      OBVIOUS
    <2>2. /\ m \in [E -> 0..N] /\ m \in [E -> E] /\ next \in [E -> E]
          /\ \A n \in E : n \notin S => m[next[n]] < m[n]
      <3>1. \A n \in 0..N : Fewer(n) \in 0..N /\ (n # 0 => Fewer(n) \in 0..(n - 1))
        BY <1>2
      <3> HIDE DEF Fewer
      <3> QED
        BY <2>1, <3>1
    <2>3. PICK f \in [E -> E] : PassesOn(f, E, S, m, next)
      <3> HIDE DEF Fewer
      <3> QED
        BY <2>2, RecursionDown
    <2>4. ASSUME NEW n \in 0..o.shares
          PROVE  f[n] = IF Stops(n) THEN n ELSE f[Fewer(n)]
      <3> HIDE DEF Stops, Fewer
      <3> QED
        BY <1>1, <2>1, <2>3 DEF PassesOn
    <2>5. f = [n \in 0..o.shares |-> f[n]]
      BY <1>1, <2>1, <2>3
    <2>6. f = [n \in 0..o.shares |-> IF Stops(n) THEN n ELSE f[Fewer(n)]]
      <3> HIDE DEF Stops, Fewer
      <3> QED
        BY <2>4, <2>5
    <2> QED
      BY <2>6
  <1>4. PICK f : F(f) /\ \A s : s = Venue!Min({available \div price, o.shares})
                                => Venue!Resized(o, price, available) = f[s]
    <2> HIDE DEF F
    <2>1. F(CHOOSE f : F(f))
      BY <1>3
    <2>2. Venue!Resized(o, price, available)
            = (CHOOSE f : F(f))[Venue!Min({available \div price, o.shares})]
      BY DEF Venue!Resized, F
    <2> QED
      BY <2>1, <2>2
  <1>5. ASSUME NEW n \in 0..N PROVE f[n] = IF Stops(n) THEN n ELSE f[Fewer(n)]
    BY <1>1, <1>4
  <1> DEFINE P == {k \in 0..N : \A n \in 0..k : Fits(f[n])}
  <1>6. 0 \in P
    <2>1. 0 \in 0..N /\ Stops(0) /\ \A n \in 0..0 : n = 0
      OBVIOUS
    <2>2. f[0] = 0
      <3> HIDE DEF Stops, Fewer
      <3> QED
        BY <1>5, <2>1
    <2> QED
      BY <2>1, <2>2
  <1>7. ASSUME NEW k \in 0..(N - 1), k \in P PROVE k + 1 \in P
    <2>1. k + 1 \in 0..N /\ k + 1 # 0 /\ \A n \in 0..(k + 1) : n \in 0..k \/ n = k + 1
      OBVIOUS
    <2>2. Fewer(k + 1) \in 0..k
      BY <1>2, <2>1
    <2>3. Fits(f[k + 1])
      <3>1. f[k + 1] = IF Stops(k + 1) THEN k + 1 ELSE f[Fewer(k + 1)]
        BY <1>5, <2>1
      <3>2. Fits(f[Fewer(k + 1)])
        BY <1>7, <2>2
      <3> HIDE DEF Fewer
      <3> QED
        BY <2>1, <3>1, <3>2
    <2> QED
      BY <1>7, <2>1, <2>3
  <1>8. N \in P
    <2> HIDE DEF P
    <2> QED
      BY <1>6, <1>7, InductionTo
  <1>9. PICK s \in 0..N : s = Venue!Min({available \div price, o.shares})
    <2>1. PICK q \in Nat : q = available \div price
      OBVIOUS
    <2>2. Venue!Min({q, N}) = IF q <= N THEN q ELSE N
      BY VenueSmaller
    <2> QED
      BY <1>1, <2>1, <2>2
  <1>10. Venue!Resized(o, price, available) = f[s]
    BY <1>4, <1>9
  <1>11. Fits(f[s])
    BY <1>8
  <1> QED
    BY <1>1, <1>10, <1>11

\* A buy goes out at a size the cash pays for, unless it is the market order a
\* limit order became (execution.py, execute_rebalance).
LEMMA SizedFits ==
  ASSUME NEW o \in Orders, NEW px \in [Venue!Names -> Nat \ {0}], NEW available \in Nat,
         NEW p, p = Venue!Sized(o, px, available)
  PROVE  /\ p \in Orders
         /\ p.symbol = o.symbol /\ p.side = o.side /\ p.limit = o.limit /\ p.hop = o.hop
         /\ p.shares <= o.shares
         /\ p.side = "buy" /\ (o.hop => Venue!Affordable(o.shares, px[o.symbol], available))
            => p.shares = 0 \/ Venue!Affordable(p.shares, px[p.symbol], available)
  <1>1. PICK price \in Nat \ {0} : price = px[o.symbol]
    BY DEF Orders
  <1>2. PICK r : r = Venue!Resized(o, price, available)
    OBVIOUS
  <1>3. r \in 0..o.shares /\ (r = 0 \/ Venue!Affordable(r, price, available))
    BY <1>2, ResizedFits
  <1>4. o.shares \in Nat /\ o.side \in {"buy", "sell"} /\ ~(price <= 0)
    BY DEF Orders
  <1>5. p = IF o.side = "sell" \/ o.hop \/ Venue!Affordable(o.shares, price, available)
            THEN o ELSE [o EXCEPT !.shares = r, !.full = FALSE]
    BY <1>1, <1>2, <1>4 DEF Venue!Sized
  <1>6. PICK q : q = [o EXCEPT !.shares = r, !.full = FALSE]
    OBVIOUS
  <1>7. /\ q \in Orders /\ q.symbol = o.symbol /\ q.side = o.side /\ q.limit = o.limit
        /\ q.hop = o.hop /\ q.shares = r
    <2>1. r \in Nat
      BY <1>3, <1>4
    <2>2. q = [symbol |-> o.symbol, side |-> o.side, shares |-> r, full |-> FALSE,
               limit |-> o.limit, hop |-> o.hop]
      BY <1>6 DEF Orders
    <2>3. o.symbol \in Venue!Names /\ o.side \in {"buy", "sell"} /\ o.limit \in BOOLEAN /\ o.hop \in BOOLEAN
      BY DEF Orders
    <2>4. q \in Orders
      BY <2>1, <2>2, <2>3 DEF Orders
    <2> QED
      BY <2>2, <2>4
  <1>8. CASE o.side = "sell" \/ o.hop \/ Venue!Affordable(o.shares, price, available)
    BY <1>1, <1>4, <1>5, <1>8
  <1>9. CASE ~(o.side = "sell" \/ o.hop \/ Venue!Affordable(o.shares, price, available))
    BY <1>1, <1>3, <1>4, <1>5, <1>6, <1>7, <1>9
  <1> QED
    BY <1>8, <1>9

----------------------------------------------------------------------------
(* What orders ask for and dealt report of one symbol. *)

Asked(o, s) == IF o.symbol = s THEN o.shares ELSE 0
Dealt(r, s) == IF r.symbol = s THEN r.units ELSE 0

\* What a sequence of orders asks of one symbol is a sum along the sequence.
LEMMA PlannedSum ==
  ASSUME NEW seq \in Seq(Orders), NEW s
  PROVE  \E f \in [1..Len(seq) -> Nat] : /\ \A i \in 1..Len(seq) : f[i] = Asked(seq[i], s)
                                        /\ Venue!Planned(seq, s) = SumFunction(f)
  <1>1. DOMAIN seq = 1..Len(seq) /\ \A i \in 1..Len(seq) : seq[i] \in Orders
    BY LenProperties
  <1>2. PICK f : f = [i \in DOMAIN seq |-> IF seq[i].symbol = s THEN seq[i].shares ELSE 0]
    OBVIOUS
  <1>3. \A i \in 1..Len(seq) : (IF seq[i].symbol = s THEN seq[i].shares ELSE 0) \in Nat
    BY <1>1 DEF Orders
  <1>4. f \in [1..Len(seq) -> Nat]
    BY <1>1, <1>2, <1>3
  <1>5. Venue!Planned(seq, s) = SumFunction(f)
    BY <1>2, VenueSum DEF Venue!Planned
  <1> QED
    BY <1>1, <1>2, <1>4, <1>5 DEF Asked

\* What is drawn order by order from a plan asks for no more, and for less by
\* what is left behind (execution.py, execute_rebalance).
LEMMA PlannedDrawn ==
  ASSUME NEW a \in Seq(Orders), NEW b \in Seq(Orders), NEW h \in [1..Len(a) -> 1..Len(b)], NEW s,
         \A i, j \in 1..Len(a) : h[i] = h[j] => i = j,
         \A i \in 1..Len(a) : a[i].symbol = b[h[i]].symbol /\ a[i].shares <= b[h[i]].shares
  PROVE  /\ Venue!Planned(a, s) \in Nat /\ Venue!Planned(b, s) \in Nat
         /\ Venue!Planned(a, s) <= Venue!Planned(b, s)
         /\ \A z \in 1..Len(b) : (\A i \in 1..Len(a) : h[i] # z) =>
               Venue!Planned(a, s) + Asked(b[z], s) <= Venue!Planned(b, s)
  <1>1. PICK f \in [1..Len(a) -> Nat] : /\ \A i \in 1..Len(a) : f[i] = Asked(a[i], s)
                                       /\ Venue!Planned(a, s) = SumFunction(f)
    BY PlannedSum
  <1>2. PICK g \in [1..Len(b) -> Nat] : /\ \A i \in 1..Len(b) : g[i] = Asked(b[i], s)
                                       /\ Venue!Planned(b, s) = SumFunction(g)
    BY PlannedSum
  <1>3. PICK A, B : A = 1..Len(a) /\ B = 1..Len(b)
    OBVIOUS
  <1>4. IsFiniteSet(A) /\ IsFiniteSet(B)
    BY <1>3, FS_Interval, LenProperties
  <1>5. \A i \in A : f[i] <= g[h[i]]
    <2>1. ASSUME NEW i \in 1..Len(a) PROVE f[i] <= g[h[i]]
      <3>1. PICK j \in 1..Len(b) : j = h[i]
        OBVIOUS
      <3>2. a[i] \in Orders /\ b[j] \in Orders
        BY LenProperties
      <3>3. f[i] = Asked(a[i], s) /\ g[j] = Asked(b[j], s)
        BY <1>1, <1>2
      <3>4. a[i].symbol = b[j].symbol /\ a[i].shares <= b[j].shares
        BY <3>1
      <3> QED
        BY <3>1, <3>2, <3>3, <3>4 DEF Asked, Orders
    <2> QED
      BY <1>3, <2>1
  <1>6. f \in [A -> Nat] /\ g \in [B -> Nat] /\ h \in [A -> B]
        /\ \A i, j \in A : h[i] = h[j] => i = j
    BY <1>1, <1>2, <1>3
  <1>7. /\ SumFunction(f) \in Nat /\ SumFunction(g) \in Nat
        /\ SumFunction(f) <= SumFunction(g)
        /\ \A z \in B : (\A x \in A : h[x] # z) => SumFunction(f) + g[z] <= SumFunction(g)
    <2>1. Draws(h, A, B, f, g)
      BY <1>5, <1>6 DEF Draws
    <2> QED
      BY ONLY <1>4, <2>1, SumWithin
  <1> QED
    BY <1>1, <1>2, <1>3, <1>7

\* The orders that stay after the sort and the cap ask no more of a symbol than
\* all of them did (orders.py, sort_for_submission).
LEMMA PlannedPicked ==
  ASSUME NEW orders \in Seq(Orders), NEW k, PickedFrom(k, orders), NEW s
  PROVE  /\ Venue!Planned(k, s) \in Nat /\ Venue!Planned(orders, s) \in Nat
         /\ Venue!Planned(k, s) <= Venue!Planned(orders, s)
  <1>1. k \in Seq(Orders)
    BY DEF PickedFrom
  <1>2. PICK h : /\ h \in [1..Len(k) -> 1..Len(orders)]
                 /\ \A i, j \in 1..Len(k) : h[i] = h[j] => i = j
                 /\ \A i \in 1..Len(k) : k[i] = orders[h[i]]
    BY DEF PickedFrom
  <1>3. \A i \in 1..Len(k) : k[i].symbol = orders[h[i]].symbol /\ k[i].shares <= orders[h[i]].shares
    <2>1. ASSUME NEW i \in 1..Len(k) PROVE k[i].shares \in Nat
      <3>1. k[i] \in Orders
        BY <1>1, LenProperties
      <3> QED
        BY <3>1 DEF Orders
    <2> QED
      BY <1>2, <2>1
  <1> QED
    BY <1>1, <1>2, <1>3, PlannedDrawn

\* A queue is left by its head, or by what the head asked for and did not get.
LEMMA PlannedRest ==
  ASSUME NEW queued \in Seq(Orders), queued # << >>, NEW o \in Orders,
         o.symbol = Head(queued).symbol, o.shares <= Head(queued).shares, NEW s
  PROVE  /\ Head(queued) \in Orders
         /\ Tail(queued) \in Seq(Orders) /\ << o >> \o Tail(queued) \in Seq(Orders)
         /\ Len(Tail(queued)) = Len(queued) - 1
         /\ \A i \in 1..(Len(queued) - 1) : Tail(queued)[i] = queued[i + 1]
         /\ Len(<< o >> \o Tail(queued)) = Len(queued)
         /\ \A i \in 1..Len(queued) : (<< o >> \o Tail(queued))[i] = IF i = 1 THEN o ELSE queued[i]
         /\ Venue!Planned(queued, s) \in Nat
         /\ Venue!Planned(Tail(queued), s) \in Nat
         /\ Venue!Planned(Tail(queued), s) + Asked(o, s) <= Venue!Planned(queued, s)
         /\ Venue!Planned(<< o >> \o Tail(queued), s) \in Nat
         /\ Venue!Planned(<< o >> \o Tail(queued), s) <= Venue!Planned(queued, s)
  <1>1. PICK N \in Nat : N = Len(queued)
    BY LenProperties
  <1>2. N > 0 /\ Head(queued) = queued[1] /\ Head(queued) \in Orders /\ \A i \in 1..N : queued[i] \in Orders
    BY <1>1, LenProperties, EmptySeq, HeadTailProperties
  <1>3. PICK t : t = Tail(queued)
    OBVIOUS
  <1>4. t \in Seq(Orders) /\ Len(t) = N - 1 /\ \A i \in 1..(N - 1) : t[i] = queued[i + 1]
    BY <1>1, <1>2, <1>3, HeadTailProperties
  <1>5. PICK w : w = << o >> \o t
    OBVIOUS
  <1>6. w \in Seq(Orders) /\ Len(w) = N /\ \A i \in 1..N : w[i] = IF i = 1 THEN o ELSE queued[i]
    <2>1. << o >> \in Seq(Orders) /\ Len(<< o >>) = 1 /\ << o >>[1] = o
      OBVIOUS
    <2>2. w \in Seq(Orders) /\ Len(w) = N
      BY <1>2, <1>4, <1>5, <2>1, ConcatProperties
    <2>3. ASSUME NEW i \in 1..N PROVE w[i] = IF i = 1 THEN o ELSE queued[i]
      <3>1. w[i] = IF i <= 1 THEN << o >>[i] ELSE t[i - 1]
        BY <1>2, <1>4, <1>5, <2>1, ConcatProperties
      <3>2. CASE i = 1
        BY <2>1, <3>1, <3>2
      <3>3. CASE i # 1
        <4>1. PICK j \in 1..(N - 1) : j = i - 1 /\ j + 1 = i
          <5>1. i - 1 \in 1..(N - 1) /\ (i - 1) + 1 = i
            BY <3>3
          <5> QED
            BY <5>1
        <4>2. ~(i <= 1)
          BY <3>3
        <4> QED
          BY <1>4, <3>1, <4>1, <4>2
      <3> QED
        BY <3>2, <3>3
    <2> QED
      BY <2>2, <2>3
  <1>8. /\ Venue!Planned(t, s) \in Nat /\ Venue!Planned(w, s) \in Nat
        /\ Venue!Planned(t, s) + Asked(o, s) <= Venue!Planned(w, s)
    <2> DEFINE h == [i \in 1..(N - 1) |-> i + 1]
    <2>1. /\ h \in [1..Len(t) -> 1..Len(w)] /\ 1 \in 1..Len(w)
          /\ \A i, j \in 1..Len(t) : h[i] = h[j] => i = j
          /\ \A i \in 1..Len(t) : h[i] # 1
      BY <1>2, <1>4, <1>6
    <2>2. \A i \in 1..Len(t) : t[i].symbol = w[h[i]].symbol /\ t[i].shares <= w[h[i]].shares
      <3>1. ASSUME NEW i \in 1..(N - 1) PROVE t[i] = w[h[i]] /\ t[i].shares \in Nat
        <4>1. PICK j \in 1..N : j = i + 1 /\ j # 1
          <5>1. i + 1 \in 1..N /\ i + 1 # 1
            OBVIOUS
          <5> QED
            BY <5>1
        <4>2. h[i] = j /\ w[j] = queued[j] /\ t[i] = queued[j] /\ queued[j] \in Orders
          BY <1>2, <1>4, <1>6, <4>1
        <4> QED
          BY <4>2 DEF Orders
      <3> QED
        BY <1>4, <3>1
    <2>3. w[1] = o
      BY <1>2, <1>6
    <2> HIDE DEF h
    <2> QED
      BY <1>4, <1>6, <2>1, <2>2, <2>3, PlannedDrawn
  <1>9. /\ Venue!Planned(queued, s) \in Nat
        /\ Venue!Planned(w, s) <= Venue!Planned(queued, s)
    <2> DEFINE h == [i \in 1..N |-> i]
    <2>1. /\ h \in [1..Len(w) -> 1..Len(queued)]
          /\ \A i, j \in 1..Len(w) : h[i] = h[j] => i = j
      BY <1>1, <1>6
    <2>2. \A i \in 1..Len(w) : w[i].symbol = queued[h[i]].symbol /\ w[i].shares <= queued[h[i]].shares
      <3>1. ASSUME NEW i \in 1..N
            PROVE  w[i].symbol = queued[i].symbol /\ w[i].shares <= queued[i].shares
        <4>1. CASE i = 1
          BY <1>2, <1>6, <4>1
        <4>2. CASE i # 1
          <5>1. w[i] = queued[i] /\ queued[i].shares \in Nat
            BY <1>2, <1>6, <4>2 DEF Orders
          <5> QED
            BY <5>1
        <4> QED
          BY <4>1, <4>2
      <3> QED
        BY <1>6, <3>1
    <2> HIDE DEF h
    <2> QED
      BY <1>6, <2>1, <2>2, PlannedDrawn
  <1>10. Asked(o, s) \in Nat
    BY DEF Asked, Orders
  <1> QED
    BY <1>1, <1>2, <1>3, <1>4, <1>5, <1>6, <1>8, <1>9, <1>10

\* A result more, and its units with it.
LEMMA TradedAppend ==
  ASSUME NEW dealt \in Seq(Dealings), NEW r \in Dealings, NEW s
  PROVE  /\ Venue!Traded(dealt, s) \in Nat
         /\ Venue!Traded(Append(dealt, r), s) = Venue!Traded(dealt, s) + Dealt(r, s)
  <1>1. PICK N \in Nat : N = Len(dealt)
    BY LenProperties
  <1>2. PICK w : w = Append(dealt, r)
    OBVIOUS
  <1>3. /\ w \in Seq(Dealings) /\ Len(w) = N + 1 /\ w[N + 1] = r
        /\ \A i \in 1..N : w[i] = dealt[i]
    BY <1>1, <1>2, AppendProperties
  <1>4. /\ DOMAIN dealt = 1..N /\ DOMAIN w = 1..(N + 1)
        /\ \A i \in 1..N : dealt[i] \in Dealings
        /\ \A i \in 1..(N + 1) : w[i] \in Dealings
    BY <1>1, <1>3, LenProperties
  <1>5. PICK f, g : /\ f = [i \in DOMAIN dealt |-> IF dealt[i].symbol = s THEN dealt[i].units ELSE 0]
                    /\ g = [i \in DOMAIN w |-> IF w[i].symbol = s THEN w[i].units ELSE 0]
    OBVIOUS
  <1>6. f \in [1..N -> Int] /\ \A i \in 1..N : f[i] >= 0
    BY <1>4, <1>5 DEF Dealings
  <1>7. g \in [1..(N + 1) -> Int]
    BY <1>4, <1>5 DEF Dealings
  <1>8. PICK A, B, x : A = 1..N /\ B = 1..(N + 1) /\ x = N + 1
    OBVIOUS
  <1>9. IsFiniteSet(A) /\ IsFiniteSet(B)
    BY <1>8, FS_Interval
  <1>10. /\ f \in [A -> Int] /\ g \in [B -> Int] /\ A \ {x} = B \ {x}
         /\ x \notin A /\ x \in B
    BY <1>6, <1>7, <1>8
  <1>11. \A y \in A \ {x} : f[y] = g[y]
    BY <1>3, <1>4, <1>5, <1>8
  <1>12. SumFunction(f) \in Int /\ SumFunction(f) >= 0
    BY <1>6, <1>8, <1>9, SumFunctionType
  <1>13. SumFunction(g) = SumFunction(f) + g[x]
    <2>1. SumFunction(g) = SumFunction(f) - (IF x \in A THEN f[x] ELSE 0) + (IF x \in B THEN g[x] ELSE 0)
      BY <1>9, <1>10, <1>11, SumChangesAt
    <2>2. g[x] \in Int
      BY <1>10
    <2> QED
      BY <1>10, <1>12, <2>1, <2>2
  <1>14. g[x] = Dealt(r, s)
    BY <1>3, <1>4, <1>5, <1>8 DEF Dealt
  <1>15. Venue!Traded(dealt, s) = SumFunction(f) /\ Venue!Traded(w, s) = SumFunction(g)
    BY <1>5, VenueSum DEF Venue!Traded
  <1> QED
    BY <1>2, <1>12, <1>13, <1>14, <1>15

\* Orders ask a number of shares.
LEMMA PlannedTypes == \A seq \in Seq(Orders) : \A s : Venue!Planned(seq, s) \in Nat
  <1> SUFFICES ASSUME NEW seq \in Seq(Orders), NEW s PROVE Venue!Planned(seq, s) \in Nat
    OBVIOUS
  <1>1. PICK f \in [1..Len(seq) -> Nat] : Venue!Planned(seq, s) = SumFunction(f)
    BY PlannedSum
  <1>2. PICK A : A = 1..Len(seq)
    OBVIOUS
  <1>3. IsFiniteSet(A)
    BY <1>2, LenProperties, FS_Interval
  <1>4. f \in [A -> Int] /\ \A i \in A : f[i] >= 0
    BY <1>2
  <1>5. SumFunction(f) \in Int /\ SumFunction(f) >= 0
    BY <1>3, <1>4, SumFunctionType
  <1> QED
    BY <1>1, <1>5

\* What was dealt is a number of shares.
LEMMA TradedTypes == \A seq \in Seq(Dealings) : \A s : Venue!Traded(seq, s) \in Nat
  <1> SUFFICES ASSUME NEW seq \in Seq(Dealings), NEW s PROVE Venue!Traded(seq, s) \in Nat
    OBVIOUS
  <1>1. PICK N \in Nat : N = Len(seq) /\ DOMAIN seq = 1..N
    BY LenProperties
  <1>2. PICK f : f = [i \in DOMAIN seq |-> IF seq[i].symbol = s THEN seq[i].units ELSE 0]
    OBVIOUS
  <1>3. \A i \in 1..N : seq[i] \in Dealings
    BY <1>1, LenProperties
  <1>4. f \in [1..N -> Int] /\ \A i \in 1..N : f[i] >= 0
    BY <1>1, <1>2, <1>3 DEF Dealings
  <1>5. IsFiniteSet(1..N)
    BY FS_Interval
  <1>6. SumFunction(f) \in Int /\ SumFunction(f) >= 0
    BY <1>4, <1>5, SumFunctionType
  <1> QED
    BY <1>2, <1>6, VenueSum DEF Venue!Traded

\* Before the first answer of the venue nothing is dealt.
LEMMA TradedNothing == \A s : Venue!Traded(<< >>, s) = 0
  <1> SUFFICES ASSUME NEW s PROVE Venue!Traded(<< >>, s) = 0
    OBVIOUS
  <1>1. PICK e, f : e = << >> /\ f = [i \in DOMAIN e |-> IF e[i].symbol = s THEN e[i].units ELSE 0]
    OBVIOUS
  <1>2. DOMAIN e = {}
    BY <1>1
  <1>3. PICK A : A = {}
    OBVIOUS
  <1>4. f \in [A -> Int] /\ IsFiniteSet(A)
    BY <1>1, <1>2, <1>3, FS_EmptySet
  <1>5. SumFunction(f) = 0
    BY <1>3, <1>4, SumFunctionType
  <1> QED
    BY <1>1, <1>5, VenueSum DEF Venue!Traded

\* Without orders nothing is asked.
LEMMA PlannedNothing == \A s : Venue!Planned(<< >>, s) = 0
  <1> SUFFICES ASSUME NEW s PROVE Venue!Planned(<< >>, s) = 0
    OBVIOUS
  <1>1. PICK e, f : e = << >> /\ f = [i \in DOMAIN e |-> IF e[i].symbol = s THEN e[i].shares ELSE 0]
    OBVIOUS
  <1>2. DOMAIN e = {}
    BY <1>1
  <1>3. PICK A : A = {}
    OBVIOUS
  <1>4. f \in [A -> Int] /\ IsFiniteSet(A)
    BY <1>1, <1>2, <1>3, FS_EmptySet
  <1>5. SumFunction(f) = 0
    BY <1>3, <1>4, SumFunctionType
  <1> QED
    BY <1>1, <1>5, VenueSum DEF Venue!Planned

----------------------------------------------------------------------------
(* The worth of an account. *)

\* The universe is finite.
LEMMA UniverseFinite == IsFiniteSet(Venue!Names)
  <1>1. PICK N \in Nat : N = Len(PaperSymbols) /\ DOMAIN PaperSymbols = 1..N
    BY RebalanceAssumption, LenProperties
  <1>2. IsFiniteSet(1..N)
    BY FS_Interval
  <1> DEFINE g == [i \in 1..N |-> PaperSymbols[i]]
  <1>3. g \in [1..N -> Venue!Names] /\ \A u \in Venue!Names : \E i \in 1..N : g[i] = u
    BY <1>1 DEF Venue!Names
  <1>4. g \in Surjection(1..N, Venue!Names)
    BY <1>3, Fun_IsSurj
  <1> QED
    BY <1>2, <1>4, FS_Surjection

\* What positions are worth is a whole number, and no debt.
LEMMA WorthTypes ==
  ASSUME NEW money \in Int, NEW n \in [Venue!Names -> Nat], NEW px \in [Venue!Names -> Nat]
  PROVE  /\ Venue!EquityAt(money, n, px) \in Int
         /\ Venue!EquityAt(money, n, px) >= money
  <1>1. PICK U, f : U = Venue!Names /\ f = [s \in Venue!Names |-> n[s] * px[s]]
    OBVIOUS
  <1>2. \A s \in Venue!Names : n[s] * px[s] \in Nat
    <2>1. ASSUME NEW s \in Venue!Names PROVE n[s] * px[s] \in Nat
      <3>1. PICK a, b \in Nat : a = n[s] /\ b = px[s]
        OBVIOUS
      <3>2. a * b \in Nat
        OBVIOUS
      <3> QED
        BY <3>1, <3>2
    <2> QED
      BY <2>1
  <1>3. f \in [U -> Int] /\ \A s \in U : f[s] >= 0
    BY <1>1, <1>2
  <1>4. SumFunction(f) \in Int /\ SumFunction(f) >= 0
    BY <1>1, <1>3, UniverseFinite, SumFunctionType
  <1>5. Venue!EquityAt(money, n, px) = money + SumFunction(f)
    BY <1>1, VenueSum DEF Venue!EquityAt
  <1> QED
    BY <1>4, <1>5

----------------------------------------------------------------------------
(* From target weights to the queue. *)

NewOrders == {o \in Orders : ~o.limit /\ ~o.hop}

\* What a symbol needs, and the orders of all of them, are orders nobody has
\* sent yet (portfolio.py, compute_orders).
LEMMA OrderForTypes ==
  ASSUME NEW s \in Venue!Names, NEW n \in Nat, NEW weight \in Nat, NEW equity \in Int,
         NEW price \in Nat \ {0}
  PROVE  Venue!OrderFor(s, n, weight, equity, price) \in Seq(NewOrders)
  <1>1. PICK target \in Int : target = Venue!TargetShares(weight, equity, price)
    <2>1. PICK worth0 \in Int : worth0 = weight * equity
      OBVIOUS
    <2>2. worth0 \div (100 * price) \in Int
      OBVIOUS
    <2> QED
      BY <2>1, <2>2 DEF Venue!TargetShares
  <1>2. PICK size \in Nat : size = IF target - n < 0 THEN -(target - n) ELSE target - n
    <2>1. (IF target - n < 0 THEN -(target - n) ELSE target - n) \in Nat
      OBVIOUS
    <2> QED
      BY <2>1
  <1>3. PICK a, b : /\ a = [symbol |-> s, side |-> "sell", shares |-> n, full |-> TRUE,
                            limit |-> FALSE, hop |-> FALSE]
                    /\ b = [symbol |-> s, side |-> IF target - n > 0 THEN "buy" ELSE "sell",
                            shares |-> size, full |-> FALSE, limit |-> FALSE, hop |-> FALSE]
    OBVIOUS
  <1>4. a \in NewOrders /\ b \in NewOrders
    BY <1>3 DEF NewOrders, Orders
  <1>5. Venue!OrderFor(s, n, weight, equity, price) \in {<< a >>, << >>, << b >>}
    BY <1>1, <1>2, <1>3 DEF Venue!OrderFor
  <1>6. << a >> \in Seq(NewOrders) /\ << >> \in Seq(NewOrders) /\ << b >> \in Seq(NewOrders)
    BY <1>4
  <1> QED
    BY <1>5, <1>6

\* The orders of a rebalance are orders of the universe, and none of them is
\* a second try yet (orders.py, compute_orders).
LEMMA ComputedTypes ==
  ASSUME NEW n \in [Venue!Names -> Nat], NEW weights \in [Venue!Names -> Nat],
         NEW px \in [Venue!Names -> Nat \ {0}], NEW equity \in Int
  PROVE  Venue!ComputeOrders(n, weights, px, equity) \in Seq(NewOrders)
  <1>1. PICK N \in Nat : N = Len(PaperSymbols)
    BY RebalanceAssumption, LenProperties
  <1>2. \A i \in 1..N : PaperSymbols[i] \in Venue!Names
    BY <1>1, RebalanceAssumption, LenProperties DEF Venue!Names
  <1> DEFINE Of(i) == Venue!OrderFor(PaperSymbols[i], n[PaperSymbols[i]], weights[PaperSymbols[i]],
                                     equity, px[PaperSymbols[i]])
             F(f) == f = [i \in 0..Len(PaperSymbols) |->
                            IF i = 0 THEN << >>
                            ELSE f[i - 1] \o Venue!OrderFor(PaperSymbols[i], n[PaperSymbols[i]],
                                    weights[PaperSymbols[i]], equity, px[PaperSymbols[i]])]
  <1>3. \A i \in 1..N : Of(i) \in Seq(NewOrders)
    BY <1>2, OrderForTypes
  <1>4. \E f : F(f)
    <2>1. PICK S, step, base : /\ S = Seq(NewOrders) /\ base = << >>
                               /\ step = [p \in (0..N) \X Seq(NewOrders) |->
                                            IF p[1] = 0 THEN p[2] ELSE p[2] \o Of(p[1])]
      OBVIOUS
    <2>2. step \in [(0..N) \X S -> S]
      <3>1. ASSUME NEW p \in (0..N) \X Seq(NewOrders)
            PROVE  (IF p[1] = 0 THEN p[2] ELSE p[2] \o Of(p[1])) \in Seq(NewOrders)
        <4>1. p[1] \in 0..N /\ p[2] \in Seq(NewOrders)
          OBVIOUS
        <4>2. CASE p[1] = 0
          BY <4>1, <4>2
        <4>3. CASE p[1] # 0
          <5>1. Of(p[1]) \in Seq(NewOrders)
            BY <1>3, <4>1, <4>3
          <5> HIDE DEF Of
          <5> QED
            BY <4>1, <4>3, <5>1, ConcatProperties
        <4> HIDE DEF Of
        <4> QED
          BY <4>2, <4>3
      <3> HIDE DEF Of
      <3> QED
        BY <2>1, <3>1
    <2>3. PICK f \in [0..N -> S] : Follows(f, 0, N, base, step)
      <3>1. base \in S /\ 0 \in Int /\ N \in Int
        BY <2>1
      <3> HIDE DEF Of
      <3> QED
        BY <2>2, <3>1, RecursionAlong
    <2>4. ASSUME NEW i \in 0..Len(PaperSymbols)
          PROVE  f[i] = IF i = 0 THEN << >> ELSE f[i - 1] \o Of(i)
      <3>1. i \in 0..N /\ (i # 0 => i - 1 \in 0..N)
        BY <1>1
      <3>2. f[i] = IF i = 0 THEN base ELSE step[<< i, f[i - 1] >>]
        BY <2>3, <3>1 DEF Follows
      <3>3. i # 0 => step[<< i, f[i - 1] >>] = f[i - 1] \o Of(i)
        <4>1. i # 0 => << i, f[i - 1] >> \in (0..N) \X Seq(NewOrders)
          BY <2>1, <3>1
        <4> HIDE DEF Of
        <4> QED
          BY <2>1, <4>1
      <3> HIDE DEF Of
      <3> QED
        BY <2>1, <3>2, <3>3
    <2>5. f = [i \in 0..Len(PaperSymbols) |-> f[i]]
      BY <1>1, <2>3
    <2>6. f = [i \in 0..Len(PaperSymbols) |-> IF i = 0 THEN << >> ELSE f[i - 1] \o Of(i)]
      <3> HIDE DEF Of
      <3> QED
        BY <2>4, <2>5
    <2> QED
      BY <2>6
  <1>5. PICK f : F(f) /\ Venue!ComputeOrders(n, weights, px, equity) = Venue!SellsFirst(f[Len(PaperSymbols)])
    <2> HIDE DEF F
    <2>1. F(CHOOSE f : F(f))
      BY <1>4
    <2>2. Venue!ComputeOrders(n, weights, px, equity)
            = Venue!SellsFirst((CHOOSE f : F(f))[Len(PaperSymbols)])
      BY DEF Venue!ComputeOrders, F
    <2> QED
      BY <2>1, <2>2
  <1>6. \A i \in 0..N : f[i] = IF i = 0 THEN << >> ELSE f[i - 1] \o Of(i)
    BY <1>1, <1>5
  <1> DEFINE P == {i \in 0..N : f[i] \in Seq(NewOrders)}
  <1> HIDE DEF Of
  <1>7. 0 \in P
    <2>1. 0 \in 0..N /\ f[0] = << >>
      BY <1>6
    <2>2. << >> \in Seq(NewOrders)
      OBVIOUS
    <2>3. f[0] \in Seq(NewOrders)
      BY <2>1, <2>2
    <2> QED
      BY <2>1, <2>3
  <1>8. ASSUME NEW i \in 0..(N - 1), i \in P PROVE i + 1 \in P
    <2>1. PICK j \in 1..N : j = i + 1 /\ j - 1 = i
      <3>1. i + 1 \in 1..N /\ (i + 1) - 1 = i
        OBVIOUS
      <3> QED
        BY <3>1
    <2>2. f[j] = f[i] \o Of(j) /\ f[i] \in Seq(NewOrders)
      <3>1. j \in 0..N /\ j # 0
        OBVIOUS
      <3> QED
        BY <1>6, <1>8, <2>1, <3>1
    <2>3. Of(j) \in Seq(NewOrders)
      BY <1>3
    <2>4. f[j] \in Seq(NewOrders)
      BY <2>2, <2>3, ConcatProperties
    <2> QED
      BY <2>1, <2>4
  <1>9. N \in P
    <2> HIDE DEF P
    <2> QED
      BY <1>7, <1>8, InductionTo
  <1>10. PICK w : w = f[Len(PaperSymbols)]
    OBVIOUS
  <1>11. w \in Seq(NewOrders)
    BY <1>1, <1>9, <1>10
  <1>12. w \in Seq(Orders) /\ \A i \in 1..Len(w) : w[i] \in NewOrders
    <2>1. NewOrders \subseteq Orders
      BY DEF NewOrders
    <2>2. Seq(NewOrders) \subseteq Seq(Orders)
      BY <2>1
    <2> QED
      BY <1>11, <2>2, LenProperties
  <1>13. PICK k : k = Venue!SellsFirst(w)
    OBVIOUS
  <1>14. PickedFrom(k, w)
    BY <1>12, <1>13, SellsFirstPicks
  <1>15. k \in Seq(Orders) /\ \A i \in 1..Len(k) : k[i] \in NewOrders
    BY <1>12, <1>14 DEF PickedFrom
  <1>16. k \in Seq(NewOrders)
    <2>1. PICK n0 \in Nat : n0 = Len(k) /\ DOMAIN k = 1..n0
      BY <1>15, LenProperties
    <2>2. k = [i \in 1..n0 |-> k[i]]
      BY <1>15, <2>1
    <2>3. k \in [1..n0 -> NewOrders]
      BY <1>15, <2>1, <2>2
    <2> QED
      BY <2>3
  <1> QED
    BY <1>5, <1>10, <1>13, <1>16

\* A cut of the sorted orders picks each order at most once, sells first.
LEMMA CutPicks ==
  ASSUME NEW orders \in Seq(Orders), NEW m \in Nat, m <= Len(orders)
  PROVE  \E k : /\ k = SubSeq(Venue!SellsFirst(orders), 1, m)
                /\ PickedFrom(k, orders)
                /\ Len(k) = m /\ \A i \in 1..m : k[i] = Venue!SellsFirst(orders)[i]
  <1>1. PICK w, k : w = Venue!SellsFirst(orders) /\ k = SubSeq(w, 1, m)
    OBVIOUS
  <1>2. PickedFrom(w, orders) /\ Len(w) = Len(orders)
    BY <1>1, SellsFirstPicks
  <1>3. PICK N \in Nat : N = Len(w) /\ N = Len(orders)
    BY <1>2, LenProperties
  <1>4. PICK h : /\ h \in [1..N -> 1..N]
                 /\ \A i, j \in 1..N : h[i] = h[j] => i = j
                 /\ \A i \in 1..N : w[i] = orders[h[i]]
    BY <1>2, <1>3 DEF PickedFrom
  <1>6. m \in 0..N
    BY <1>3
  <1>8. w \in Seq(Orders) /\ NoSellAfterBuy(w)
    BY <1>2 DEF PickedFrom
  <1>9. k \in Seq(Orders) /\ Len(k) = m /\ \A i \in 1..m : k[i] = w[i]
    <2>6. \A i \in 1..m : w[i] \in Orders
      <3>1. \A i \in 1..N : w[i] \in Orders
        BY <1>3, <1>8, LenProperties
      <3> QED
        BY <1>6, <3>1
    <2>1. SubSeq(w, 1, m) \in Seq(Orders)
      BY <2>6, SubSeqProperties
    <2>2. Len(SubSeq(w, 1, m)) = IF 1 <= m THEN m - 1 + 1 ELSE 0
      BY <2>6, SubSeqProperties
    <2>3. \A i \in 1..(m - 1 + 1) : SubSeq(w, 1, m)[i] = w[1 + i - 1]
      BY <2>6, SubSeqProperties
    <2>4. Len(SubSeq(w, 1, m)) = m
      BY <2>2
    <2>5. ASSUME NEW i \in 1..m PROVE SubSeq(w, 1, m)[i] = w[i]
      <3>1. i \in 1..(m - 1 + 1) /\ 1 + i - 1 = i
        OBVIOUS
      <3> QED
        BY <2>3, <3>1
    <2> QED
      BY <1>1, <2>1, <2>4, <2>5
  <1>10. PickedFrom(k, orders)
    <2> DEFINE g == [i \in 1..m |-> h[i]]
    <2>1. \A i \in 1..m : i \in 1..N
      BY <1>6
    <2>2. /\ g \in [1..Len(k) -> 1..Len(orders)]
          /\ \A i, j \in 1..Len(k) : g[i] = g[j] => i = j
          /\ \A i \in 1..Len(k) : k[i] = orders[g[i]]
      BY <1>3, <1>4, <1>9, <2>1
    <2>3. NoSellAfterBuy(k)
      BY <1>3, <1>8, <1>9, <2>1 DEF NoSellAfterBuy
    <2> HIDE DEF g
    <2> QED
      BY <1>9, <2>2, <2>3 DEF PickedFrom
  <1> QED
    BY <1>1, <1>9, <1>10

\* What is queued is picked from the plan, each order once and sells first; a
\* cap that the sells fill leaves no buy in (orders.py, truncate_to_cap).
LEMMA QueuePicks ==
  ASSUME NEW orders \in Seq(Orders)
  PROVE  /\ PickedFrom(Venue!SellsFirst(orders), orders)
         /\ PickedFrom(Venue!Truncate(orders), orders)
         /\ Len(Venue!Side(orders, "sell")) >= VenueMaxOrders => AllOn(Venue!Truncate(orders), "sell")
  <1>1. PICK w : w = Venue!SellsFirst(orders)
    OBVIOUS
  <1>2. PickedFrom(w, orders) /\ Len(w) = Len(orders)
    BY <1>1, SellsFirstPicks
  <1>3. PICK N \in Nat : N = Len(w) /\ N = Len(orders)
    BY <1>2, LenProperties
  <1>5. PICK cap \in Nat : cap = VenueMaxOrders
    BY RebalanceAssumption
  <1>6. PICK m \in 0..N : m = Venue!Min({VenueMaxOrders, Len(orders)}) /\ m <= cap
    <2>1. Venue!Min({cap, N}) = IF cap <= N THEN cap ELSE N
      BY VenueSmaller
    <2> QED
      BY <1>3, <1>5, <2>1
  <1>7. PICK k : k = SubSeq(w, 1, m)
    OBVIOUS
  <1>9. PickedFrom(k, orders) /\ Len(k) = m /\ \A i \in 1..m : k[i] = w[i]
    <2>1. m \in Nat /\ m <= Len(orders)
      BY <1>3, <1>6
    <2> QED
      BY <1>1, <1>7, <2>1, CutPicks
  <1>11. k = Venue!Truncate(orders)
    BY <1>1, <1>6, <1>7 DEF Venue!Truncate
  <1>12. ASSUME Len(Venue!Side(orders, "sell")) >= VenueMaxOrders PROVE AllOn(k, "sell")
    <2>1. PICK y \in Nat : y = Len(Venue!Side(orders, "sell"))
      BY SideSelects, LenProperties
    <2>2. \A i \in 1..N : i <= y => w[i].side = "sell"
      BY <1>1, <1>3, <2>1, SellsFirstPicks
    <2>3. m <= y
      BY <1>5, <1>6, <1>12, <2>1
    <2> QED
      BY <1>9, <2>2, <2>3 DEF AllOn
  <1> QED
    BY <1>1, <1>2, <1>9, <1>11, <1>12

----------------------------------------------------------------------------
(* The rebalance. *)

VenueTypes ==
    /\ cash \in Nat /\ shares \in [Venue!Names -> Nat]
    /\ prices \in [Venue!Names -> Nat \ {0}]
    /\ queue \in Seq(Orders) /\ outcome \in Seq(Dealings) /\ budget \in Nat
    /\ plan.orders \in Seq(Orders) /\ plan.liquidation \in BOOLEAN

\* What was dealt and what is queued come from the plan, sells before buys; a
\* queue behind a buy holds buys only, and one that the sells fill no buy.
PlanKept ==
    /\ ~plan.liquidation => budget + Len(outcome) <= VenueMaxOrders
    /\ \A s \in Venue!Names :
          Venue!Traded(outcome, s) + Venue!Planned(queue, s) <= Venue!Planned(plan.orders, s)
    /\ NoSellAfterBuy(outcome) /\ NoSellAfterBuy(queue)
    /\ (\E i \in 1..Len(outcome) : outcome[i].side = "buy") => AllOn(queue, "buy")
    /\ ~plan.liquidation /\ Len(Venue!Side(plan.orders, "sell")) >= VenueMaxOrders
       => AllOn(queue, "sell") /\ AllOn(outcome, "sell")

\* Only the head was ever sent before, and the cash that paid for it is there.
PaidFor ==
    /\ \A i \in 1..Len(queue) : queue[i].hop =>
          /\ i = 1
          /\ queue[i].side = "buy" =>
                Venue!Affordable(queue[i].shares, prices[queue[i].symbol], cash)
    /\ \A i \in 1..Len(outcome) : outcome[i].answer # "bounced"

VenueInv == VenueTypes /\ PlanKept /\ PaidFor

\* The account's worth is a whole number (paper.py, equity).
LEMMA EquityTypes == VenueTypes => Venue!EquityAt(cash, shares, prices) \in Int
  <1> SUFFICES ASSUME VenueTypes PROVE Venue!EquityAt(cash, shares, prices) \in Int
    OBVIOUS
  <1>1. PICK money, n, px : money = cash /\ n = shares /\ px = prices
    OBVIOUS
  <1>2. money \in Int /\ n \in [Venue!Names -> Nat] /\ px \in [Venue!Names -> Nat]
    BY <1>1 DEF VenueTypes
  <1>3. Venue!EquityAt(money, n, px) \in Int
    BY <1>2, WorthTypes
  <1> QED
    BY <1>1, <1>3

\* A rebalance begins with what its plan holds.
LEMMA PlanKeeps ==
  ASSUME VenueTypes, NEW weights \in [Venue!Names -> Nat], NEW limit \in BOOLEAN,
         NEW liquidation \in BOOLEAN, Plan(weights, limit, liquidation)
  PROVE  VenueInv'
  <1>1. PICK equity \in Int : equity = Venue!EquityAt(cash, shares, prices)
    BY EquityTypes
  <1>2. PICK held0, px : held0 = shares /\ px = prices
    OBVIOUS
  <1>3. PICK computed : computed = Venue!ComputeOrders(held0, weights, px, equity)
    OBVIOUS
  <1>4. computed \in Seq(Orders) /\ \A i \in 1..Len(computed) : ~computed[i].hop
    <2>1. computed \in Seq(NewOrders)
      BY <1>1, <1>2, <1>3, ComputedTypes DEF VenueTypes
    <2>2. NewOrders \subseteq Orders
      BY DEF NewOrders
    <2>3. Seq(NewOrders) \subseteq Seq(Orders)
      BY <2>2
    <2> QED
      BY <2>1, <2>3, LenProperties DEF NewOrders
  <1>5. PICK N \in Nat : N = Len(computed) /\ DOMAIN computed = 1..N
    BY <1>4, LenProperties
  <1>6. PICK orders : orders = [i \in 1..N |-> [computed[i] EXCEPT !.limit = limit]]
    OBVIOUS
  <1>7. ASSUME NEW i \in 1..N
        PROVE  [computed[i] EXCEPT !.limit = limit] \in Orders /\ ~[computed[i] EXCEPT !.limit = limit].hop
    <2>1. PICK o \in Orders : o = computed[i] /\ ~o.hop
      BY <1>4, <1>5, LenProperties
    <2>2. [o EXCEPT !.limit = limit] = [symbol |-> o.symbol, side |-> o.side, shares |-> o.shares,
                                         full |-> o.full, limit |-> limit, hop |-> o.hop]
      BY DEF Orders
    <2>3. [o EXCEPT !.limit = limit] \in Orders
      BY <2>2 DEF Orders
    <2> QED
      BY <2>1, <2>2, <2>3
  <1>8. orders \in Seq(Orders) /\ Len(orders) = N /\ \A i \in 1..N : ~orders[i].hop
    <2>1. orders \in [1..N -> Orders] /\ \A i \in 1..N : ~orders[i].hop
      BY <1>6, <1>7
    <2>2. orders \in Seq(Orders)
      BY <2>1
    <2> QED
      BY <2>1, <2>2, LenProperties
  <1>9. PICK k : k = IF liquidation THEN Venue!SellsFirst(orders) ELSE Venue!Truncate(orders)
    OBVIOUS
  <1>10. /\ queue' = k /\ outcome' = << >>
         /\ budget' = IF liquidation THEN Venue!Unlimited ELSE VenueMaxOrders
         /\ plan' = [orders |-> orders, liquidation |-> liquidation]
         /\ cash' = cash /\ shares' = shares /\ prices' = prices
    BY <1>1, <1>2, <1>3, <1>5, <1>6, <1>9 DEF Plan, Venue!Begin
  <1>11. PickedFrom(k, orders)
    BY <1>8, <1>9, QueuePicks
  <1>12. k \in Seq(Orders) /\ NoSellAfterBuy(k) /\ \A i \in 1..Len(k) : ~k[i].hop
    BY <1>8, <1>11 DEF PickedFrom
  <1>13. plan'.orders = orders /\ plan'.liquidation = liquidation
    BY <1>10
  <1>14. << >> \in Seq(Dealings) /\ Len(<< >>) = 0
    OBVIOUS
  <1>15. budget' \in Nat /\ (~liquidation => budget' = VenueMaxOrders) /\ VenueMaxOrders \in Nat
    BY <1>10, RebalanceAssumption DEF Venue!Unlimited
  <1>16. VenueTypes'
    BY <1>8, <1>10, <1>12, <1>13, <1>14, <1>15 DEF VenueTypes
  <1>17. PlanKept'
    <2>1. ASSUME NEW s \in Venue!Names
          PROVE  Venue!Traded(<< >>, s) + Venue!Planned(k, s) <= Venue!Planned(orders, s)
      <3>1. Venue!Traded(<< >>, s) = 0
        BY TradedNothing
      <3>2. /\ Venue!Planned(k, s) \in Nat /\ Venue!Planned(orders, s) \in Nat
            /\ Venue!Planned(k, s) <= Venue!Planned(orders, s)
        BY <1>8, <1>11, PlannedPicked
      <3> QED
        BY <3>1, <3>2
    <2>2. \A s \in Venue!Names :
            Venue!Traded(outcome', s) + Venue!Planned(queue', s) <= Venue!Planned(plan'.orders, s)
      BY <1>10, <1>13, <2>1
    <2>3. ~plan'.liquidation => budget' + Len(outcome') <= VenueMaxOrders
      BY <1>10, <1>13, <1>14, <1>15
    <2>4. NoSellAfterBuy(outcome') /\ \A side : AllOn(outcome', side)
      BY <1>10, <1>14 DEF NoSellAfterBuy, AllOn
    <2>5. ~(\E i \in 1..Len(outcome') : outcome'[i].side = "buy")
      BY <1>10, <1>14
    <2>6. ~plan'.liquidation /\ Len(Venue!Side(plan'.orders, "sell")) >= VenueMaxOrders
          => AllOn(queue', "sell")
      BY <1>8, <1>9, <1>10, <1>13, QueuePicks
    <2> QED
      BY <1>10, <1>12, <2>2, <2>3, <2>4, <2>5, <2>6 DEF PlanKept
  <1>18. PaidFor'
    BY <1>10, <1>12, <1>14 DEF PaidFor
  <1> QED
    BY <1>16, <1>17, <1>18 DEF VenueInv

\* A queue that loses its head keeps what it promised.
LEMMA TailKeeps ==
  ASSUME VenueInv, queue # << >>, queue' = Tail(queue), budget' \in Nat, budget' <= budget,
         UNCHANGED << cash, shares, prices, outcome, plan >>
  PROVE  VenueInv'
  <1>1. PICK q, t : q = queue /\ t = Tail(queue)
    OBVIOUS
  <1>2. q \in Seq(Orders) /\ q # << >> /\ t = Tail(q)
    BY <1>1 DEF VenueInv, VenueTypes
  <1>3. PICK o : o = Head(q)
    OBVIOUS
  <1>4. o \in Orders /\ o.shares \in Nat
    <2>1. o \in Orders
      BY <1>2, <1>3, HeadTailProperties
    <2> QED
      BY <2>1 DEF Orders
  <1>5. PICK N \in Nat : N = Len(q)
    BY <1>2, LenProperties
  <1>6. /\ t \in Seq(Orders) /\ Len(t) = N - 1 /\ \A i \in 1..(N - 1) : t[i] = q[i + 1]
        /\ \A s : /\ Venue!Planned(q, s) \in Nat /\ Venue!Planned(t, s) \in Nat
                  /\ Venue!Planned(t, s) + Asked(o, s) <= Venue!Planned(q, s)
    <2>1. ASSUME NEW s
          PROVE  /\ t \in Seq(Orders) /\ Len(t) = N - 1 /\ \A i \in 1..(N - 1) : t[i] = q[i + 1]
                 /\ Venue!Planned(q, s) \in Nat /\ Venue!Planned(t, s) \in Nat
                 /\ Venue!Planned(t, s) + Asked(o, s) <= Venue!Planned(q, s)
      <3>1. o.symbol = Head(q).symbol /\ o.shares <= Head(q).shares
        BY <1>3, <1>4
      <3> QED
        BY <1>2, <1>4, <1>5, <3>1, PlannedRest
    <2> QED
      BY <2>1
  <1>7. \A s : Venue!Planned(t, s) <= Venue!Planned(q, s)
    <2>1. \A s : Asked(o, s) \in Nat
      BY <1>4 DEF Asked
    <2> QED
      BY <1>6, <2>1
  <1>8. VenueTypes'
    BY <1>1, <1>6 DEF VenueInv, VenueTypes
  <1>9. \A i \in 1..(N - 1) : i + 1 \in 1..N
    OBVIOUS
  <1>10. NoSellAfterBuy(t) /\ \A side : AllOn(q, side) => AllOn(t, side)
    <2>1. NoSellAfterBuy(q)
      BY <1>1 DEF VenueInv, PlanKept
    <2>2. NoSellAfterBuy(t)
      <3>1. ASSUME NEW i \in 1..(N - 1), NEW j \in 1..(N - 1), t[i].side = "buy", t[j].side = "sell"
            PROVE  j < i
        <4>1. PICK x, y \in 1..N : x = i + 1 /\ y = j + 1
          BY <1>9
        <4>2. q[x].side = "buy" /\ q[y].side = "sell"
          BY <1>6, <3>1, <4>1
        <4>3. y < x
          BY <1>5, <2>1, <4>2 DEF NoSellAfterBuy
        <4> QED
          BY <4>1, <4>3
      <3> QED
        BY <1>6, <3>1 DEF NoSellAfterBuy
    <2>3. \A side : AllOn(q, side) => AllOn(t, side)
      BY <1>5, <1>6, <1>9 DEF AllOn
    <2> QED
      BY <2>2, <2>3
  <1>11. PlanKept'
    <2>1. ASSUME NEW s \in Venue!Names
          PROVE  Venue!Traded(outcome, s) + Venue!Planned(t, s) <= Venue!Planned(plan.orders, s)
      <3>1. PICK a, b : a = outcome /\ b = plan.orders
        OBVIOUS
      <3>2. Venue!Traded(a, s) \in Nat /\ Venue!Planned(b, s) \in Nat
        <4>1. a \in Seq(Dealings) /\ b \in Seq(Orders)
          BY <3>1 DEF VenueInv, VenueTypes
        <4> QED
          BY <4>1, TradedTypes, PlannedTypes
      <3>3. Venue!Traded(a, s) + Venue!Planned(q, s) <= Venue!Planned(b, s)
        BY <1>1, <3>1 DEF VenueInv, PlanKept
      <3> QED
        BY <1>6, <1>7, <3>1, <3>2, <3>3
    <2>2. \A s \in Venue!Names :
            Venue!Traded(outcome', s) + Venue!Planned(queue', s) <= Venue!Planned(plan'.orders, s)
      BY <1>1, <2>1
    <2>3. ~plan'.liquidation => budget' + Len(outcome') <= VenueMaxOrders
      <3>1. budget \in Nat /\ Len(outcome) \in Nat /\ VenueMaxOrders \in Nat
        BY RebalanceAssumption, LenProperties DEF VenueInv, VenueTypes
      <3> QED
        BY <3>1 DEF VenueInv, PlanKept
    <2> QED
      BY <1>1, <1>10, <2>2, <2>3 DEF VenueInv, PlanKept
  <1>12. PaidFor'
    <2>1. ASSUME NEW i \in 1..(N - 1) PROVE ~t[i].hop
      <3>1. PICK x \in 1..N : x = i + 1 /\ x # 1
        <4>1. i + 1 \in 1..N /\ i + 1 # 1
          OBVIOUS
        <4> QED
          BY <4>1
      <3>2. ~q[x].hop
        BY <1>1, <1>5, <3>1 DEF VenueInv, PaidFor
      <3> QED
        BY <1>6, <3>1, <3>2
    <2> QED
      BY <1>1, <1>6, <2>1 DEF VenueInv, PaidFor
  <1> QED
    BY <1>8, <1>11, <1>12 DEF VenueInv

\* What the venue answers to an order that was sized: the account stays solvent
\* and no buy bounces (execution.py, _execute_one; broker.py, submit).
LEMMA AnswerPaid ==
  ASSUME NEW o \in Orders, NEW money \in Nat, NEW n \in [Venue!Names -> Nat],
         NEW px \in [Venue!Names -> Nat \ {0}], NEW f \in 0..o.shares,
         o.side = "buy" => Venue!Affordable(o.shares, px[o.symbol], money),
         cash = money, shares = n, prices = px,
         NEW answer, answer = Venue!Answer(o, f),
         NEW units, units = IF answer \in {"filled", "partial"} THEN f ELSE 0,
         NEW sign, sign = IF o.side = "buy" THEN 1 ELSE -1,
         NEW left0, left0 = money - sign * units * px[o.symbol] - Venue!Cost(units, px[o.symbol])
  PROVE  /\ answer \in {"unfilled", "filled", "partial"}
         /\ units \in 0..o.shares
         /\ left0 \in Nat
         /\ [n EXCEPT ![o.symbol] = @ + sign * units] \in [Venue!Names -> Nat]
         /\ answer = "unfilled" => units = 0 /\ left0 = money
  <1>1. o.symbol \in Venue!Names /\ o.side \in {"buy", "sell"} /\ o.shares \in Nat
    BY DEF Orders
  <1>2. PICK N \in Nat : N = o.shares
    BY <1>1
  <1>3. PICK price \in Nat \ {0} : price = px[o.symbol]
    BY <1>1
  <1>4. PICK have \in Nat : have = n[o.symbol]
    BY <1>1
  <1>5. f \in Nat /\ f <= N
    BY <1>2
  <1>6. PICK cost, full0 \in Nat : /\ cost = Venue!Cost(f, price) /\ full0 = Venue!Cost(N, price)
                                  /\ cost <= full0
    <2>1. /\ Venue!Cost(f, price) \in Nat /\ Venue!Cost(N, price) \in Nat
          /\ Venue!Cost(f, price) <= Venue!Cost(N, price)
      <3>1. N <= N
        OBVIOUS
      <3> QED
        BY <1>5, <3>1, CostGrows
    <2> QED
      BY <2>1
  <1>7. PICK paid, whole \in Nat : paid = f * price /\ whole = N * price /\ paid <= whole
    BY <1>5, Grows
  <1>8. Venue!Cost(0, price) = 0
    BY CostGrows
  <1>9. answer = IF f = 0 \/ price <= 0 THEN "unfilled"
                 ELSE IF o.side = "buy" /\ paid + cost > money THEN "bounced"
                 ELSE IF o.side = "sell" /\ (f > have \/ cost > paid) THEN "unfilled"
                 ELSE IF f = N THEN "filled" ELSE "partial"
    <2>1. prices[o.symbol] = price /\ shares[o.symbol] = have /\ cash = money
      BY <1>3, <1>4
    <2>2. f * price = paid /\ Venue!Cost(f, price) = cost /\ o.shares = N
      BY <1>2, <1>6, <1>7
    <2> QED
      BY <2>1, <2>2 DEF Venue!Answer
  <1>10. left0 = money - sign * units * price - Venue!Cost(units, price)
    BY <1>3
  <1>11. ASSUME units = 0
         PROVE  left0 = money /\ [n EXCEPT ![o.symbol] = @ + sign * units] \in [Venue!Names -> Nat]
    <2>1. sign \in Int
      OBVIOUS
    <2>2. sign * units = 0 /\ sign * units * price = 0
      BY <1>11, <2>1
    <2>3. have + sign * units \in Nat
      BY <2>2
    <2> QED
      BY <1>1, <1>4, <1>8, <1>10, <1>11, <2>2, <2>3
  <1>12. CASE o.side = "buy"
    <2>1. sign = 1 /\ o.side # "sell"
      BY <1>12
    <2>2. whole + full0 <= money
      BY <1>2, <1>3, <1>6, <1>7, <1>12 DEF Venue!Affordable
    <2>3. paid + cost <= money
      BY <1>6, <1>7, <2>2
    <2>4. answer = IF f = 0 THEN "unfilled" ELSE IF f = N THEN "filled" ELSE "partial"
      <3>1. ~(price <= 0) /\ ~(paid + cost > money)
        BY <2>3
      <3> QED
        BY <1>9, <2>1, <3>1
    <2>5. CASE answer = "unfilled"
      <3>1. units = 0
        BY <2>5
      <3> QED
        BY <1>2, <1>11, <2>5, <3>1
    <2>6. CASE answer # "unfilled"
      <3>1. units = f /\ answer \in {"filled", "partial"}
        BY <2>4, <2>6
      <3>2. sign * units = f /\ sign * units * price = paid
        BY <1>5, <1>7, <2>1, <3>1
      <3>3. left0 = money - paid - cost
        BY <1>6, <1>10, <3>1, <3>2
      <3>4. have + sign * units \in Nat
        BY <1>5, <3>2
      <3>5. [n EXCEPT ![o.symbol] = @ + sign * units] \in [Venue!Names -> Nat]
        BY <1>1, <1>4, <3>4
      <3>6. left0 \in Nat
        BY <1>6, <1>7, <2>3, <3>3
      <3> QED
        BY <2>6, <3>1, <3>5, <3>6
    <2> QED
      BY <2>5, <2>6
  <1>13. CASE o.side = "sell"
    <2>1. sign = -1 /\ o.side # "buy"
      BY <1>13
    <2>2. answer = IF f = 0 \/ f > have \/ cost > paid THEN "unfilled"
                   ELSE IF f = N THEN "filled" ELSE "partial"
      BY <1>3, <1>9, <1>13, <2>1
    <2>3. CASE answer = "unfilled"
      <3>1. units = 0
        BY <2>3
      <3> QED
        BY <1>2, <1>11, <2>3, <3>1
    <2>4. CASE answer # "unfilled"
      <3>1. units = f /\ answer \in {"filled", "partial"} /\ f <= have /\ cost <= paid
        BY <1>4, <1>5, <1>6, <1>7, <2>2, <2>4
      <3>2. sign * units = -f /\ sign * units * price = -paid
        <4>1. sign * units = -f
          BY <1>5, <2>1, <3>1
        <4>2. (-f) * price = -(f * price)
          BY <1>5
        <4> QED
          BY <1>7, <4>1, <4>2
      <3>3. left0 = money + paid - cost
        BY <1>6, <1>7, <1>10, <3>1, <3>2
      <3>4. have + sign * units \in Nat
        BY <1>4, <1>5, <3>1, <3>2
      <3>5. [n EXCEPT ![o.symbol] = @ + sign * units] \in [Venue!Names -> Nat]
        BY <1>1, <1>4, <3>4
      <3>6. left0 \in Nat
        BY <1>6, <1>7, <3>1, <3>3
      <3> QED
        BY <2>4, <3>1, <3>5, <3>6
    <2> QED
      BY <2>3, <2>4
  <1> QED
    BY <1>1, <1>12, <1>13

\* A queue of which the head goes or stays in another form keeps its sides.
LEMMA SidesKept ==
  ASSUME NEW q \in Seq(Orders), NEW k \in Seq(Orders), NEW d \in {0, 1}, Len(k) = Len(q) - d,
         \A i \in 1..Len(k) : k[i].side = q[i + d].side,
         NoSellAfterBuy(q), q # << >>
  PROVE  /\ NoSellAfterBuy(k)
         /\ \A side : AllOn(q, side) => AllOn(k, side)
         /\ q[1].side = "buy" => AllOn(q, "buy")
  <1>1. PICK N \in Nat : N = Len(q)
    BY LenProperties
  <1>2. PICK M \in Nat : M = Len(k) /\ M = N - d
    BY <1>1, LenProperties
  <1>3. \A i \in 1..M : i + d \in 1..N
    BY <1>2
  <1>4. NoSellAfterBuy(k)
    <2>1. ASSUME NEW i \in 1..M, NEW j \in 1..M, k[i].side = "buy", k[j].side = "sell" PROVE j < i
      <3>1. PICK x, y \in 1..N : x = i + d /\ y = j + d
        BY <1>3
      <3>2. q[x].side = "buy" /\ q[y].side = "sell"
        BY <1>2, <2>1, <3>1
      <3>3. y < x
        BY <1>1, <3>2 DEF NoSellAfterBuy
      <3> QED
        BY <3>1, <3>3
    <2> QED
      BY <1>2, <2>1 DEF NoSellAfterBuy
  <1>5. \A side : AllOn(q, side) => AllOn(k, side)
    BY <1>1, <1>2, <1>3 DEF AllOn
  <1>6. ASSUME q[1].side = "buy" PROVE AllOn(q, "buy")
    <2>1. 1 \in 1..N
      BY <1>1, EmptySeq, LenProperties
    <2>2. ASSUME NEW i \in 1..N PROVE q[i].side = "buy"
      <3>1. q[i] \in Orders
        BY <1>1, LenProperties
      <3>2. q[i].side # "sell"
        BY <1>1, <1>6, <2>1 DEF NoSellAfterBuy
      <3> QED
        BY <3>1, <3>2 DEF Orders
    <2> QED
      BY <1>1, <2>2 DEF AllOn
  <1> QED
    BY <1>4, <1>5, <1>6

\* One submission to its end: its fill comes out of what is queued, and what it
\* leaves behind is the rest of the queue or the market order it becomes
\* (execution.py, execute_rebalance and _submit_single).
LEMMA SubmitKeeps ==
  ASSUME VenueInv, Venue!Submit
  PROVE  VenueInv'
  <1>1. PICK q, money, n, px, done0, b, asked : /\ q = queue /\ money = cash /\ n = shares /\ px = prices
                                         /\ done0 = outcome /\ b = budget /\ asked = plan
    OBVIOUS
  <1>2. /\ q \in Seq(Orders) /\ q # << >> /\ money \in Nat /\ n \in [Venue!Names -> Nat]
        /\ px \in [Venue!Names -> Nat \ {0}] /\ done0 \in Seq(Dealings) /\ b \in Nat
        /\ asked.orders \in Seq(Orders) /\ asked.liquidation \in BOOLEAN
    BY <1>1 DEF VenueInv, VenueTypes, Venue!Submit
  <1>3. PICK head, o : head = Head(q) /\ o = Venue!Sized(head, px, money)
    OBVIOUS
  <1>4. PICK N \in Nat : N = Len(q) /\ N > 0
    BY <1>2, LenProperties, EmptySeq
  <1>5. head \in Orders /\ head = q[1] /\ 1 \in 1..N
    BY <1>2, <1>3, <1>4, HeadTailProperties
  <1>6. head.hop /\ head.side = "buy" => Venue!Affordable(head.shares, px[head.symbol], money)
    BY <1>1, <1>4, <1>5 DEF VenueInv, PaidFor
  <1>7. /\ o \in Orders /\ o.symbol = head.symbol /\ o.side = head.side /\ o.shares <= head.shares
        /\ o.side = "buy" => o.shares = 0 \/ Venue!Affordable(o.shares, px[o.symbol], money)
    <2>1. PICK p : p = Venue!Sized(head, px, money)
      OBVIOUS
    <2>2. /\ p \in Orders /\ p.symbol = head.symbol /\ p.side = head.side /\ p.shares <= head.shares
          /\ p.side = "buy" /\ (head.hop => Venue!Affordable(head.shares, px[head.symbol], money))
             => p.shares = 0 \/ Venue!Affordable(p.shares, px[p.symbol], money)
      <3>1. px \in [Venue!Names -> Nat \ {0}] /\ money \in Nat /\ head \in Orders
        BY <1>2, <1>5
      <3> QED
        BY <2>1, <3>1, SizedFits
    <2> QED
      BY <1>3, <1>6, <2>1, <2>2
  <1>8. /\ o.shares > 0 /\ b >= 1 /\ budget' = b - 1 /\ prices' = px /\ plan' = asked
        /\ \E f \in 0..o.shares :
             LET answer == Venue!Answer(o, f)
                 units  == IF answer \in {"filled", "partial"} THEN f ELSE 0
                 sign   == IF o.side = "buy" THEN 1 ELSE -1
             IN  /\ cash' = cash - sign * units * prices[o.symbol] - Venue!Cost(units, prices[o.symbol])
                 /\ shares' = [shares EXCEPT ![o.symbol] = @ + sign * units]
                 /\ outcome' = Append(outcome, [symbol |-> o.symbol, side |-> o.side,
                                                units |-> units, answer |-> answer])
                 /\ queue' = IF Venue!Escalates(o, answer)
                             THEN << [o EXCEPT !.limit = FALSE, !.hop = TRUE] >> \o Tail(queue)
                             ELSE Tail(queue)
    BY <1>1, <1>3 DEF Venue!Submit, Venue!Fills, Venue!BudgetAfter
  <1>9. PICK f \in 0..o.shares : \E answer, units, sign :
           /\ answer = Venue!Answer(o, f)
           /\ units = IF answer \in {"filled", "partial"} THEN f ELSE 0
           /\ sign = IF o.side = "buy" THEN 1 ELSE -1
           /\ cash' = money - sign * units * px[o.symbol] - Venue!Cost(units, px[o.symbol])
           /\ shares' = [n EXCEPT ![o.symbol] = @ + sign * units]
           /\ outcome' = Append(done0, [symbol |-> o.symbol, side |-> o.side,
                                        units |-> units, answer |-> answer])
           /\ queue' = IF Venue!Escalates(o, answer)
                       THEN << [o EXCEPT !.limit = FALSE, !.hop = TRUE] >> \o Tail(q)
                       ELSE Tail(q)
    BY <1>1, <1>8
  <1>10. PICK answer, units, sign :
           /\ answer = Venue!Answer(o, f)
           /\ units = IF answer \in {"filled", "partial"} THEN f ELSE 0
           /\ sign = IF o.side = "buy" THEN 1 ELSE -1
           /\ cash' = money - sign * units * px[o.symbol] - Venue!Cost(units, px[o.symbol])
           /\ shares' = [n EXCEPT ![o.symbol] = @ + sign * units]
           /\ outcome' = Append(done0, [symbol |-> o.symbol, side |-> o.side,
                                        units |-> units, answer |-> answer])
           /\ queue' = IF Venue!Escalates(o, answer)
                       THEN << [o EXCEPT !.limit = FALSE, !.hop = TRUE] >> \o Tail(q)
                       ELSE Tail(q)
    BY <1>9
  <1>11. PICK left0 : left0 = money - sign * units * px[o.symbol] - Venue!Cost(units, px[o.symbol])
    OBVIOUS
  <1>12. /\ answer \in {"unfilled", "filled", "partial"}
         /\ units \in 0..o.shares
         /\ left0 \in Nat
         /\ [n EXCEPT ![o.symbol] = @ + sign * units] \in [Venue!Names -> Nat]
         /\ answer = "unfilled" => units = 0 /\ left0 = money
    <2>1. o.side = "buy" => Venue!Affordable(o.shares, px[o.symbol], money)
      BY <1>7, <1>8
    <2>2. cash = money /\ shares = n /\ prices = px
      BY <1>1
    <2> QED
      <3>1. /\ o \in Orders /\ money \in Nat /\ n \in [Venue!Names -> Nat]
            /\ px \in [Venue!Names -> Nat \ {0}]
        BY <1>2, <1>7
      <3>2. /\ answer = Venue!Answer(o, f)
            /\ units = IF answer \in {"filled", "partial"} THEN f ELSE 0
            /\ sign = IF o.side = "buy" THEN 1 ELSE -1
        BY <1>10
      <3> QED
        BY <1>11, <2>1, <2>2, <3>1, <3>2, AnswerPaid
  <1>13. o.symbol \in Venue!Names /\ o.side \in {"buy", "sell"} /\ o.shares \in Nat
    BY <1>7 DEF Orders
  <1>14. PICK r : r = [symbol |-> o.symbol, side |-> o.side, units |-> units, answer |-> answer]
    OBVIOUS
  <1>15. r \in Dealings /\ r.side = o.side /\ r.symbol = o.symbol /\ r.units = units /\ r.answer = answer
    <2>1. units \in Nat
      BY <1>12, <1>13
    <2> QED
      BY <1>12, <1>13, <1>14, <2>1 DEF Dealings
  <1>16. PICK hop : hop = [o EXCEPT !.limit = FALSE, !.hop = TRUE]
    OBVIOUS
  <1>17. /\ hop \in Orders /\ hop.symbol = o.symbol /\ hop.side = o.side /\ hop.shares = o.shares
    <2>1. hop = [symbol |-> o.symbol, side |-> o.side, shares |-> o.shares, full |-> o.full,
                 limit |-> FALSE, hop |-> TRUE]
      BY <1>7, <1>16 DEF Orders
    <2>2. o.full \in BOOLEAN
      BY <1>7 DEF Orders
    <2> QED
      BY <1>13, <2>1, <2>2 DEF Orders
  <1>18. PICK t, w : t = Tail(q) /\ w = << hop >> \o t
    OBVIOUS
  <1>19. /\ t \in Seq(Orders) /\ w \in Seq(Orders) /\ Len(t) = N - 1 /\ Len(w) = N
         /\ \A i \in 1..(N - 1) : t[i] = q[i + 1]
         /\ \A i \in 1..N : w[i] = IF i = 1 THEN hop ELSE q[i]
         /\ \A s : /\ Venue!Planned(q, s) \in Nat /\ Venue!Planned(t, s) \in Nat
                   /\ Venue!Planned(w, s) \in Nat
                   /\ Venue!Planned(t, s) + Asked(hop, s) <= Venue!Planned(q, s)
                   /\ Venue!Planned(w, s) <= Venue!Planned(q, s)
    <2>1. ASSUME NEW s
          PROVE  /\ t \in Seq(Orders) /\ w \in Seq(Orders) /\ Len(t) = N - 1 /\ Len(w) = N
                 /\ \A i \in 1..(N - 1) : t[i] = q[i + 1]
                 /\ \A i \in 1..N : w[i] = IF i = 1 THEN hop ELSE q[i]
                 /\ Venue!Planned(q, s) \in Nat /\ Venue!Planned(t, s) \in Nat
                 /\ Venue!Planned(w, s) \in Nat
                 /\ Venue!Planned(t, s) + Asked(hop, s) <= Venue!Planned(q, s)
                 /\ Venue!Planned(w, s) <= Venue!Planned(q, s)
      <3>1. hop.symbol = Head(q).symbol /\ hop.shares <= Head(q).shares
        BY <1>3, <1>7, <1>17
      <3> QED
        <4>1. q \in Seq(Orders) /\ q # << >> /\ hop \in Orders
          BY <1>2, <1>17
        <4>2. PICK u : u = << hop >> \o Tail(q)
          OBVIOUS
        <4>3. /\ Tail(q) \in Seq(Orders) /\ u \in Seq(Orders)
              /\ Len(Tail(q)) = Len(q) - 1 /\ Len(u) = Len(q)
              /\ \A i \in 1..(Len(q) - 1) : Tail(q)[i] = q[i + 1]
              /\ \A i \in 1..Len(q) : u[i] = IF i = 1 THEN hop ELSE q[i]
              /\ Venue!Planned(q, s) \in Nat /\ Venue!Planned(Tail(q), s) \in Nat
              /\ Venue!Planned(u, s) \in Nat
              /\ Venue!Planned(Tail(q), s) + Asked(hop, s) <= Venue!Planned(q, s)
              /\ Venue!Planned(u, s) <= Venue!Planned(q, s)
          BY <3>1, <4>1, <4>2, PlannedRest
        <4> QED
          BY <1>4, <1>18, <4>2, <4>3
    <2> QED
      BY <2>1
  <1>20. PICK k, d : /\ k = IF Venue!Escalates(o, answer) THEN w ELSE t
                     /\ d = IF Venue!Escalates(o, answer) THEN 0 ELSE 1
    OBVIOUS
  <1>21. queue' = k /\ outcome' = Append(done0, r) /\ cash' = left0
    BY <1>10, <1>11, <1>14, <1>16, <1>18, <1>20
  <1>22. /\ k \in Seq(Orders) /\ d \in {0, 1} /\ Len(k) = Len(q) - d
         /\ \A i \in 1..Len(k) : k[i].side = q[i + d].side
    <2>1. CASE Venue!Escalates(o, answer)
      <3>1. k = w /\ d = 0
        BY <1>20, <2>1
      <3>2. ASSUME NEW i \in 1..N PROVE w[i].side = q[i + 0].side
        BY <1>5, <1>7, <1>17, <1>19
      <3> QED
        BY <1>4, <1>19, <3>1, <3>2
    <2>2. CASE ~Venue!Escalates(o, answer)
      <3>1. k = t /\ d = 1
        BY <1>20, <2>2
      <3> QED
        BY <1>4, <1>19, <3>1
    <2> QED
      BY <2>1, <2>2
  <1>23. /\ NoSellAfterBuy(k)
         /\ \A side : AllOn(q, side) => AllOn(k, side)
         /\ q[1].side = "buy" => AllOn(q, "buy")
    <2>1. NoSellAfterBuy(q)
      BY <1>1 DEF VenueInv, PlanKept
    <2>2. NoSellAfterBuy(k) /\ \A side : AllOn(q, side) => AllOn(k, side)
      BY <1>2, <1>22, <2>1, SidesKept
    <2>3. q[1].side = "buy" => AllOn(q, "buy")
      BY <1>2, <2>1, SidesKept
    <2> QED
      BY <2>2, <2>3
  <1>24. ASSUME NEW s PROVE /\ Venue!Planned(k, s) \in Nat /\ Venue!Planned(q, s) \in Nat
                            /\ Dealt(r, s) \in Nat
                            /\ Venue!Planned(k, s) + Dealt(r, s) <= Venue!Planned(q, s)
    <2>1. Dealt(r, s) \in Nat /\ Dealt(r, s) <= Asked(hop, s) /\ Asked(hop, s) \in Nat
          /\ (units = 0 => Dealt(r, s) = 0)
      BY <1>12, <1>13, <1>15, <1>17 DEF Dealt, Asked
    <2>2. CASE Venue!Escalates(o, answer)
      <3>1. answer = "unfilled" /\ k = w
        BY <1>12, <1>20, <2>2 DEF Venue!Escalates
      <3> QED
        BY <1>12, <1>19, <2>1, <3>1
    <2>3. CASE ~Venue!Escalates(o, answer)
      <3>1. k = t
        BY <1>20, <2>3
      <3> QED
        BY <1>19, <2>1, <3>1
    <2> QED
      BY <2>2, <2>3
  <1>25. PICK M \in Nat : M = Len(done0)
    BY <1>2, LenProperties
  <1>26. PICK c : c = Append(done0, r)
    OBVIOUS
  <1>27. /\ c \in Seq(Dealings) /\ Len(c) = M + 1 /\ c[M + 1] = r
         /\ \A i \in 1..M : c[i] = done0[i]
    BY <1>2, <1>15, <1>25, <1>26, AppendProperties
  <1>28. VenueTypes'
    <2>1. b - 1 \in Nat
      BY <1>2, <1>8
    <2> QED
      BY <1>2, <1>8, <1>10, <1>12, <1>21, <1>22, <1>26, <1>27, <2>1 DEF VenueTypes
  <1>29. PlanKept'
    <2>1. /\ ~asked.liquidation => b + M <= VenueMaxOrders
          /\ \A s \in Venue!Names :
                Venue!Traded(done0, s) + Venue!Planned(q, s) <= Venue!Planned(asked.orders, s)
          /\ NoSellAfterBuy(done0)
          /\ (\E i \in 1..M : done0[i].side = "buy") => AllOn(q, "buy")
          /\ ~asked.liquidation /\ Len(Venue!Side(asked.orders, "sell")) >= VenueMaxOrders
             => AllOn(q, "sell") /\ AllOn(done0, "sell")
      BY <1>1, <1>25 DEF VenueInv, PlanKept
    <2>2. ~asked.liquidation => (b - 1) + Len(c) <= VenueMaxOrders
      BY <1>2, <1>27, <2>1, RebalanceAssumption
    <2>3. ASSUME NEW s \in Venue!Names
          PROVE  Venue!Traded(c, s) + Venue!Planned(k, s) <= Venue!Planned(asked.orders, s)
      <3>1. Venue!Traded(c, s) = Venue!Traded(done0, s) + Dealt(r, s) /\ Venue!Traded(done0, s) \in Nat
        BY <1>2, <1>15, <1>26, TradedAppend
      <3>2. Venue!Planned(asked.orders, s) \in Nat
        BY <1>2, PlannedTypes
      <3> QED
        BY <1>24, <2>1, <3>1, <3>2
    <2>4. \A i \in 1..(M + 1) : i \in 1..M \/ i = M + 1
      OBVIOUS
    <2>5. AllOn(q, "buy") => r.side = "buy"
      BY <1>4, <1>5, <1>7, <1>15 DEF AllOn
    <2>6. NoSellAfterBuy(c)
      <3>1. ASSUME NEW i \in 1..(M + 1), NEW j \in 1..(M + 1), c[i].side = "buy", c[j].side = "sell"
            PROVE  j < i
        <4>1. CASE i \in 1..M /\ j \in 1..M
          BY <1>25, <1>27, <2>1, <3>1, <4>1 DEF NoSellAfterBuy
        <4>2. CASE i \in 1..M /\ j = M + 1
          <5>1. done0[i].side = "buy" /\ r.side = "sell"
            BY <1>27, <3>1, <4>2
          <5> QED
            BY <2>1, <2>5, <4>2, <5>1
        <4>3. CASE i = M + 1 /\ j \in 1..M
          BY <4>3
        <4>4. CASE i = M + 1 /\ j = M + 1
          BY <3>1, <4>4
        <4> QED
          BY <2>4, <4>1, <4>2, <4>3, <4>4
      <3> QED
        BY <1>27, <3>1 DEF NoSellAfterBuy
    <2>7. (\E i \in 1..Len(c) : c[i].side = "buy") => AllOn(k, "buy")
      <3>1. ASSUME NEW i \in 1..(M + 1), c[i].side = "buy" PROVE AllOn(q, "buy")
        <4>1. CASE i \in 1..M
          BY <1>27, <2>1, <3>1, <4>1
        <4>2. CASE i = M + 1
          <5>1. q[1].side = "buy"
            BY <1>5, <1>7, <1>15, <1>27, <3>1, <4>2
          <5> QED
            BY <1>23, <5>1
        <4> QED
          BY <2>4, <4>1, <4>2
      <3> QED
        BY <1>23, <1>27, <3>1
    <2>8. ASSUME ~asked.liquidation, Len(Venue!Side(asked.orders, "sell")) >= VenueMaxOrders
          PROVE  AllOn(k, "sell") /\ AllOn(c, "sell")
      <3>1. AllOn(q, "sell") /\ AllOn(done0, "sell")
        BY <2>1, <2>8
      <3>2. r.side = "sell"
        BY <1>4, <1>5, <1>7, <1>15, <3>1 DEF AllOn
      <3>3. AllOn(c, "sell")
        BY <1>25, <1>27, <2>4, <3>1, <3>2 DEF AllOn
      <3> QED
        BY <1>23, <3>1, <3>3
    <2> QED
      BY <1>8, <1>21, <1>23, <1>26, <2>2, <2>3, <2>6, <2>7, <2>8 DEF PlanKept
  <1>30. PaidFor'
    <2>1. \A i \in 1..Len(c) : c[i].answer # "bounced"
      <3>1. \A i \in 1..M : done0[i].answer # "bounced"
        BY <1>1, <1>25 DEF VenueInv, PaidFor
      <3>2. r.answer # "bounced"
        BY <1>12, <1>15
      <3>3. \A i \in 1..(M + 1) : i \in 1..M \/ i = M + 1
        OBVIOUS
      <3> QED
        BY <1>27, <3>1, <3>2, <3>3
    <2>2. \A i \in 1..N : q[i].hop => i = 1
      BY <1>1, <1>4 DEF VenueInv, PaidFor
    <2>3. ASSUME NEW i \in 1..Len(k), k[i].hop
          PROVE  i = 1 /\ (k[i].side = "buy" => Venue!Affordable(k[i].shares, px[k[i].symbol], left0))
      <3>1. CASE Venue!Escalates(o, answer)
        <4>1. answer = "unfilled" /\ k = w
          BY <1>12, <1>20, <3>1 DEF Venue!Escalates
        <4>2. i \in 1..N /\ w[i].hop
          BY <1>19, <2>3, <4>1
        <4>3. i = 1
          BY <1>19, <2>2, <4>2
        <4>4. k[i] = hop /\ left0 = money
          BY <1>12, <1>19, <4>1, <4>2, <4>3
        <4> QED
          BY <1>7, <1>8, <1>17, <4>3, <4>4
      <3>2. CASE ~Venue!Escalates(o, answer)
        <4>1. k = t
          BY <1>20, <3>2
        <4>2. i \in 1..(N - 1) /\ t[i].hop
          BY <1>19, <2>3, <4>1
        <4>3. PICK j \in 1..N : j = i + 1 /\ j # 1
          <5>1. i + 1 \in 1..N /\ i + 1 # 1
            BY <4>2
          <5> QED
            BY <5>1
        <4>4. q[j].hop
          BY <1>19, <4>2, <4>3
        <4> QED
          BY <2>2, <4>3, <4>4
      <3> QED
        BY <3>1, <3>2
    <2> QED
      BY <1>8, <1>21, <1>26, <2>1, <2>3 DEF PaidFor
  <1> QED
    BY <1>28, <1>29, <1>30 DEF VenueInv

\* An outage ends the rebalance: what was not sent is forgotten.
LEMMA QueueDropped ==
  ASSUME VenueInv, Venue!Outage
  PROVE  VenueInv'
  <1>1. /\ queue' = << >> /\ cash' = cash /\ shares' = shares /\ budget' = budget
        /\ prices' = prices /\ outcome' = outcome /\ plan' = plan
    BY DEF Venue!Outage
  <1>2. << >> \in Seq(Orders) /\ Len(<< >>) = 0
    OBVIOUS
  <1>3. VenueTypes'
    BY <1>1, <1>2 DEF VenueInv, VenueTypes
  <1>4. PICK c, q, asked : c = outcome /\ q = queue /\ asked = plan
    OBVIOUS
  <1>5. ASSUME NEW s \in Venue!Names
        PROVE  Venue!Traded(c, s) + Venue!Planned(<< >>, s) <= Venue!Planned(asked.orders, s)
    <2>1. c \in Seq(Dealings) /\ q \in Seq(Orders) /\ asked.orders \in Seq(Orders)
      BY <1>4 DEF VenueInv, VenueTypes
    <2>2. /\ Venue!Traded(c, s) \in Nat /\ Venue!Planned(q, s) \in Nat
          /\ Venue!Planned(asked.orders, s) \in Nat
      BY <2>1, TradedTypes, PlannedTypes
    <2>3. Venue!Planned(<< >>, s) = 0
      BY PlannedNothing
    <2>4. Venue!Traded(c, s) + Venue!Planned(q, s) <= Venue!Planned(asked.orders, s)
      BY <1>4 DEF VenueInv, PlanKept
    <2> QED
      BY <2>2, <2>3, <2>4
  <1>6. \A s \in Venue!Names :
          Venue!Traded(outcome', s) + Venue!Planned(queue', s) <= Venue!Planned(plan'.orders, s)
    BY <1>1, <1>4, <1>5
  <1>7. NoSellAfterBuy(queue') /\ \A side : AllOn(queue', side)
    BY <1>1, <1>2 DEF NoSellAfterBuy, AllOn
  <1>8. PlanKept'
    BY <1>1, <1>6, <1>7 DEF VenueInv, PlanKept
  <1>9. PaidFor'
    BY <1>1, <1>2 DEF VenueInv, PaidFor
  <1> QED
    BY <1>3, <1>8, <1>9 DEF VenueInv

\* What the invariant says of the venue and the plan.
LEMMA VenueIsSafe == VenueInv => Venue!WithinPlan /\ Venue!NoBuyBounces
  <1> SUFFICES ASSUME VenueInv PROVE Venue!WithinPlan /\ Venue!NoBuyBounces
    OBVIOUS
  <1>1. PICK c, q, asked, b : c = outcome /\ q = queue /\ asked = plan /\ b = budget
    OBVIOUS
  <1>2. /\ c \in Seq(Dealings) /\ q \in Seq(Orders) /\ asked.orders \in Seq(Orders) /\ b \in Nat
    BY <1>1 DEF VenueInv, VenueTypes
  <1>3. PICK M \in Nat : M = Len(c) /\ DOMAIN c = 1..M
    BY <1>2, LenProperties
  <1>4. /\ ~asked.liquidation => b + M <= VenueMaxOrders
        /\ \A s \in Venue!Names :
              Venue!Traded(c, s) + Venue!Planned(q, s) <= Venue!Planned(asked.orders, s)
        /\ NoSellAfterBuy(c)
        /\ ~asked.liquidation /\ Len(Venue!Side(asked.orders, "sell")) >= VenueMaxOrders
           => AllOn(c, "sell")
    BY <1>1, <1>3 DEF VenueInv, PlanKept
  <1>5. ~asked.liquidation => M <= VenueMaxOrders
    BY <1>2, <1>4, RebalanceAssumption
  <1>6. ASSUME NEW s \in Venue!Names PROVE Venue!Traded(c, s) <= Venue!Planned(asked.orders, s)
    <2>1. Venue!Traded(c, s) \in Nat /\ Venue!Planned(q, s) \in Nat /\ Venue!Planned(asked.orders, s) \in Nat
      BY <1>2, TradedTypes, PlannedTypes
    <2> QED
      BY <1>4, <2>1
  <1>7. ASSUME AllOn(c, "sell") PROVE Venue!Side(c, "buy") = << >>
    <2>1. PICK e : e = Venue!Side(c, "buy")
      OBVIOUS
    <2>2. e \in Seq(Dealings)
      BY <1>2, <2>1, SideSelects
    <2>3. PICK h : SelectedBy(h, e, c, Len(c), {o \in Dealings : o.side = "buy"})
      BY <1>2, <2>1, SideSelects
    <2>4. PICK L \in Nat : L = Len(e)
      BY <2>2, LenProperties
    <2>5. L = 0
      <3> SUFFICES ASSUME L > 0 PROVE FALSE
        OBVIOUS
      <3>1. 1 \in 1..L
        OBVIOUS
      <3>2. h[1] \in 1..M /\ e[1] = c[h[1]] /\ e[1].side = "buy"
        BY <1>3, <2>3, <2>4, <3>1 DEF SelectedBy
      <3> QED
        BY <1>3, <1>7, <3>2 DEF AllOn
    <2> QED
      BY <2>1, <2>2, <2>4, <2>5, EmptySeq
  <1>8. Venue!WithinPlan
    BY <1>1, <1>3, <1>4, <1>5, <1>6, <1>7 DEF Venue!WithinPlan, NoSellAfterBuy
  <1>9. Venue!NoBuyBounces
    BY <1>1, <1>3 DEF Venue!NoBuyBounces, VenueInv, VenueTypes, PaidFor
  <1> QED
    BY <1>8, <1>9

\* In every rebalance, from any account, what reaches the venue stays within the
\* plan and its cap, sells come before buys, no account goes below zero and no
\* buy bounces, whatever the venue rejects, fills in part or fails to answer
\* (execution.py, execute_rebalance; orders.py).
THEOREM RebalanceStaysSafe == OfflineSpec => []RebalanceSafe
  <1> DEFINE I == part = "rebalance" => VenueInv
  <1>1. OfflineInit => I
    <2> SUFFICES ASSUME part = "rebalance", VenueInit PROVE VenueInv
      BY DEF OfflineInit
    <2>1. << >> \in Seq(Orders) /\ << >> \in Seq(Dealings) /\ Len(<< >>) = 0
      OBVIOUS
    <2>2. /\ cash \in Nat /\ shares \in [Venue!Names -> Nat]
          /\ prices \in [Venue!Names -> Nat \ {0}]
      BY RebalanceAssumption DEF VenueInit
    <2>3. queue = << >> /\ outcome = << >> /\ budget = 0 /\ plan.orders = << >> /\ plan.liquidation = FALSE
      BY DEF VenueInit
    <2>4. VenueTypes
      BY <2>1, <2>2, <2>3 DEF VenueTypes
    <2>5. ASSUME NEW s
          PROVE  Venue!Traded(<< >>, s) + Venue!Planned(<< >>, s) <= Venue!Planned(<< >>, s)
      <3>1. Venue!Planned(<< >>, s) \in Nat
        BY <2>1, PlannedTypes
      <3> QED
        BY <3>1, TradedNothing
    <2>6. /\ \A s \in Venue!Names :
                Venue!Traded(outcome, s) + Venue!Planned(queue, s) <= Venue!Planned(plan.orders, s)
          /\ budget + Len(outcome) <= VenueMaxOrders
      BY <2>1, <2>3, <2>5, RebalanceAssumption
    <2>7. NoSellAfterBuy(queue) /\ NoSellAfterBuy(outcome) /\ \A side : AllOn(queue, side) /\ AllOn(outcome, side)
      BY <2>1, <2>3 DEF NoSellAfterBuy, AllOn
    <2>8. PlanKept
      BY <2>6, <2>7 DEF PlanKept
    <2>9. PaidFor
      BY <2>1, <2>3 DEF PaidFor
    <2> QED
      BY <2>4, <2>8, <2>9 DEF VenueInv
  <1>2. I /\ [OfflineNext]_offlineVars => I'
    <2> SUFFICES ASSUME I, [OfflineNext]_offlineVars, part' = "rebalance" PROVE VenueInv'
      OBVIOUS
    <2>1. VenueInv /\ (VenueNext \/ UNCHANGED Venue!rebVars)
      BY DEF OfflineNext, offlineVars, venueGroup, Venue!rebVars
    <2>2. ASSUME NEW weights \in [Venue!Names -> VenueWeights], NEW limit \in BOOLEAN,
                 Plan(weights, limit, FALSE)
          PROVE  VenueInv'
      <3>1. weights \in [Venue!Names -> Nat]
        BY RebalanceAssumption
      <3> QED
        BY <2>1, <2>2, <3>1, PlanKeeps DEF VenueInv
    <2>3. ASSUME Plan([s \in Venue!Names |-> 0], FALSE, TRUE) PROVE VenueInv'
      <3>1. PICK weights : weights = [s \in Venue!Names |-> 0]
        OBVIOUS
      <3>2. weights \in [Venue!Names -> Nat] /\ Plan(weights, FALSE, TRUE)
        BY <2>3, <3>1
      <3> QED
        BY <2>1, <3>2, PlanKeeps DEF VenueInv
    <2>4. CASE Venue!Drop
      <3>1. queue # << >> /\ queue' = Tail(queue) /\ budget' = budget
            /\ UNCHANGED << cash, shares, prices, outcome, plan >>
        BY <2>4 DEF Venue!Drop
      <3>2. budget' \in Nat /\ budget' <= budget
        BY <2>1, <3>1 DEF VenueInv, VenueTypes
      <3> QED
        BY <2>1, <3>1, <3>2, TailKeeps
    <2>5. CASE Venue!Submit
      BY <2>1, <2>5, SubmitKeeps
    <2>6. CASE Venue!Outage
      BY <2>1, <2>6, QueueDropped
    <2>7. CASE UNCHANGED Venue!rebVars
      BY <2>1, <2>7 DEF Venue!rebVars, VenueInv, VenueTypes, PlanKept, PaidFor
    <2> QED
      BY <2>1, <2>2, <2>3, <2>4, <2>5, <2>6, <2>7 DEF VenueNext, Venue!Execute
  <1>3. I => RebalanceSafe
    BY VenueIsSafe DEF RebalanceSafe
  <1> QED
    BY <1>1, <1>2, <1>3, PTL DEF OfflineSpec

----------------------------------------------------------------------------
(* The backtest of the paper trader. *)

\* The backtester executes what the live trader does.
LEMMA PaperSame ==
    /\ Paper!R!Names = Venue!Names /\ Paper!Names = Venue!Names
    /\ \A f : Paper!SumFunction(f) = SumFunction(f)
    /\ \A S : Paper!Cardinality(S) = Cardinality(S)
    /\ \A money, n, px : Paper!R!EquityAt(money, n, px) = Venue!EquityAt(money, n, px)
    /\ \A n, price : Paper!R!Cost(n, price) = Venue!Cost(n, price)
    /\ \A orders, side : Paper!R!Side(orders, side) = Venue!Side(orders, side)
    /\ \A orders : Paper!R!SellsFirst(orders) = Venue!SellsFirst(orders)
    /\ \A n, weights, px, equity :
          Paper!R!ComputeOrders(n, weights, px, equity) = Venue!ComputeOrders(n, weights, px, equity)
    /\ \A o, px, available : Paper!R!Sized(o, px, available) = Venue!Sized(o, px, available)
    /\ \A o, f : Paper!R!Answer(o, f) = Venue!Answer(o, f)
  <1>1. Paper!R!Names = Venue!Names /\ Paper!Names = Venue!Names
    BY DEF Paper!R!Names, Venue!Names, Paper!Names
  <1>2. \A f : Paper!SumFunction(f) = SumFunction(f) /\ Paper!R!SumFunction(f) = SumFunction(f)
    BY DEF Paper!SumFunction, Paper!SumFunctionOnSet, Paper!FoldFunctionOnSet,
           Paper!MapThenFoldSet, Paper!R!SumFunction, Paper!R!SumFunctionOnSet,
           Paper!R!FoldFunctionOnSet, Paper!R!MapThenFoldSet,
           SumFunction, SumFunctionOnSet, FoldFunctionOnSet, MapThenFoldSet
  <1>3. \A money, n, px : Paper!R!EquityAt(money, n, px) = Venue!EquityAt(money, n, px)
    BY <1>1, <1>2, VenueSum DEF Paper!R!EquityAt, Venue!EquityAt
  <1>4. \A S : Paper!R!Max(S) = Venue!Max(S) /\ Paper!R!Min(S) = Venue!Min(S)
    BY DEF Paper!R!Max, Paper!R!Min, Venue!Max, Venue!Min
  <1>5. \A n, price : Paper!R!Cost(n, price) = Venue!Cost(n, price)
    BY <1>4 DEF Paper!R!Cost, Venue!Cost
  <1>6. \A orders, side : Paper!R!Side(orders, side) = Venue!Side(orders, side)
    BY DEF Paper!R!Side, Venue!Side
  <1>7. \A orders : Paper!R!SellsFirst(orders) = Venue!SellsFirst(orders)
    BY <1>6 DEF Paper!R!SellsFirst, Venue!SellsFirst
  <1>9. ASSUME NEW n, NEW weights, NEW px, NEW equity
        PROVE  Paper!R!ComputeOrders(n, weights, px, equity)
                 = Venue!ComputeOrders(n, weights, px, equity)
    BY <1>7, Zenon DEF Paper!R!ComputeOrders, Venue!ComputeOrders, Paper!R!OrderFor,
       Venue!OrderFor, Paper!R!TargetShares, Venue!TargetShares
  <1>10. \A n, price, available :
          Paper!R!Affordable(n, price, available) = Venue!Affordable(n, price, available)
    BY <1>5 DEF Paper!R!Affordable, Venue!Affordable
  <1>11. \A o, price, available :
          Paper!R!Resized(o, price, available) = Venue!Resized(o, price, available)
    BY Zenon DEF Paper!R!Resized, Venue!Resized, Paper!R!Affordable, Venue!Affordable,
           Paper!R!Cost, Venue!Cost, Paper!R!Max, Paper!R!Min, Venue!Max, Venue!Min
  <1>12. \A o, px, available : Paper!R!Sized(o, px, available) = Venue!Sized(o, px, available)
    BY <1>10, <1>11 DEF Paper!R!Sized, Venue!Sized
  <1>13. \A o, f : Paper!R!Answer(o, f) = Venue!Answer(o, f)
    BY <1>5 DEF Paper!R!Answer, Venue!Answer
  <1>14. \A S : Paper!Cardinality(S) = Cardinality(S)
    BY DEF Paper!Cardinality, Cardinality
  <1> QED
    BY <1>1, <1>2, <1>3, <1>5, <1>6, <1>7, <1>9, <1>12, <1>13, <1>14

Earned(e, before, paid, gain) == e = before + paid + gain
Gains(n, px, py) == [s \in Venue!Names |-> n[s] * (py[s] - px[s])]

\* Prices that move, and money paid in, move the worth by just that.
LEMMA WorthMoves ==
  ASSUME NEW money \in Int, NEW more \in Int, NEW n \in [Venue!Names -> Nat],
         NEW px \in [Venue!Names -> Nat], NEW py \in [Venue!Names -> Nat]
  PROVE  /\ SumFunction(Gains(n, px, py)) \in Int
         /\ Earned(Venue!EquityAt(more, n, py), Venue!EquityAt(money, n, px), more - money,
                   SumFunction(Gains(n, px, py)))
  <1>1. PICK U, d, f, g : /\ U = Venue!Names /\ d = Gains(n, px, py)
                       /\ d = [s \in Venue!Names |-> n[s] * (py[s] - px[s])]
                       /\ f = [s \in Venue!Names |-> n[s] * px[s]]
                       /\ g = [s \in Venue!Names |-> n[s] * py[s]]
    BY DEF Gains
  <1>2. \A s \in Venue!Names : /\ n[s] * px[s] \in Int /\ n[s] * py[s] \in Int
                               /\ n[s] * (py[s] - px[s]) \in Int
                               /\ n[s] * py[s] = n[s] * px[s] + n[s] * (py[s] - px[s])
    <2>1. ASSUME NEW s \in Venue!Names
          PROVE  /\ n[s] * px[s] \in Int /\ n[s] * py[s] \in Int
                 /\ n[s] * (py[s] - px[s]) \in Int
                 /\ n[s] * py[s] = n[s] * px[s] + n[s] * (py[s] - px[s])
      <3>1. PICK a, b, c \in Nat : a = n[s] /\ b = px[s] /\ c = py[s]
        OBVIOUS
      <3>2. a * b \in Int /\ a * c \in Int /\ a * (c - b) \in Int /\ a * c = a * b + a * (c - b)
        OBVIOUS
      <3> QED
        BY <3>1, <3>2
    <2> QED
      BY <2>1
  <1>3. f \in [U -> Int] /\ g \in [U -> Int] /\ d \in [U -> Int]
        /\ \A s \in U : g[s] = f[s] + d[s]
    BY <1>1, <1>2
  <1>4. IsFiniteSet(U)
    BY <1>1, UniverseFinite
  <1>5. /\ SumFunction(g) = SumFunction(f) + SumFunction(d)
        /\ SumFunction(f) \in Int /\ SumFunction(d) \in Int
    <2>1. SumFunction(g) = SumFunction(f) + SumFunction(d)
      <3>1. \A s \in U : g[s] = f[s] + d[s]
        BY <1>3
      <3> QED
        BY <1>3, <1>4, <3>1, SumFunctionPlus
    <2>2. SumFunction(f) \in Int /\ SumFunction(d) \in Int
      BY <1>3, <1>4, SumFunctionType
    <2> QED
      BY <2>1, <2>2
  <1>6. /\ Venue!EquityAt(more, n, py) = more + SumFunction(g)
        /\ Venue!EquityAt(money, n, px) = money + SumFunction(f)
    BY <1>1, VenueSum DEF Venue!EquityAt
  <1> QED
    BY <1>1, <1>5, <1>6 DEF Earned

\* d units of s change hands, and their price moves a worth.
Trades(m, n, s, d) == m[s] = n[s] + d /\ \A u \in Venue!Names \ {s} : m[u] = n[u]
Moved(e, before, paid, d, price) == e = before + paid + d * price

\* A trade moves the worth by its cash and the price of what changed hands.
LEMMA WorthTrades ==
  ASSUME NEW money \in Int, NEW left0 \in Int, NEW n \in [Venue!Names -> Nat],
         NEW px \in [Venue!Names -> Nat], NEW s \in Venue!Names, NEW d \in Int,
         NEW m \in [Venue!Names -> Nat], Trades(m, n, s, d)
  PROVE  Moved(Venue!EquityAt(left0, m, px), Venue!EquityAt(money, n, px), left0 - money,
               d, px[s])
  <1>1. PICK U, f, g : /\ U = Venue!Names
                       /\ f = [u \in Venue!Names |-> n[u] * px[u]]
                       /\ g = [u \in Venue!Names |-> m[u] * px[u]]
    OBVIOUS
  <1>2. m[s] = n[s] + d /\ \A u \in Venue!Names \ {s} : m[u] = n[u]
    BY DEF Trades
  <1>3. \A u \in Venue!Names : n[u] * px[u] \in Int /\ m[u] * px[u] \in Int
    <2>1. ASSUME NEW u \in Venue!Names PROVE n[u] * px[u] \in Int /\ m[u] * px[u] \in Int
      <3>1. PICK a, b, c \in Nat : a = n[u] /\ b = px[u] /\ c = m[u]
        BY <1>2
      <3>2. a * b \in Int /\ c * b \in Int
        OBVIOUS
      <3> QED
        BY <3>1, <3>2
    <2> QED
      BY <2>1
  <1>4. f \in [U -> Int] /\ g \in [U -> Int]
    BY <1>1, <1>3
  <1>5. IsFiniteSet(U) /\ s \in U /\ \A u \in U \ {s} : f[u] = g[u]
    BY <1>1, <1>2, UniverseFinite
  <1>6. SumFunction(g) = SumFunction(f) - f[s] + g[s] /\ SumFunction(f) \in Int
    BY <1>4, <1>5, SumChangesAt, SumFunctionType
  <1>7. f[s] \in Int /\ g[s] \in Int /\ g[s] = f[s] + d * px[s] /\ d * px[s] \in Int
    <2>1. PICK a, b \in Nat : a = n[s] /\ b = px[s]
      OBVIOUS
    <2>2. f[s] = a * b /\ g[s] = (a + d) * b
      BY <1>1, <1>2, <2>1
    <2>3. (a + d) * b = a * b + d * b /\ a * b \in Int /\ d * b \in Int
      OBVIOUS
    <2> QED
      BY <2>1, <2>2, <2>3
  <1>8. /\ Venue!EquityAt(left0, m, px) = left0 + SumFunction(g)
        /\ Venue!EquityAt(money, n, px) = money + SumFunction(f)
    BY <1>1, VenueSum DEF Venue!EquityAt
  <1> QED
    BY <1>1, <1>6, <1>7, <1>8 DEF Moved

\* The strategy's weights, and the limits of the risk layer on them, are
\* percentages (strategies.py, target_weights; risk.py, clamp_weights).
LEMMA WeightTypes ==
  ASSUME NEW score
  PROVE  /\ Paper!TargetWeights(score) \in [Venue!Names -> Nat]
         /\ Paper!Clamp(Paper!TargetWeights(score)) \in [Venue!Names -> Nat]
  <1>1. /\ TopN \in Nat \ {0} /\ MaxPositionPct \in Nat /\ MaxGrossPct \in Nat
        /\ Paper!Names = Venue!Names
    BY PaperAssumption, PaperSame
  <1>2. PICK slice \in Nat : slice = 100 \div TopN
    BY <1>1
  <1>3. PICK losers : losers = {s \in Paper!Winners(score) : score[s] <= 0}
    OBVIOUS
  <1>4. PICK n \in Nat : n = Cardinality(losers)
    <2>1. losers \in SUBSET Venue!Names
      BY <1>3 DEF Paper!Winners, Paper!RiskAssets, Venue!Names
    <2>2. IsFiniteSet(losers)
      BY <2>1, UniverseFinite, FS_Subset
    <2> QED
      BY <2>2, FS_CardinalityType
  <1>5. PICK shelter \in Nat : shelter = IF score[Defensive] # Missing /\ score[Defensive] > 0
                                         THEN slice * n ELSE 0
    <2>1. slice * n \in Nat
      OBVIOUS
    <2> QED
      BY <2>1
  <1>6. PICK w : w = Paper!TargetWeights(score)
    OBVIOUS
  <1>7. ASSUME NEW s \in Venue!Names PROVE w[s] \in Nat
    <2>1. w[s] = CASE s = Defensive -> shelter
                   [] s \in Paper!Winners(score) \ losers -> slice
                   [] OTHER -> 0
      BY <1>1, <1>2, <1>3, <1>4, <1>5, <1>6, PaperSame DEF Paper!TargetWeights
    <2> QED
      BY <2>1
  <1>8. w \in [Venue!Names -> Nat]
    <2>1. w = [s \in Venue!Names |-> w[s]]
      BY <1>1, <1>6 DEF Paper!TargetWeights
    <2> QED
      BY <1>7, <2>1
  <1>9. PICK single : single = [s \in Venue!Names |-> Paper!Min({w[s], MaxPositionPct})]
    OBVIOUS
  <1>10. single \in [Venue!Names -> Nat]
    <2>1. \A a, b \in Nat : Paper!Min({a, b}) \in Nat
      BY DEF Paper!Min
    <2> QED
      BY <1>1, <1>8, <1>9, <2>1
  <1>11. PICK gross \in Nat : gross = SumFunction(single)
    <2>1. single \in [Venue!Names -> Int] /\ \A s \in Venue!Names : single[s] >= 0
      BY <1>10
    <2> QED
      BY <2>1, UniverseFinite, SumFunctionType
  <1>12. Paper!Clamp(w) = IF gross > MaxGrossPct
                          THEN [s \in Venue!Names |-> (single[s] * MaxGrossPct) \div gross]
                          ELSE single
    BY <1>1, <1>9, <1>11, PaperSame DEF Paper!Clamp
  <1>13. ASSUME gross > MaxGrossPct
         PROVE  [s \in Venue!Names |-> (single[s] * MaxGrossPct) \div gross] \in [Venue!Names -> Nat]
    <2>1. ASSUME NEW s \in Venue!Names PROVE (single[s] * MaxGrossPct) \div gross \in Nat
      <3>1. PICK a \in Nat : a = single[s]
        BY <1>10
      <3>2. a * MaxGrossPct \in Nat
        BY <1>1
      <3>3. gross \in Nat \ {0}
        BY <1>1, <1>13
      <3>4. \A x \in Nat : x \div gross \in Nat
        BY <3>3
      <3> QED
        BY <3>1, <3>2, <3>4
    <2> QED
      BY <2>1
  <1> QED
    BY <1>6, <1>8, <1>10, <1>12, <1>13

----------------------------------------------------------------------------
(* The liquidation. *)

\* Orders that close positions n, each with all it holds.
Closing(q, n) ==
    /\ \A i \in 1..Len(q) : /\ q[i].side = "sell" /\ q[i].full
                            /\ q[i].shares > 0 /\ q[i].shares = n[q[i].symbol]
    /\ \A i, j \in 1..Len(q) : q[i].symbol = q[j].symbol => i = j

Covers(q, n) ==
    \A s \in Venue!Names : n[s] > 0 => \E i \in 1..Len(q) : q[i].symbol = s

\* A kill plans the sale of every position, and the order cap lets it through
\* (backtest.py, run_backtest).
LEMMA BookSold ==
  ASSUME NEW n \in [Venue!Names -> Nat], shares = n, NEW q, q = Paper!Liquidation
  PROVE  /\ q \in Seq(NewOrders) /\ Len(q) <= PaperMaxOrders
         /\ Closing(q, n) /\ Covers(q, n)
  <1>1. PICK N \in Nat : N = Len(PaperSymbols)
    BY RebalanceAssumption, LenProperties
  <1>2. \A i \in 1..N : PaperSymbols[i] \in Venue!Names
    BY <1>1, RebalanceAssumption, LenProperties DEF Venue!Names
  <1>3. PICK all : all = [i \in 1..N |-> [symbol |-> PaperSymbols[i], side |-> "sell",
                                          shares |-> n[PaperSymbols[i]], full |-> TRUE,
                                          limit |-> FALSE, hop |-> FALSE]]
    OBVIOUS
  <1>4. PICK keep : keep = {o \in NewOrders : o.shares > 0}
    OBVIOUS
  <1>5. \A i \in 1..N : /\ all[i] \in NewOrders
                        /\ all[i].symbol = PaperSymbols[i] /\ all[i].side = "sell"
                        /\ all[i].full /\ all[i].shares = n[PaperSymbols[i]]
                        /\ all[i] \in keep <=> n[PaperSymbols[i]] > 0
    <2>1. ASSUME NEW i \in 1..N
          PROVE  /\ all[i] \in NewOrders
                 /\ all[i].symbol = PaperSymbols[i] /\ all[i].side = "sell"
                 /\ all[i].full /\ all[i].shares = n[PaperSymbols[i]]
                 /\ all[i] \in keep <=> n[PaperSymbols[i]] > 0
      <3>1. PICK s \in Venue!Names, c \in Nat : s = PaperSymbols[i] /\ c = n[s]
        BY <1>2
      <3>2. PICK o : o = [symbol |-> s, side |-> "sell", shares |-> c, full |-> TRUE,
                          limit |-> FALSE, hop |-> FALSE]
        OBVIOUS
      <3>3. o \in NewOrders /\ o = all[i]
        BY <1>3, <3>1, <3>2 DEF NewOrders, Orders
      <3>4. o.symbol = s /\ o.side = "sell" /\ o.full /\ o.shares = c
        BY <3>2
      <3> QED
        BY <1>4, <3>1, <3>3, <3>4
    <2> QED
      BY <2>1
  <1>6. all \in Seq(NewOrders) /\ Len(all) = N
    BY <1>3, <1>5
  <1> DEFINE F(f) == f = [i \in 0..Len(PaperSymbols) |->
                            IF i = 0 THEN << >>
                            ELSE IF shares[PaperSymbols[i]] > 0
                            THEN Append(f[i - 1], [symbol |-> PaperSymbols[i], side |-> "sell",
                                                   shares |-> shares[PaperSymbols[i]], full |-> TRUE,
                                                   limit |-> FALSE, hop |-> FALSE])
                            ELSE f[i - 1]]
  <1>7. ASSUME NEW f PROVE F(f) <=> Filters(f, all, keep)
    <2>1. \A i \in 1..N : all[i] = [symbol |-> PaperSymbols[i], side |-> "sell",
                                    shares |-> shares[PaperSymbols[i]], full |-> TRUE,
                                    limit |-> FALSE, hop |-> FALSE]
      BY <1>3
    <2>2. \A i \in 1..N : all[i] \in keep <=> shares[PaperSymbols[i]] > 0
      BY <1>5
    <2>3. ASSUME NEW i \in 0..N
          PROVE  (IF i = 0 THEN << >>
                  ELSE IF shares[PaperSymbols[i]] > 0
                  THEN Append(f[i - 1], [symbol |-> PaperSymbols[i], side |-> "sell",
                                         shares |-> shares[PaperSymbols[i]], full |-> TRUE,
                                         limit |-> FALSE, hop |-> FALSE])
                  ELSE f[i - 1])
                 = IF i = 0 THEN << >>
                   ELSE IF all[i] \in keep THEN Append(f[i - 1], all[i]) ELSE f[i - 1]
      <3>1. CASE i = 0
        BY <3>1
      <3>2. CASE i # 0
        <4>1. i \in 1..N
          BY <3>2
        <4> QED
          BY <2>1, <2>2, <3>2, <4>1
      <3> QED
        BY <3>1, <3>2
    <2> QED
      BY <1>1, <1>6, <2>3 DEF Filters
  <1>8. PICK sells : F(sells) /\ q = sells[Len(PaperSymbols)]
    <2>1. \E f : F(f)
      BY <1>6, <1>7, FilterExists
    <2> HIDE DEF F
    <2>2. F(CHOOSE f : F(f))
      BY <2>1
    <2>3. Paper!Liquidation = (CHOOSE f : F(f))[Len(PaperSymbols)]
      BY Zenon DEF Paper!Liquidation, F
    <2> QED
      BY <2>2, <2>3
  <1>9. Filters(sells, all, keep) /\ N \in 0..Len(all) /\ q = sells[N]
    <2> HIDE DEF F
    <2> QED
      BY <1>1, <1>6, <1>7, <1>8
  <1> HIDE DEF F
  <1>10. PICK h : q \in Seq(NewOrders) /\ SelectedBy(h, q, all, N, keep)
    BY <1>6, <1>9, FilterSelects
  <1>11. PICK m \in Nat : m = Len(q)
    BY <1>10, LenProperties
  <1>12. /\ h \in [1..m -> 1..N]
         /\ \A i, j \in 1..m : i < j => h[i] < h[j]
         /\ \A i \in 1..m : q[i] = all[h[i]] /\ q[i] \in keep
         /\ \A i \in 1..N : all[i] \in keep => \E j \in 1..m : h[j] = i
    BY <1>10, <1>11 DEF SelectedBy
  <1>13. \A i, j \in 1..m : h[i] = h[j] => i = j
    <2>1. ASSUME NEW i \in 1..m, NEW j \in 1..m, h[i] = h[j] PROVE i = j
      <3>1. ~(i < j) /\ ~(j < i)
        BY <1>12, <2>1
      <3> QED
        BY <3>1
    <2> QED
      BY <2>1
  <1>14. m <= N
    <2>1. h \in Injection(1..m, 1..N)
      BY <1>12, <1>13, Fun_IsInj
    <2>2. IsFiniteSet(1..N) /\ Cardinality(1..N) = N /\ Cardinality(1..m) = m
      BY FS_Interval
    <2> QED
      BY <2>1, <2>2, FS_Injection
  <1>15. Closing(q, n)
    <2>1. ASSUME NEW i \in 1..m
          PROVE  /\ q[i].side = "sell" /\ q[i].full
                 /\ q[i].shares > 0 /\ q[i].shares = n[q[i].symbol]
      <3>1. PICK x \in 1..N : x = h[i]
        BY <1>12
      <3>2. q[i] = all[x] /\ q[i] \in keep
        BY <1>12, <3>1
      <3>3. q[i].shares > 0
        BY <1>4, <3>2
      <3> QED
        BY <1>5, <3>2, <3>3
    <2>2. ASSUME NEW i \in 1..m, NEW j \in 1..m, q[i].symbol = q[j].symbol PROVE i = j
      <3>1. PICK x, y \in 1..N : x = h[i] /\ y = h[j]
        BY <1>12
      <3>2. PaperSymbols[x] = PaperSymbols[y]
        BY <1>5, <1>12, <2>2, <3>1
      <3>3. x = y
        BY <1>1, <3>2, RebalanceAssumption, LenProperties
      <3> QED
        BY <1>13, <3>1, <3>3
    <2> QED
      BY <1>11, <2>1, <2>2 DEF Closing
  <1>16. Covers(q, n)
    <2>1. ASSUME NEW s \in Venue!Names, n[s] > 0 PROVE \E i \in 1..m : q[i].symbol = s
      <3>1. PICK i \in 1..N : PaperSymbols[i] = s
        BY <1>1, RebalanceAssumption, LenProperties DEF Venue!Names
      <3>2. PICK j \in 1..m : h[j] = i
        BY <1>5, <1>12, <2>1, <3>1
      <3> QED
        BY <1>5, <1>12, <3>1, <3>2
    <2> QED
      BY <1>11, <2>1 DEF Covers
  <1>17. Len(q) <= PaperMaxOrders
    BY <1>1, <1>11, <1>14, PaperAssumption
  <1> QED
    BY <1>10, <1>15, <1>16, <1>17

\* What is queued is new as well, and a book that closes under the cap is
\* queued as a whole (orders.py, truncate_to_cap).
LEMMA PaperQueued ==
  ASSUME NEW orders \in Seq(NewOrders), NEW k, k = Paper!R!Truncate(orders)
  PROVE  /\ k \in Seq(NewOrders)
         /\ Len(orders) <= PaperMaxOrders =>
              /\ Len(k) <= PaperMaxOrders
              /\ \A n : Closing(orders, n) => Closing(k, n)
              /\ \A n : Covers(orders, n) => Covers(k, n)
  <1>1. orders \in Seq(Orders)
    <2>1. NewOrders \subseteq Orders
      BY DEF NewOrders
    <2> QED
      BY <2>1
  <1>2. PICK N \in Nat : N = Len(orders) /\ \A i \in 1..N : orders[i] \in NewOrders
    BY LenProperties
  <1>3. PICK cap \in Nat : cap = PaperMaxOrders
    BY PaperAssumption
  <1>4. PICK m \in 0..N : m = Paper!R!Min({PaperMaxOrders, Len(orders)}) /\ (N <= cap => m = N)
    <2>1. Paper!R!Min({cap, N}) = IF cap <= N THEN cap ELSE N
      BY DEF Paper!R!Min
    <2> QED
      BY <1>2, <1>3, <2>1
  <1>5. PICK w : w = Venue!SellsFirst(orders)
    OBVIOUS
  <1>6. k = SubSeq(w, 1, m)
    BY <1>4, <1>5, PaperSame DEF Paper!R!Truncate
  <1>7. PickedFrom(k, orders) /\ Len(k) = m
    <2>1. m \in Nat /\ m <= Len(orders)
      BY <1>2, <1>4
    <2> QED
      BY <1>1, <1>5, <1>6, <2>1, CutPicks
  <1>8. PICK h : /\ h \in [1..m -> 1..N]
                 /\ \A i, j \in 1..m : h[i] = h[j] => i = j
                 /\ \A i \in 1..m : k[i] = orders[h[i]]
    BY <1>2, <1>7 DEF PickedFrom
  <1>9. k \in Seq(NewOrders)
    <2>1. k \in Seq(Orders) /\ DOMAIN k = 1..m
      BY <1>7, LenProperties DEF PickedFrom
    <2>2. \A i \in 1..m : k[i] \in NewOrders
      BY <1>2, <1>8
    <2>3. k = [i \in 1..m |-> k[i]]
      BY <2>1
    <2>4. k \in [1..m -> NewOrders]
      BY <2>2, <2>3
    <2>5. m \in Nat
      BY <1>4
    <2> QED
      BY <2>4, <2>5
  <1>10. ASSUME Len(orders) <= PaperMaxOrders
         PROVE  /\ Len(k) <= PaperMaxOrders
                /\ \A n : Closing(orders, n) => Closing(k, n)
                /\ \A n : Covers(orders, n) => Covers(k, n)
    <2>1. m = N
      BY <1>2, <1>3, <1>4, <1>10
    <2>2. \A x \in 1..N : \E i \in 1..m : h[i] = x
      <3>1. IsFiniteSet(1..N) /\ Cardinality(1..N) = N /\ Cardinality(1..m) = m
        BY <2>1, FS_Interval
      <3>2. h \in Injection(1..m, 1..N)
        BY <1>8, Fun_IsInj
      <3>3. h \in Surjection(1..m, 1..N)
        BY <2>1, <3>1, <3>2, FS_Injection
      <3> QED
        BY <3>3 DEF Surjection
    <2>3. ASSUME NEW n, Closing(orders, n) PROVE Closing(k, n)
      <3>1. \A i \in 1..m : /\ k[i].side = "sell" /\ k[i].full
                            /\ k[i].shares > 0 /\ k[i].shares = n[k[i].symbol]
        BY <1>2, <1>8, <2>3 DEF Closing
      <3>2. \A i, j \in 1..m : k[i].symbol = k[j].symbol => i = j
        BY <1>2, <1>8, <2>3 DEF Closing
      <3> QED
        BY <1>7, <3>1, <3>2 DEF Closing
    <2>4. ASSUME NEW n, Covers(orders, n) PROVE Covers(k, n)
      <3>1. ASSUME NEW s \in Venue!Names, n[s] > 0 PROVE \E i \in 1..m : k[i].symbol = s
        <4>1. PICK x \in 1..N : orders[x].symbol = s
          BY <1>2, <2>4, <3>1 DEF Covers
        <4>2. PICK i \in 1..m : h[i] = x
          BY <2>2, <4>1, Zenon
        <4> QED
          BY <1>8, <4>1, <4>2
      <3> QED
        BY <1>7, <3>1 DEF Covers
    <2> QED
      BY <1>2, <1>7, <1>10, <2>1, <2>3, <2>4
  <1> QED
    BY <1>9, <1>10

----------------------------------------------------------------------------
(* The fill leg. *)

PaperTypes ==
    /\ cash \in Nat /\ shares \in [Venue!Names -> Nat]
    /\ prices \in [Venue!Names -> Nat \ {0}]
    /\ queue \in Seq(NewOrders) /\ budget \in Nat /\ pending \in Seq(NewOrders)
    /\ bar \in 0..Len(BarDays) /\ phase \in {"open", "fill", "judge"}
    /\ halted \in BOOLEAN /\ killBar \in 0..bar /\ halted = (killBar # 0)
    /\ spent \in Nat /\ peak \in Nat /\ lastEquity \in Nat /\ flows \in Nat
    /\ worth \in Nat /\ gained \in Int
    /\ phase # "fill" => queue = << >>

\* A submission of the backtest fills as a whole or not at all: it costs the
\* account what it pays, and a closing order that is worth its costs closes
\* (backtest.py, _fill; broker.py, submit).
LEMMA PaperSubmits ==
  ASSUME PaperTypes, Paper!R!Submit
  PROVE  /\ cash' \in Nat /\ shares' \in [Venue!Names -> Nat]
         /\ budget >= 1 /\ budget' = budget - 1
         /\ queue # << >> /\ queue' = Tail(queue) /\ prices' = prices
         /\ Venue!EquityAt(cash', shares', prices) <= Venue!EquityAt(cash, shares, prices)
         /\ Head(queue).side = "sell" /\ Head(queue).full
              /\ Head(queue).shares = shares[Head(queue).symbol]
            => shares' = [shares EXCEPT ![Head(queue).symbol] = 0]
  <1>1. PICK q, money, n, px, b : q = queue /\ money = cash /\ n = shares /\ px = prices /\ b = budget
    OBVIOUS
  <1>2. /\ q \in Seq(NewOrders) /\ q # << >> /\ money \in Nat /\ n \in [Venue!Names -> Nat]
        /\ px \in [Venue!Names -> Nat \ {0}] /\ b \in Nat
    BY <1>1 DEF PaperTypes, Paper!R!Submit
  <1>3. PICK head, o : head = Head(q) /\ o = Venue!Sized(head, px, money)
    OBVIOUS
  <1>4. head \in NewOrders /\ head \in Orders /\ ~head.limit /\ ~head.hop
    <2>1. head \in NewOrders
      BY <1>2, <1>3, HeadTailProperties
    <2> QED
      BY <2>1 DEF NewOrders
  <1>5. /\ o \in Orders /\ o.symbol = head.symbol /\ o.side = head.side /\ ~o.limit
        /\ o.side = "buy" => o.shares = 0 \/ Venue!Affordable(o.shares, px[o.symbol], money)
    <2>1. px \in [Venue!Names -> Nat \ {0}] /\ money \in Nat /\ head \in Orders
      BY <1>2, <1>4
    <2>2. /\ o \in Orders /\ o.symbol = head.symbol /\ o.side = head.side /\ o.limit = head.limit
          /\ o.side = "buy" /\ (head.hop => Venue!Affordable(head.shares, px[head.symbol], money))
             => o.shares = 0 \/ Venue!Affordable(o.shares, px[o.symbol], money)
      BY <1>3, <2>1, SizedFits, SMTT(20)
    <2> QED
      BY <1>4, <2>2
  <1>6. o.symbol \in Venue!Names /\ o.side \in {"buy", "sell"} /\ o.shares \in Nat
    BY <1>5 DEF Orders
  <1>7. /\ o.shares > 0 /\ b >= 1 /\ budget' = b - 1 /\ prices' = px
        /\ Paper!R!Kept(o, px)
        /\ LET answer == Venue!Answer(o, o.shares)
               units  == IF answer \in {"filled", "partial"} THEN o.shares ELSE 0
               sign   == IF o.side = "buy" THEN 1 ELSE -1
           IN  /\ cash' = cash - sign * units * prices[o.symbol] - Venue!Cost(units, prices[o.symbol])
               /\ shares' = [shares EXCEPT ![o.symbol] = @ + sign * units]
               /\ queue' = Tail(queue)
    BY <1>1, <1>3, <1>5, PaperSame, Zenon
       DEF Paper!R!Submit, Paper!R!Fills, Paper!R!BudgetAfter, Paper!R!Escalates
  <1>8. PICK answer, units, sign :
           /\ answer = Venue!Answer(o, o.shares)
           /\ units = IF answer \in {"filled", "partial"} THEN o.shares ELSE 0
           /\ sign = IF o.side = "buy" THEN 1 ELSE -1
           /\ cash' = money - sign * units * px[o.symbol] - Venue!Cost(units, px[o.symbol])
           /\ shares' = [n EXCEPT ![o.symbol] = @ + sign * units]
           /\ queue' = Tail(q)
    BY <1>1, <1>7
  <1>9. PICK left0, m : /\ left0 = money - sign * units * px[o.symbol] - Venue!Cost(units, px[o.symbol])
                        /\ m = [n EXCEPT ![o.symbol] = @ + sign * units]
    OBVIOUS
  <1>10. /\ units \in 0..o.shares /\ left0 \in Nat /\ m \in [Venue!Names -> Nat]
    <2>1. o.side = "buy" => Venue!Affordable(o.shares, px[o.symbol], money)
      BY <1>5, <1>6, <1>7
    <2>2. cash = money /\ shares = n /\ prices = px
      BY <1>1
    <2>3. /\ o \in Orders /\ money \in Nat /\ n \in [Venue!Names -> Nat]
          /\ px \in [Venue!Names -> Nat \ {0}] /\ o.shares \in 0..o.shares
      BY <1>2, <1>5, <1>6
    <2>4. /\ answer = Venue!Answer(o, o.shares)
          /\ units = IF answer \in {"filled", "partial"} THEN o.shares ELSE 0
          /\ sign = IF o.side = "buy" THEN 1 ELSE -1
      BY <1>8
    <2>5. PICK f \in 0..o.shares : f = o.shares
      BY <2>3
    <2>6. answer = Venue!Answer(o, f) /\ units = IF answer \in {"filled", "partial"} THEN f ELSE 0
      BY <2>4, <2>5
    <2> QED
      BY <1>9, <2>1, <2>2, <2>3, <2>4, <2>6, AnswerPaid
  <1>11. PICK d \in Int, cost \in Nat, price \in Nat :
           d = sign * units /\ price = px[o.symbol] /\ cost = Venue!Cost(units, price)
    <2>1. units \in Nat /\ sign \in {1, -1} /\ px[o.symbol] \in Nat
      BY <1>2, <1>6, <1>8, <1>10
    <2>2. sign * units \in Int
      BY <2>1
    <2>3. Venue!Cost(units, px[o.symbol]) \in Nat
      <3>1. units <= units
        BY <2>1
      <3> QED
        BY <2>1, <3>1, CostGrows
    <2> QED
      BY <2>1, <2>2, <2>3
  <1>12. Venue!EquityAt(left0, m, px) <= Venue!EquityAt(money, n, px)
    <2>1. left0 = money - d * price - cost /\ m = [n EXCEPT ![o.symbol] = @ + d]
      BY <1>9, <1>11
    <2>2. m[o.symbol] = n[o.symbol] + d /\ \A u \in Venue!Names \ {o.symbol} : m[u] = n[u]
      BY <1>2, <1>6, <2>1
    <2>3. px \in [Venue!Names -> Nat] /\ left0 \in Int /\ money \in Int
      BY <1>2, <1>10
    <2>4. Venue!EquityAt(left0, m, px)
            = Venue!EquityAt(money, n, px) + (left0 - money) + d * px[o.symbol]
      <3>1. PICK s \in Venue!Names : s = o.symbol
        BY <1>6
      <3>2. /\ money \in Int /\ left0 \in Int /\ n \in [Venue!Names -> Nat]
            /\ px \in [Venue!Names -> Nat] /\ d \in Int /\ m \in [Venue!Names -> Nat]
            /\ left0 - money \in Int
        BY <1>2, <1>10, <2>2, <2>3, <3>1
      <3>3. Trades(m, n, s, d)
        BY <2>2, <3>1 DEF Trades
      <3>4. Moved(Venue!EquityAt(left0, m, px), Venue!EquityAt(money, n, px), left0 - money,
                  d, px[s])
        BY <3>2, <3>3, WorthTrades
      <3> QED
        BY <3>1, <3>4 DEF Moved
    <2>5. Venue!EquityAt(money, n, px) \in Int
      BY <1>2, <2>3, WorthTypes
    <2>6. PICK e \in Int : e = Venue!EquityAt(money, n, px)
      BY <2>5
    <2>7. d * price \in Int
      OBVIOUS
    <2>8. Venue!EquityAt(left0, m, px) = e + (left0 - money) + d * price
      BY <1>11, <2>1, <2>4, <2>6
    <2>9. Venue!EquityAt(left0, m, px) = e - cost
      <3>1. PICK x \in Int : x = d * price
        BY <2>7
      <3> QED
        BY <1>2, <1>10, <2>1, <2>8, <3>1
    <2> QED
      BY <2>6, <2>9
  <1>13. ASSUME head.side = "sell", head.full, head.shares = n[head.symbol]
         PROVE  m = [n EXCEPT ![head.symbol] = 0]
    <2>1. o = head
      BY <1>3, <1>13 DEF Venue!Sized
    <2>2. PICK f \in Nat \ {0}, p \in Nat \ {0} : f = o.shares /\ p = px[o.symbol] /\ f = n[o.symbol]
      BY <1>2, <1>6, <1>7, <1>13, <2>1
    <2>3. ~(Venue!Cost(f, p) > f * p)
      <3>1. Paper!R!Cost(f, p) < f * p
        BY <1>7, <1>13, <2>1, <2>2 DEF Paper!R!Kept
      <3>2. Venue!Cost(f, p) \in Nat /\ f * p \in Nat
        <4>1. f \in Nat /\ f <= f /\ p \in Nat
          OBVIOUS
        <4> QED
          BY <4>1, CostGrows
      <3>3. Venue!Cost(f, p) < f * p
        BY <3>1, PaperSame
      <3> QED
        BY <3>2, <3>3
    <2>4. Venue!Answer(o, f) = "filled"
      <3>1. prices[o.symbol] = p /\ shares[o.symbol] = f /\ o.side = "sell" /\ o.shares = f
        BY <1>1, <1>13, <2>1, <2>2
      <3>2. ~(f = 0 \/ p <= 0) /\ ~(f > f)
        OBVIOUS
      <3> QED
        BY <2>3, <3>1, <3>2 DEF Venue!Answer
    <2>5. units = f /\ sign = -1
      BY <1>8, <1>13, <2>1, <2>2, <2>4
    <2>6. n[o.symbol] + sign * units = 0
      BY <2>2, <2>5
    <2> QED
      BY <1>9, <2>1, <2>6
  <1> QED
    BY <1>1, <1>2, <1>3, <1>7, <1>8, <1>9, <1>10, <1>12, <1>13, Zenon

----------------------------------------------------------------------------
(* The books, and what a kill leaves to do. *)

\* What the deposits of the days up to bar n come to.
PaidIn(n) ==
    IF n = 0 THEN 0 ELSE Deposit * Cardinality(DepositDays \cap (BarDays[1]..BarDays[n]))

\* Equity is explained at the end of a bar; during the fills it is explained
\* by what it was before them, and they do not add to it.
PaperBooks ==
    LET Explained(e) == e = InitialEquity + PaidIn(bar) + gained - spent
    IN  IF phase = "fill"
        THEN Explained(worth) /\ Venue!EquityAt(cash, shares, prices) <= worth
        ELSE Explained(Venue!EquityAt(cash, shares, prices))

Dust(s) == Venue!Cost(shares[s], prices[s]) >= shares[s] * prices[s]

\* After a kill the plan closes the book, then the queue does, dust aside, and
\* what is left is dust.
BookCloses ==
    /\ phase # "open" => bar > killBar
    /\ halted /\ phase = "open" /\ bar = killBar =>
          Closing(pending, shares) /\ Covers(pending, shares) /\ Len(pending) <= PaperMaxOrders
    /\ halted /\ phase = "fill" /\ bar = killBar + 1 =>
          /\ Closing(queue, shares) /\ Len(queue) <= budget
          /\ \A s \in Venue!Names : shares[s] > 0 =>
                Dust(s) \/ \E i \in 1..Len(queue) : queue[i].symbol = s
    /\ halted /\ phase = "judge" /\ bar = killBar + 1 =>
          \A s \in Venue!Names : shares[s] > 0 => Dust(s)

PaperInv == PaperTypes /\ PaperBooks /\ BookCloses

\* A bar is due what its days since the last bar paid in, each once
\* (backtest.py, deposits).
LEMMA DepositsAdd ==
  ASSUME NEW n \in 0..Len(BarDays), n < Len(BarDays)
  PROVE  /\ PaidIn(n) \in Nat /\ Paper!Due(n + 1) \in Nat
         /\ PaidIn(n + 1) = PaidIn(n) + Paper!Due(n + 1)
  <1>1. PICK N \in Nat : N = Len(BarDays) /\ \A i \in 1..N : BarDays[i] \in Int
    BY PaperAssumption, LenProperties
  <1>2. Deposit \in Nat
    BY PaperAssumption
  <1>3. \A a, b \in Int : /\ IsFiniteSet(DepositDays \cap (a..b))
                          /\ Cardinality(DepositDays \cap (a..b)) \in Nat
    <2>1. ASSUME NEW a \in Int, NEW b \in Int
          PROVE  /\ IsFiniteSet(DepositDays \cap (a..b))
                 /\ Cardinality(DepositDays \cap (a..b)) \in Nat
      <3>1. DepositDays \cap (a..b) \in SUBSET (a..b) /\ IsFiniteSet(a..b)
        BY FS_Interval
      <3>2. IsFiniteSet(DepositDays \cap (a..b))
        BY <3>1, FS_Subset
      <3> QED
        BY <3>2, FS_CardinalityType
    <2> QED
      BY <2>1
  <1>4. PICK m \in 1..N : m = n + 1
    BY <1>1
  <1>5. PICK first, last \in Int : first = BarDays[1] /\ last = BarDays[m]
    BY <1>1, <1>4
  <1>6. PICK upto, all \in Nat : /\ upto = Cardinality(DepositDays \cap (first..last))
                                 /\ all = Deposit * upto
    <2>1. PICK x \in Nat : x = Cardinality(DepositDays \cap (first..last))
      BY <1>3
    <2>2. Deposit * x \in Nat
      BY <1>2
    <2> QED
      BY <2>1, <2>2
  <1>7. PaidIn(n + 1) = all
    BY <1>4, <1>5, <1>6 DEF PaidIn
  <1>8. CASE n = 0
    <2>1. m = 1 /\ first = last
      BY <1>4, <1>5, <1>8
    <2>2. Paper!Due(m) = all
      BY <1>5, <1>6, <2>1, PaperSame DEF Paper!Due
    <2>3. PaidIn(n) = 0
      BY <1>8 DEF PaidIn
    <2> QED
      BY <1>4, <1>7, <2>2, <2>3
  <1>9. CASE n # 0
    <2>1. n \in 1..N /\ m = n + 1 /\ m # 1 /\ m - 1 = n
      BY <1>1, <1>4, <1>9
    <2>2. PICK then \in Int : then = BarDays[n]
      BY <1>1, <2>1
    <2>3. first <= then /\ then < last
      <3>1. DOMAIN BarDays = 1..N
        BY <1>1, PaperAssumption, LenProperties
      <3>2. \A i, j \in 1..N : i < j => BarDays[i] < BarDays[j]
        BY <3>1, PaperAssumption
      <3>3. BarDays[n] < BarDays[m] /\ (1 < n => BarDays[1] < BarDays[n])
        BY <2>1, <3>2
      <3> QED
        BY <1>1, <1>5, <2>1, <2>2, <3>3
    <2>4. PICK A, B : /\ A = DepositDays \cap (first..then)
                      /\ B = DepositDays \cap ((then + 1)..last)
      OBVIOUS
    <2>5. PICK x, y \in Nat : x = Cardinality(A) /\ y = Cardinality(B)
      <3>1. then + 1 \in Int
        OBVIOUS
      <3> QED
        BY <1>3, <2>4, <3>1
    <2>6. upto = x + y
      <3>1. IsFiniteSet(A) /\ IsFiniteSet(B)
        <4>1. then + 1 \in Int
          OBVIOUS
        <4> QED
          BY <1>3, <2>4, <4>1
      <3>2. A \cap B = {} /\ A \cup B = DepositDays \cap (first..last)
        BY <2>3, <2>4
      <3> QED
        <4>1. Cardinality(A \cup B) = Cardinality(A) + Cardinality(B) - Cardinality(A \cap B)
          BY <3>1, FS_Union
        <4>2. Cardinality(A \cap B) = 0
          BY <3>2, FS_EmptySet
        <4>3. upto = Cardinality(A \cup B)
          BY <1>6, <3>2
        <4> QED
          BY <2>5, <4>1, <4>2, <4>3
    <2>7. PaidIn(n) = Deposit * x /\ Paper!Due(m) = Deposit * y
      BY <1>5, <1>9, <2>1, <2>2, <2>4, <2>5, PaperSame DEF PaidIn, Paper!Due
    <2>8. Deposit * (x + y) = Deposit * x + Deposit * y /\ Deposit * x \in Nat /\ Deposit * y \in Nat
      BY <1>2
    <2> QED
      BY <1>4, <1>6, <1>7, <2>6, <2>7, <2>8
  <1> QED
    BY <1>8, <1>9

\* The backtest starts with its books in order.
LEMMA PaperInit == Paper!Init => PaperInv
  <1> SUFFICES ASSUME Paper!Init PROVE PaperInv
    OBVIOUS
  <1>1. InitialEquity \in Nat /\ PaperPrices \subseteq Nat \ {0} /\ BarDays \in Seq(Int)
        /\ Len(BarDays) \in Nat /\ Paper!R!Names = Venue!Names /\ Paper!Names = Venue!Names
    BY PaperAssumption, PaperSame, LenProperties
  <1>2. PICK money, n, px : money = cash /\ n = shares /\ px = prices
    OBVIOUS
  <1>3. /\ money = InitialEquity /\ n = [s \in Venue!Names |-> 0]
        /\ px \in [Venue!Names -> Nat \ {0}]
    BY <1>1, <1>2 DEF Paper!Init
  <1>4. PaperTypes
    <2>1. /\ queue = << >> /\ budget = 0 /\ pending = << >> /\ bar = 0 /\ phase = "open"
          /\ halted = FALSE /\ killBar = 0 /\ spent = 0 /\ peak = InitialEquity
          /\ lastEquity = InitialEquity /\ flows = 0 /\ worth = InitialEquity /\ gained = 0
      BY DEF Paper!Init
    <2>2. cash \in Nat /\ shares \in [Venue!Names -> Nat] /\ prices \in [Venue!Names -> Nat \ {0}]
      BY <1>1, <1>2, <1>3
    <2>3. << >> \in Seq(NewOrders)
      OBVIOUS
    <2>4. bar \in 0..Len(BarDays) /\ killBar \in 0..bar /\ halted = (killBar # 0)
      <3>1. bar \in 0..Len(BarDays) /\ killBar \in 0..bar
        BY <1>1, <2>1
      <3>2. halted = (killBar # 0)
        BY <2>1, Zenon
      <3> QED
        BY <3>1, <3>2
    <2>5. budget \in Nat /\ spent \in Nat /\ flows \in Nat /\ gained \in Int
      BY <2>1
    <2> QED
      BY <1>1, <2>1, <2>2, <2>3, <2>4, <2>5 DEF PaperTypes
  <1>5. Venue!EquityAt(money, n, px) = InitialEquity
    <2>1. PICK U, f : U = Venue!Names /\ f = [s \in Venue!Names |-> n[s] * px[s]]
      OBVIOUS
    <2>2. f \in [U -> Int] /\ \A s \in U : f[s] = 0
      BY <1>3, <2>1
    <2>3. \A x \in U : f[x] + 0 = f[x]
      BY <2>2
    <2>4. SumFunction(f) = SumFunction(f) + SumFunction(f) /\ SumFunction(f) \in Int
      <3>1. IsFiniteSet(U) /\ \A x \in U : f[x] = f[x] + f[x]
        BY <2>1, <2>2, UniverseFinite
      <3> QED
        BY <2>2, <3>1, SumFunctionPlus, SumFunctionType
    <2>5. SumFunction(f) = 0
      <3>1. \A z \in Int : z = z + z => z = 0
        OBVIOUS
      <3> QED
        BY <2>4, <3>1
    <2> QED
      BY <1>1, <1>3, <2>1, <2>5, VenueSum DEF Venue!EquityAt
  <1>6. PaperBooks
    BY <1>1, <1>2, <1>5 DEF PaperBooks, PaidIn, Paper!Init
  <1>7. BookCloses
    BY DEF BookCloses, Paper!Init
  <1> QED
    BY <1>4, <1>6, <1>7 DEF PaperInv

\* A new bar pays in, moves the prices and queues what the last one decided.
LEMMA PaperOpens ==
  ASSUME PaperInv, NEW py \in [Paper!Names -> PaperPrices], Paper!OpenBar(py)
  PROVE  PaperInv'
  <1>1. PICK money, n, px, k, b : money = cash /\ n = shares /\ px = prices /\ k = pending /\ b = bar
    OBVIOUS
  <1>2. /\ money \in Nat /\ n \in [Venue!Names -> Nat] /\ px \in [Venue!Names -> Nat \ {0}]
        /\ k \in Seq(NewOrders) /\ b \in Nat /\ b < Len(BarDays) /\ b \in 0..Len(BarDays)
        /\ phase = "open" /\ queue = << >>
    <2>1. Len(BarDays) \in Nat
      BY PaperAssumption, LenProperties
    <2> QED
      BY <1>1, <2>1 DEF PaperInv, PaperTypes, Paper!OpenBar
  <1>3. py \in [Venue!Names -> Nat \ {0}]
    BY PaperSame, PaperAssumption
  <1>4. PICK due, past \in Nat : due = Paper!Due(b + 1) /\ past = PaidIn(b) /\ PaidIn(b + 1) = past + due
    BY <1>2, DepositsAdd
  <1>5. PICK d : d = Gains(n, px, py)
    OBVIOUS
  <1>6. PICK g, e, e2 \in Int : /\ g = SumFunction(d)
                                /\ e = Venue!EquityAt(money, n, px)
                                /\ e2 = Venue!EquityAt(money + due, n, py)
                                /\ e2 = e + due + g
    <2>1. /\ px \in [Venue!Names -> Nat] /\ py \in [Venue!Names -> Nat] /\ money \in Int
          /\ due \in Int /\ money + due \in Int
      BY <1>2, <1>3
    <2>2. PICK more \in Int : more = money + due
      BY <2>1
    <2>3. /\ SumFunction(d) \in Int
          /\ Venue!EquityAt(more, n, py) = Venue!EquityAt(money, n, px) + (more - money) + SumFunction(d)
      <3>1. /\ SumFunction(Gains(n, px, py)) \in Int
            /\ Earned(Venue!EquityAt(more, n, py), Venue!EquityAt(money, n, px), more - money,
                      SumFunction(Gains(n, px, py)))
        BY <1>2, <2>1, WorthMoves
      <3> QED
        BY <1>5, <3>1 DEF Earned
    <2>4. Venue!EquityAt(money, n, px) \in Int /\ Venue!EquityAt(more, n, py) \in Int
      BY <1>2, <2>1, WorthTypes
    <2>5. PICK g, e, e2 \in Int : /\ g = SumFunction(d)
                                  /\ e = Venue!EquityAt(money, n, px)
                                  /\ e2 = Venue!EquityAt(more, n, py)
                                  /\ e2 = e + (more - money) + g
      BY <2>3, <2>4
    <2>6. e2 = e + due + g
      BY <2>1, <2>2, <2>5
    <2> QED
      BY <2>2, <2>5, <2>6
  <1>7. /\ bar' = b + 1 /\ prices' = py /\ cash' = money + due /\ flows' = due
        /\ worth' = e2 /\ gained' = gained + g /\ pending' = << >>
        /\ UNCHANGED << shares, halted, peak, lastEquity, spent, killBar >>
    <2>1. SumFunction([s \in Venue!Names |-> shares[s] * (py[s] - prices[s])]) = g
      BY <1>1, <1>5, <1>6 DEF Gains
    <2>2. Paper!R!EquityAt(cash + due, shares, py) = e2
      BY <1>1, <1>6, PaperSame
    <2> QED
      BY <1>1, <1>4, <2>1, <2>2, PaperSame DEF Paper!OpenBar
  <1>8. e2 \in Nat
    <2>1. Venue!EquityAt(money + due, n, py) >= money + due
      <3>1. money + due \in Int /\ n \in [Venue!Names -> Nat] /\ py \in [Venue!Names -> Nat]
        BY <1>2, <1>3
      <3> QED
        BY <3>1, WorthTypes
    <2> QED
      BY <1>2, <1>6, <2>1
  <1>9. \/ /\ k # << >> /\ queue' = Paper!R!Truncate(k) /\ budget' = PaperMaxOrders /\ phase' = "fill"
        \/ k = << >> /\ UNCHANGED << queue, budget >> /\ phase' = "judge"
    BY <1>1 DEF Paper!OpenBar, Paper!Fills, Paper!R!Begin
  <1>10. /\ phase' \in {"fill", "judge"}
         /\ queue' \in Seq(NewOrders) /\ budget' \in Nat
         /\ phase' # "fill" => queue' = << >>
    <2>1. CASE k # << >> /\ queue' = Paper!R!Truncate(k) /\ budget' = PaperMaxOrders /\ phase' = "fill"
      <3>1. PICK w : w = Paper!R!Truncate(k)
        OBVIOUS
      <3>2. w \in Seq(NewOrders)
        BY <1>2, <3>1, PaperQueued
      <3> QED
        BY <2>1, <3>1, <3>2, PaperAssumption
    <2>2. CASE k = << >> /\ UNCHANGED << queue, budget >> /\ phase' = "judge"
      BY <1>2, <2>2 DEF PaperInv, PaperTypes
    <2> QED
      BY <1>9, <2>1, <2>2
  <1>11. PaperTypes'
    <2>1. Len(BarDays) \in Nat
      BY PaperAssumption, LenProperties
    <2>2. bar' \in 0..Len(BarDays) /\ killBar' \in 0..bar'
      BY <1>1, <1>2, <1>7, <2>1 DEF PaperInv, PaperTypes
    <2>3. cash' \in Nat /\ gained' \in Int
      <3>1. gained \in Int
        BY DEF PaperInv, PaperTypes
      <3>2. gained + g \in Int /\ money + due \in Nat
        BY <1>2, <3>1
      <3> QED
        BY <1>7, <3>2
    <2>4. << >> \in Seq(NewOrders)
      OBVIOUS
    <2> QED
      BY <1>3, <1>7, <1>8, <1>10, <2>2, <2>3, <2>4 DEF PaperInv, PaperTypes
  <1>12. PaperBooks'
    <2>1. e = InitialEquity + past + gained - spent
      BY <1>1, <1>2, <1>4, <1>6 DEF PaperInv, PaperBooks
    <2>2. InitialEquity \in Int /\ gained \in Int /\ spent \in Int
      BY PaperAssumption DEF PaperInv, PaperTypes
    <2>3. e2 = InitialEquity + (past + due) + (gained + g) - spent
      BY <1>6, <2>1, <2>2
    <2>4. PaidIn(bar') = past + due /\ gained' = gained + g /\ spent' = spent /\ worth' = e2
      BY <1>4, <1>7
    <2>5. Venue!EquityAt(cash', shares', prices') = e2
      BY <1>1, <1>6, <1>7
    <2>6. /\ worth' = InitialEquity + PaidIn(bar)' + gained' - spent'
          /\ Venue!EquityAt(cash, shares, prices)' = worth'
      BY <2>3, <2>4, <2>5 DEF PaidIn, Venue!EquityAt, Venue!Names
    <2> QED
      BY <1>8, <2>4, <2>6 DEF PaperBooks
  <1>13. BookCloses'
    <2>1. bar' > killBar' /\ halted' = halted /\ killBar' = killBar /\ shares' = n
      BY <1>1, <1>2, <1>7 DEF PaperInv, PaperTypes
    <2>2. ASSUME halted, bar = killBar PROVE Closing(k, n) /\ Covers(k, n) /\ Len(k) <= PaperMaxOrders
      BY <1>1, <1>2, <2>2 DEF PaperInv, BookCloses
    <2>3. ASSUME halted', phase' = "fill", bar' = killBar' + 1
          PROVE  /\ Closing(queue, shares)' /\ (Len(queue) <= budget)'
                 /\ \A s \in Venue!Names : \/ shares'[s] <= 0
                                           \/ \E i \in 1..Len(queue') : queue'[i].symbol = s
      <3>1. halted /\ bar = killBar
        <4>1. killBar \in Int
          BY <1>2 DEF PaperInv, PaperTypes
        <4> QED
          BY <1>1, <1>2, <1>7, <2>1, <2>3, <4>1
      <3>2. PICK w : w = Paper!R!Truncate(k) /\ queue' = w /\ budget' = PaperMaxOrders
        BY <1>9, <2>3
      <3>3. Closing(w, n) /\ Covers(w, n) /\ Len(w) <= PaperMaxOrders
        BY <1>2, <2>2, <3>1, <3>2, PaperQueued
      <3>4. ASSUME NEW s \in Venue!Names
            PROVE  n[s] <= 0 \/ \E i \in 1..Len(w) : w[i].symbol = s
        <4>1. n[s] \in Nat
          BY <1>2
        <4> QED
          BY <3>3, <4>1 DEF Covers
      <3> QED
        BY <2>1, <3>2, <3>3, <3>4 DEF Closing
    <2>4. ASSUME halted', phase' = "judge", bar' = killBar' + 1
          PROVE  \A s \in Venue!Names : shares'[s] <= 0
      <3>1. halted /\ bar = killBar
        <4>1. killBar \in Int
          BY <1>2 DEF PaperInv, PaperTypes
        <4> QED
          BY <1>1, <1>2, <1>7, <2>1, <2>4, <4>1
      <3>2. k = << >> /\ Covers(k, n)
        BY <1>9, <2>2, <2>4, <3>1
      <3>3. ASSUME NEW s \in Venue!Names PROVE n[s] <= 0
        <4>1. n[s] \in Nat /\ Len(k) = 0
          BY <1>2, <3>2
        <4> QED
          BY <3>2, <4>1 DEF Covers
      <3> QED
        BY <2>1, <3>3
    <2>5. ASSUME NEW s \in Venue!Names PROVE shares'[s] \in Nat
      BY <1>2, <2>1
    <2>6. /\ phase' # "open"
          /\ \A s \in Venue!Names : shares'[s] > 0 => ~(shares'[s] <= 0)
      BY <1>10, <2>5
    <2> QED
      BY <2>1, <2>3, <2>4, <2>6 DEF BookCloses
  <1> QED
    BY <1>11, <1>12, <1>13 DEF PaperInv


\* Orders that close a book still close it when the first one is done with.
LEMMA ClosesOn ==
  ASSUME NEW n \in [Venue!Names -> Nat], NEW m \in [Venue!Names -> Nat],
         NEW q \in Seq(NewOrders), q # << >>, Closing(q, n),
         \A s \in Venue!Names \ {Head(q).symbol} : m[s] = n[s]
  PROVE  /\ Closing(Tail(q), m) /\ Tail(q) \in Seq(NewOrders) /\ Len(Tail(q)) = Len(q) - 1
         /\ \A s : (\E i \in 1..Len(q) : q[i].symbol = s) =>
                s = Head(q).symbol \/ \E i \in 1..Len(Tail(q)) : Tail(q)[i].symbol = s
  <1>0. PICK t : t = Tail(q)
    OBVIOUS
  <1>1. PICK N \in Nat : /\ N = Len(q) /\ N > 0 /\ Head(q) = q[1]
                         /\ t \in Seq(NewOrders) /\ Len(t) = N - 1
                         /\ \A i \in 1..(N - 1) : t[i] = q[i + 1]
    BY <1>0, HeadTailProperties, LenProperties
  <1>2. /\ \A i \in 1..N : /\ q[i].side = "sell" /\ q[i].full
                           /\ q[i].shares > 0 /\ q[i].shares = n[q[i].symbol]
        /\ \A i, j \in 1..N : q[i].symbol = q[j].symbol => i = j
    BY <1>1 DEF Closing
  <1>3. \A i \in 1..N : q[i].symbol \in Venue!Names
    <2>1. \A i \in 1..N : q[i] \in NewOrders
      BY <1>1, LenProperties
    <2> QED
      BY <2>1 DEF NewOrders, Orders
  <1>4. \A i \in 1..(N - 1) : /\ i + 1 \in 1..N /\ 1 \in 1..N
                              /\ t[i] = q[i + 1] /\ q[i + 1].symbol # q[1].symbol
    <2>1. ASSUME NEW i \in 1..(N - 1)
          PROVE  i + 1 \in 1..N /\ 1 \in 1..N /\ i + 1 # 1
      BY <1>1
    <2> QED
      BY <1>1, <1>2, <2>1
  <1>5. Closing(t, m)
    <2>1. ASSUME NEW i \in 1..(N - 1)
          PROVE  /\ t[i].side = "sell" /\ t[i].full
                 /\ t[i].shares > 0 /\ t[i].shares = m[t[i].symbol]
      <3>1. PICK j \in 1..N : j = i + 1
        BY <1>4
      <3>2. t[i] = q[j] /\ q[j].symbol \in Venue!Names \ {Head(q).symbol}
        BY <1>1, <1>3, <1>4, <3>1
      <3> QED
        BY <1>2, <3>2
    <2>2. ASSUME NEW i \in 1..(N - 1), NEW j \in 1..(N - 1), t[i].symbol = t[j].symbol
          PROVE  i = j
      <3>1. PICK x, y \in 1..N : x = i + 1 /\ y = j + 1
        BY <1>4
      <3>2. q[x].symbol = q[y].symbol
        BY <1>4, <2>2, <3>1
      <3>3. x = y
        BY <1>2, <3>2
      <3> QED
        BY <3>1, <3>3
    <2> QED
      BY <1>1, <2>1, <2>2 DEF Closing
  <1>6. ASSUME NEW s, NEW i \in 1..N, q[i].symbol = s
        PROVE  s = Head(q).symbol \/ \E j \in 1..(N - 1) : t[j].symbol = s
    <2>1. CASE i = 1
      BY <1>1, <1>6, <2>1
    <2>2. CASE i # 1
      <3>1. i - 1 \in 1..(N - 1) /\ (i - 1) + 1 = i
        BY <1>1, <2>2
      <3> QED
        BY <1>1, <1>6, <3>1
    <2> QED
      BY <2>1, <2>2
  <1> QED
    BY <1>0, <1>1, <1>5, <1>6

\* What the fill of an order leaves alone.
Filling ==
    /\ phase = "fill" /\ phase' = "fill" /\ prices' = prices
    /\ UNCHANGED << bar, pending, halted, peak, lastEquity, spent, flows, worth, gained, killBar >>

\* A dropped order changes nothing but the queue, and a closing one is dust
\* (risk.py, filter_orders).
LEMMA PaperDrops ==
  ASSUME PaperInv, Filling, Paper!R!Drop
  PROVE  PaperInv'
  <1>1. PICK q, n, px, b : q = queue /\ n = shares /\ px = prices /\ b = budget
    OBVIOUS
  <1>2. /\ q \in Seq(NewOrders) /\ q # << >> /\ n \in [Venue!Names -> Nat] /\ b \in Nat
        /\ px \in [Venue!Names -> Nat \ {0}]
    BY <1>1 DEF PaperInv, PaperTypes, Paper!R!Drop
  <1>3. PICK head, t : head = Head(q) /\ t = Tail(q)
    OBVIOUS
  <1>4. t \in Seq(NewOrders) /\ head \in NewOrders /\ head.symbol \in Venue!Names
    <2>1. t \in Seq(NewOrders) /\ head \in NewOrders
      BY <1>2, <1>3, HeadTailProperties
    <2> QED
      BY <2>1 DEF NewOrders, Orders
  <1>5. /\ queue' = t /\ UNCHANGED << cash, shares, budget, prices >>
        /\ \/ Venue!Sized(head, px, cash).shares = 0 \/ b < 1
           \/ ~Paper!R!Kept(Venue!Sized(head, px, cash), px)
    BY <1>1, <1>3, PaperSame DEF Paper!R!Drop
  <1>6. PaperTypes'
    BY <1>4, <1>5 DEF PaperInv, PaperTypes, Filling
  <1>7. PaperBooks'
    BY <1>5 DEF PaperInv, PaperBooks, Filling, PaidIn
  <1>8. BookCloses'
    <2>1. CASE halted /\ bar = killBar + 1
      <3>1. /\ Closing(q, n) /\ Len(q) <= b
            /\ \A s \in Venue!Names : n[s] > 0 =>
                  Dust(s) \/ \E i \in 1..Len(q) : q[i].symbol = s
        BY <1>1, <2>1 DEF PaperInv, BookCloses, Filling
      <3>2. /\ Closing(t, n) /\ Len(t) = Len(q) - 1
            /\ \A s : (\E i \in 1..Len(q) : q[i].symbol = s) =>
                  s = head.symbol \/ \E i \in 1..Len(t) : t[i].symbol = s
        <4>1. /\ \A s \in Venue!Names \ {Head(q).symbol} : n[s] = n[s]
              /\ n \in [Venue!Names -> Nat] /\ q \in Seq(NewOrders) /\ q # << >> /\ Closing(q, n)
          BY <1>2, <3>1
        <4>2. /\ Closing(Tail(q), n) /\ Len(Tail(q)) = Len(q) - 1
              /\ \A s : (\E i \in 1..Len(q) : q[i].symbol = s) =>
                    s = Head(q).symbol \/ \E i \in 1..Len(Tail(q)) : Tail(q)[i].symbol = s
          BY <4>1, ClosesOn
        <4> QED
          BY <1>3, <4>2
      <3>3. Len(q) \in Nat /\ Len(q) >= 1 /\ head = q[1] /\ 1 \in 1..Len(q)
        BY <1>2, <1>3, LenProperties, HeadTailProperties
      <3>4. head.side = "sell" /\ head.full /\ head.shares > 0 /\ head.shares = n[head.symbol]
        BY <3>1, <3>3 DEF Closing
      <3>5. Venue!Sized(head, px, cash) = head
        BY <3>4 DEF Venue!Sized
      <3>6. ~Paper!R!Kept(head, px)
        BY <1>2, <1>5, <3>1, <3>3, <3>4, <3>5
      <3>7. Dust(head.symbol)
        <4>1. px[head.symbol] > 0
          BY <1>2, <1>4
        <4>2. ~(Paper!R!Cost(head.shares, px[head.symbol]) < head.shares * px[head.symbol])
          BY <3>4, <3>6, <4>1 DEF Paper!R!Kept
        <4>3. PICK f, p \in Nat : f = head.shares /\ p = px[head.symbol] /\ f = n[head.symbol]
          BY <1>2, <1>4, <3>4
        <4>4. Venue!Cost(f, p) \in Nat /\ f * p \in Nat
          <5>1. f \in Nat /\ f <= f /\ p \in Nat
            OBVIOUS
          <5> QED
            BY <5>1, CostGrows
        <4>5. Venue!Cost(f, p) >= f * p
          <5>1. ~(Venue!Cost(f, p) < f * p)
            BY <4>2, <4>3, PaperSame
          <5> QED
            BY <4>4, <5>1
        <4> QED
          BY <1>1, <4>3, <4>5 DEF Dust
      <3>8. ASSUME NEW s \in Venue!Names, n[s] > 0
            PROVE  Dust(s) \/ \E i \in 1..Len(t) : t[i].symbol = s
        BY <3>1, <3>2, <3>7, <3>8
      <3>9. Len(t) <= b
        BY <1>2, <3>1, <3>2, <3>3
      <3>10. \A s \in Venue!Names : shares'[s] > 0 =>
                  Dust(s)' \/ \E i \in 1..Len(queue') : queue'[i].symbol = s
        BY <1>1, <1>5, <3>8 DEF Dust, Venue!Cost
      <3>11. Closing(queue, shares)' /\ (Len(queue) <= budget)'
        BY <1>1, <1>5, <3>2, <3>9 DEF Closing
      <3>12. phase' = "fill" /\ bar' = bar /\ killBar' = killBar /\ bar > killBar
        BY DEF PaperInv, BookCloses, Filling
      <3> QED
        BY <3>10, <3>11, <3>12 DEF BookCloses, Venue!Names
    <2>2. CASE ~(halted /\ bar = killBar + 1)
      BY <2>2 DEF PaperInv, BookCloses, Filling
    <2> QED
      BY <2>1, <2>2
  <1> QED
    BY <1>6, <1>7, <1>8 DEF PaperInv

\* A submission closes what it is to close, at what it costs
\* (backtest.py, _fill).
LEMMA PaperSells ==
  ASSUME PaperInv, Filling, Paper!R!Submit
  PROVE  PaperInv'
  <1>1. PICK q, n, px, b, m : /\ q = queue /\ n = shares /\ px = prices /\ b = budget
                              /\ m = shares'
    OBVIOUS
  <1>2. /\ q \in Seq(NewOrders) /\ n \in [Venue!Names -> Nat] /\ b \in Nat
        /\ px \in [Venue!Names -> Nat \ {0}]
    BY <1>1 DEF PaperInv, PaperTypes
  <1>3. PICK head, t : head = Head(q) /\ t = Tail(q)
    OBVIOUS
  <1>4. /\ cash' \in Nat /\ m \in [Venue!Names -> Nat]
        /\ b >= 1 /\ budget' = b - 1 /\ q # << >> /\ queue' = t /\ prices' = px
        /\ Venue!EquityAt(cash', m, px) <= Venue!EquityAt(cash, n, px)
        /\ head.side = "sell" /\ head.full /\ head.shares = n[head.symbol]
           => m = [n EXCEPT ![head.symbol] = 0]
    <2>1. PaperTypes
      BY DEF PaperInv
    <2> QED
      BY <1>1, <1>3, <2>1, PaperSubmits
  <1>5. t \in Seq(NewOrders) /\ head \in NewOrders /\ head.symbol \in Venue!Names
    <2>1. t \in Seq(NewOrders) /\ head \in NewOrders
      BY <1>2, <1>3, <1>4, HeadTailProperties
    <2> QED
      BY <2>1 DEF NewOrders, Orders
  <1>6. PaperTypes'
    <2>1. budget' \in Nat
      BY <1>2, <1>4
    <2> QED
      BY <1>1, <1>4, <1>5, <2>1 DEF PaperInv, PaperTypes, Filling
  <1>7. PaperBooks'
    <2>1. worth = InitialEquity + PaidIn(bar) + gained - spent /\ Venue!EquityAt(cash, n, px) <= worth
      BY <1>1 DEF PaperInv, PaperBooks, Filling
    <2>2. PICK e, e2, w \in Int : /\ e = Venue!EquityAt(cash, n, px) /\ w = worth
                                  /\ e2 = Venue!EquityAt(cash', m, px)
      <3>1. /\ cash \in Int /\ cash' \in Int /\ worth \in Int
            /\ px \in [Venue!Names -> Nat]
        BY <1>2, <1>4 DEF PaperInv, PaperTypes
      <3>2. Venue!EquityAt(cash, n, px) \in Int /\ Venue!EquityAt(cash', m, px) \in Int
        BY <1>2, <1>4, <3>1, WorthTypes
      <3> QED
        BY <3>1, <3>2
    <2>3. Venue!EquityAt(cash', m, px) <= worth
      BY <1>4, <2>1, <2>2
    <2>4. Venue!EquityAt(cash, shares, prices)' <= worth'
      BY <1>1, <1>4, <2>3 DEF Venue!EquityAt, Venue!Names, Filling
    <2> QED
      BY <2>1, <2>4 DEF PaperBooks, Filling, PaidIn
  <1>8. BookCloses'
    <2>1. CASE halted /\ bar = killBar + 1
      <3>1. /\ Closing(q, n) /\ Len(q) <= b
            /\ \A s \in Venue!Names : n[s] > 0 =>
                  Dust(s) \/ \E i \in 1..Len(q) : q[i].symbol = s
        BY <1>1, <2>1 DEF PaperInv, BookCloses, Filling
      <3>2. Len(q) \in Nat /\ Len(q) >= 1 /\ head = q[1] /\ 1 \in 1..Len(q)
        BY <1>2, <1>3, <1>4, LenProperties, HeadTailProperties
      <3>3. head.side = "sell" /\ head.full /\ head.shares > 0 /\ head.shares = n[head.symbol]
        BY <3>1, <3>2 DEF Closing
      <3>4. m = [n EXCEPT ![head.symbol] = 0]
        BY <1>4, <3>3
      <3>5. m[head.symbol] = 0 /\ \A s \in Venue!Names \ {head.symbol} : m[s] = n[s]
        BY <1>2, <1>5, <3>4
      <3>6. /\ Closing(t, m) /\ Len(t) = Len(q) - 1
            /\ \A s : (\E i \in 1..Len(q) : q[i].symbol = s) =>
                  s = head.symbol \/ \E i \in 1..Len(t) : t[i].symbol = s
        <4>1. /\ \A s \in Venue!Names \ {Head(q).symbol} : m[s] = n[s]
              /\ n \in [Venue!Names -> Nat] /\ m \in [Venue!Names -> Nat]
              /\ q \in Seq(NewOrders) /\ q # << >> /\ Closing(q, n)
          BY <1>2, <1>3, <1>4, <3>1, <3>5
        <4>2. /\ Closing(Tail(q), m) /\ Len(Tail(q)) = Len(q) - 1
              /\ \A s : (\E i \in 1..Len(q) : q[i].symbol = s) =>
                    s = Head(q).symbol \/ \E i \in 1..Len(Tail(q)) : Tail(q)[i].symbol = s
          BY <4>1, ClosesOn
        <4> QED
          BY <1>3, <4>2
      <3>7. ASSUME NEW s \in Venue!Names, m[s] > 0
            PROVE  Dust(s)' \/ \E i \in 1..Len(t) : t[i].symbol = s
        <4>1. s # head.symbol /\ m[s] = n[s] /\ n[s] > 0
          BY <3>5, <3>7
        <4>2. Dust(s) => Dust(s)'
          BY <1>1, <1>4, <4>1 DEF Dust, Venue!Cost
        <4> QED
          BY <3>1, <3>6, <4>1, <4>2
      <3>8. Len(t) <= b - 1
        BY <1>2, <3>1, <3>2, <3>6
      <3>9. Closing(queue, shares)' /\ (Len(queue) <= budget)'
        BY <1>1, <1>4, <3>6, <3>8 DEF Closing
      <3>10. phase' = "fill" /\ bar' = bar /\ killBar' = killBar /\ bar > killBar
        BY DEF PaperInv, BookCloses, Filling
      <3>11. \A s \in Venue!Names : shares'[s] > 0 =>
                  Dust(s)' \/ \E i \in 1..Len(queue') : queue'[i].symbol = s
        BY <1>1, <1>4, <3>7
      <3> QED
        BY <3>9, <3>10, <3>11 DEF BookCloses, Venue!Names
    <2>2. CASE ~(halted /\ bar = killBar + 1)
      BY <2>2 DEF PaperInv, BookCloses, Filling
    <2> QED
      BY <2>1, <2>2
  <1> QED
    BY <1>6, <1>7, <1>8 DEF PaperInv


\* A fill of the backtest never meets an outage (backtest.py, _fill).
LEMMA PaperFills ==
  ASSUME PaperInv, Paper!Fill
  PROVE  PaperInv'
  <1>1. Filling
    <2>1. Paper!R!Execute => prices' = prices
      BY DEF Paper!R!Execute, Paper!R!Drop, Paper!R!Submit, Paper!R!Outage
    <2> QED
      BY <2>1 DEF Paper!Fill, Filling
  <1>2. Paper!R!Drop \/ Paper!R!Submit
    BY DEF Paper!Fill, Paper!R!Execute, Paper!R!Outage
  <1> QED
    BY <1>1, <1>2, PaperDrops, PaperSells

\* What the fills cost is what they took from the worth
\* (backtest.py, costs_paid).
LEMMA PaperFillsDone ==
  ASSUME PaperInv, Paper!FillsDone
  PROVE  PaperInv'
  <1>1. PICK n, px : n = shares /\ px = prices
    OBVIOUS
  <1>2. /\ phase = "fill" /\ phase' = "judge" /\ queue = << >>
        /\ UNCHANGED << cash, shares, queue, budget, prices, bar, pending, halted, peak,
                        lastEquity, flows, worth, gained, killBar >>
        /\ spent' = spent + worth - Venue!EquityAt(cash, n, px)
    BY <1>1, PaperSame DEF Paper!FillsDone, Paper!Equity, Paper!books
  <1>3. PICK e \in Int : /\ e = Venue!EquityAt(cash, n, px) /\ e <= worth
                         /\ worth = InitialEquity + PaidIn(bar) + gained - spent
    <2>1. cash \in Int /\ n \in [Venue!Names -> Nat] /\ px \in [Venue!Names -> Nat]
      BY <1>1 DEF PaperInv, PaperTypes
    <2>2. Venue!EquityAt(cash, n, px) \in Int
      BY <2>1, WorthTypes
    <2> QED
      BY <1>1, <1>2, <2>2 DEF PaperInv, PaperBooks
  <1>4. spent \in Nat /\ worth \in Nat /\ gained \in Int /\ InitialEquity \in Int
    BY PaperAssumption DEF PaperInv, PaperTypes
  <1>5. PaidIn(bar) \in Int
    <2>1. PICK p : p = InitialEquity + PaidIn(bar) + gained - spent
      OBVIOUS
    <2>2. PICK b : b = bar
      OBVIOUS
    <2>3. Cardinality(DepositDays \cap (BarDays[1]..BarDays[b])) \in Nat \/ b = 0
      <3>1. CASE b # 0
        <4>1. b \in 1..Len(BarDays)
          BY <2>2, <3>1, PaperAssumption, LenProperties DEF PaperInv, PaperTypes
        <4>2. 1 \in 1..Len(BarDays)
          BY <4>1, PaperAssumption, LenProperties
        <4>3. BarDays[1] \in Int /\ BarDays[b] \in Int
          BY <4>1, <4>2, PaperAssumption, SMTT(20)
        <4>4. IsFiniteSet(BarDays[1]..BarDays[b])
          BY <4>3, FS_Interval
        <4>5. IsFiniteSet(DepositDays \cap (BarDays[1]..BarDays[b]))
          BY <4>4, FS_Intersection
        <4> QED
          BY <4>5, FS_CardinalityType
      <3> QED
        BY <3>1
    <2>4. Deposit \in Nat
      BY PaperAssumption
    <2> QED
      BY <2>2, <2>3, <2>4 DEF PaidIn
  <1>6. /\ spent' \in Nat
        /\ e = InitialEquity + PaidIn(bar) + gained - spent'
    <2>1. PICK w, s, g, i, a \in Int :
             /\ w = worth /\ s = spent /\ g = gained /\ i = InitialEquity /\ a = PaidIn(bar)
             /\ w = i + a + g - s /\ e <= w /\ s >= 0
      BY <1>3, <1>4, <1>5
    <2>2. s + w - e \in Nat /\ e = i + a + g - (s + w - e)
      BY <2>1
    <2> QED
      BY <1>2, <1>3, <2>1, <2>2
  <1>7. PaperTypes'
    BY <1>2, <1>6 DEF PaperInv, PaperTypes
  <1>8. PaperBooks'
    <2>1. Venue!EquityAt(cash, shares, prices)' = e /\ PaidIn(bar)' = PaidIn(bar)
      BY <1>1, <1>2, <1>3 DEF Venue!EquityAt, Venue!Names, PaidIn
    <2> QED
      BY <1>2, <1>6, <2>1 DEF PaperBooks
  <1>9. BookCloses'
    <2>1. ASSUME halted, bar = killBar + 1
          PROVE  \A s \in Venue!Names : n[s] > 0 => Dust(s)
      <3>1. \A s \in Venue!Names : n[s] > 0 =>
                Dust(s) \/ \E i \in 1..Len(queue) : queue[i].symbol = s
        BY <1>1, <1>2, <2>1 DEF PaperInv, BookCloses
      <3>2. 1..Len(queue) = {}
        BY <1>2
      <3> QED
        BY <3>1, <3>2
    <2>2. \A s : Dust(s)' = Dust(s)
      BY <1>2 DEF Dust, Venue!Cost
    <2>3. bar > killBar
      BY <1>2 DEF PaperInv, BookCloses
    <2> QED
      BY <1>1, <1>2, <2>1, <2>2, <2>3 DEF BookCloses, Venue!Names
  <1> QED
    BY <1>7, <1>8, <1>9 DEF PaperInv

\* The end of a bar changes no account: it plans the sale of the book, or what
\* the strategy wants, or nothing (backtest.py, run_backtest).
LEMMA PaperJudges ==
  ASSUME PaperInv, Paper!Judge
  PROVE  PaperInv'
  <1>1. PICK n, px, e : n = shares /\ px = prices /\ e = Venue!EquityAt(cash, n, px)
    OBVIOUS
  <1>2. /\ phase = "judge" /\ phase' = "open" /\ lastEquity' = e
        /\ peak' = Paper!Max({peak + flows, e})
        /\ UNCHANGED << cash, shares, queue, budget, prices, bar, spent, flows, worth, gained >>
    BY <1>1, PaperSame DEF Paper!Judge, Paper!Equity, Paper!books
  <1>3. e \in Nat /\ n \in [Venue!Names -> Nat] /\ px \in [Venue!Names -> Nat \ {0}]
    <2>1. cash \in Nat /\ n \in [Venue!Names -> Nat] /\ px \in [Venue!Names -> Nat \ {0}]
      BY <1>1 DEF PaperInv, PaperTypes
    <2>2. cash \in Int /\ px \in [Venue!Names -> Nat]
      BY <2>1
    <2>3. e \in Int /\ e >= cash
      BY <1>1, <2>1, <2>2, WorthTypes
    <2> QED
      BY <2>1, <2>3
  <1>4. \/ halted' = TRUE /\ killBar' = bar /\ pending' = Paper!Liquidation
        \/ /\ UNCHANGED << halted, killBar >>
           /\ \/ pending' = << >>
              \/ \E score : pending' = Venue!ComputeOrders(n, Paper!Clamp(Paper!TargetWeights(score)),
                                                          px, e)
    BY <1>1, PaperSame DEF Paper!Judge, Paper!Equity
  <1>5. PICK p : p = pending'
    OBVIOUS
  <1>6. /\ p \in Seq(NewOrders)
        /\ \/ /\ halted' = TRUE /\ killBar' = bar
              /\ Closing(p, n) /\ Covers(p, n) /\ Len(p) <= PaperMaxOrders
           \/ UNCHANGED << halted, killBar >>
    <2>1. CASE halted' = TRUE /\ killBar' = bar /\ pending' = Paper!Liquidation
      <3>1. shares = n /\ p = Paper!Liquidation
        BY <1>1, <1>5, <2>1
      <3>2. p \in Seq(NewOrders) /\ Len(p) <= PaperMaxOrders /\ Closing(p, n) /\ Covers(p, n)
        BY <1>3, <3>1, BookSold
      <3> QED
        BY <2>1, <3>2
    <2>2. CASE UNCHANGED << halted, killBar >> /\ pending' = << >>
      <3>1. << >> \in Seq(NewOrders)
        OBVIOUS
      <3> QED
        BY <1>5, <2>2, <3>1
    <2>3. ASSUME UNCHANGED << halted, killBar >>, NEW score,
                 pending' = Venue!ComputeOrders(n, Paper!Clamp(Paper!TargetWeights(score)), px, e)
          PROVE  p \in Seq(NewOrders)
      <3>1. PICK w : w = Paper!Clamp(Paper!TargetWeights(score))
        OBVIOUS
      <3>2. w \in [Venue!Names -> Nat] /\ e \in Int
        BY <1>3, <3>1, WeightTypes
      <3>3. Venue!ComputeOrders(n, w, px, e) \in Seq(NewOrders)
        BY <1>3, <3>2, ComputedTypes
      <3> QED
        BY <1>5, <2>3, <3>1, <3>3
    <2> QED
      BY <1>4, <2>1, <2>2, <2>3
  <1>7. bar \in Nat /\ killBar \in Nat /\ bar > killBar
    BY <1>2, PaperAssumption, LenProperties DEF PaperInv, PaperTypes, BookCloses
  <1>8. PaperTypes'
    <2>1. peak' \in Nat
      <3>1. peak \in Nat /\ flows \in Nat
        BY DEF PaperInv, PaperTypes
      <3>2. PICK a \in Nat : a = peak + flows
        BY <3>1
      <3>3. \A x, y \in Nat : Paper!Max({x, y}) \in Nat
        BY DEF Paper!Max
      <3> QED
        BY <1>2, <1>3, <3>2, <3>3
    <2>2. halted' \in BOOLEAN /\ killBar' \in 0..bar'
      <3>1. CASE halted' = TRUE /\ killBar' = bar
        BY <1>2, <1>7, <3>1
      <3>2. CASE UNCHANGED << halted, killBar >>
        BY <1>2, <3>2 DEF PaperInv, PaperTypes
      <3> QED
        BY <1>6, <3>1, <3>2
    <2>3. halted' = (killBar' # 0)
      <3>1. CASE halted' = TRUE /\ killBar' = bar
        <4>1. bar # 0
          BY <1>7
        <4> QED
          BY <3>1, <4>1, Zenon
      <3>2. CASE UNCHANGED << halted, killBar >>
        BY <3>2, Zenon DEF PaperInv, PaperTypes
      <3> QED
        BY <1>6, <3>1, <3>2
    <2> QED
      BY <1>2, <1>3, <1>5, <1>6, <2>1, <2>2, <2>3 DEF PaperInv, PaperTypes
  <1>9. PaperBooks'
    <2>1. /\ Venue!EquityAt(cash, shares, prices)' = Venue!EquityAt(cash, shares, prices)
          /\ PaidIn(bar)' = PaidIn(bar)
      BY <1>2 DEF Venue!EquityAt, Venue!Names, PaidIn
    <2> QED
      BY <1>2, <2>1 DEF PaperInv, PaperBooks
  <1>10. BookCloses'
    <2>1. ASSUME halted', bar' = killBar'
          PROVE  Closing(p, n) /\ Covers(p, n) /\ Len(p) <= PaperMaxOrders
      <3>1. killBar' # killBar
        BY <1>2, <1>7, <2>1
      <3> QED
        BY <1>6, <3>1
    <2>2. /\ halted' /\ bar' = killBar' =>
                (Closing(pending, shares) /\ Covers(pending, shares))' /\ Len(pending') <= PaperMaxOrders
      BY <1>1, <1>2, <1>5, <2>1 DEF Closing, Covers, Venue!Names
    <2> QED
      BY <1>2, <2>2 DEF BookCloses
  <1> QED
    BY <1>8, <1>9, <1>10 DEF PaperInv

----------------------------------------------------------------------------
(* Every run. *)

PaperPartInv == part = "paper" => PaperInv

\* The invariant of the paper backtest holds in every run.
LEMMA PaperAlways == OfflineSpec => []PaperPartInv
  <1>1. OfflineInit => PaperPartInv
    BY PaperInit DEF OfflineInit, PaperPartInv
  <1>2. PaperPartInv /\ [OfflineNext]_offlineVars => PaperPartInv'
    <2> SUFFICES ASSUME PaperPartInv, [OfflineNext]_offlineVars, part' = "paper" PROVE PaperInv'
      BY DEF PaperPartInv
    <2>1. CASE part = "paper" /\ Paper!Next
      <3>1. PaperInv
        BY <2>1 DEF PaperPartInv
      <3> QED
        BY <2>1, <3>1, PaperFills, PaperFillsDone, PaperJudges, PaperOpens DEF Paper!Next
    <2>2. CASE UNCHANGED offlineVars
      <3>1. PaperInv
        BY <2>2 DEF PaperPartInv, offlineVars
      <3>2. UNCHANGED << cash, shares, prices, queue, budget, pending, bar, phase, halted, killBar,
                         spent, peak, lastEquity, flows, worth, gained >>
        BY <2>2 DEF offlineVars, paperGroup, venueGroup
      <3>3. PaperTypes'
        BY <3>1, <3>2 DEF PaperInv, PaperTypes
      <3>4. PaperBooks'
        BY <3>1, <3>2 DEF PaperInv, PaperBooks, PaidIn, Venue!EquityAt, Venue!Names
      <3>5. BookCloses'
        BY <3>1, <3>2 DEF PaperInv, BookCloses, Closing, Covers, Dust, Venue!Cost, Venue!Names
      <3> QED
        BY <3>3, <3>4, <3>5 DEF PaperInv
    <2>3. (part = "paper" /\ Paper!Next) \/ UNCHANGED offlineVars
      BY DEF OfflineNext
    <2> QED
      BY <2>1, <2>2, <2>3
  <1> QED
    BY <1>1, <1>2, PTL DEF OfflineSpec

\* What the backtester of the paper trader promises of its books: they add up
\* at the end of a bar, and a kill has sold the book at the next one
\* (backtest.py, run_backtest, contributions, costs_paid).
THEOREM PaperBooksHold ==
  OfflineSpec => [](part = "paper" => Paper!TypeOK /\ Paper!EquityAddsUp /\ Paper!KilledBookIsSold)
  <1>1. PaperInv => Paper!TypeOK
    BY PaperSame DEF PaperInv, PaperTypes, Paper!TypeOK
  <1>2. PaperInv => Paper!EquityAddsUp
    <2>1. ASSUME PaperInv, phase = "open", bar > 0
          PROVE  Paper!Equity = InitialEquity
                   + Deposit * Paper!Cardinality(DepositDays \cap (BarDays[1]..BarDays[bar]))
                   + gained - spent
      <3>1. bar # 0
        BY <2>1
      <3> QED
        BY <2>1, <3>1, PaperSame DEF PaperInv, PaperBooks, PaidIn, Paper!Equity
    <2> QED
      BY <2>1 DEF Paper!EquityAddsUp
  <1>3. PaperInv => Paper!KilledBookIsSold
    BY PaperSame DEF PaperInv, BookCloses, Dust, Paper!KilledBookIsSold
  <1> QED
    BY <1>1, <1>2, <1>3, PaperAlways, PTL DEF PaperPartInv

----------------------------------------------------------------------------
(* The replay of mini_prop_os. *)

Marks == [cash : Int, commissions : Int]
SimLedgers == [cash : Int, position : Nat, commissions : Int, entered : Marks \cup {None},
               trips : Int, unattributed : Int]

\* A ledger explains its money: flat, by the round trips so far; else by those
\* up to the mark of the one in progress.
LedgerSound(l) ==
    /\ l \in SimLedgers
    /\ l.position = 0 <=> l.entered = None
    /\ IF l.position = 0
       THEN l.cash - l.commissions = InitialCash + l.trips - l.unattributed
       ELSE l.entered.cash - l.entered.commissions = InitialCash + l.trips - l.unattributed

\* l2 is l after a fill of u units.
After1(l, l2, u, price) ==
    /\ l2.position = l.position + u
    /\ l2.cash = l.cash - u * price
    /\ l2.position > 0 => l2.entered # None
    /\ l2.position > 0 /\ l.position > 0 => l2.entered = l.entered
    /\ l2.position > 0 /\ l.position = 0 => l2.entered.cash = l.cash

\* A fill moves cash, position and round trips together
\* (sim.py, _on_oms_fill).
LEMMA BookedKeeps ==
  ASSUME NEW l, LedgerSound(l), NEW p, p.units \in Int, p.units # 0,
         l.position + p.units >= 0, close \in Int
  PROVE  LedgerSound(Sim!Booked(l, p)) /\ After1(l, Sim!Booked(l, p), p.units, Sim!FillPrice(p.units))
  <1>1. PICK price \in Int : price = Sim!FillPrice(p.units)
    BY SimulatorAssumption DEF Sim!FillPrice
  <1>2. PICK u \in Int : u = p.units
    OBVIOUS
  <1>3. PICK paid \in Int : paid = u * price
    OBVIOUS
  <1>4. PICK fee \in Int : fee = Sim!Risk!AbsVal(p.units) * SimCommission
    <2>1. Sim!Risk!AbsVal(u) \in Int /\ SimCommission \in Int
      BY SimulatorAssumption DEF Sim!Risk!AbsVal
    <2> QED
      BY <1>2, <2>1
  <1>0. PICK e : e = l.entered
    OBVIOUS
  <1>5. PICK c, com, tr, un \in Int, n \in Nat :
           /\ l.cash = c /\ l.position = n /\ l.commissions = com /\ l.entered = e
           /\ l.trips = tr /\ l.unattributed = un
    BY <1>0 DEF LedgerSound, SimLedgers
  <1>6. /\ l \in SimLedgers
        /\ n = 0 <=> e = None
        /\ e # None => e \in Marks /\ e.cash \in Int /\ e.commissions \in Int
        /\ IF n = 0 THEN c - com = InitialCash + tr - un
           ELSE e.cash - e.commissions = InitialCash + tr - un
        /\ InitialCash \in Int /\ None \notin Marks /\ n + u >= 0 /\ u # 0
    BY <1>2, <1>5, SimulatorAssumption DEF LedgerSound, SimLedgers, Marks
  <1> DEFINE closes == n + u = 0 /\ e # None
             Fields(l2, c2, n2, com2, e2, tr2, un2) ==
               /\ l2 \in SimLedgers
               /\ l2.cash = c2 /\ l2.position = n2 /\ l2.commissions = com2 /\ l2.entered = e2
               /\ l2.trips = tr2 /\ l2.unattributed = un2
  <1>7. PICK l2 : l2 = Sim!Booked(l, p)
    OBVIOUS
  <1>8. ASSUME NEW c2 \in Int, NEW n2 \in Nat, NEW com2 \in Int, NEW e2 \in Marks \cup {None},
               NEW tr2 \in Int, NEW un2 \in Int,
               c2 = c - paid, n2 = n + u, com2 = com + fee,
               e2 = CASE closes -> None
                      [] e = None -> [cash |-> c, commissions |-> com]
                      [] OTHER -> e,
               tr2 = IF closes THEN tr + (c - paid) - e.cash - (com - e.commissions) ELSE tr,
               un2 = IF closes THEN un + fee ELSE un
        PROVE  Fields(l2, c2, n2, com2, e2, tr2, un2)
    <2>1. /\ p.units * Sim!FillPrice(p.units) = paid
          /\ Sim!Risk!AbsVal(p.units) * SimCommission = fee
      BY <1>1, <1>2, <1>3, <1>4
    <2>2. l2 = [l EXCEPT !.cash = c2, !.position = n2, !.commissions = com2, !.entered = e2,
                         !.trips = tr2, !.unattributed = un2]
      BY <1>2, <1>5, <1>7, <1>8, <2>1 DEF Sim!Booked
    <2> QED
      BY <1>6, <2>2 DEF SimLedgers
  <1>9. CASE closes
    <2>1. n + u = 0 /\ e # None /\ n > 0
      BY <1>6, <1>9
    <2>2. PICK c2, com2, t2, un2 \in Int :
              /\ c2 = c - paid /\ com2 = com + fee
              /\ t2 = tr + (c - paid) - e.cash - (com - e.commissions) /\ un2 = un + fee
      BY <1>6, <2>1
    <2>3. Fields(l2, c2, 0, com2, None, t2, un2)
      BY <1>8, <1>9, <2>1, <2>2
    <2>4. c2 - com2 = InitialCash + t2 - un2
      BY <1>6, <2>1, <2>2
    <2>5. LedgerSound(l2)
      BY <2>3, <2>4 DEF LedgerSound
    <2>6. After1(l, l2, u, price)
      BY <1>3, <1>5, <2>1, <2>2, <2>3 DEF After1
    <2> QED
      BY <1>1, <1>2, <1>7, <2>5, <2>6
  <1>10. CASE ~closes
    <2>1. PICK c2, com2 \in Int, n2 \in Nat, e2 \in Marks \cup {None} :
            /\ c2 = c - paid /\ com2 = com + fee /\ n2 = n + u /\ n2 > 0
            /\ e2 = IF e = None THEN [cash |-> c, commissions |-> com] ELSE e
      <3>1. [cash |-> c, commissions |-> com] \in Marks
        BY DEF Marks
      <3>2. n + u \in Nat /\ n + u > 0
        BY <1>6, <1>10
      <3>3. PICK e2 \in Marks : e2 = IF e = None THEN [cash |-> c, commissions |-> com] ELSE e
        BY <1>6, <3>1
      <3>4. c - paid \in Int /\ com + fee \in Int
        OBVIOUS
      <3> QED
        BY <3>2, <3>3, <3>4
    <2>2. e2 = CASE closes -> None
                 [] e = None -> [cash |-> c, commissions |-> com]
                 [] OTHER -> e
      BY <1>10, <2>1
    <2>3. Fields(l2, c2, n2, com2, e2, tr, un)
      BY <1>8, <1>10, <2>1, <2>2
    <2>4. /\ e2 # None /\ e2.cash - e2.commissions = InitialCash + tr - un
          /\ n = 0 => e2.cash = c
          /\ n > 0 => e2 = e
      BY <1>6, <2>1 DEF Marks
    <2>5. LedgerSound(l2)
      BY <2>1, <2>3, <2>4 DEF LedgerSound
    <2>6. After1(l, l2, u, price)
      BY <1>3, <1>5, <2>1, <2>3, <2>4 DEF After1
    <2> QED
      BY <1>1, <1>2, <1>7, <2>5, <2>6
  <1> QED
    BY <1>9, <1>10


Calm == {"LOW", "NORMAL", "HIGH"}
Signs == {-1, 0, 1}
Windows == 0..ConfirmWindow
Entered == Calm \cup {"none"}
Tables == [Calm \cup {"EXTREME"} -> Int]
Memos == [position : Int, sign : Signs, window : Windows, thresholds : Tables, regime : Entered,
          entry : Int, flow : Int]

Bounded(t) == /\ \A r \in Calm : t[r] \in KMin..KMax
              /\ t["EXTREME"] = Defaults["EXTREME"]
MemberSound(m) == m \in Memos /\ Bounded(m.thresholds)

\* A member holds what the ledger holds, and an adaptive one counts the money
\* of the round trip that the ledger has.
Mirrors(x, m, l) ==
    /\ m.position = l.position
    /\ x \in Adaptive /\ l.position > 0 => m.flow = l.cash - l.entered.cash

\* Thresholds t2 after t: the same, or one of them has moved by one step in
\* the direction of the round trip that completes.
Taught(t, t2, l, l2) ==
    \/ t2 = t
    \/ /\ l.position > 0 /\ l2.position = 0
       /\ \E r \in Calm :
             /\ \A s \in (Calm \cup {"EXTREME"}) \ {r} : t2[s] = t[s]
             /\ t2[r] \in {t[r], t[r] + (IF l2.cash > l.entered.cash THEN -1 ELSE 1)}

\* The smaller and the larger of two numbers.
LEMMA SimSmaller == \A a, b \in Int : Sim!Strat!Min({a, b}) = IF a <= b THEN a ELSE b
  BY DEF Sim!Strat!Min

\* See above.
LEMMA SimLarger == \A a, b \in Int : Sim!Strat!Max({a, b}) = IF a >= b THEN a ELSE b
  BY DEF Sim!Strat!Max

\* What a member learns from its round trip keeps every bound
\* (adaptive_ema.py, _complete_round_trip).
LEMMA LearnedKeeps ==
  ASSUME NEW m, MemberSound(m)
  PROVE  LET m2 == Sim!Strat!Learned(m)
         IN  /\ MemberSound(m2) /\ m2.position = m.position
             /\ \E r \in Calm :
                   /\ \A s \in (Calm \cup {"EXTREME"}) \ {r} : m2.thresholds[s] = m.thresholds[s]
                   /\ m2.thresholds[r] \in {m.thresholds[r],
                                            m.thresholds[r] + (IF m.flow > 0 THEN -1 ELSE 1)}
  <1>1. PICK r \in Calm : r = IF m.regime = "none" THEN "NORMAL" ELSE m.regime
    BY DEF MemberSound, Memos, Calm, Entered
  <1>2. PICK t : t = m.thresholds
    OBVIOUS
  <1>3. PICK step \in {-1, 1} : step = IF m.flow > 0 THEN -1 ELSE 1
    OBVIOUS
  <1>4. t \in [Calm \cup {"EXTREME"} -> Int] /\ t \in Tables /\ t[r] \in KMin..KMax /\ KMin \in Int /\ KMax \in Int
    BY <1>2, SimulatorAssumption DEF MemberSound, Memos, Bounded, Tables
  <1>5. PICK v \in KMin..KMax : /\ v = Sim!Strat!Min({KMax, Sim!Strat!Max({KMin, t[r] + step})})
                                /\ v \in {t[r], t[r] + step}
    <2>1. PICK a \in KMin..KMax : a = t[r]
      BY <1>4
    <2>2. PICK b \in Int : b = a + step
      BY <1>4
    <2>3. PICK c \in Int : c = IF KMin >= b THEN KMin ELSE b
      BY <1>4
    <2>4. Sim!Strat!Max({KMin, b}) = c
      BY <1>4, <2>3, SimLarger
    <2>5. Sim!Strat!Min({KMax, c}) = IF KMax <= c THEN KMax ELSE c
      BY <1>4, SimSmaller
    <2> QED
      BY <1>4, <2>1, <2>2, <2>3, <2>4, <2>5
  <1>6. PICK m2 : m2 = Sim!Strat!Learned(m)
    OBVIOUS
  <1>7. m2 = [m EXCEPT !.thresholds[r] = v, !.regime = "none", !.entry = 0, !.flow = 0]
    BY <1>1, <1>2, <1>3, <1>5, <1>6 DEF Sim!Strat!Learned
  <1>8. PICK t2 : t2 = [t EXCEPT ![r] = v]
    OBVIOUS
  <1>9. /\ t2 \in Tables /\ t2[r] = v
        /\ \A s \in (Calm \cup {"EXTREME"}) \ {r} : t2[s] = t[s]
    BY <1>4, <1>5, <1>8 DEF Tables
  <1>10. Bounded(t2)
    <2>1. "EXTREME" # r
      BY DEF Calm
    <2> QED
      BY <1>2, <1>5, <1>9, <2>1 DEF Bounded, MemberSound
  <1>11. m2 = [m EXCEPT !.thresholds = t2, !.regime = "none", !.entry = 0, !.flow = 0]
    BY <1>2, <1>7, <1>8 DEF MemberSound, Memos
  <1>12. m2 \in Memos /\ m2.thresholds = t2 /\ m2.position = m.position
    <2>1. "none" \in Entered
      BY DEF Entered
    <2>2. m \in Memos /\ t2 \in Tables /\ 0 \in Int
      BY <1>9 DEF MemberSound
    <2>3. m2 \in Memos
      BY <1>11, <2>1, <2>2 DEF Memos
    <2>4. m2.thresholds = t2
      BY <1>11, <2>2 DEF Memos
    <2>5. m2.position = m.position
      BY <1>11, <2>2 DEF Memos
    <2> QED
      BY <2>3, <2>4, <2>5
  <1>13. MemberSound(m2)
    BY <1>10, <1>12 DEF MemberSound
  <1> QED
    BY <1>2, <1>3, <1>5, <1>6, <1>9, <1>12, <1>13


\* A fill reaches member and ledger alike, and only the one that closes a
\* round trip teaches (adaptive_ema.py, on_own_fill; ema_crossover.py).
LEMMA OwnFillKeeps ==
  ASSUME NEW x, NEW m, MemberSound(m), NEW l, LedgerSound(l), NEW l2, LedgerSound(l2),
         NEW u \in Int, NEW price \in Int, After1(l, l2, u, price), Mirrors(x, m, l)
  PROVE  LET m2 == Sim!Strat!OwnFill(x, m, u, price)
         IN  /\ MemberSound(m2) /\ Mirrors(x, m2, l2)
             /\ Taught(m.thresholds, m2.thresholds, l, l2)
  <1>1. PICK m2 : m2 = Sim!Strat!OwnFill(x, m, u, price)
    OBVIOUS
  <1>2. PICK n, n2 \in Nat : n = l.position /\ n2 = l2.position
    BY DEF LedgerSound, SimLedgers
  <1>3. PICK c, c2 \in Int : c = l.cash /\ c2 = l2.cash
    BY DEF LedgerSound, SimLedgers
  <1>4. PICK paid \in Int : paid = u * price
    OBVIOUS
  <1>5. /\ n2 = n + u /\ c2 = c - paid /\ m.position = n
        /\ n2 > 0 /\ n > 0 => l2.entered = l.entered
        /\ n2 > 0 /\ n = 0 => l2.entered.cash = c
        /\ n > 0 => l.entered.cash \in Int
        /\ x \in Adaptive /\ n > 0 => m.flow = c - l.entered.cash
    <2>1. n > 0 => l.entered.cash \in Int
      BY <1>2 DEF LedgerSound, SimLedgers, Marks
    <2> QED
      BY <1>2, <1>3, <1>4, <2>1 DEF After1, Mirrors
  <1>6. m \in Memos
    BY DEF MemberSound
  <1>7. CASE x \notin Adaptive
    <2>1. m2 = [m EXCEPT !.position = n2]
      BY <1>1, <1>5, <1>7 DEF Sim!Strat!OwnFill
    <2>2. m2 \in Memos
      BY <1>6, <2>1 DEF Memos
    <2>3. m2.thresholds = m.thresholds /\ m2.position = n2
      BY <1>6, <2>1 DEF Memos
    <2>4. MemberSound(m2) /\ Mirrors(x, m2, l2) /\ Taught(m.thresholds, m2.thresholds, l, l2)
      BY <1>2, <1>7, <2>2, <2>3 DEF MemberSound, Mirrors, Taught
    <2> QED
      BY <1>1, <2>4
  <1>8. CASE x \in Adaptive
    <2>1. PICK filled : filled = Sim!Strat!TakeFill(m, u, price)
      OBVIOUS
    <2>2. PICK entry \in Int : entry = (IF m.position = 0 /\ u > 0 THEN 0 ELSE m.entry)
                                       + (IF u > 0 THEN u ELSE 0)
      <3>1. m.entry \in Int
        BY <1>6 DEF Memos
      <3> QED
        BY <3>1
    <2>3. PICK flow \in Int : flow = (IF m.position = 0 /\ u > 0 THEN 0 ELSE m.flow) - paid
      <3>1. m.flow \in Int
        BY <1>6 DEF Memos
      <3> QED
        BY <3>1
    <2>4. filled = [m EXCEPT !.position = n2, !.entry = entry, !.flow = flow]
      BY <1>4, <1>5, <2>1, <2>2, <2>3 DEF Sim!Strat!TakeFill
    <2>5. filled \in Memos
      <3>1. n2 \in Int
        OBVIOUS
      <3> QED
        BY <1>6, <2>4, <3>1 DEF Memos
    <2>6. filled.position = n2 /\ filled.flow = flow /\ filled.thresholds = m.thresholds
      <3>1. filled.position = n2
        BY <1>6, <2>4 DEF Memos
      <3>2. filled.flow = flow
        BY <1>6, <2>4 DEF Memos
      <3>3. filled.thresholds = m.thresholds
        BY <1>6, <2>4 DEF Memos
      <3> QED
        BY <3>1, <3>2, <3>3
    <2>7. MemberSound(filled)
      BY <2>5, <2>6 DEF MemberSound
    <2>8. n2 > 0 => flow = c2 - l2.entered.cash
      <3>1. CASE n > 0
        BY <1>5, <1>8, <2>3, <3>1
      <3>2. CASE n = 0
        BY <1>5, <2>3, <3>2
      <3> QED
        BY <3>1, <3>2
    <2>9. CASE u < 0 /\ filled.position = 0 /\ m.entry > 0
      <3>1. m2 = Sim!Strat!Learned(filled)
        BY <1>1, <1>8, <2>1, <2>9 DEF Sim!Strat!OwnFill
      <3>2. /\ MemberSound(m2) /\ m2.position = filled.position
            /\ \E r \in Calm :
                  /\ \A s \in (Calm \cup {"EXTREME"}) \ {r} : m2.thresholds[s] = filled.thresholds[s]
                  /\ m2.thresholds[r] \in {filled.thresholds[r],
                                           filled.thresholds[r] + (IF filled.flow > 0 THEN -1 ELSE 1)}
        BY <2>7, <3>1, LearnedKeeps
      <3>3. n2 = 0 /\ n > 0
        BY <1>5, <2>6, <2>9
      <3>4. flow = c2 - l.entered.cash
        BY <1>5, <1>8, <2>3, <2>9, <3>3
      <3>5. flow > 0 <=> l2.cash > l.entered.cash
        BY <1>3, <1>5, <3>3, <3>4
      <3>6. Taught(m.thresholds, m2.thresholds, l, l2)
        BY <1>2, <2>6, <3>2, <3>3, <3>5 DEF Taught
      <3>7. Mirrors(x, m2, l2)
        BY <1>2, <2>6, <3>2, <3>3 DEF Mirrors
      <3> QED
        BY <1>1, <3>2, <3>6, <3>7
    <2>10. CASE ~(u < 0 /\ filled.position = 0 /\ m.entry > 0)
      <3>1. m2 = filled
        BY <1>1, <1>8, <2>1, <2>10 DEF Sim!Strat!OwnFill
      <3>2. Mirrors(x, m2, l2)
        BY <1>2, <1>3, <2>6, <2>8, <3>1 DEF Mirrors
      <3>3. Taught(m.thresholds, m2.thresholds, l, l2)
        BY <2>6, <3>1 DEF Taught
      <3> QED
        BY <1>1, <2>7, <3>1, <3>2, <3>3
    <2> QED
      BY <2>9, <2>10
  <1> QED
    BY <1>7, <1>8


----------------------------------------------------------------------------
(* The fills of a bar. *)

SimOrders == [units : Int, source : {"risk", "strategy"}]

SimParts == Sim!Parts
Splits(ps, o) ==
    \/ ps = << o >>
    \/ \E p1, p2 \in SimOrders :
          /\ ps = << p1, p2 >> /\ p1.source = o.source /\ p2.source = o.source
          /\ p1.units + p2.units = o.units
          /\ (p1.units > 0 /\ p2.units > 0) \/ (p1.units < 0 /\ p2.units < 0)

\* A pending order fills at once or in two parts (sim.py, process_bar_open).
LEMMA PartsAre ==
  /\ pending = << >> => SimParts = << >>
  /\ \A o \in SimOrders : o.units # 0 /\ pending = << o >> => Splits(SimParts, o)
  <1> DEFINE F(f) == f = [n \in 0..Len(pending) |->
                            IF n = 0 THEN << >> ELSE f[n - 1] \o Sim!PartsOf(pending[n])]
  <1>1. Sim!Parts = (CHOOSE f : F(f))[Len(pending)]
    BY Zenon DEF Sim!Parts
  <1>2. ASSUME pending = << >> PROVE SimParts = << >>
    <2>1. \E f : F(f)
      <3>1. PICK f : f = [n \in 0..Len(pending) |-> << >>]
        OBVIOUS
      <3>2. \A n \in 0..Len(pending) : n = 0
        BY <1>2
      <3>3. f = [n \in 0..Len(pending) |->
                   IF n = 0 THEN << >> ELSE f[n - 1] \o Sim!PartsOf(pending[n])]
        BY <3>1, <3>2
      <3> QED
        BY <3>3
    <2>2. PICK g : g = (CHOOSE f : F(f)) /\ F(g)
      <3> HIDE DEF F
      <3> QED
        BY <2>1
    <2>3. Len(pending) = 0 /\ 0 \in 0..Len(pending)
      BY <1>2
    <2>4. g[0] = << >>
      BY <2>2, <2>3
    <2> QED
      BY <1>1, <2>2, <2>3, <2>4 DEF SimParts
  <1>3. ASSUME NEW o \in SimOrders, o.units # 0, pending = << o >> PROVE Splits(SimParts, o)
    <2>1. PICK ps : ps = Sim!PartsOf(o)
      OBVIOUS
    <2>2. PICK u \in Int, side \in {-1, 1}, half \in Nat :
             /\ u = o.units /\ side = IF o.units > 0 THEN 1 ELSE -1
             /\ half = Sim!Risk!AbsVal(o.units) \div 2
      <3>1. PICK u \in Int : u = o.units
        BY DEF SimOrders
      <3>2. PICK a \in Nat : a = Sim!Risk!AbsVal(u)
        BY DEF Sim!Risk!AbsVal
      <3>3. a \div 2 \in Nat
        OBVIOUS
      <3> QED
        BY <3>1, <3>2, <3>3
    <2>3. Splits(ps, o) /\ ps \in Seq(SimOrders)
      <3>1. CASE ~(SplitFills /\ half > 0)
        <4>1. ps = << o >>
          BY <2>1, <2>2, <3>1 DEF Sim!PartsOf
        <4> QED
          BY <4>1 DEF Splits
      <3>2. CASE SplitFills /\ half > 0
        <4>1. PICK p1, p2 : /\ p1 = [o EXCEPT !.units = side * half]
                            /\ p2 = [o EXCEPT !.units = @ - side * half]
          OBVIOUS
        <4>2. ps = << p1, p2 >>
          BY <2>1, <2>2, <3>2, <4>1 DEF Sim!PartsOf
        <4>3. PICK u1, u2 \in Int : u1 = side * half /\ u2 = u - side * half
          BY <2>2
        <4>4. p1 \in SimOrders /\ p1.units = u1 /\ p1.source = o.source
          BY <4>1, <4>3 DEF SimOrders
        <4>5. p2 \in SimOrders /\ p2.units = u2 /\ p2.source = o.source
          BY <2>2, <4>1, <4>3 DEF SimOrders
        <4>6. u1 + u2 = u /\ ((u1 > 0 /\ u2 > 0) \/ (u1 < 0 /\ u2 < 0))
          <5>1. CASE u > 0
            <6>1. side = 1 /\ half = u \div 2
              BY <2>2, <5>1 DEF Sim!Risk!AbsVal
            <6> QED
              BY <3>2, <4>3, <5>1, <6>1
          <5>2. CASE u < 0
            <6>1. side = -1 /\ half = (-u) \div 2
              BY <2>2, <5>2 DEF Sim!Risk!AbsVal
            <6> QED
              BY <3>2, <4>3, <5>2, <6>1
          <5> QED
            BY <1>3, <2>2, <5>1, <5>2
        <4>7. Splits(ps, o)
          BY <2>2, <4>2, <4>4, <4>5, <4>6 DEF Splits
        <4> QED
          BY <4>2, <4>4, <4>5, <4>7
      <3> QED
        BY <3>1, <3>2
    <2>4. Len(pending) = 1 /\ pending[1] = o
      BY <1>3
    <2>5. \E f : F(f)
      <3>1. PICK f : f = [n \in 0..Len(pending) |-> IF n = 0 THEN << >> ELSE ps]
        OBVIOUS
      <3>2. << >> \o ps = ps
        BY <2>3, EmptySeq, ConcatProperties
      <3>3. ASSUME NEW n \in 0..Len(pending)
            PROVE  f[n] = IF n = 0 THEN << >> ELSE f[n - 1] \o Sim!PartsOf(pending[n])
        <4>1. CASE n = 0
          BY <3>1, <4>1
        <4>2. CASE n = 1
          <5>1. f[0] = << >> /\ f[1] = ps
            BY <2>4, <3>1
          <5>2. pending[n] = o /\ n - 1 = 0
            BY <2>4, <4>2
          <5>3. f[n - 1] = << >> /\ Sim!PartsOf(pending[n]) = ps /\ f[n] = ps
            BY <2>1, <4>2, <5>1, <5>2
          <5> QED
            BY <3>2, <4>2, <5>3
        <4> QED
          BY <2>4, <4>1, <4>2
      <3>4. f = [n \in 0..Len(pending) |->
                   IF n = 0 THEN << >> ELSE f[n - 1] \o Sim!PartsOf(pending[n])]
        BY <3>1, <3>3
      <3> QED
        BY <3>4
    <2>6. PICK g : F(g) /\ Sim!Parts = g[Len(pending)]
      <3> HIDE DEF F
      <3> QED
        BY <1>1, <2>5
    <2>7. g[0] = << >> /\ g[1] = g[0] \o Sim!PartsOf(pending[1])
      <3>1. 0 \in 0..Len(pending) /\ 1 \in 0..Len(pending)
        BY <2>4
      <3>2. g = [n \in 0..Len(pending) |->
                   IF n = 0 THEN << >> ELSE g[n - 1] \o Sim!PartsOf(pending[n])]
        BY <2>6
      <3>3. g[0] = << >>
        BY <3>1, <3>2
      <3>4. g[1] = g[1 - 1] \o Sim!PartsOf(pending[1])
        <4>2. PICK n \in 0..Len(pending) : n = 1
          BY <3>1
        <4>3. g[n] = IF n = 0 THEN << >> ELSE g[n - 1] \o Sim!PartsOf(pending[n])
          BY <3>2
        <4> QED
          BY <4>2, <4>3
      <3>5. 1 - 1 = 0
        OBVIOUS
      <3> QED
        BY <3>3, <3>4, <3>5
    <2>8. g[1] = ps
      BY <2>1, <2>3, <2>4, <2>7, EmptySeq, ConcatProperties
    <2> QED
      BY <1>1, <2>3, <2>4, <2>6, <2>8 DEF SimParts
  <1> QED
    BY <1>2, <1>3


\* The ledger books the parts in their order (sim.py, _on_oms_fill).
LEMMA FilledIs ==
  ASSUME NEW ps, ps = SimParts, Len(ps) \in 0..2
  PROVE  Sim!Filled = IF Len(ps) = 0 THEN ledger
                 ELSE IF Len(ps) = 1 THEN Sim!Booked(ledger, ps[1])
                 ELSE Sim!Booked(Sim!Booked(ledger, ps[1]), ps[2])
  <1>1. PICK N \in 0..2 : N = Len(ps)
    OBVIOUS
  <1>2. PICK a, b, c : a = ledger /\ b = Sim!Booked(a, ps[1]) /\ c = Sim!Booked(b, ps[2])
    OBVIOUS
  <1> DEFINE F(f) == f = [n \in 0..Len(Sim!Parts) |->
                            IF n = 0 THEN ledger
                            ELSE Sim!Booked(f[n - 1], Sim!Parts[n])]
  <1>3. \E f : F(f)
    <2>1. PICK f : f = [n \in 0..Len(Sim!Parts) |-> IF n = 0 THEN a ELSE IF n = 1 THEN b ELSE c]
      OBVIOUS
    <2>2. ASSUME NEW n \in 0..Len(Sim!Parts)
          PROVE  f[n] = IF n = 0 THEN ledger ELSE Sim!Booked(f[n - 1], Sim!Parts[n])
      <3>1. CASE n = 0
        BY <1>2, <2>1, <3>1
      <3>2. CASE n = 1
        <4>1. f[n - 1] = a /\ f[n] = b /\ Sim!Parts[n] = ps[1]
          <5>1. 0 \in 0..Len(Sim!Parts) /\ n - 1 = 0
            BY <1>1, <3>2 DEF SimParts
          <5> QED
            BY <2>1, <3>2, <5>1 DEF SimParts
        <4> QED
          BY <1>2, <3>2, <4>1
      <3>3. CASE n = 2
        <4>1. f[n - 1] = b /\ f[n] = c /\ Sim!Parts[n] = ps[2]
          <5>1. 1 \in 0..Len(Sim!Parts) /\ n - 1 = 1
            BY <1>1, <3>3 DEF SimParts
          <5> QED
            BY <2>1, <3>3, <5>1 DEF SimParts
        <4> QED
          BY <1>2, <3>3, <4>1
      <3>4. n \in 0..2
        BY <1>1 DEF SimParts
      <3> QED
        BY <3>1, <3>2, <3>3, <3>4
    <2>3. f = [n \in 0..Len(Sim!Parts) |-> IF n = 0 THEN ledger ELSE Sim!Booked(f[n - 1], Sim!Parts[n])]
      BY <2>1, <2>2
    <2> QED
      BY <2>3
  <1>4. Sim!Filled = (CHOOSE f : F(f))[Len(Sim!Parts)]
    BY Zenon DEF Sim!Filled
  <1>5. PICK g : F(g) /\ Sim!Filled = g[Len(Sim!Parts)]
    <2> HIDE DEF F
    <2> QED
      BY <1>3, <1>4
  <1>6. g = [n \in 0..N |-> IF n = 0 THEN ledger ELSE Sim!Booked(g[n - 1], Sim!Parts[n])]
    BY <1>1, <1>5 DEF SimParts
  <1> HIDE DEF F
  <1>7. g[0] = a
    <2>1. PICK n \in 0..N : n = 0
      OBVIOUS
    <2>2. g[n] = ledger
      BY <1>6, <2>1
    <2> QED
      BY <1>2, <2>1, <2>2
  <1>8. N >= 1 => g[1] = b
    <2>1. SUFFICES ASSUME N >= 1 PROVE g[1] = b
      OBVIOUS
    <2>2. PICK n \in 0..N : n = 1 /\ n - 1 = 0 /\ n # 0
      BY <2>1
    <2>3. g[n] = Sim!Booked(g[n - 1], Sim!Parts[n])
      BY <1>6, <2>2
    <2>4. g[n - 1] = a /\ Sim!Parts[n] = ps[1]
      BY <1>7, <2>2 DEF SimParts
    <2> QED
      BY <1>2, <2>2, <2>3, <2>4
  <1>9. N = 2 => g[2] = c
    <2>1. SUFFICES ASSUME N = 2 PROVE g[2] = c
      OBVIOUS
    <2>2. PICK n \in 0..N : n = 2 /\ n - 1 = 1 /\ n # 0
      BY <2>1
    <2>3. g[n] = Sim!Booked(g[n - 1], Sim!Parts[n])
      BY <1>6, <2>2
    <2>4. g[n - 1] = b /\ Sim!Parts[n] = ps[2]
      BY <1>8, <2>1, <2>2 DEF SimParts
    <2> QED
      BY <1>2, <2>2, <2>3, <2>4
  <1>10. N = 0 \/ N = 1 \/ N = 2
    OBVIOUS
  <1>11. Sim!Filled = g[N]
    BY <1>1, <1>5 DEF SimParts
  <1> QED
    BY <1>1, <1>2, <1>7, <1>8, <1>9, <1>10, <1>11

\* A part reaches the strategy if it is one of its own.
OwnAfter(n, p) == IF p.source = "strategy" THEN n + p.units ELSE n
MemberAfter(x, m, p) ==
    IF p.source = "strategy" THEN Sim!Strat!OwnFill(x, m, p.units, Sim!FillPrice(p.units)) ELSE m

\* The ensemble books its own parts in their order (sim.py, _on_oms_fill).
LEMMA OwnIs ==
  ASSUME NEW ps, ps = SimParts, Len(ps) \in 0..2
  PROVE  Sim!FilledOwn = IF Len(ps) = 0 THEN own
                 ELSE IF Len(ps) = 1 THEN OwnAfter(own, ps[1])
                 ELSE OwnAfter(OwnAfter(own, ps[1]), ps[2])
  <1>1. PICK N \in 0..2 : N = Len(ps)
    OBVIOUS
  <1>2. PICK a, b, c : a = own /\ b = OwnAfter(a, ps[1]) /\ c = OwnAfter(b, ps[2])
    OBVIOUS
  <1> DEFINE F(f) == f = [n \in 0..Len(Sim!Parts) |->
                            IF n = 0 THEN own
                            ELSE OwnAfter(f[n - 1], Sim!Parts[n])]
  <1>3. \E f : F(f)
    <2>1. PICK f : f = [n \in 0..Len(Sim!Parts) |-> IF n = 0 THEN a ELSE IF n = 1 THEN b ELSE c]
      OBVIOUS
    <2>2. ASSUME NEW n \in 0..Len(Sim!Parts)
          PROVE  f[n] = IF n = 0 THEN own ELSE OwnAfter(f[n - 1], Sim!Parts[n])
      <3>1. CASE n = 0
        BY <1>2, <2>1, <3>1
      <3>2. CASE n = 1
        <4>1. f[n - 1] = a /\ f[n] = b /\ Sim!Parts[n] = ps[1]
          <5>1. 0 \in 0..Len(Sim!Parts) /\ n - 1 = 0
            BY <1>1, <3>2 DEF SimParts
          <5> QED
            BY <2>1, <3>2, <5>1 DEF SimParts
        <4> QED
          BY <1>2, <3>2, <4>1
      <3>3. CASE n = 2
        <4>1. f[n - 1] = b /\ f[n] = c /\ Sim!Parts[n] = ps[2]
          <5>1. 1 \in 0..Len(Sim!Parts) /\ n - 1 = 1
            BY <1>1, <3>3 DEF SimParts
          <5> QED
            BY <2>1, <3>3, <5>1 DEF SimParts
        <4> QED
          BY <1>2, <3>3, <4>1
      <3>4. n \in 0..2
        BY <1>1 DEF SimParts
      <3> QED
        BY <3>1, <3>2, <3>3, <3>4
    <2>3. f = [n \in 0..Len(Sim!Parts) |-> IF n = 0 THEN own ELSE OwnAfter(f[n - 1], Sim!Parts[n])]
      BY <2>1, <2>2
    <2> QED
      BY <2>3
  <1>4. Sim!FilledOwn = (CHOOSE f : F(f))[Len(Sim!Parts)]
    BY Zenon DEF Sim!FilledOwn, OwnAfter
  <1>5. PICK g : F(g) /\ Sim!FilledOwn = g[Len(Sim!Parts)]
    <2> HIDE DEF F
    <2> QED
      BY <1>3, <1>4
  <1>6. g = [n \in 0..N |-> IF n = 0 THEN own ELSE OwnAfter(g[n - 1], Sim!Parts[n])]
    BY <1>1, <1>5 DEF SimParts
  <1> HIDE DEF F
  <1>7. g[0] = a
    <2>1. PICK n \in 0..N : n = 0
      OBVIOUS
    <2>2. g[n] = own
      BY <1>6, <2>1
    <2> QED
      BY <1>2, <2>1, <2>2
  <1>8. N >= 1 => g[1] = b
    <2>1. SUFFICES ASSUME N >= 1 PROVE g[1] = b
      OBVIOUS
    <2>2. PICK n \in 0..N : n = 1 /\ n - 1 = 0 /\ n # 0
      BY <2>1
    <2>3. g[n] = OwnAfter(g[n - 1], Sim!Parts[n])
      BY <1>6, <2>2
    <2>4. g[n - 1] = a /\ Sim!Parts[n] = ps[1]
      BY <1>7, <2>2 DEF SimParts
    <2> QED
      BY <1>2, <2>2, <2>3, <2>4
  <1>9. N = 2 => g[2] = c
    <2>1. SUFFICES ASSUME N = 2 PROVE g[2] = c
      OBVIOUS
    <2>2. PICK n \in 0..N : n = 2 /\ n - 1 = 1 /\ n # 0
      BY <2>1
    <2>3. g[n] = OwnAfter(g[n - 1], Sim!Parts[n])
      BY <1>6, <2>2
    <2>4. g[n - 1] = b /\ Sim!Parts[n] = ps[2]
      BY <1>8, <2>1, <2>2 DEF SimParts
    <2> QED
      BY <1>2, <2>2, <2>3, <2>4
  <1>10. N = 0 \/ N = 1 \/ N = 2
    OBVIOUS
  <1>11. Sim!FilledOwn = g[N]
    BY <1>1, <1>5 DEF SimParts
  <1> QED
    BY <1>1, <1>2, <1>7, <1>8, <1>9, <1>10, <1>11

\* A member books its own parts in their order (ensemble.py, on_own_fill).
LEMMA MemberIs ==
  ASSUME NEW x, NEW ps, ps = SimParts, Len(ps) \in 0..2
  PROVE  Sim!FilledMember(x) = IF Len(ps) = 0 THEN members[x]
                 ELSE IF Len(ps) = 1 THEN MemberAfter(x, members[x], ps[1])
                 ELSE MemberAfter(x, MemberAfter(x, members[x], ps[1]), ps[2])
  <1>1. PICK N \in 0..2 : N = Len(ps)
    OBVIOUS
  <1>2. PICK a, b, c : a = members[x] /\ b = MemberAfter(x, a, ps[1]) /\ c = MemberAfter(x, b, ps[2])
    OBVIOUS
  <1> DEFINE F(f) == f = [n \in 0..Len(Sim!Parts) |->
                            IF n = 0 THEN members[x]
                            ELSE MemberAfter(x, f[n - 1], Sim!Parts[n])]
  <1>3. \E f : F(f)
    <2>1. PICK f : f = [n \in 0..Len(Sim!Parts) |-> IF n = 0 THEN a ELSE IF n = 1 THEN b ELSE c]
      OBVIOUS
    <2>2. ASSUME NEW n \in 0..Len(Sim!Parts)
          PROVE  f[n] = IF n = 0 THEN members[x] ELSE MemberAfter(x, f[n - 1], Sim!Parts[n])
      <3>1. CASE n = 0
        BY <1>2, <2>1, <3>1
      <3>2. CASE n = 1
        <4>1. f[n - 1] = a /\ f[n] = b /\ Sim!Parts[n] = ps[1]
          <5>1. 0 \in 0..Len(Sim!Parts) /\ n - 1 = 0
            BY <1>1, <3>2 DEF SimParts
          <5> QED
            BY <2>1, <3>2, <5>1 DEF SimParts
        <4> QED
          BY <1>2, <3>2, <4>1
      <3>3. CASE n = 2
        <4>1. f[n - 1] = b /\ f[n] = c /\ Sim!Parts[n] = ps[2]
          <5>1. 1 \in 0..Len(Sim!Parts) /\ n - 1 = 1
            BY <1>1, <3>3 DEF SimParts
          <5> QED
            BY <2>1, <3>3, <5>1 DEF SimParts
        <4> QED
          BY <1>2, <3>3, <4>1
      <3>4. n \in 0..2
        BY <1>1 DEF SimParts
      <3> QED
        BY <3>1, <3>2, <3>3, <3>4
    <2>3. f = [n \in 0..Len(Sim!Parts) |-> IF n = 0 THEN members[x] ELSE MemberAfter(x, f[n - 1], Sim!Parts[n])]
      BY <2>1, <2>2
    <2> QED
      BY <2>3
  <1>4. Sim!FilledMember(x) = (CHOOSE f : F(f))[Len(Sim!Parts)]
    BY Zenon DEF Sim!FilledMember, MemberAfter
  <1>5. PICK g : F(g) /\ Sim!FilledMember(x) = g[Len(Sim!Parts)]
    <2> HIDE DEF F
    <2> QED
      BY <1>3, <1>4
  <1>6. g = [n \in 0..N |-> IF n = 0 THEN members[x] ELSE MemberAfter(x, g[n - 1], Sim!Parts[n])]
    BY <1>1, <1>5 DEF SimParts
  <1> HIDE DEF F
  <1>7. g[0] = a
    <2>1. PICK n \in 0..N : n = 0
      OBVIOUS
    <2>2. g[n] = members[x]
      BY <1>6, <2>1
    <2> QED
      BY <1>2, <2>1, <2>2
  <1>8. N >= 1 => g[1] = b
    <2>1. SUFFICES ASSUME N >= 1 PROVE g[1] = b
      OBVIOUS
    <2>2. PICK n \in 0..N : n = 1 /\ n - 1 = 0 /\ n # 0
      BY <2>1
    <2>3. g[n] = MemberAfter(x, g[n - 1], Sim!Parts[n])
      BY <1>6, <2>2
    <2>4. g[n - 1] = a /\ Sim!Parts[n] = ps[1]
      BY <1>7, <2>2 DEF SimParts
    <2> QED
      BY <1>2, <2>2, <2>3, <2>4
  <1>9. N = 2 => g[2] = c
    <2>1. SUFFICES ASSUME N = 2 PROVE g[2] = c
      OBVIOUS
    <2>2. PICK n \in 0..N : n = 2 /\ n - 1 = 1 /\ n # 0
      BY <2>1
    <2>3. g[n] = MemberAfter(x, g[n - 1], Sim!Parts[n])
      BY <1>6, <2>2
    <2>4. g[n - 1] = b /\ Sim!Parts[n] = ps[2]
      BY <1>8, <2>1, <2>2 DEF SimParts
    <2> QED
      BY <1>2, <2>2, <2>3, <2>4
  <1>10. N = 0 \/ N = 1 \/ N = 2
    OBVIOUS
  <1>11. Sim!FilledMember(x) = g[N]
    BY <1>1, <1>5 DEF SimParts
  <1> QED
    BY <1>1, <1>2, <1>7, <1>8, <1>9, <1>10, <1>11


\* An order that works fits the ledger: after a kill it is the one that closes
\* the book.
PendingSound(o, l, dead) ==
    /\ o \in SimOrders
    /\ o.units # 0 /\ l.position + o.units >= 0
    /\ o.source = IF dead THEN "risk" ELSE "strategy"
    /\ dead => l.position + o.units = 0

SimInv ==
    /\ bars \in 0..MaxBars /\ close \in Int /\ done \in BOOLEAN /\ killed \in BOOLEAN
    /\ own \in Nat /\ LedgerSound(ledger)
    /\ members \in [Members -> Memos]
    /\ \A x \in Members : MemberSound(members[x])
    /\ ~killed => own = ledger.position /\ \A x \in Members : Mirrors(x, members[x], ledger)
    /\ pending = << >> \/ \E o \in SimOrders : pending = << o >> /\ PendingSound(o, ledger, killed)
    /\ killed /\ ~done /\ pending = << >> => ledger.position = 0

\* Two parts of one order teach as little as one.
LEMMA TaughtTwice ==
  ASSUME NEW t, NEW t1, NEW t2, NEW l, NEW l1, NEW l2, NEW u1 \in Int, NEW u2 \in Int,
         NEW price1, NEW price2,
         l.position \in Nat, l1.position \in Nat, l2.position \in Nat,
         (u1 > 0 /\ u2 > 0) \/ (u1 < 0 /\ u2 < 0),
         After1(l, l1, u1, price1), After1(l1, l2, u2, price2),
         Taught(t, t1, l, l1), Taught(t1, t2, l1, l2)
  PROVE  Taught(t, t2, l, l2)
  <1>1. PICK n, n1, n2 \in Nat : n = l.position /\ n1 = l1.position /\ n2 = l2.position
    OBVIOUS
  <1>2. n1 = n + u1 /\ n2 = n1 + u2
    BY <1>1 DEF After1
  <1>3. n1 > 0
    BY <1>2
  <1>4. t1 = t
    BY <1>1, <1>3 DEF Taught
  <1>5. CASE t2 = t1
    BY <1>4, <1>5 DEF Taught
  <1>6. CASE t2 # t1
    <2>1. n2 = 0 /\ n > 0
      <3>1. n2 = 0
        BY <1>1, <1>6 DEF Taught
      <3> QED
        BY <1>2, <3>1
    <2>2. l1.entered = l.entered
      BY <1>1, <1>3, <2>1 DEF After1
    <2> QED
      BY <1>1, <1>4, <1>6, <2>1, <2>2 DEF Taught
  <1> QED
    BY <1>5, <1>6

\* What a part does to the ledger, the ensemble and one of its members
\* (sim.py, _on_oms_fill).
LEMMA PartKeeps ==
  ASSUME NEW x, NEW m, MemberSound(m), NEW l, LedgerSound(l), NEW p \in SimOrders,
         p.units # 0, l.position + p.units >= 0, close \in Int, NEW l2, l2 = Sim!Booked(l, p),
         NEW m2, m2 = MemberAfter(x, m, p)
  PROVE  /\ LedgerSound(l2) /\ After1(l, l2, p.units, Sim!FillPrice(p.units))
         /\ p.source = "risk" => m2 = m
         /\ p.source = "strategy" /\ Mirrors(x, m, l) =>
               MemberSound(m2) /\ Mirrors(x, m2, l2) /\ Taught(m.thresholds, m2.thresholds, l, l2)
  <1>1. PICK u \in Int : u = p.units
    BY DEF SimOrders
  <1>2. PICK price \in Int : price = Sim!FillPrice(p.units)
    BY <1>1, SimulatorAssumption DEF Sim!FillPrice
  <1>3. LedgerSound(l2) /\ After1(l, l2, u, price)
    <2>1. p.units \in Int
      BY <1>1
    <2> QED
      BY <1>1, <1>2, <2>1, BookedKeeps
  <1>4. CASE p.source = "risk"
    BY <1>1, <1>2, <1>3, <1>4 DEF MemberAfter
  <1>5. CASE p.source = "strategy"
    <2>1. m2 = Sim!Strat!OwnFill(x, m, u, price)
      BY <1>1, <1>2, <1>5 DEF MemberAfter
    <2>2. ASSUME Mirrors(x, m, l)
          PROVE  MemberSound(m2) /\ Mirrors(x, m2, l2) /\ Taught(m.thresholds, m2.thresholds, l, l2)
      BY <1>3, <2>1, <2>2, OwnFillKeeps
    <2> QED
      BY <1>1, <1>2, <1>3, <1>5, <2>2
  <1> QED
    BY <1>4, <1>5 DEF SimOrders

\* What a bar makes of a member while nothing has stopped it.
Told(x, m, m2, l, l2) ==
    MemberSound(m2) /\ Mirrors(x, m2, l2) /\ Taught(m.thresholds, m2.thresholds, l, l2)

\* The fills at the open keep ledger, ensemble and members together, and sell
\* what a kill left (sim.py, process_bar_open, _on_oms_fill).
LEMMA BarFills ==
  ASSUME SimInv
  PROVE  /\ LedgerSound(Sim!Filled) /\ Sim!FilledOwn \in Nat
         /\ killed => Sim!FilledOwn = own /\ \A x \in Members : Sim!FilledMember(x) = members[x]
         /\ ~killed => /\ Sim!FilledOwn = Sim!Filled.position
                       /\ \A x \in Members :
                             Told(x, members[x], Sim!FilledMember(x), ledger, Sim!Filled)
         /\ killed /\ ~done => Sim!Filled.position = 0
  <1>1. PICK ps, l0, n0 : ps = SimParts /\ l0 = ledger /\ n0 = own
    OBVIOUS
  <1>2. /\ LedgerSound(l0) /\ n0 \in Nat /\ close \in Int /\ killed \in BOOLEAN
        /\ l0.position \in Nat
        /\ \A x \in Members : MemberSound(members[x])
        /\ ~killed => n0 = l0.position /\ \A x \in Members : Mirrors(x, members[x], l0)
    BY <1>1 DEF SimInv, LedgerSound, SimLedgers
  <1>3. CASE pending = << >>
    <2>1. ps = << >> /\ Len(ps) = 0 /\ Len(ps) \in 0..2
      BY <1>1, <1>3, PartsAre
    <2>2. Sim!Filled = l0 /\ Sim!FilledOwn = n0
      BY <1>1, <2>1, FilledIs, OwnIs
    <2>3. ASSUME NEW x \in Members PROVE Sim!FilledMember(x) = members[x]
      BY <1>1, <2>1, MemberIs
    <2>4. ASSUME ~killed, NEW x \in Members
          PROVE  Told(x, members[x], Sim!FilledMember(x), ledger, Sim!Filled)
      BY <1>1, <1>2, <2>2, <2>3, <2>4 DEF Told, Taught
    <2>5. killed /\ ~done => l0.position = 0
      BY <1>1, <1>3 DEF SimInv
    <2> QED
      BY <1>1, <1>2, <2>2, <2>3, <2>4, <2>5
  <1>4. CASE pending # << >>
    <2>1. PICK o \in SimOrders : pending = << o >> /\ PendingSound(o, l0, killed)
      BY <1>1, <1>4 DEF SimInv
    <2>2. /\ o.units # 0 /\ l0.position + o.units >= 0 /\ o.units \in Int
          /\ o.source = IF killed THEN "risk" ELSE "strategy"
          /\ killed => l0.position + o.units = 0
      BY <2>1 DEF PendingSound, SimOrders
    <2>3. Splits(ps, o)
      BY <1>1, <2>1, <2>2, PartsAre
    <2>4. CASE ps = << o >>
      <3>1. Len(ps) = 1 /\ Len(ps) \in 0..2 /\ ps[1] = o
        BY <2>4
      <3>2. PICK l1 : l1 = Sim!Booked(l0, o)
        OBVIOUS
      <3>3. Sim!Filled = l1 /\ Sim!FilledOwn = OwnAfter(n0, o)
        BY <1>1, <3>1, <3>2, FilledIs, OwnIs
      <3>4. ASSUME NEW x \in Members
            PROVE  Sim!FilledMember(x) = MemberAfter(x, members[x], o)
        BY <1>1, <3>1, MemberIs
      <3>5. ASSUME NEW x \in Members, NEW m, m = members[x], NEW m1, m1 = Sim!FilledMember(x)
            PROVE  /\ LedgerSound(l1) /\ After1(l0, l1, o.units, Sim!FillPrice(o.units))
                   /\ killed => m1 = m
                   /\ ~killed => Told(x, m, m1, l0, l1)
        <4>1. MemberSound(m) /\ (~killed => Mirrors(x, m, l0)) /\ m1 = MemberAfter(x, m, o)
          BY <1>2, <3>4, <3>5
        <4>2. /\ LedgerSound(l1) /\ After1(l0, l1, o.units, Sim!FillPrice(o.units))
              /\ o.source = "risk" => m1 = m
              /\ o.source = "strategy" /\ Mirrors(x, m, l0) =>
                    /\ MemberSound(m1) /\ Mirrors(x, m1, l1)
                    /\ Taught(m.thresholds, m1.thresholds, l0, l1)
          <5>1. /\ MemberSound(m) /\ LedgerSound(l0) /\ o \in SimOrders /\ o.units # 0
                /\ l0.position + o.units >= 0 /\ close \in Int /\ l1 = Sim!Booked(l0, o)
                /\ m1 = MemberAfter(x, m, o)
            BY <1>2, <2>2, <3>2, <4>1
          <5>2. LedgerSound(l1) /\ After1(l0, l1, o.units, Sim!FillPrice(o.units))
            BY <5>1, PartKeeps
          <5>3. o.source = "risk" => m1 = m
            BY <5>1, PartKeeps
          <5>4. o.source = "strategy" /\ Mirrors(x, m, l0) =>
                    /\ MemberSound(m1) /\ Mirrors(x, m1, l1)
                    /\ Taught(m.thresholds, m1.thresholds, l0, l1)
            BY <5>1, PartKeeps
          <5> QED
            BY <5>2, <5>3, <5>4
        <4> QED
          BY <2>2, <4>1, <4>2 DEF Told
      <3>6. LedgerSound(l1) /\ l1.position = l0.position + o.units
        BY <3>5, SimulatorAssumption DEF After1
      <3>7. killed => OwnAfter(n0, o) = n0
        BY <2>2 DEF OwnAfter
      <3>8. ~killed => OwnAfter(n0, o) = l1.position
        BY <1>2, <2>2, <3>6 DEF OwnAfter
      <3>9. l1.position \in Nat
        BY <3>6 DEF LedgerSound, SimLedgers
      <3> QED
        BY <1>1, <1>2, <2>2, <3>3, <3>5, <3>6, <3>7, <3>8, <3>9
    <2>5. CASE ps # << o >>
      <3>1. PICK p1, p2 \in SimOrders :
              /\ ps = << p1, p2 >> /\ p1.source = o.source /\ p2.source = o.source
              /\ p1.units + p2.units = o.units
              /\ (p1.units > 0 /\ p2.units > 0) \/ (p1.units < 0 /\ p2.units < 0)
        BY <2>3, <2>5 DEF Splits
      <3>2. Len(ps) = 2 /\ Len(ps) \in 0..2 /\ ps[1] = p1 /\ ps[2] = p2
        BY <3>1
      <3>3. PICK l1, l2 : l1 = Sim!Booked(l0, p1) /\ l2 = Sim!Booked(l1, p2)
        OBVIOUS
      <3>4. Sim!Filled = l2 /\ Sim!FilledOwn = OwnAfter(OwnAfter(n0, p1), p2)
        BY <1>1, <3>2, <3>3, FilledIs, OwnIs
      <3>5. ASSUME NEW x \in Members
            PROVE  Sim!FilledMember(x) = MemberAfter(x, MemberAfter(x, members[x], p1), p2)
        <4>1. ps = SimParts /\ Len(ps) \in 0..2
          BY <1>1, <3>2
        <4>2. Sim!FilledMember(x)
                = IF Len(ps) = 0 THEN members[x]
                  ELSE IF Len(ps) = 1 THEN MemberAfter(x, members[x], ps[1])
                  ELSE MemberAfter(x, MemberAfter(x, members[x], ps[1]), ps[2])
          BY <4>1, MemberIs
        <4> QED
          BY <3>2, <4>2
      <3>6. PICK u1, u2 \in Int : u1 = p1.units /\ u2 = p2.units
        BY DEF SimOrders
      <3>7. u1 # 0 /\ u2 # 0 /\ l0.position + u1 >= 0 /\ l0.position + u1 + u2 >= 0
        BY <1>2, <2>2, <3>1, <3>6
      <3>8. ASSUME NEW x \in Members, NEW m, m = members[x], NEW m2, m2 = Sim!FilledMember(x)
            PROVE  /\ LedgerSound(l1) /\ After1(l0, l1, u1, Sim!FillPrice(u1))
                   /\ LedgerSound(l2) /\ After1(l1, l2, u2, Sim!FillPrice(u2))
                   /\ killed => m2 = m
                   /\ ~killed => Told(x, m, m2, l0, l2)
        <4>1. PICK m1 : m1 = MemberAfter(x, m, p1)
          OBVIOUS
        <4>2. MemberSound(m) /\ (~killed => Mirrors(x, m, l0)) /\ m2 = MemberAfter(x, m1, p2)
          BY <1>2, <3>5, <3>8, <4>1
        <4>3. /\ LedgerSound(l1) /\ After1(l0, l1, u1, Sim!FillPrice(u1))
              /\ p1.source = "risk" => m1 = m
              /\ p1.source = "strategy" /\ Mirrors(x, m, l0) =>
                    /\ MemberSound(m1) /\ Mirrors(x, m1, l1)
                    /\ Taught(m.thresholds, m1.thresholds, l0, l1)
          <5>1. p1.units # 0 /\ l0.position + p1.units >= 0
            BY <3>6, <3>7
          <5> QED
            BY <1>2, <3>3, <3>6, <4>1, <4>2, <5>1, PartKeeps
        <4>4. MemberSound(m1)
          BY <1>2, <2>2, <3>1, <4>2, <4>3
        <4>5. l1.position = l0.position + u1
          BY <4>3 DEF After1
        <4>6. /\ LedgerSound(l2) /\ After1(l1, l2, u2, Sim!FillPrice(u2))
              /\ p2.source = "risk" => m2 = m1
              /\ p2.source = "strategy" /\ Mirrors(x, m1, l1) =>
                    /\ MemberSound(m2) /\ Mirrors(x, m2, l2)
                    /\ Taught(m1.thresholds, m2.thresholds, l1, l2)
          <5>1. p2.units # 0 /\ l1.position + p2.units >= 0
            BY <3>6, <3>7, <4>5
          <5> QED
            BY <1>2, <3>3, <3>6, <4>2, <4>3, <4>4, <5>1, PartKeeps
        <4>7. killed => m2 = m
          BY <2>2, <3>1, <4>3, <4>6
        <4>8. ASSUME ~killed PROVE Told(x, m, m2, l0, l2)
          <5>1. /\ MemberSound(m2) /\ Mirrors(x, m2, l2)
                /\ Taught(m.thresholds, m1.thresholds, l0, l1)
                /\ Taught(m1.thresholds, m2.thresholds, l1, l2)
            BY <2>2, <3>1, <4>2, <4>3, <4>6, <4>8
          <5>2. l1.position \in Nat /\ l2.position \in Nat
            BY <4>3, <4>6 DEF LedgerSound, SimLedgers
          <5>3. (u1 > 0 /\ u2 > 0) \/ (u1 < 0 /\ u2 < 0)
            BY <3>1, <3>6
          <5>4. Taught(m.thresholds, m2.thresholds, l0, l2)
            BY <1>2, <4>3, <4>6, <5>1, <5>2, <5>3, TaughtTwice
          <5> QED
            BY <5>1, <5>4 DEF Told
        <4> QED
          BY <4>3, <4>6, <4>7, <4>8
      <3>9. LedgerSound(l2) /\ l2.position = l0.position + o.units
        <4>1. LedgerSound(l2) /\ l1.position = l0.position + u1 /\ l2.position = l1.position + u2
          BY <3>8, SimulatorAssumption DEF After1
        <4> QED
          BY <1>2, <3>1, <3>6, <4>1
      <3>10. killed => OwnAfter(OwnAfter(n0, p1), p2) = n0
        BY <2>2, <3>1 DEF OwnAfter
      <3>11. ~killed => OwnAfter(OwnAfter(n0, p1), p2) = l2.position
        BY <1>2, <2>2, <3>1, <3>6, <3>9 DEF OwnAfter
      <3>12. l2.position \in Nat
        BY <3>9 DEF LedgerSound, SimLedgers
      <3> QED
        BY <1>1, <1>2, <2>2, <3>4, <3>8, <3>9, <3>10, <3>11, <3>12
    <2> QED
      BY <2>4, <2>5
  <1> QED
    BY <1>3, <1>4


----------------------------------------------------------------------------
(* A bar as the strategies see it. *)

SimRegimes == {"LOW", "NORMAL", "HIGH", "EXTREME"}
BarViews == [sign : {-1, 0, 1}, strength : Int, budget : Nat, regime : SimRegimes]

\* What a member looks at changes neither its position nor what it learned
\* (adaptive_ema.py, on_bar).
LEMMA SeenKeeps ==
  ASSUME NEW x, NEW m, MemberSound(m), NEW v \in BarViews, NEW n
  PROVE  LET m2 == Sim!Strat!Seen(x, m, v, n)
         IN  /\ MemberSound(m2) /\ m2.position = m.position /\ m2.flow = m.flow
             /\ m2.thresholds = m.thresholds
  <1>1. PICK m2 : m2 = Sim!Strat!Seen(x, m, v, n)
    OBVIOUS
  <1>2. PICK sign \in Signs : sign = Sim!Strat!NewSign(m, v)
    BY DEF MemberSound, Memos, BarViews, Signs, Sim!Strat!NewSign
  <1>3. PICK m1 : m1 = [m EXCEPT !.sign = sign]
    OBVIOUS
  <1>4. m \in Memos
    BY DEF MemberSound
  <1>5. m1 \in Memos
    BY <1>3, <1>4 DEF Memos
  <1>6. m1.position = m.position /\ m1.flow = m.flow /\ m1.thresholds = m.thresholds
    BY <1>3, <1>4 DEF Memos
  <1>7. MemberSound(m1)
    BY <1>5, <1>6 DEF MemberSound
  <1>8. CASE x \notin Adaptive \/ n < Warmup[x]
    <2>1. m2 = m1
      BY <1>1, <1>2, <1>3, <1>8 DEF Sim!Strat!Seen
    <2> QED
      BY <1>1, <1>6, <1>7, <2>1
  <1>9. CASE ~(x \notin Adaptive \/ n < Warmup[x])
    <2>1. PICK w \in Windows : w = Sim!Strat!AdaptiveWindow(m, v)
      <3>1. ConfirmWindow \in Nat \ {0}
        BY SimulatorAssumption
      <3>2. PICK a \in 0..ConfirmWindow : a = Sim!Strat!Window(m, v)
        BY <1>4, <3>1 DEF Memos, Windows, Sim!Strat!Window
      <3>3. Sim!Strat!AdaptiveWindow(m, v) \in 0..ConfirmWindow
        <4>1. CASE Sim!Strat!RiskOff(m, v) \/ Sim!Strat!Confirmed(m, v)
          BY <3>1, <4>1 DEF Sim!Strat!AdaptiveWindow
        <4>2. CASE ~(Sim!Strat!RiskOff(m, v) \/ Sim!Strat!Confirmed(m, v)) /\ Sim!Strat!Confirming(m, v)
          <5>1. a > 0
            BY <3>2, <4>2 DEF Sim!Strat!Confirming
          <5>2. Sim!Strat!AdaptiveWindow(m, v) = a - 1
            BY <3>2, <4>2 DEF Sim!Strat!AdaptiveWindow
          <5> QED
            BY <3>1, <5>1, <5>2
        <4>3. CASE ~(Sim!Strat!RiskOff(m, v) \/ Sim!Strat!Confirmed(m, v)) /\ ~Sim!Strat!Confirming(m, v)
          BY <3>2, <4>3 DEF Sim!Strat!AdaptiveWindow
        <4> QED
          BY <4>1, <4>2, <4>3
      <3> QED
        BY <3>3 DEF Windows
    <2>2. PICK regime \in Entered : regime = IF Sim!Strat!Confirmed(m, v) THEN v.regime ELSE m.regime
      <3>1. Sim!Strat!Confirmed(m, v) => v.regime \in Calm
        BY DEF Sim!Strat!Confirmed, Sim!Strat!Confirming, Sim!Strat!RiskOff, BarViews, SimRegimes, Calm
      <3>2. m.regime \in Entered
        BY <1>4 DEF Memos
      <3> QED
        BY <3>1, <3>2 DEF Entered
    <2>3. m1.regime = m.regime
      BY <1>3, <1>4 DEF Memos
    <2>4. m2 = [m1 EXCEPT !.window = w, !.regime = regime]
      BY <1>1, <1>2, <1>3, <1>9, <2>1, <2>2, <2>3 DEF Sim!Strat!Seen
    <2>5. m2 \in Memos
      BY <1>5, <2>4 DEF Memos
    <2>6. m2.position = m1.position /\ m2.flow = m1.flow /\ m2.thresholds = m1.thresholds
      BY <1>5, <2>4 DEF Memos
    <2>7. MemberSound(m2)
      BY <1>7, <2>5, <2>6 DEF MemberSound
    <2> QED
      BY <1>1, <1>6, <2>6, <2>7
  <1> QED
    BY <1>8, <1>9

\* An intent of a member is a number of contracts (adaptive_ema.py,
\* ema_crossover.py, on_bar).
LEMMA SignalType ==
  ASSUME NEW x, NEW m, MemberSound(m), NEW v \in BarViews, NEW n
  PROVE  Sim!Strat!Signal(x, m, v, n) \in Int
  <1>1. m.position \in Int /\ -m.position \in Int /\ OrderQuantity \in Nat \ {0}
    BY SimulatorAssumption DEF MemberSound, Memos
  <1>2. PICK size \in Int : size = Sim!Strat!RegimeSize(v.regime)
    <2>1. PICK half \in Nat : half = OrderQuantity \div 2
      BY <1>1
    <2>2. Sim!Strat!Max({1, half}) \in Int
      BY SimLarger
    <2> QED
      BY <1>1, <2>1, <2>2 DEF Sim!Strat!RegimeSize
  <1>3. Sim!Strat!EntryQuantity(v) \in Int
    <2>1. v.budget \in Int
      BY DEF BarViews
    <2>2. Sim!Strat!Min({size, v.budget}) \in Int
      BY <2>1, SimSmaller
    <2> QED
      BY <1>2, <2>2 DEF Sim!Strat!EntryQuantity
  <1>4. Sim!Strat!AdaptiveSignal(m, v) \in Int
    BY <1>1, <1>3 DEF Sim!Strat!AdaptiveSignal
  <1>5. Sim!Strat!CrossoverSignal(m, v) \in Int
    BY <1>1 DEF Sim!Strat!CrossoverSignal
  <1> QED
    BY <1>4, <1>5 DEF Sim!Strat!Signal

\* A set of positive numbers has a smallest one.
LEMMA SimLeast ==
  ASSUME NEW S, S # {}, \A k \in S : k \in Nat
  PROVE  Sim!Strat!Min(S) \in S
  <1>1. SUFFICES \E k \in S : \A j \in S : k <= j
    BY DEF Sim!Strat!Min
  <1>2. SUFFICES ASSUME ~ \E k \in S : \A j \in S : k <= j PROVE FALSE
    OBVIOUS
  <1>3. PICK n \in Nat : n \in S
    OBVIOUS
  <1> DEFINE P == {k \in Nat : \A j \in 0..k : j \notin S}
  <1>4. 0 \in P
    <2>1. 0 \notin S
      BY <1>2
    <2> QED
      BY <2>1
  <1>5. ASSUME NEW k \in 0..(n - 1), k \in P PROVE k + 1 \in P
    <2>1. k + 1 \notin S
      <3>1. ASSUME NEW j \in S PROVE k + 1 <= j
        <4>1. ~(j <= k)
          BY <1>5
        <4> QED
          BY <4>1
      <3> QED
        BY <1>2, <3>1
    <2>2. \A j \in 0..(k + 1) : j \in 0..k \/ j = k + 1
      OBVIOUS
    <2> QED
      BY <1>5, <2>1, <2>2
  <1> HIDE DEF P
  <1>6. n \in P
    BY <1>4, <1>5, InductionTo
  <1>7. n \in 0..n
    OBVIOUS
  <1> QED
    BY <1>3, <1>6, <1>7 DEF P

\* The ensemble leaves with all it has or enters from flat
\* (ensemble.py, on_bar).
LEMMA EnsembleFits ==
  ASSUME NEW n \in Nat, NEW signals \in [Members -> Int], NEW b
  PROVE  /\ Sim!Strat!EnsembleSignal(n, signals, b) \in Int
         /\ n + Sim!Strat!EnsembleSignal(n, signals, b) >= 0
  <1>1. PICK e : e = Sim!Strat!EnsembleSignal(n, signals, b)
    OBVIOUS
  <1>2. PICK buys : buys = {x \in Members : signals[x] > 0}
    OBVIOUS
  <1>3. FixedQuantity \in Nat /\ MinAgreement \in Nat \ {0}
    BY SimulatorAssumption
  <1>4. \/ e = 0
        \/ n > 0 /\ e = -n
        \/ n = 0 /\ FixedQuantity > 0 /\ e = FixedQuantity
        \/ /\ n = 0 /\ ~(Sim!Strat!Cardinality(buys) < MinAgreement)
           /\ e = Sim!Strat!Min({signals[x] : x \in buys})
    BY <1>1, <1>2 DEF Sim!Strat!EnsembleSignal
  <1>5. CASE /\ n = 0 /\ ~(Sim!Strat!Cardinality(buys) < MinAgreement)
             /\ e = Sim!Strat!Min({signals[x] : x \in buys})
    <2>1. PICK S : S = {signals[x] : x \in buys}
      OBVIOUS
    <2>2. \A k \in S : k \in Nat
      BY <1>2, <2>1
    <2>3. buys # {}
      <3>1. Sim!Strat!Cardinality(buys) = Cardinality(buys)
        BY DEF Sim!Strat!Cardinality, Cardinality
      <3> QED
        BY <1>3, <1>5, <3>1, FS_EmptySet
    <2>4. S # {}
      BY <2>1, <2>3
    <2>5. e \in S
      BY <1>5, <2>1, <2>2, <2>4, SimLeast
    <2> QED
      BY <1>1, <1>5, <2>2, <2>5
  <1> QED
    BY <1>1, <1>3, <1>4, <1>5


----------------------------------------------------------------------------
(* What a bar sends out. *)

\* The strategy's order is as large as its signal, and a kill lets none of
\* them through (sim.py, _route; guardrails.py, validate).
LEMMA RoutedIs ==
  ASSUME NEW units \in Int, NEW dead, NEW l, NEW mark, NEW out, out = Sim!Routed(units, dead, l, mark)
  PROVE  /\ dead => out = << >>
         /\ out = << >> \/ \E o \in SimOrders :
                /\ out = << o >> /\ o.units = units /\ units # 0 /\ o.source = "strategy"
  <1>1. PICK intent : intent = [symbol |-> Symbol, side |-> IF units > 0 THEN 1 ELSE -1,
                                quantity |-> Sim!Risk!AbsVal(units), limit |-> 0,
                                source |-> "strategy"]
    OBVIOUS
  <1>2. out = IF units # 0 /\ Sim!Approved(intent, dead, l, mark)
              THEN << Sim!Order(intent) >> ELSE << >>
    BY <1>1 DEF Sim!Routed
  <1>3. Sim!Approved(intent, dead, l, mark) => ~dead
    BY <1>1 DEF Sim!Approved, Sim!Risk!Approves
  <1>4. Sim!Order(intent) = [units |-> units, source |-> "strategy"]
    <2>1. (IF units > 0 THEN 1 ELSE -1) * Sim!Risk!AbsVal(units) = units
      BY DEF Sim!Risk!AbsVal
    <2>2. intent.side * intent.quantity = units /\ intent.source = "strategy"
      BY <1>1, <2>1
    <2> QED
      BY <2>2 DEF Sim!Order, Sim!Risk!SignedQty
  <1>5. PICK o : o = Sim!Order(intent)
    OBVIOUS
  <1>6. o \in SimOrders /\ o.units = units /\ o.source = "strategy"
    BY <1>4, <1>5 DEF SimOrders
  <1> QED
    BY <1>2, <1>3, <1>5, <1>6

\* A kill sends one order for the whole book, and nothing refuses it
\* (sim.py, _kill_switch_fired; guardrails.py, flatten_intents).
LEMMA FlattenIs ==
  ASSUME NEW l, l.position \in Nat, NEW mark \in Nat \ {0}, NEW out, out = Sim!Flatten(l, mark)
  PROVE  \/ l.position = 0 /\ out = << >>
         \/ \E o \in SimOrders :
               /\ out = << o >> /\ o.units = -l.position /\ o.units # 0 /\ o.source = "risk"
  <1>1. PICK n \in Nat : n = l.position
    OBVIOUS
  <1>2. PICK pos, px : pos = Sim!Positions(l) /\ px = [s \in {Symbol} |-> mark]
    OBVIOUS
  <1>3. pos = [s \in {Symbol} |-> n]
    BY <1>1, <1>2 DEF Sim!Positions
  <1>4. PICK all : all = Sim!Risk!FlattenIntents(pos)
    OBVIOUS
  <1> DEFINE intents == {i \in Sim!Risk!FlattenIntents(Sim!Positions(l)) :
                           Sim!Approved(i, TRUE, l, mark)}
  <1>5. out = IF intents = {} THEN << >> ELSE << Sim!Order(CHOOSE i \in intents : TRUE) >>
    BY Zenon DEF Sim!Flatten
  <1>6. \A i : i \in intents <=> i \in all /\ Sim!Approved(i, TRUE, l, mark)
    BY <1>2, <1>4
  <1> HIDE DEF intents
  <1>7. CASE n = 0
    <2>1. all = {}
      BY <1>3, <1>4, <1>7 DEF Sim!Risk!FlattenIntents
    <2> QED
      BY <1>1, <1>5, <1>6, <1>7, <2>1
  <1>8. CASE n > 0
    <2>1. PICK i : i = [symbol |-> Symbol, side |-> -1, quantity |-> n, limit |-> 0,
                        source |-> "risk"]
      OBVIOUS
    <2>2. all = {i}
      <3>1. {s \in DOMAIN pos : pos[s] # 0} = {Symbol} /\ pos[Symbol] = n
        BY <1>3, <1>8
      <3>2. Sim!Risk!AbsVal(n) = n
        BY <1>8 DEF Sim!Risk!AbsVal
      <3> QED
        BY <1>4, <1>8, <2>1, <3>1, <3>2 DEF Sim!Risk!FlattenIntents
    <2>3. Sim!Approved(i, TRUE, l, mark)
      <3>1. px[Symbol] = mark /\ mark > 0
        BY <1>2
      <3>2. i.source = "risk" /\ i.quantity > 0 /\ ~(i.limit > 0) /\ i.symbol = Symbol
        BY <1>8, <2>1
      <3> QED
        BY <1>2, <3>1, <3>2 DEF Sim!Approved, Sim!Risk!Approves, Sim!Risk!RefPrice
    <2>4. intents = {i}
      BY <1>6, <2>2, <2>3
    <2>5. (CHOOSE j \in intents : TRUE) = i
      BY <2>4
    <2>6. PICK o : o = Sim!Order(i)
      OBVIOUS
    <2>7. o = [units |-> -n, source |-> "risk"]
      BY <1>8, <2>1, <2>6 DEF Sim!Order, Sim!Risk!SignedQty
    <2>8. o \in SimOrders /\ o.units = -n /\ o.source = "risk"
      BY <2>7 DEF SimOrders
    <2>9. out = << o >>
      BY <1>5, <2>4, <2>5, <2>6
    <2> QED
      BY <1>1, <1>8, <2>8, <2>9
  <1> QED
    BY <1>7, <1>8

\* What a bar does to each member's thresholds.
BarTeaches ==
    \A x \in Members :
        \/ members'[x].thresholds = members[x].thresholds
        \/ /\ ~killed /\ members'[x].position = ledger'.position
           /\ Taught(members[x].thresholds, members'[x].thresholds, ledger, ledger')

\* A bar keeps the books and the members together, sends out one order at
\* most, and teaches by round trips only (sim.py, run).
LEMMA BarKeeps ==
  ASSUME SimInv, NEW c \in SimCloses, NEW view \in Views, Sim!Bar(c, view)
  PROVE  SimInv' /\ BarTeaches
  <1>1. PICK l, told, n, o, ms :
          /\ l = Sim!Filled /\ told = Sim!MirroredFills /\ n = bars + 1 /\ o = Sim!FilledOwn
          /\ ms = [x \in Members |-> Sim!Strat!Seen(x, told[x], view[x], n)]
    OBVIOUS
  <1>2. /\ LedgerSound(l) /\ o \in Nat
        /\ killed => o = own /\ \A x \in Members : told[x] = members[x]
        /\ ~killed => /\ o = l.position
                      /\ \A x \in Members : Told(x, members[x], told[x], ledger, l)
        /\ killed /\ ~done => l.position = 0
    <2>1. \A x \in Members : told[x] = Sim!FilledMember(x)
      BY <1>1 DEF Sim!MirroredFills
    <2> QED
      BY <1>1, <2>1, BarFills
  <1>3. /\ c \in Nat \ {0} /\ view \in [Members -> BarViews] /\ MaxBars \in Nat
    BY SimulatorAssumption DEF BarViews, SimRegimes
  <1>4. PICK units, dead : /\ units = Sim!Strat!EnsembleSignal(o,
                                 [x \in Members |-> Sim!Strat!Signal(x, told[x], view[x], n)], n)
                           /\ dead = killed'
    OBVIOUS
  <1>5. /\ ~done /\ bars < MaxBars /\ bars' = n /\ close' = c /\ ledger' = l /\ own' = o
        /\ members' = ms /\ done' = done
        /\ (killed => killed') /\ killed' \in BOOLEAN
        /\ \/ ~killed /\ killed' /\ pending' = Sim!Flatten(l, c) \o Sim!Routed(units, dead, l, c)
           \/ (killed' <=> killed) /\ pending' = << >> \o Sim!Routed(units, dead, l, c)
    BY <1>1, <1>4 DEF Sim!Bar, SimInv
  <1>6. \A x \in Members : MemberSound(told[x])
    BY <1>2 DEF SimInv, Told
  <1>7. \A x \in Members : /\ MemberSound(ms[x]) /\ ms[x].position = told[x].position
                           /\ ms[x].flow = told[x].flow /\ ms[x].thresholds = told[x].thresholds
    <2>1. ASSUME NEW x \in Members
          PROVE  /\ MemberSound(ms[x]) /\ ms[x].position = told[x].position
                 /\ ms[x].flow = told[x].flow /\ ms[x].thresholds = told[x].thresholds
      <3>1. PICK m, v : m = told[x] /\ v = view[x]
        OBVIOUS
      <3>2. MemberSound(m) /\ v \in BarViews
        BY <1>3, <1>6, <3>1
      <3>3. ms[x] = Sim!Strat!Seen(x, m, v, n)
        BY <1>1, <3>1
      <3> QED
        BY <3>1, <3>2, <3>3, SeenKeeps
    <2> QED
      BY <2>1
  <1>8. units \in Int /\ o + units >= 0
    <2>1. ASSUME NEW x \in Members
          PROVE  Sim!Strat!Signal(x, told[x], view[x], n) \in Int
      <3>1. PICK m, v : m = told[x] /\ v = view[x]
        OBVIOUS
      <3>2. MemberSound(m) /\ v \in BarViews
        BY <1>3, <1>6, <3>1
      <3> QED
        BY <3>1, <3>2, SignalType
    <2>2. PICK signals : signals = [x \in Members |-> Sim!Strat!Signal(x, told[x], view[x], n)]
      OBVIOUS
    <2>3. signals \in [Members -> Int]
      BY <2>1, <2>2
    <2> QED
      BY <1>2, <1>4, <2>2, <2>3, EnsembleFits
  <1>9. PICK sold, sent : sold = Sim!Flatten(l, c) /\ sent = Sim!Routed(units, dead, l, c)
    OBVIOUS
  <1>10. l.position \in Nat
    BY <1>2 DEF LedgerSound, SimLedgers
  <1>11. /\ dead => sent = << >>
         /\ sent = << >> \/ \E p \in SimOrders :
                /\ sent = << p >> /\ p.units = units /\ units # 0 /\ p.source = "strategy"
    BY <1>8, <1>9, RoutedIs
  <1>12. \/ l.position = 0 /\ sold = << >>
         \/ \E p \in SimOrders :
               /\ sold = << p >> /\ p.units = -l.position /\ p.units # 0 /\ p.source = "risk"
    BY <1>3, <1>9, <1>10, FlattenIs
  <1>13. PICK q : q = pending'
    OBVIOUS
  <1>14. /\ q = << >> \/ \E p \in SimOrders : q = << p >> /\ PendingSound(p, l, dead)
         /\ dead /\ q = << >> => l.position = 0
    <2>1. CASE ~killed /\ dead /\ q = sold \o sent
      <3>1. sent = << >>
        BY <1>11, <2>1
      <3>2. q = sold
        BY <1>12, <2>1, <3>1
      <3>3. CASE l.position = 0 /\ sold = << >>
        BY <3>2, <3>3
      <3>4. ASSUME NEW p \in SimOrders, sold = << p >>, p.units = -l.position, p.units # 0,
                   p.source = "risk"
            PROVE  q = << p >> /\ PendingSound(p, l, dead) /\ q # << >>
        BY <1>10, <2>1, <3>2, <3>4 DEF PendingSound
      <3> QED
        BY <1>12, <3>3, <3>4
    <2>2. CASE (dead <=> killed) /\ q = << >> \o sent
      <3>1. q = sent
        BY <1>11, <2>2
      <3>2. CASE dead
        <4>1. q = << >> /\ l.position = 0
          BY <1>2, <1>5, <1>11, <2>2, <3>1, <3>2
        <4> QED
          BY <4>1
      <3>3. CASE ~dead
        <4>1. ASSUME NEW p \in SimOrders, sent = << p >>, p.units = units, units # 0,
                     p.source = "strategy"
              PROVE  PendingSound(p, l, dead)
          BY <1>2, <1>8, <2>2, <3>3, <4>1 DEF PendingSound
        <4> QED
          BY <1>11, <3>1, <3>3, <4>1
      <3> QED
        BY <3>2, <3>3
    <2>3. (dead <=> killed') /\ q = pending'
      BY <1>4, <1>13
    <2> QED
      BY <1>5, <1>9, <2>1, <2>2, <2>3
  <1>15. ASSUME ~killed' PROVE o = l.position /\ \A x \in Members : Mirrors(x, ms[x], l)
    <2>1. ~killed
      BY <1>5, <1>15
    <2>2. \A x \in Members : Mirrors(x, told[x], l)
      BY <1>2, <2>1 DEF Told
    <2> QED
      BY <1>2, <1>7, <2>1, <2>2 DEF Mirrors
  <1>16. SimInv'
    <2>1. bars' \in 0..MaxBars
      BY <1>1, <1>3, <1>5 DEF SimInv
    <2>2. members' \in [Members -> Memos] /\ \A x \in Members : MemberSound(members'[x])
      <3>1. \A x \in Members : ms[x] \in Memos
        BY <1>7 DEF MemberSound
      <3>2. ms \in [Members -> Memos]
        BY <1>1, <3>1
      <3> QED
        BY <1>5, <1>7, <3>2
    <2>3. /\ LedgerSound(ledger') /\ own' \in Nat /\ close' \in Int /\ done' \in BOOLEAN
          /\ killed' \in BOOLEAN
      BY <1>2, <1>3, <1>5 DEF SimInv
    <2>4. ~killed' => own' = ledger'.position /\ \A x \in Members : Mirrors(x, members'[x], ledger')
      BY <1>5, <1>15
    <2>5. /\ pending' = << >> \/ \E p \in SimOrders : pending' = << p >>
                                                     /\ PendingSound(p, ledger', killed')
          /\ killed' /\ ~done' /\ pending' = << >> => ledger'.position = 0
      BY <1>4, <1>5, <1>13, <1>14
    <2> QED
      BY <2>1, <2>2, <2>3, <2>4, <2>5 DEF SimInv, LedgerSound, MemberSound, Mirrors, PendingSound
  <1>17. BarTeaches
    <2>1. ASSUME NEW x \in Members, ~killed
          PROVE  /\ members'[x].position = ledger'.position
                 /\ Taught(members[x].thresholds, members'[x].thresholds, ledger, ledger')
      <3>1. Told(x, members[x], told[x], ledger, l)
        BY <1>2, <2>1
      <3>2. ms[x].thresholds = told[x].thresholds /\ ms[x].position = l.position
        BY <1>7, <3>1 DEF Told, Mirrors
      <3> QED
        BY <1>5, <3>1, <3>2 DEF Told
    <2>2. ASSUME NEW x \in Members, killed
          PROVE  members'[x].thresholds = members[x].thresholds
      BY <1>2, <1>5, <1>7, <2>2
    <2> QED
      BY <2>1, <2>2 DEF BarTeaches
  <1> QED
    BY <1>16, <1>17


\* Before the first bar nothing is held, and every member has the default
\* thresholds (sim.py, __init__; adaptive_ema.py, DEFAULT_THRESHOLDS).
LEMMA SimInit == Sim!Init => SimInv
  <1> SUFFICES ASSUME Sim!Init PROVE SimInv
    OBVIOUS
  <1>1. PICK f : f = Sim!Strat!Fresh
    OBVIOUS
  <1>2. f = [position |-> 0, sign |-> 0, window |-> 0, thresholds |-> Defaults,
             regime |-> "none", entry |-> 0, flow |-> 0]
    BY <1>1 DEF Sim!Strat!Fresh
  <1>3. /\ Defaults \in Tables /\ Bounded(Defaults) /\ 0 \in Windows /\ 0 \in Signs
        /\ "none" \in Entered /\ 0 \in Int
    <2>1. Defaults \in [{"LOW", "NORMAL", "HIGH", "EXTREME"} -> Int]
      BY SimulatorAssumption
    <2>2. Calm \cup {"EXTREME"} = {"LOW", "NORMAL", "HIGH", "EXTREME"}
      BY DEF Calm
    <2>3. Defaults \in Tables
      BY <2>1, <2>2 DEF Tables
    <2>4. Bounded(Defaults)
      BY SimulatorAssumption DEF Bounded, Calm
    <2>5. 0 \in Windows
      BY SimulatorAssumption DEF Windows
    <2> QED
      BY <2>3, <2>4, <2>5 DEF Signs, Entered
  <1>4. f \in Memos /\ f.thresholds = Defaults /\ f.position = 0
    BY <1>2, <1>3 DEF Memos
  <1>5. PICK l : l = Sim!Fresh
    OBVIOUS
  <1>6. l = [cash |-> InitialCash, position |-> 0, commissions |-> 0, entered |-> None,
             trips |-> 0, unattributed |-> 0]
    BY <1>5 DEF Sim!Fresh
  <1>7. InitialCash \in Int
    BY SimulatorAssumption
  <1>8. LedgerSound(l) /\ l.position = 0
    <2>1. l \in SimLedgers
      BY <1>6, <1>7 DEF SimLedgers
    <2> QED
      BY <1>6, <1>7, <2>1 DEF LedgerSound
  <1>9. /\ bars = 0 /\ close \in SimCloses /\ members = [x \in Members |-> f] /\ own = 0
        /\ pending = << >> /\ ledger = l /\ killed = FALSE /\ done = FALSE
    BY <1>1, <1>5 DEF Sim!Init
  <1>10. MaxBars \in Nat /\ SimCloses \subseteq Nat
    BY SimulatorAssumption
  <1>11. members \in [Members -> Memos] /\ \A x \in Members : members[x] = f
    BY <1>4, <1>9
  <1>12. \A x \in Members : MemberSound(members[x]) /\ Mirrors(x, members[x], ledger)
    BY <1>3, <1>4, <1>8, <1>9, <1>11 DEF MemberSound, Mirrors
  <1>13. bars \in 0..MaxBars /\ close \in Int /\ done \in BOOLEAN /\ killed \in BOOLEAN
    <2>1. bars \in 0..MaxBars
      BY <1>9, <1>10
    <2>2. close \in Int
      BY <1>9, <1>10
    <2>3. done \in BOOLEAN /\ killed \in BOOLEAN
      BY <1>9
    <2> QED
      BY <2>1, <2>2, <2>3
  <1>14. own \in Nat /\ own = ledger.position /\ LedgerSound(ledger)
    BY <1>8, <1>9
  <1>15. ~killed /\ pending = << >>
    BY <1>9
  <1> QED
    BY <1>11, <1>12, <1>13, <1>14, <1>15 DEF SimInv

\* The end of the file cancels what works, and changes nothing else
\* (sim.py, run).
LEMMA EndKeeps ==
  ASSUME SimInv, Sim!End \/ UNCHANGED Sim!vars
  PROVE  SimInv' /\ UNCHANGED <<members, ledger>>
  <1>1. /\ UNCHANGED <<bars, close, members, own, ledger, killed>>
        /\ \/ done' = TRUE /\ pending' = << >>
           \/ done' = done /\ pending' = pending
    BY DEF Sim!End, Sim!vars
  <1>2. /\ bars' \in 0..MaxBars /\ close' \in Int /\ done' \in BOOLEAN /\ killed' \in BOOLEAN
        /\ own' \in Nat /\ LedgerSound(ledger')
        /\ members' \in [Members -> Memos]
        /\ \A x \in Members : MemberSound(members'[x])
        /\ ~killed' => own' = ledger'.position
                       /\ \A x \in Members : Mirrors(x, members'[x], ledger')
    BY <1>1 DEF SimInv
  <1>3. /\ pending' = << >> \/ \E o \in SimOrders : pending' = << o >>
                                                  /\ PendingSound(o, ledger', killed')
        /\ killed' /\ ~done' /\ pending' = << >> => ledger'.position = 0
    BY <1>1 DEF SimInv
  <1> QED
    BY <1>1, <1>2, <1>3 DEF SimInv, LedgerSound, MemberSound, Mirrors, PendingSound

\* Every step of the replay keeps its invariant, and teaches by round trips
\* only (sim.py, run).
LEMMA SimNext ==
  ASSUME SimInv, Sim!Next \/ UNCHANGED Sim!vars
  PROVE  SimInv' /\ (BarTeaches \/ UNCHANGED <<members, ledger>>)
  BY BarKeeps, EndKeeps DEF Sim!Next

SimPartInv == part = "simulator" => SimInv

\* The invariant of the replay holds in every run.
LEMMA SimAlways == OfflineSpec => []SimPartInv
  <1>1. OfflineInit => SimPartInv
    BY SimInit DEF OfflineInit, SimPartInv
  <1>2. SimPartInv /\ [OfflineNext]_offlineVars => SimPartInv'
    <2> SUFFICES ASSUME SimPartInv, [OfflineNext]_offlineVars, part' = "simulator" PROVE SimInv'
      BY DEF SimPartInv
    <2>1. part = "simulator" /\ (Sim!Next \/ UNCHANGED Sim!vars)
      BY DEF OfflineNext, offlineVars, simGroup, Sim!vars
    <2> QED
      BY <2>1, SimNext DEF SimPartInv
  <1> QED
    BY <1>1, <1>2, PTL DEF OfflineSpec

\* What the invariant of the replay says of types, thresholds, books and stops
\* (sim.py, run; adaptive_ema.py, adapt).
LEMMA SimIsSound ==
  ASSUME SimInv
  PROVE  /\ Sim!TypeOK /\ Sim!RoundTripsAddUp /\ Sim!OnePosition /\ Sim!FlatAfterKill
  <1>1. PICK l : l = ledger
    OBVIOUS
  <1>2. l \in SimLedgers /\ l.position \in Nat /\ LedgerSound(l)
    BY <1>1 DEF SimInv, LedgerSound, SimLedgers
  <1>3. Sim!TypeOK
    <2>1. ASSUME NEW x \in Members
          PROVE  /\ members[x].window \in 0..ConfirmWindow
                 /\ \A r \in Sim!Strat!Regimes \ {"EXTREME"} :
                        members[x].thresholds[r] \in KMin..KMax
                 /\ members[x].thresholds["EXTREME"] = Defaults["EXTREME"]
      <3>1. PICK m : m = members[x]
        OBVIOUS
      <3>2. m \in Memos /\ Bounded(m.thresholds)
        BY <3>1 DEF SimInv, MemberSound
      <3>3. m.window \in 0..ConfirmWindow
        BY <3>2 DEF Memos, Windows
      <3>4. Sim!Strat!Regimes \ {"EXTREME"} = Calm
        BY DEF Sim!Strat!Regimes, Calm
      <3> QED
        BY <3>1, <3>2, <3>3, <3>4 DEF Bounded
    <2>2. Len(pending) <= 1
      <3>1. CASE pending = << >>
        BY <3>1
      <3>2. ASSUME NEW o \in SimOrders, pending = << o >> PROVE Len(pending) <= 1
        BY <3>2
      <3> QED
        BY <3>1, <3>2 DEF SimInv
    <2>3. bars \in 0..MaxBars /\ done \in BOOLEAN /\ killed \in BOOLEAN /\ own \in Nat
      BY DEF SimInv
    <2> QED
      BY <1>1, <1>2, <2>1, <2>2, <2>3 DEF Sim!TypeOK
  <1>4. Sim!RoundTripsAddUp
    <2> SUFFICES ASSUME l.position = 0
                 PROVE  Sim!Equity(l, close) = InitialCash + l.trips - l.unattributed
      BY <1>1 DEF Sim!RoundTripsAddUp
    <2>1. l.cash - l.commissions = InitialCash + l.trips - l.unattributed
      BY <1>2 DEF LedgerSound
    <2>2. PICK n \in Int : n = l.position * close /\ n = 0
      <3>1. close \in Int
        BY DEF SimInv
      <3> QED
        BY <3>1
    <2>3. l.cash \in Int /\ l.commissions \in Int
      BY <1>2 DEF SimLedgers
    <2> QED
      BY <2>1, <2>2, <2>3 DEF Sim!Equity
  <1>5. Sim!OnePosition
    BY DEF SimInv, Mirrors, Sim!OnePosition
  <1>6. Sim!FlatAfterKill
    <2> SUFFICES ASSUME killed, ~done, pending # << >>
                 PROVE  Head(pending).source = "risk" /\ Head(pending).units = -ledger.position
      BY DEF SimInv, Sim!FlatAfterKill
    <2>1. PICK o \in SimOrders : pending = << o >> /\ PendingSound(o, ledger, killed)
      BY DEF SimInv
    <2>2. Head(pending) = o
      BY <2>1
    <2>3. o.source = "risk" /\ l.position + o.units = 0 /\ o.units \in Int
      BY <1>1, <2>1 DEF PendingSound, SimOrders
    <2> QED
      BY <1>1, <1>2, <2>2, <2>3
  <1> QED
    BY <1>3, <1>4, <1>5, <1>6


\* A bar teaches one member at a time one threshold at most
\* (adaptive_ema.py, _complete_round_trip).
LEMMA BarTeachesOne ==
  ASSUME SimInv, BarTeaches \/ UNCHANGED <<members, ledger>>
  PROVE  Sim!OneLesson
  <1> DEFINE Step == IF ledger'.cash > ledger.entered.cash THEN -1 ELSE 1
             Retuned(x) == {r \in Sim!Strat!Regimes :
                             members'[x].thresholds[r] # members[x].thresholds[r]}
             Lesson(x) == /\ members[x].position > 0 /\ members'[x].position = 0
                          /\ \E r \in Retuned(x) : /\ Retuned(x) = {r}
                                 /\ members'[x].thresholds[r] = members[x].thresholds[r] + Step
  <1>1. ASSUME NEW x \in Members, Retuned(x) # {} PROVE Lesson(x)
    <2>1. PICK t, t2, l, l2 : /\ t = members[x].thresholds /\ t2 = members'[x].thresholds
                              /\ l = ledger /\ l2 = ledger'
      OBVIOUS
    <2>2. t2 # t
      BY <1>1, <2>1
    <2>3. ~killed /\ members'[x].position = l2.position /\ Taught(t, t2, l, l2)
      BY <2>1, <2>2 DEF BarTeaches
    <2>4. members[x].position = l.position
      BY <2>1, <2>3 DEF SimInv, Mirrors
    <2>5. PICK step : step = IF l2.cash > l.entered.cash THEN -1 ELSE 1
      OBVIOUS
    <2>6. PICK r \in Calm :
            /\ l.position > 0 /\ l2.position = 0
            /\ \A s \in (Calm \cup {"EXTREME"}) \ {r} : t2[s] = t[s]
            /\ t2[r] \in {t[r], t[r] + step}
      BY <2>2, <2>3, <2>5 DEF Taught
    <2>7. Sim!Strat!Regimes = Calm \cup {"EXTREME"}
      BY DEF Sim!Strat!Regimes, Calm
    <2>8. Retuned(x) = {r} /\ t2[r] = t[r] + step
      BY <1>1, <2>1, <2>6, <2>7
    <2> QED
      BY <2>1, <2>3, <2>4, <2>5, <2>6, <2>8
  <1> QED
    BY <1>1 DEF Sim!OneLesson

----------------------------------------------------------------------------
(* The types of the pipeline and the challenge. *)

\* Day files, reports and bars stay within the days there are, and a run that
\* is under way still has its entry in the ledger.
PipelineTypes ==
    /\ today \in Pipeline!Days /\ hour \in Pipeline!Hours
    /\ report # None => report.excluded \subseteq report.checked
    /\ bars \subseteq Pipeline!Files
    /\ Len(ledger) <= MaxRuns
    /\ task.cmd \in {"backtest", "record"} => Len(ledger) < MaxRuns

\* Nothing is downloaded, checked or run yet (cli.py).
LEMMA PipelineTypesInit == Pipeline!Init => PipelineTypes
  BY PipelineAssumption DEF Pipeline!Init, PipelineTypes, Pipeline!Days, Pipeline!Hours,
     Pipeline!Idle

\* Every command of the pipeline keeps the types (dukascopy.py, integrity.py,
\* resample.py, ledger.py).
LEMMA PipelineTypesNext ==
  ASSUME PipelineInv, PipelineTypes, Pipeline!Next \/ UNCHANGED Pipeline!vars
  PROVE  PipelineTypes'
  <1> DEFINE Small == Len(ledger) <= MaxRuns
                      /\ (task.cmd \in {"backtest", "record"} => Len(ledger) < MaxRuns)
             Reports == report # None => report.excluded \subseteq report.checked
             Clocks == today \in Pipeline!Days /\ hour \in Pipeline!Hours
             Cover == bars \subseteq Pipeline!Files
  <1>1. Small /\ Reports /\ Clocks /\ Cover /\ Pipeline!Idle.cmd = "none"
    BY DEF PipelineTypes, Pipeline!Idle
  <1>2. CASE Pipeline!Clock
    <2>1. /\ UNCHANGED <<raw, report, bars, ledger, task>>
          /\ \/ hour + 1 \in Pipeline!Hours /\ hour' = hour + 1 /\ today' = today
             \/ today < LastDay /\ hour' = 1 /\ today' = today + 1
      BY <1>2 DEF Pipeline!Clock
    <2>2. Clocks'
      BY <1>1, <2>1, PipelineAssumption DEF Pipeline!Days, Pipeline!Hours
    <2> QED
      BY <1>1, <2>1, <2>2 DEF PipelineTypes, Pipeline!Files
  <1>3. CASE \/ Pipeline!EditParams \/ Pipeline!Crash \/ Pipeline!Download
             \/ Pipeline!FetchHour \/ Pipeline!Downloaded \/ Pipeline!WriteResults
             \/ UNCHANGED Pipeline!vars
    <2>1. UNCHANGED <<today, hour, raw, report, bars, ledger>>
      BY <1>3 DEF Pipeline!EditParams, Pipeline!Crash, Pipeline!Download, Pipeline!FetchHour,
                  Pipeline!Downloaded, Pipeline!WriteResults, Pipeline!vars
    <2>2. task'.cmd \in {"backtest", "record"} => task.cmd \in {"backtest", "record"}
      <3>1. CASE Pipeline!FetchHour \/ Pipeline!WriteResults
        <4>1. /\ task \in [cmd : {"download"}, day : Int, next : 1..LastHour + 1,
                           got : SUBSET Pipeline!Hours, end : Int]
                 \/ task \in [cmd : {"backtest", "record"}, split : Pipeline!Splits, hash : Hashes]
          BY <1>1, <3>1 DEF PipelineInv, TaskOK, Pipeline!FetchHour, Pipeline!WriteResults
        <4> QED
          BY <3>1, <4>1 DEF Pipeline!FetchHour, Pipeline!WriteResults
      <3> QED
        BY <1>1, <1>3, <3>1 DEF Pipeline!EditParams, Pipeline!Crash, Pipeline!Download,
                                Pipeline!Downloaded, Pipeline!vars
    <2> QED
      BY <1>1, <2>1, <2>2 DEF PipelineTypes, Pipeline!Files
  <1>4. CASE Pipeline!DayDone
    <2>1. /\ UNCHANGED <<today, hour, report, bars, ledger>> /\ task.cmd = "download"
          /\ task' = [task EXCEPT !.day = @ + 1, !.next = 1, !.got = {}]
          /\ \/ raw' = raw
             \/ raw[task.day] = None /\ raw' = [raw EXCEPT ![task.day] = task.got]
      BY <1>4 DEF Pipeline!DayDone
    <2>2. task \in [cmd : {"download"}, day : Int, next : 1..LastHour + 1,
                    got : SUBSET Pipeline!Hours, end : Int]
      BY <1>1, <2>1 DEF PipelineInv, TaskOK
    <2>3. task'.cmd = "download"
      BY <2>1, <2>2
    <2>4. Pipeline!Files \subseteq Pipeline!Files'
      <3>1. raw \in [Pipeline!Days -> (SUBSET Pipeline!Hours) \cup {None}]
        BY DEF PipelineInv
      <3> QED
        BY <2>1, <3>1 DEF Pipeline!Files
    <2> QED
      BY <1>1, <2>1, <2>3, <2>4 DEF PipelineTypes
  <1>5. CASE Pipeline!Integrity \/ Pipeline!Resample
    <2>1. /\ UNCHANGED <<today, hour, raw, ledger, task>>
          /\ bars' \in {bars, Pipeline!Files}
          /\ report' \in {report, [checked |-> Pipeline!Files, excluded |-> Pipeline!Files \cap BadDays]}
      BY <1>5 DEF Pipeline!Integrity, Pipeline!Resample
    <2>2. Reports' /\ Cover'
      BY <1>1, <2>1 DEF Pipeline!Files
    <2> QED
      BY <1>1, <2>1, <2>2 DEF PipelineTypes
  <1>6. ASSUME NEW split \in Pipeline!Splits, Pipeline!Backtest(split) PROVE PipelineTypes'
    <2>1. UNCHANGED <<today, hour, raw, report, bars, ledger>> /\ Len(ledger) < MaxRuns
      BY <1>6 DEF Pipeline!Backtest
    <2> QED
      BY <1>1, <2>1 DEF PipelineTypes, Pipeline!Files
  <1>7. CASE Pipeline!Record
    <2>1. /\ UNCHANGED <<today, hour, raw, report, bars>> /\ task.cmd = "record"
          /\ task' = Pipeline!Idle
          /\ ledger' = Append(ledger, [split |-> task.split, hash |-> task.hash])
      BY <1>7 DEF Pipeline!Record
    <2>2. [split |-> task.split, hash |-> task.hash] \in Runs
      BY <1>1, <2>1 DEF PipelineInv, TaskOK, Runs
    <2>3. Len(ledger') = Len(ledger) + 1 /\ Len(ledger) \in Nat /\ MaxRuns \in Nat
      BY <2>1, <2>2, PipelineAssumption, AppendProperties DEF PipelineInv
    <2>4. Small'
      BY <1>1, <2>1, <2>3
    <2> QED
      BY <1>1, <2>1, <2>4 DEF PipelineTypes, Pipeline!Files
  <1> QED
    BY <1>2, <1>3, <1>4, <1>5, <1>6, <1>7 DEF Pipeline!Next

TypesInv ==
    /\ part = "research" => PipelineInv /\ PipelineTypes
    /\ part = "challenge" => IInv

\* The pipeline and the challenge keep their types in every run.
LEMMA TypesAlways == OfflineSpec => []TypesInv
  <1>1. OfflineInit => TypesInv
    <2>1. part = "research" /\ OfflineInit => Pipeline!Init
      BY DEF OfflineInit
    <2>2. part = "challenge" /\ OfflineInit => Init
      BY DEF OfflineInit
    <2> QED
      BY <2>1, <2>2, PipelineInit, PipelineTypesInit, InitIInv DEF TypesInv
  <1>2. TypesInv /\ [OfflineNext]_offlineVars => TypesInv'
    <2> SUFFICES ASSUME TypesInv, [OfflineNext]_offlineVars PROVE TypesInv'
      OBVIOUS
    <2>1. ASSUME part' = "research" PROVE PipelineInv' /\ PipelineTypes'
      <3>1. part = "research" /\ (Pipeline!Next \/ UNCHANGED Pipeline!vars)
        BY <2>1 DEF OfflineNext, offlineVars, researchGroup, Pipeline!vars
      <3>2. PipelineInv /\ PipelineTypes
        BY <3>1 DEF TypesInv
      <3> QED
        BY <3>1, <3>2, PipelineTypesNext, PipelineWorld, PipelineDownload, PipelineCommands
           DEF Pipeline!Next
    <2>2. ASSUME part' = "challenge" PROVE IInv'
      <3>1. part = "challenge" /\ (Next \/ UNCHANGED vars)
        BY <2>2 DEF OfflineNext, offlineVars, challengeGroup, vars
      <3> QED
        BY <3>1, NextIInv DEF TypesInv
    <2> QED
      BY <2>1, <2>2 DEF TypesInv
  <1> QED
    BY <1>1, <1>2, PTL DEF OfflineSpec

\* The pipeline and the challenge keep their types.
LEMMA TypesOfFiles ==
  OfflineSpec => [](/\ part = "research" => Pipeline!TypeOK
                    /\ part = "challenge" => TypeOK)
  <1>1. PipelineInv /\ PipelineTypes => Pipeline!TypeOK
    BY DEF PipelineInv, PipelineTypes, Pipeline!TypeOK, Pipeline!DayFilesWhole
  <1>2. IInv => TypeOK
    BY DEF IInv
  <1> QED
    BY <1>1, <1>2, TypesAlways, PTL DEF TypesInv

----------------------------------------------------------------------------
(* All parts together. *)

(***************************************************************************)
(* Every part that runs keeps its types, whatever its constants: learned   *)
(* thresholds their bounds (adaptive_ema.py, adapt), the challenge its     *)
(* counters, the day files and the bars the days there are.                *)
(***************************************************************************)
THEOREM OfflineTypes == OfflineSpec => []OfflineTypeOK
  <1>1. SimPartInv => (part = "simulator" => Sim!TypeOK)
    BY SimIsSound DEF SimPartInv
  <1> QED
    BY <1>1, SimAlways, PaperBooksHold, TypesOfFiles, PTL DEF OfflineTypeOK

(***************************************************************************)
(* Money and positions add up in all three replays, for every series of    *)
(* prices, every split of the fills and every vote of the members (sim.py, *)
(* _on_oms_fill; backtest.py, run_backtest; engine.py, _close).            *)
(***************************************************************************)
THEOREM AccountsAlwaysAddUp == OfflineSpec => []AccountsAddUp
  <1>1. SimPartInv => (part = "simulator" => Sim!RoundTripsAddUp /\ Sim!OnePosition)
    BY SimIsSound DEF SimPartInv
  <1> QED
    BY <1>1, SimAlways, PaperBooksHold, BacktestAddsUp, PTL DEF AccountsAddUp

(***************************************************************************)
(* A stop sells everything and lets nothing in again in all three replays  *)
(* (sim.py, _kill_switch_fired; backtest.py, run_backtest; engine.py,      *)
(* _advance).                                                              *)
(***************************************************************************)
THEOREM StopsAlwaysHold == OfflineSpec => []StopsHold
  <1>1. SimPartInv => (part = "simulator" => Sim!FlatAfterKill)
    BY SimIsSound DEF SimPartInv
  <1> QED
    BY <1>1, SimAlways, PaperBooksHold, BacktestAddsUp, PTL DEF StopsHold

(***************************************************************************)
(* A member learns from complete round trips only, one threshold by one    *)
(* step, in the direction of what the account made on it (adaptive_ema.py, *)
(* on_own_fill, _complete_round_trip).                                     *)
(***************************************************************************)
THEOREM OneLessonAlways == OfflineSpec => OneLessonPerTrip
  <1>1. SimPartInv /\ [OfflineNext]_offlineVars
            => [part = "simulator" => Sim!OneLesson]_offlineVars
    <2> SUFFICES ASSUME SimPartInv, [OfflineNext]_offlineVars, part = "simulator"
                 PROVE  Sim!OneLesson
      OBVIOUS
    <2>1. Sim!Next \/ UNCHANGED Sim!vars
      BY DEF OfflineNext, offlineVars, simGroup, Sim!vars
    <2>2. SimInv
      BY DEF SimPartInv
    <2> QED
      BY <2>1, <2>2, SimNext, BarTeachesOne
  <1> QED
    BY <1>1, SimAlways, PTL DEF OfflineSpec, OneLessonPerTrip
============================================================================
