------------------------------ MODULE Research ------------------------------
(***************************************************************************)
(* The offline pipeline of ftmo-bot, one command after the other: the      *)
(* download of tick days (data/dukascopy.py), their integrity report       *)
(* (data/integrity.py), the bars (data/resample.py), the backtest of a     *)
(* split under the run ledger (cli.py, cmd_backtest; backtest/ledger.py).  *)
(* Any command can die between two of its writes.                          *)
(***************************************************************************)
EXTENDS Integers, Sequences, FiniteSetsExt

CONSTANTS LastHour,    \* hours of a day
          FirstDay, LastDay,
          BadDays,     \* days whose ticks fail the checks
          Hashes,      \* params_hash of the strategy files there are
          MaxRuns,     \* bound: entries of the ledger
          MaxCrashes,  \* bound: commands that die
          None

Splits == {"insample", "oos", "holdout"}

VARIABLES today, hour,   \* the UTC clock
          raw,           \* day files: the hours each holds, or None
          report,        \* integrity report: [checked, excluded], or None
          bars,          \* days the bars cover
          hash,          \* of the current strategy.yaml
          ledger,        \* [split, hash], in order
          results,       \* parameters of the results of each split, or None
          task,          \* the running command and what it holds
          crashes

vars == <<today, hour, raw, report, bars, hash, ledger, results, task, crashes>>

Days == FirstDay..LastDay
Hours == 1..LastHour
Idle == [cmd |-> "none"]
Files == {d \in Days : raw[d] # None}

TypeOK ==
    /\ today \in Days /\ hour \in Hours
    /\ \A d \in Files : raw[d] \subseteq Hours
    /\ report # None => report.excluded \subseteq report.checked
    /\ bars \subseteq Files
    /\ Len(ledger) <= MaxRuns

Init ==
    /\ today = FirstDay /\ hour = 1
    /\ raw = [d \in Days |-> None]
    /\ report = None /\ bars = {}
    /\ hash \in Hashes
    /\ ledger = <<>> /\ results = [s \in Splits |-> None]
    /\ task = Idle /\ crashes = 0

----------------------------------------------------------------------------
(* The world. *)

Clock ==
    /\ IF hour + 1 \in Hours THEN hour' = hour + 1 /\ today' = today
       ELSE today < LastDay /\ hour' = 1 /\ today' = today + 1
    /\ UNCHANGED <<raw, report, bars, hash, ledger, results, task, crashes>>

EditParams ==
    /\ task = Idle
    /\ hash' \in Hashes
    /\ UNCHANGED <<today, hour, raw, report, bars, ledger, results, task, crashes>>

Crash ==
    /\ task # Idle
    /\ crashes < MaxCrashes
    /\ crashes' = crashes + 1
    /\ task' = Idle
    /\ UNCHANGED <<today, hour, raw, report, bars, hash, ledger, results>>

\* The feed: an hour that has not begun is a 404, which reads as no ticks.
Served(d, h) == d < today \/ (d = today /\ h <= hour)

----------------------------------------------------------------------------
(* Download. *)

\* download_range never asks for the running day.
EndOfRange == today - 1

Download ==
    /\ task = Idle
    /\ task' = [cmd |-> "download", day |-> FirstDay, next |-> 1, got |-> {}, end |-> EndOfRange]
    /\ UNCHANGED <<today, hour, raw, report, bars, hash, ledger, results, crashes>>

\* download_day skips a day that has its file, fetches the hours of another ...
FetchHour ==
    /\ task.cmd = "download"
    /\ task.day <= task.end /\ raw[task.day] = None
    /\ task.next \in Hours
    /\ task' = [task EXCEPT !.next = @ + 1,
                            !.got = IF Served(task.day, task.next) THEN @ \cup {task.next} ELSE @]
    /\ UNCHANGED <<today, hour, raw, report, bars, hash, ledger, results, crashes>>

\* ... and renames the finished file into place.
DayDone ==
    /\ task.cmd = "download"
    /\ task.day <= task.end
    /\ IF raw[task.day] # None THEN raw' = raw
       ELSE task.next \notin Hours /\ raw' = [raw EXCEPT ![task.day] = task.got]
    /\ task' = [task EXCEPT !.day = @ + 1, !.next = 1, !.got = {}]
    /\ UNCHANGED <<today, hour, report, bars, hash, ledger, results, crashes>>

Downloaded ==
    /\ task.cmd = "download"
    /\ task.day > task.end
    /\ task' = Idle
    /\ UNCHANGED <<today, hour, raw, report, bars, hash, ledger, results, crashes>>

----------------------------------------------------------------------------
(* Integrity and resampling read whatever day files there are. *)

Integrity ==
    /\ task = Idle
    /\ report' = [checked |-> Files, excluded |-> Files \cap BadDays]
    /\ UNCHANGED <<today, hour, raw, bars, hash, ledger, results, task, crashes>>

Resample ==
    /\ task = Idle
    /\ bars' = Files
    /\ UNCHANGED <<today, hour, raw, report, hash, ledger, results, task, crashes>>

----------------------------------------------------------------------------
(* The ledger and the backtest. *)

Done(split, h) == \E i \in DOMAIN ledger : ledger[i] = [split |-> split, hash |-> h]

AllowsAnyHash(split) ==  \* mutant: the holdout is looked up under the current hash
    CASE split = "insample" -> TRUE
      [] split = "oos"      -> Done("insample", hash) /\ ~Done("oos", hash)
      [] split = "holdout"  -> Done("oos", hash) /\ ~Done("holdout", hash)

\* check.
Allows(split) ==
    CASE split = "insample" -> TRUE
      [] split = "oos"      -> Done("insample", hash) /\ ~Done("oos", hash)
      [] split = "holdout"  -> /\ \A h \in Hashes : ~Done("holdout", h)
                               /\ Done("oos", hash)

\* cmd_backtest: refused, or started with the parameters read now.
Backtest(split) ==
    /\ task = Idle
    /\ Len(ledger) < MaxRuns
    /\ Allows(split)
    /\ report # None
    /\ bars # {}
    /\ task' = [cmd |-> "backtest", split |-> split, hash |-> hash]
    /\ UNCHANGED <<today, hour, raw, report, bars, hash, ledger, results, crashes>>

WriteResults ==
    /\ task.cmd = "backtest"
    /\ results' = [results EXCEPT ![task.split] = task.hash]
    /\ task' = [task EXCEPT !.cmd = "record"]
    /\ UNCHANGED <<today, hour, raw, report, bars, hash, ledger, crashes>>

Record ==
    /\ task.cmd = "record"
    /\ ledger' = Append(ledger, [split |-> task.split, hash |-> task.hash])
    /\ task' = Idle
    /\ UNCHANGED <<today, hour, raw, report, bars, hash, results, crashes>>

Next ==
    \/ Clock \/ EditParams \/ Crash
    \/ Download \/ FetchHour \/ DayDone \/ Downloaded
    \/ Integrity \/ Resample
    \/ \E split \in Splits : Backtest(split)
    \/ WriteResults \/ Record

Spec == Init /\ [][Next]_vars

----------------------------------------------------------------------------
(* Properties. *)

(***************************************************************************)
(* The recorded runs keep the overfitting controls: an out-of-sample run   *)
(* follows an in-sample run with the same parameters, once; the holdout    *)
(* follows an out-of-sample run, once for ever, whatever dies in between   *)
(* and however often the parameters change (ledger.py).                    *)
(***************************************************************************)
LedgerInOrder ==
    \A i \in DOMAIN ledger :
        LET r       == ledger[i]
            earlier == {ledger[j] : j \in 1..(i - 1)}
        IN  /\ r.split = "oos" => /\ [split |-> "insample", hash |-> r.hash] \in earlier
                                  /\ r \notin earlier
            /\ r.split = "holdout" => /\ [split |-> "oos", hash |-> r.hash] \in earlier
                                      /\ \A e \in earlier : e.split # "holdout"

(***************************************************************************)
(* A day file holds the whole day: one with hours missing would be skipped *)
(* by every later download (dukascopy.py, download_range, download_day).   *)
(***************************************************************************)
DayFilesWhole == \A d \in Files : raw[d] = Hours
=============================================================================
