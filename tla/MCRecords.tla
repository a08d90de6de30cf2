----------------------------- MODULE MCRecords -----------------------------
(***************************************************************************)
(* The two records that must survive the death of the process writing      *)
(* them: the state file of the paper trader (StateStore) and runner.json   *)
(* of ftmo-bot (RunnerStep).  They share nothing, so the first state       *)
(* chooses the part that runs and the other stays as it is.                *)
(***************************************************************************)
EXTENDS RunnerStep

CONSTANTS MaxVersion, Fresh, Refused  \* of StateStore

ASSUME RecordsAssumption ==
    /\ MaxVersion \in Nat
    /\ Fresh # Refused
    /\ {Fresh, Refused} \cap Nat = {}

VARIABLES part, dir, dirs, job, version, saved

Store == INSTANCE StateStore WITH pc <- job, next <- version

recordsVars == <<part, dir, dirs, job, version, saved, vars>>

RecordsInit == part \in {"store", "step"} /\ Init /\ Store!Init

RecordsNext ==
    \/ part = "store" /\ Store!Next /\ UNCHANGED <<part, vars>>
    \/ part = "step" /\ Next /\ UNCHANGED <<part, dir, dirs, job, version, saved>>

\* The fairness of RunnerStep's FairSpec, for its part.
RecordsFairness ==
    /\ WF_vars(part = "step" /\ Book)
    /\ WF_vars(part = "step" /\ (Save \/ Bars \/ Abort))
    /\ WF_vars(part = "step" /\ Appear)

RecordsSpec == RecordsInit /\ [][RecordsNext]_recordsVars /\ RecordsFairness

----------------------------------------------------------------------------
(***************************************************************************)
(* The backup stands in for an interrupted save (state.py, save and load); *)
(* and the variables of both parts keep their types, so that no version is *)
(* durable that was never handed to save and no ticket is counted that was *)
(* never given out.                                                        *)
(***************************************************************************)
Recoverable == TypeOK /\ Store!TypeOK /\ Store!Recoverable

(***************************************************************************)
(* state.py: "Writes are atomic"; only damage from outside tears the file. *)
(***************************************************************************)
OnlyDamageTears == Store!OnlyDamageTears

(***************************************************************************)
(* The three files of the paper trader implement one durable register      *)
(* (state.py, StateStore).                                                 *)
(***************************************************************************)
ImplementsRegister == Store!ImplementsRegister
=============================================================================
