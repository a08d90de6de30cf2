----------------------------- MODULE StateStore -----------------------------
(***************************************************************************)
(* engine/state.py, StateStore, at the granularity of file operations: the *)
(* state file, its backup and the temporary file, a process that can be    *)
(* killed between any two operations, a power failure that undoes what no  *)
(* fsync made durable, damage from outside and a human who restores the    *)
(* backup.  A file's content is a version number, checksummed: it is       *)
(* whole, torn or absent.                                                  *)
(*                                                                         *)
(* Renames and creations reach the disk in order, so a power failure       *)
(* exposes the directory as it was after some of those not yet synced.     *)
(***************************************************************************)
EXTENDS Integers

CONSTANTS MaxVersion,  \* bound: saves begun in a behaviour
          Fresh, Refused

VARIABLES dir,    \* the files as processes see them: [main, bak, tmp]
          dirs,   \* the directories a power failure can leave
          pc,     \* where the job stands
          next,   \* the last version handed to save
          saved   \* the last version whose save is complete and durable

vars == <<dir, dirs, pc, next, saved>>

Names == {"main", "bak", "tmp"}

Versions == 1..MaxVersion

Absent == [kind |-> "absent", version |-> 0, synced |-> TRUE]
Torn   == [kind |-> "torn", version |-> 0, synced |-> TRUE]
Whole(v, synced) == [kind |-> "whole", version |-> v, synced |-> synced]

Is(d, f, kind) == d[f].kind = kind

LoadDefaults(d) ==  \* mutant: what does not read well is a first run
    IF Is(d, "main", "whole") THEN d["main"].version ELSE Fresh

\* load: what does not read well is refused, and so is a lone backup.
Load(d) ==
    CASE Is(d, "main", "whole") -> d["main"].version
      [] Is(d, "main", "absent") /\ Is(d, "bak", "absent") -> Fresh
      [] OTHER -> Refused

Init ==
    /\ dir = [f \in Names |-> Absent]
    /\ dirs = {dir}
    /\ pc = "idle"
    /\ next = 0
    /\ saved = 0

\* A directory operation: visible now, durable at the latest with SyncDir.
Becomes(d) ==
    /\ dir' = d
    /\ dirs' = dirs \cup {d}

\* A content that reached the disk did so wherever the file is linked.
ContentSynced(d) ==
    [f \in Names |-> IF Is(d, f, "whole") THEN Whole(d[f].version, TRUE) ELSE d[f]]

----------------------------------------------------------------------------
(* The job: load, then any number of saves. *)

\* main: a run starts; no file at all is bootstrapped by a save.
Open ==
    /\ pc = "idle"
    /\ pc' = CASE Load(dir) = Refused -> "idle"
               [] Load(dir) = Fresh -> "save"
               [] Load(dir) \notin {Fresh, Refused} -> "running"
    /\ UNCHANGED <<dir, dirs, next, saved>>

Exit ==
    /\ pc = "running"
    /\ pc' = "idle"
    /\ UNCHANGED <<dir, dirs, next, saved>>

\* save: open(tmp, "w") truncates whatever an earlier crash left there.
OpenTmp ==
    /\ pc \in {"running", "save"}
    /\ next < MaxVersion
    /\ next' = next + 1
    /\ Becomes([dir EXCEPT !["tmp"] = Torn])
    /\ pc' = "write"
    /\ UNCHANGED saved

WriteTmp ==
    /\ pc = "write"
    /\ Becomes([dir EXCEPT !["tmp"] = Whole(next, FALSE)])
    /\ pc' = "fsync"
    /\ UNCHANGED <<next, saved>>

FsyncTmpForgotten ==  \* mutant: no fsync before the rename
    /\ pc = "fsync"
    /\ pc' = "check"
    /\ UNCHANGED <<dir, dirs, next, saved>>

FsyncTmp ==
    /\ pc = "fsync"
    /\ dir' = ContentSynced(dir)
    /\ dirs' = {ContentSynced(d) : d \in dirs}
    /\ pc' = "check"
    /\ UNCHANGED <<next, saved>>

RetiresAnything(d) == ~Is(d, "main", "absent")  \* mutant: the backup is not validated

\* Only a main file that still reads well may replace the backup.
Retires(d) == Is(d, "main", "whole")

CheckMain ==
    /\ pc = "check"
    /\ pc' = IF Retires(dir) THEN "retire" ELSE "replace"
    /\ UNCHANGED <<dir, dirs, next, saved>>

\* os.replace(main, bak); its failure is swallowed.
RetireMain ==
    /\ pc = "retire"
    /\ \/ Becomes([dir EXCEPT !["bak"] = dir["main"], !["main"] = Absent])
       \/ UNCHANGED <<dir, dirs>>
    /\ pc' = "replace"
    /\ UNCHANGED <<next, saved>>

\* os.replace(tmp, main).
ReplaceMain ==
    /\ pc = "replace"
    /\ Becomes([dir EXCEPT !["main"] = dir["tmp"], !["tmp"] = Absent])
    /\ pc' = "sync"
    /\ UNCHANGED <<next, saved>>

\* _fsync_dir: an OSError is swallowed and the renames stay volatile.
SyncDir ==
    /\ pc = "sync"
    /\ \/ dirs' = {dir} /\ saved' = next
       \/ UNCHANGED <<dirs, saved>>
    /\ pc' = "running"
    /\ UNCHANGED <<dir, next>>

----------------------------------------------------------------------------
(* The environment (external). *)

Kill ==
    /\ pc # "idle"
    /\ pc' = "idle"
    /\ UNCHANGED <<dir, dirs, next, saved>>

\* What no fsync made durable is torn or undone.
PowerLoss ==
    /\ \E d \in dirs :
        dir' = [f \in Names |-> IF d[f].synced THEN d[f] ELSE Torn]
    /\ dirs' = {dir'}
    /\ pc' = "idle"
    /\ UNCHANGED <<next, saved>>

\* A merge conflict, an editor or a bad disk tears the state file while no
\* save is under way.
Damage ==
    /\ pc \in {"idle", "running"}
    /\ Is(dir, "main", "whole")
    /\ dir' = [dir EXCEPT !["main"] = Torn]
    /\ dirs' = {[d EXCEPT !["main"] = IF @ = dir["main"] THEN Torn ELSE @] : d \in dirs}
    /\ UNCHANGED <<pc, next, saved>>

\* A human inspects the refused state and restores the backup.
Restore ==
    /\ pc = "idle"
    /\ Load(dir) = Refused
    /\ Is(dir, "bak", "whole")
    /\ dir' = [dir EXCEPT !["main"] = dir["bak"]]
    /\ dirs' = {dir'}
    /\ saved' = dir["bak"].version
    /\ UNCHANGED <<pc, next>>

Next ==
    \/ Open \/ Exit
    \/ OpenTmp \/ WriteTmp \/ FsyncTmp \/ CheckMain \/ RetireMain
    \/ ReplaceMain \/ SyncDir
    \/ Kill \/ PowerLoss \/ Damage \/ Restore

Spec == Init /\ [][Next]_vars

----------------------------------------------------------------------------
(* Properties. *)

Contents ==
    {Absent, Torn} \cup {Whole(v, s) : v \in Versions, s \in BOOLEAN}

Directories == [Names -> Contents]

TypeOK ==
    /\ dir \in Directories
    /\ dirs \subseteq Directories
    /\ dir \in dirs
    /\ pc \in {"idle", "running", "save", "write", "fsync", "check", "retire",
               "replace", "sync"}
    /\ next \in 0..MaxVersion
    /\ saved \in 0..next

(***************************************************************************)
(* save ("only back up a VALID file") and load ("interrupted save?"): the  *)
(* backup always reads, is never newer than the state file it stands       *)
(* behind, and when that file is missing it holds the last completed save  *)
(* or a later one, whatever dies in between: a human loses nothing.        *)
(***************************************************************************)
Recoverable ==
    /\ ~Is(dir, "bak", "torn")
    /\ Is(dir, "bak", "whole") /\ Is(dir, "main", "whole") =>
            dir["bak"].version <= dir["main"].version
    /\ saved > 0 /\ Is(dir, "main", "absent") =>
            Is(dir, "bak", "whole") /\ dir["bak"].version >= saved

(***************************************************************************)
(* state.py: "Writes are atomic".  No kill and no power failure ever turns *)
(* a state file into a torn one: from a disk that holds none, only damage  *)
(* from outside leads to one.                                              *)
(***************************************************************************)
OnlyDamageTears ==
    [][(\A d \in dirs : ~Is(d, "main", "torn")) /\ Is(dir', "main", "torn") => Damage]_vars

(***************************************************************************)
(* The three files implement one durable register.                         *)
(***************************************************************************)
Register == INSTANCE DurableRegister
    WITH value <- Load(dir), pending <- next, floor <- saved

ImplementsRegister == Register!Spec
=============================================================================
