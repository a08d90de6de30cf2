-------------------------- MODULE DurableRegister --------------------------
(***************************************************************************)
(* What the state file promises to the daily job: one register.  A load    *)
(* returns the version of the last completed save or of the save under     *)
(* way, or refuses; it never goes back to an older version, nor to no      *)
(* version at all, unless a human restores the backup.                     *)
(***************************************************************************)
EXTENDS Integers

CONSTANTS MaxVersion, Fresh, Refused

VARIABLES value,    \* what a load returns: a version, Fresh or Refused
          pending,  \* the version being saved; the last one when none is
          floor     \* no version older than this is ever loaded again

vars == <<value, pending, floor>>

Versions == 1..MaxVersion

Init ==
    /\ value = Fresh
    /\ pending = 0
    /\ floor = 0

\* A save begins with a version never used before.
Begin ==
    /\ pending < MaxVersion
    /\ pending' = pending + 1
    /\ UNCHANGED <<value, floor>>

\* A save in progress, a crash or a power failure: the register refuses, or
\* holds a version that is neither forgotten nor yet to come.
Change ==
    /\ value' \in {Refused} \cup {v \in Versions : floor <= v /\ v <= pending}
                    \cup (IF floor = 0 THEN {Fresh} ELSE {})
    /\ UNCHANGED <<pending, floor>>

\* The save is complete: only damage can still take away what it wrote.
Complete ==
    /\ value \in {pending, Refused}
    /\ floor' = pending
    /\ UNCHANGED <<value, pending>>

\* A human restores an older version over a refused one.
Restore ==
    /\ value = Refused
    /\ \E v \in Versions :
        /\ v <= pending
        /\ value' = v
        /\ floor' = v
    /\ UNCHANGED pending

Next == Begin \/ Change \/ Complete \/ Restore

Spec == Init /\ [][Next]_vars
=============================================================================
