---------------------------- MODULE SyncLock ----------------------------
(***************************************************************************)
(* What the sync lock promises: syncs take turns.  One process at a time   *)
(* is syncing, nobody takes the turn from another, and the work (what is   *)
(* checked out, and what has been deployed) changes only during a turn.    *)
(* SyncService is shown to implement it.                                   *)
(***************************************************************************)
CONSTANTS
    Procs,      \* the service and the manual syncs
    Nobody

VARIABLES
    holder,     \* who is syncing, or Nobody
    work        \* whatever syncing changes

vars == <<holder, work>>

Init == holder = Nobody

Take(p) ==
    /\ holder = Nobody
    /\ holder' = p
    /\ UNCHANGED work

Work ==
    /\ holder \in Procs
    /\ UNCHANGED holder

\* The last change of a turn and its end are one step or two.
Release ==
    /\ holder \in Procs
    /\ holder' = Nobody

Next == (\E p \in Procs : Take(p)) \/ Work \/ Release

Spec == Init /\ [][Next]_vars
=============================================================================
