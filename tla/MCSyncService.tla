-------------------------- MODULE MCSyncService --------------------------
(***************************************************************************)
(* Instances of SyncService: two repositories, a and b, and configurations *)
(* that add, drop and retime them.                                         *)
(***************************************************************************)
EXTENDS SyncService

CONSTANTS a, b, c1, c2

\* c1: a without an interval, so a sleep of DefaultTick; c2: a and b at every tick
NoTime == [c \in {c1, c2} |->
              IF c = c1 THEN [r \in {a} |-> NoInterval] ELSE [r \in {a, b} |-> 0]]

\* c1: a every 1, b without an interval; c2: b every 1
Timed == [c \in {c1, c2} |->
             IF c = c1 THEN [r \in {a, b} |-> IF r = a THEN 1 ELSE NoInterval]
             ELSE [r \in {b} |-> 1]]
=============================================================================
