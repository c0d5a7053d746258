------------------------ MODULE SyncServiceProofs ------------------------
(* Proofs about SyncService, for every set of repositories, configurations and *)
(* manual syncs, and without any bound on edits, failures and deaths.          *)
EXTENDS SyncService, WellFoundedInduction, TLAPS

-----------------------------------------------------------------------------
(* Lemmas about the operators *)

LEMMA CappedTyped == \A n, top \in Nat : Capped(n, top) \in Nat
BY DEF Capped

\* A non-empty set of natural numbers has a least element.
LEMMA LeastNatural ==
  ASSUME NEW S, S \subseteq Nat, S # {}
  PROVE  \E i \in S : \A j \in S : i <= j
<1>1. PICK i \in S : \A j \in S : <<j, i>> \notin OpToRel(<, Nat)
  BY NatLessThanWellFounded, WFMin, Zenon
<1>2. ASSUME NEW j \in S PROVE i <= j
  <2>1. <<j, i>> \notin {ss \in Nat \X Nat : ss[1] < ss[2]}
    BY <1>1 DEF OpToRel
  <2> QED
    BY <2>1
<1> QED
  BY <1>2

LEMMA MinIntervalTyped == \A c \in Configs : MinInterval(c) \in Nat
<1> TAKE c \in Configs
<1>1. Intervals(c) \subseteq Nat
  BY ConstantsOK DEF Intervals
<1>2. CASE Intervals(c) = {}
  BY <1>2, ConstantsOK DEF MinInterval
<1>3. CASE Intervals(c) # {}
  BY <1>1, <1>3, LeastNatural DEF MinInterval
<1> QED
  BY <1>2, <1>3

LEMMA DueTyped == \A c \in Configs : Due(c) \subseteq Repos
BY ConstantsOK DEF Due

LEMMA OlderTyped ==
  ASSUME age \in [Repos -> Nat \cup {NoEntry}]
  PROVE  Older \in [Repos -> Nat \cup {NoEntry}]
BY ConstantsOK, CappedTyped DEF Older

Phases == Syncing \cup Applying \cup Loop \cup InTick \cup Stopped \cup
          {"start", "intervals", "watch", "seed", "idle", "wait", "sync", "apply"}

LEMMA AfterSyncTyped ==
  \A ph \in Syncing \cup {"sync"} : AfterSync(ph) \in Phases
BY DEF AfterSync, Phases, Syncing, Applying

-----------------------------------------------------------------------------
(* Types *)

LEMMA TypeInit == Init => TypeOK
<1> SUFFICES ASSUME Init PROVE TypeOK
  OBVIOUS
<1> USE ConstantsOK DEF Init, Procs
<1>1. /\ pc \in [Procs -> {"start", "idle"}]
      /\ config \in [Procs -> Configs] /\ loading \in Configs /\ file \in Files
  BY DEF Files
<1>2. /\ age \in [Repos -> Nat \cup {NoEntry}]
      /\ upstream \in [Repos -> Nat] /\ head \in [Repos -> Nat]
      /\ changes \in [Procs -> SUBSET (Repos \X Nat)]
      /\ told \subseteq Repos \X Nat /\ lost \subseteq Repos \X Nat
  OBVIOUS
<1>3. used \in [{"edits", "pushes", "runs", "faults"} -> Nat]
  OBVIOUS
<1> QED
  BY <1>1, <1>2, <1>3 DEF TypeOK

LEMMA FaultTyped == TypeOK /\ Fault => used' \in [{"edits", "pushes", "runs", "faults"} -> Nat]
BY DEF TypeOK, Fault, Use

LEMMA VisitTyped ==
  ASSUME TypeOK, NEW p \in Procs, NEW r \in Repos, MayVisit(p, r)
  PROVE  todo' \in [Procs -> SUBSET Repos]
BY DEF TypeOK, MayVisit

LEMMA StampTyped ==
  ASSUME TypeOK, NEW p \in Procs, NEW r \in Repos, Stamp(p, r)
  PROVE  age' \in [Repos -> Nat \cup {NoEntry}]
BY DEF TypeOK, Stamp

LEMMA ApplyTyped ==
  ASSUME TypeOK, NEW p \in Procs, ApplyChanges(p)
  PROVE  /\ changes' \in [Procs -> SUBSET (Repos \X Nat)]
         /\ upstream' \in [Repos -> Nat] /\ head' \in [Repos -> Nat]
         /\ told' \subseteq Repos \X Nat /\ lost' \subseteq Repos \X Nat
<1> DEFINE Commits == Repos \X Nat
<1>1. /\ changes \in [Procs -> SUBSET Commits] /\ told \subseteq Commits /\ lost \subseteq Commits
      /\ upstream \in [Repos -> Nat] /\ head \in [Repos -> Nat]
  BY DEF TypeOK
<1> HIDE DEF Commits
<1>2. /\ changes' \in [Procs -> SUBSET Commits] /\ told' \subseteq Commits /\ lost' \subseteq Commits
      /\ upstream' \in [Repos -> Nat] /\ head' \in [Repos -> Nat]
  BY <1>1 DEF ApplyChanges
<1> QED
  BY <1>2 DEF Commits

\* What a visit moves and hands over: HEAD goes to a commit of the remote, and what
\* it brings is a set of commits.
LEMMA BehindTyped ==
  ASSUME TypeOK, NEW r \in Repos, NEW c \in Nat
  PROVE  Behind(r, c) \subseteq Repos \X Nat
<1>1. head[r] \in Nat
  BY DEF TypeOK
<1>2. head[r] + 1 .. c \subseteq Nat
  BY <1>1
<1> QED
  BY <1>2 DEF Behind

LEMMA MoveTyped ==
  ASSUME TypeOK, NEW r \in Repos, NEW c \in Nat, MoveHead(r, c)
  PROVE  head' \in [Repos -> Nat]
BY DEF TypeOK, MoveHead

LEMMA HandOverTyped ==
  ASSUME TypeOK, NEW p \in Procs, NEW S, S \subseteq Repos \X Nat, HandOver(p, S)
  PROVE  changes' \in [Procs -> SUBSET (Repos \X Nat)]
<1> DEFINE Commits == Repos \X Nat
<1>1. changes \in [Procs -> SUBSET Commits] /\ S \subseteq Commits
  BY DEF TypeOK
<1> HIDE DEF Commits
<1>2. changes' \in [Procs -> SUBSET Commits]
  BY <1>1 DEF HandOver
<1> QED
  BY <1>2 DEF Commits

LEMMA TypeStep == TypeOK /\ [Next]_vars => TypeOK'
<1> SUFFICES ASSUME TypeOK, [Next]_vars PROVE TypeOK'
  OBVIOUS
<1> USE ConstantsOK DEF Procs, Goto, Fault, Use, Stopped
<1> /\ Service \in Procs /\ MaxEvents \in Nat /\ MaxAge \in Nat
    /\ notes \in Nat /\ spent \in Nat /\ age \in [Repos -> Nat \cup {NoEntry}]
  BY DEF TypeOK
<1>1. ASSUME NEW f \in Files, Edit(f) PROVE TypeOK'
  <2>1. newer' \in BOOLEAN /\ unheard' \in BOOLEAN
    BY <1>1 DEF TypeOK, Edit
  <2>2. events' \in Nat
    BY <1>1, CappedTyped DEF TypeOK, Edit
  <2> QED
    BY <1>1, <2>1, <2>2 DEF TypeOK, Edit, mine, sched, repo
<1>2. CASE Notify
  <2>1. events' \in Nat /\ notes' \in Nat
    BY <1>2, CappedTyped DEF TypeOK, Notify
  <2> QED
    BY <1>2, <2>1 DEF TypeOK, Notify, mine, sched, repo
<1>3. ASSUME NEW p \in Procs, NEW r \in Repos, SkipRepo(p, r) PROVE TypeOK'
  <2>1. /\ todo' \in [Procs -> SUBSET Repos]
        /\ used' \in [{"edits", "pushes", "runs", "faults"} -> Nat]
    BY <1>3, FaultTyped, VisitTyped DEF SkipRepo
  <2> QED
    BY <1>3, <2>1 DEF TypeOK, SkipRepo, mine, sched, repo, conf
<1>4. ASSUME NEW p \in Procs, NEW r \in Repos, FailRepo(p, r) PROVE TypeOK'
  <2>0. MayVisit(p, r) /\ Fault /\ Stamp(p, r)
    BY <1>4 DEF FailRepo
  <2>1. /\ todo' \in [Procs -> SUBSET Repos]
        /\ used' \in [{"edits", "pushes", "runs", "faults"} -> Nat]
        /\ age' \in [Repos -> Nat \cup {NoEntry}]
    BY <1>4, <2>0, FaultTyped, VisitTyped, StampTyped
  <2>2. upstream[r] \in Nat /\ head[r] \in Nat
    BY DEF TypeOK
  <2>3. PICK c \in {head[r], upstream[r]} : MoveHead(r, c) /\ lost' = lost \cup Behind(r, c)
    BY <1>4 DEF FailRepo
  <2>4. c \in Nat
    BY <2>2
  <2>5. head' \in [Repos -> Nat] /\ Behind(r, c) \subseteq Repos \X Nat
    BY <2>3, <2>4, MoveTyped, BehindTyped
  <2>6. lost' \subseteq Repos \X Nat
    BY <2>3, <2>5 DEF TypeOK
  <2> QED
    BY <1>4, <2>1, <2>5, <2>6 DEF TypeOK, FailRepo, Visited, sched, conf
<1>5. ASSUME NEW p \in Procs, NEW r \in Repos, SyncRepo(p, r) PROVE TypeOK'
  <2>0. MayVisit(p, r) /\ Stamp(p, r)
    BY <1>5 DEF SyncRepo
  <2>1. /\ todo' \in [Procs -> SUBSET Repos]
        /\ used' \in [{"edits", "pushes", "runs", "faults"} -> Nat]
        /\ age' \in [Repos -> Nat \cup {NoEntry}]
    BY <1>5, <2>0, VisitTyped, StampTyped DEF TypeOK, SyncRepo
  <2>2. upstream[r] \in Nat /\ head[r] \in Nat
    BY DEF TypeOK
  <2>3. MoveHead(r, upstream[r])
    BY <1>5 DEF SyncRepo
  <2>4. Behind(r, upstream[r]) \subseteq Repos \X Nat
    BY <2>2, BehindTyped
  <2>5. head' \in [Repos -> Nat]
    BY <2>2, <2>3, MoveTyped
  <2>6. lost' \subseteq Repos \X Nat
    BY <1>5, <2>4 DEF TypeOK, SyncRepo
  <2>9. changes' \in [Procs -> SUBSET (Repos \X Nat)]
    BY <1>5, <2>4, HandOverTyped DEF SyncRepo
  <2> QED
    BY <1>5, <2>1, <2>5, <2>6, <2>9 DEF TypeOK, SyncRepo, Visited, sched, conf
<1>34. ASSUME NEW p \in Procs, NEW r \in Repos, DiffFails(p, r) PROVE TypeOK'
  <2>0. MayVisit(p, r) /\ Fault /\ Stamp(p, r)
    BY <1>34 DEF DiffFails
  <2>1. /\ todo' \in [Procs -> SUBSET Repos]
        /\ used' \in [{"edits", "pushes", "runs", "faults"} -> Nat]
        /\ age' \in [Repos -> Nat \cup {NoEntry}]
    BY <1>34, <2>0, FaultTyped, VisitTyped, StampTyped
  <2>2. upstream[r] \in Nat /\ head[r] \in Nat
    BY DEF TypeOK
  <2>3. MoveHead(r, upstream[r])
    BY <1>34 DEF DiffFails
  <2>4. Behind(r, upstream[r]) \subseteq Repos \X Nat
    BY <2>2, BehindTyped
  <2>5. head' \in [Repos -> Nat]
    BY <2>2, <2>3, MoveTyped
  <2>6. lost' \subseteq Repos \X Nat
    BY <1>34, <2>4 DEF TypeOK, DiffFails
  <2> QED
    BY <1>34, <2>1, <2>5, <2>6 DEF TypeOK, DiffFails, Visited, sched, conf
<1>35. ASSUME NEW p \in Procs, NEW r \in Repos, CountAllFiles(p, r) PROVE TypeOK'
  <2>0. MayVisit(p, r) /\ Fault /\ Stamp(p, r)
    BY <1>35 DEF CountAllFiles
  <2>1. /\ todo' \in [Procs -> SUBSET Repos]
        /\ used' \in [{"edits", "pushes", "runs", "faults"} -> Nat]
        /\ age' \in [Repos -> Nat \cup {NoEntry}]
    BY <1>35, <2>0, FaultTyped, VisitTyped, StampTyped
  <2>2. upstream[r] \in Nat /\ head[r] \in Nat
    BY DEF TypeOK
  <2>3. MoveHead(r, upstream[r])
    BY <1>35 DEF CountAllFiles
  <2>4. Behind(r, upstream[r]) \subseteq Repos \X Nat
    BY <2>2, BehindTyped
  <2>5. head' \in [Repos -> Nat]
    BY <2>2, <2>3, MoveTyped
  <2>6. lost' \subseteq Repos \X Nat
    BY <1>35, <2>4 DEF TypeOK, CountAllFiles
  <2>7. 1 .. upstream[r] \subseteq Nat
    BY <2>2
  <2>8. {r} \X (1 .. upstream[r]) \subseteq Repos \X Nat
    BY <2>7
  <2>9. changes' \in [Procs -> SUBSET (Repos \X Nat)]
    BY <1>35, <2>8, HandOverTyped DEF CountAllFiles
  <2> QED
    BY <1>35, <2>1, <2>5, <2>6, <2>9 DEF TypeOK, CountAllFiles, Visited, sched, conf
<1>6. ASSUME NEW p \in Procs, EndSync(p) PROVE TypeOK'
  BY <1>6, AfterSyncTyped DEF TypeOK, EndSync, Phases, mine, sched, repo, conf
<1>7. CASE BreakTick
  BY <1>7 DEF TypeOK, BreakTick, mine, sched, repo, conf
<1>8. CASE AcquireAtStart
  BY <1>8 DEF TypeOK, AcquireAtStart, Syncing, mine, sched, repo, conf
<1>9. CASE NoLockAtStart
  BY <1>9 DEF TypeOK, NoLockAtStart, mine, sched, repo, conf
<1>10. CASE ApplyAtStart
  BY <1>10, ApplyTyped DEF TypeOK, ApplyAtStart, mine, sched, repo, conf
<1>11. CASE StartIntervals
  BY <1>11 DEF TypeOK, StartIntervals, mine, sched, repo, conf
<1>12. CASE StartWatching
  BY <1>12 DEF TypeOK, StartWatching, mine, sched, repo, conf
<1>13. CASE SeedMtime
  BY <1>13, MinIntervalTyped DEF TypeOK, SeedMtime, Loop, mine, sched, repo, conf
<1>14. CASE Stop
  BY <1>14 DEF TypeOK, Stop, mine, sched, repo, conf
<1>15. CASE Poll
  <2>a. notes + 1 \in Nat
    OBVIOUS
  <2>0. Capped(notes + 1, MaxEvents) \in Nat
    BY <2>a, CappedTyped
  <2>1. notes' \in Nat /\ newer' \in BOOLEAN
    BY <1>15, <2>0 DEF TypeOK, Poll
  <2> QED
    BY <1>15, <2>1 DEF TypeOK, Poll, Loop, mine, sched, repo
<1>16. CASE TryAcquire
  BY <1>16 DEF TypeOK, TryAcquire, InTick, mine, sched, repo, conf
<1>17. CASE SkipTick
  BY <1>17 DEF TypeOK, SkipTick, Loop, mine, sched, repo, conf
<1>18. CASE Receive
  <2>1. CASE notes > 0
    <3>1. notes' \in Nat
      BY <1>18, <2>1 DEF Receive
    <3>2. pc' = [pc EXCEPT ![Service] = "drain"]
      BY <1>18, <2>1 DEF Receive
    <3> QED
      BY <1>18, <3>1, <3>2 DEF TypeOK, Receive, InTick, mine, sched, repo
  <2>2. CASE ~(notes > 0)
    BY <1>18, <2>2 DEF TypeOK, Receive, InTick, mine, sched, repo
  <2> QED
    BY <2>1, <2>2
<1>19. CASE Drain
  BY <1>19 DEF TypeOK, Drain, InTick, mine, sched, repo, conf
<1>20. CASE Load
  <2>1. CASE file \in Configs
    <3>1. DOMAIN Every[file] \subseteq Repos
      BY <2>1
    <3>2. todo' \in [Procs -> SUBSET Repos]
      BY <1>20, <2>1, <3>1 DEF TypeOK, Load
    <3>3. age' = [r \in Repos |-> IF r \in DOMAIN Every[file] /\ age[r] = NoEntry
                                 THEN 0 ELSE age[r]]
      BY <1>20, <2>1 DEF Load
    <3>4. age' \in [Repos -> Nat \cup {NoEntry}]
      BY <3>3
    <3> QED
      BY <1>20, <2>1, <3>2, <3>4 DEF TypeOK, Load, InTick, mine, sched, repo
  <2>2. CASE file \notin Configs
    BY <1>20, <2>2 DEF TypeOK, Load, InTick, mine, sched, repo
  <2> QED
    BY <2>1, <2>2
<1>21. CASE ApplyReload
  BY <1>21, ApplyTyped, MinIntervalTyped DEF TypeOK, ApplyReload, InTick, mine, sched, repo, conf
<1>22. CASE FindDue
  BY <1>22, DueTyped DEF TypeOK, FindDue, InTick, mine, sched, repo, conf
<1>23. CASE ApplyTick
  BY <1>23, ApplyTyped DEF TypeOK, ApplyTick, Loop, mine, sched, repo, conf
<1>24. CASE Nap
  <2>1. notes' \in Nat /\ remaining' \in Nat
    BY <1>24 DEF TypeOK, Nap
  <2>2. age' \in [Repos -> Nat \cup {NoEntry}]
    BY <1>24, OlderTyped DEF TypeOK, Nap
  <2>3. pc' = pc \/ pc' = [pc EXCEPT ![Service] = "loop"]
    BY <1>24 DEF Nap
  <2>4. pc' \in [Procs -> Phases]
    BY <2>3 DEF TypeOK, Phases, Loop
  <2> QED
    BY <1>24, <2>1, <2>2, <2>4 DEF TypeOK, Nap, Phases, mine, sched, repo
<1>25. CASE Elapse
  <2>1. spent' \in Nat
    BY <1>25, CappedTyped DEF Elapse
  <2>2. age' \in [Repos -> Nat \cup {NoEntry}]
    BY <1>25, OlderTyped DEF TypeOK, Elapse
  <2> QED
    BY <1>25, <2>1, <2>2 DEF TypeOK, Elapse, mine, sched, repo, conf
<1>26. ASSUME NEW m \in Manuals, StartManual(m) PROVE TypeOK'
  BY <1>26 DEF TypeOK, StartManual, mine, sched, repo, conf
<1>27. ASSUME NEW m \in Manuals, AcquireManual(m) PROVE TypeOK'
  BY <1>27 DEF TypeOK, AcquireManual, mine, sched, repo, conf
<1>28. ASSUME NEW m \in Manuals, ApplyManual(m) PROVE TypeOK'
  BY <1>28, ApplyTyped DEF TypeOK, ApplyManual, mine, sched, repo, conf
<1>29. ASSUME NEW r \in Repos, Push(r) PROVE TypeOK'
  BY <1>29 DEF TypeOK, Push, mine, sched, repo, conf
<1>30. CASE Signal
  BY <1>30 DEF TypeOK, Signal, mine, sched, repo, conf
<1>31. CASE Restart
  BY <1>31 DEF TypeOK, Restart, mine, sched, repo, conf
<1>32. ASSUME NEW p \in Procs, Die(p) PROVE TypeOK'
  BY <1>32 DEF TypeOK, Die, mine, sched, repo, conf
<1>33. CASE UNCHANGED vars
  BY <1>33 DEF TypeOK, vars, mine, sched, repo, conf
<1> QED
  BY <1>1, <1>2, <1>3, <1>4, <1>5, <1>6, <1>7, <1>8, <1>9, <1>10, <1>11, <1>12, <1>13, <1>14,
     <1>15, <1>16, <1>17, <1>18, <1>19, <1>20, <1>21, <1>22, <1>23, <1>24, <1>25, <1>26, <1>27,
     <1>28, <1>29, <1>30, <1>31, <1>32, <1>33, <1>34, <1>35
     DEF Next, ServiceStep, ManualStep, Visit, World

\* The variables have their types (TypeOK), for every instance.
THEOREM TypeCorrect == Spec => []TypeOK
BY TypeInit, TypeStep, PTL DEF Spec

-----------------------------------------------------------------------------
(* The lock *)

\* Which phases belong to which kind of process, and that the processes in a turn
\* are those that hold the lock.
LockSound ==
    /\ pc[Service] \notin {"idle", "wait", "sync", "apply"}
    /\ \A m \in Manuals : pc[m] \in {"idle", "wait", "sync", "apply"}
    /\ \A p \in Procs : InTurn(p) <=> lock = p

LEMMA LockInit == Init => LockSound
BY ConstantsOK DEF Init, LockSound, InTurn, InTick, Procs

LEMMA LockStep == TypeOK /\ LockSound /\ [Next]_vars => LockSound'
<1> SUFFICES ASSUME TypeOK, LockSound, [Next]_vars PROVE LockSound'
  OBVIOUS
<1> USE ConstantsOK DEF Procs, Goto
<1> pc \in [Procs -> Phases] /\ Service \in Procs
  BY DEF TypeOK, Phases
<1>1. ASSUME NEW f \in Files, Edit(f) PROVE LockSound'
  BY <1>1 DEF Edit, LockSound, InTurn, InTick
<1>2. CASE Notify
  BY <1>2 DEF Notify, LockSound, InTurn, InTick
<1>3. ASSUME NEW p \in Procs, NEW r \in Repos, SkipRepo(p, r) PROVE LockSound'
  BY <1>3 DEF SkipRepo, LockSound, InTurn, InTick, MayVisit
<1>4. ASSUME NEW p \in Procs, NEW r \in Repos, FailRepo(p, r) PROVE LockSound'
  BY <1>4 DEF FailRepo, Visited, LockSound, InTurn, InTick, MayVisit
<1>5. ASSUME NEW p \in Procs, NEW r \in Repos, SyncRepo(p, r) PROVE LockSound'
  BY <1>5 DEF SyncRepo, Visited, LockSound, InTurn, InTick, MayVisit
<1>34. ASSUME NEW p \in Procs, NEW r \in Repos, DiffFails(p, r) PROVE LockSound'
  BY <1>34 DEF DiffFails, Visited, LockSound, InTurn, InTick, MayVisit
<1>35. ASSUME NEW p \in Procs, NEW r \in Repos, CountAllFiles(p, r) PROVE LockSound'
  BY <1>35 DEF CountAllFiles, Visited, LockSound, InTurn, InTick, MayVisit
<1>6. ASSUME NEW p \in Procs, EndSync(p) PROVE LockSound'
  BY <1>6 DEF EndSync, LockSound, InTurn, InTick, AfterSync, Syncing
<1>7. CASE BreakTick
  BY <1>7 DEF BreakTick, LockSound, InTurn, InTick
<1>8. CASE AcquireAtStart
  BY <1>8 DEF AcquireAtStart, LockSound, InTurn, InTick
<1>9. CASE NoLockAtStart
  BY <1>9 DEF NoLockAtStart, LockSound, InTurn, InTick
<1>10. CASE ApplyAtStart
  BY <1>10 DEF ApplyAtStart, LockSound, InTurn, InTick
<1>11. CASE StartIntervals
  BY <1>11 DEF StartIntervals, LockSound, InTurn, InTick
<1>12. CASE StartWatching
  BY <1>12 DEF StartWatching, LockSound, InTurn, InTick
<1>13. CASE SeedMtime
  BY <1>13 DEF SeedMtime, LockSound, InTurn, InTick
<1>14. CASE Stop
  BY <1>14 DEF Stop, LockSound, InTurn, InTick, Stopped
<1>15. CASE Poll
  BY <1>15 DEF Poll, LockSound, InTurn, InTick
<1>16. CASE TryAcquire
  BY <1>16 DEF TryAcquire, LockSound, InTurn, InTick
<1>17. CASE SkipTick
  BY <1>17 DEF SkipTick, LockSound, InTurn, InTick, Fault
<1>18. CASE Receive
  BY <1>18 DEF Receive, LockSound, InTurn, InTick
<1>19. CASE Drain
  BY <1>19 DEF Drain, LockSound, InTurn, InTick
<1>20. CASE Load
  BY <1>20 DEF Load, LockSound, InTurn, InTick
<1>21. CASE ApplyReload
  BY <1>21 DEF ApplyReload, LockSound, InTurn, InTick
<1>22. CASE FindDue
  BY <1>22 DEF FindDue, LockSound, InTurn, InTick
<1>23. CASE ApplyTick
  BY <1>23 DEF ApplyTick, LockSound, InTurn, InTick
<1>24. CASE Nap
  BY <1>24 DEF Nap, LockSound, InTurn, InTick
<1>25. CASE Elapse
  BY <1>25 DEF Elapse, LockSound, InTurn, InTick
<1>26. ASSUME NEW m \in Manuals, StartManual(m) PROVE LockSound'
  BY <1>26 DEF StartManual, LockSound, InTurn, InTick
<1>27. ASSUME NEW m \in Manuals, AcquireManual(m) PROVE LockSound'
  BY <1>27 DEF AcquireManual, LockSound, InTurn, InTick
<1>28. ASSUME NEW m \in Manuals, ApplyManual(m) PROVE LockSound'
  BY <1>28 DEF ApplyManual, LockSound, InTurn, InTick
<1>29. ASSUME NEW r \in Repos, Push(r) PROVE LockSound'
  BY <1>29 DEF Push, LockSound, InTurn, InTick
<1>30. CASE Signal
  BY <1>30 DEF Signal, LockSound, InTurn, InTick
<1>31. CASE Restart
  BY <1>31 DEF Restart, LockSound, InTurn, InTick, Stopped
<1>32. ASSUME NEW p \in Procs, Die(p) PROVE LockSound'
  <2>1. /\ pc' = [pc EXCEPT ![p] = IF p = Service THEN "dead" ELSE "idle"]
        /\ lock' = IF lock = p THEN Nobody ELSE lock
    BY <1>32 DEF Die
  <2>2. \A q \in Procs : (InTurn(q))' <=> q # p /\ InTurn(q)
    BY <2>1 DEF InTurn, InTick
  <2>3. \A q \in Procs : q # p /\ InTurn(q) <=> lock' = q
    BY <2>1 DEF LockSound
  <2> QED
    BY <2>1, <2>2, <2>3 DEF LockSound
<1>33. CASE UNCHANGED vars
  BY <1>33 DEF vars, LockSound, InTurn, InTick
<1> QED
  BY <1>1, <1>2, <1>3, <1>4, <1>5, <1>6, <1>7, <1>8, <1>9, <1>10, <1>11, <1>12, <1>13,
     <1>14, <1>15, <1>16, <1>17, <1>18, <1>19, <1>20, <1>21, <1>22, <1>23, <1>24, <1>25,
     <1>26, <1>27, <1>28, <1>29, <1>30, <1>31, <1>32, <1>33, <1>34, <1>35
     DEF Next, ServiceStep, ManualStep, Visit, World

LEMMA OneTurn == LockSound => OneTurnAtATime
BY DEF LockSound, OneTurnAtATime

\* Who is syncing, as SyncLock sees it, is who holds the lock.
Holder == IF \E p \in Procs : InTurn(p) THEN CHOOSE p \in Procs : InTurn(p) ELSE Nobody

LEMMA HolderIsLock == TypeOK /\ LockSound => Holder = lock
<1> SUFFICES ASSUME TypeOK, LockSound PROVE Holder = lock
  OBVIOUS
<1>1. CASE lock \in Procs
  <2>1. \A p \in Procs : InTurn(p) <=> p = lock
    BY DEF LockSound
  <2>2. (CHOOSE p \in Procs : InTurn(p)) = lock
    BY <1>1, <2>1
  <2> QED
    BY <1>1, <2>1, <2>2 DEF Holder
<1>2. CASE lock = Nobody
  <2>1. \A p \in Procs : ~InTurn(p)
    BY <1>2, ConstantsOK DEF LockSound
  <2> QED
    BY <1>2, <2>1 DEF Holder
<1> QED
  BY <1>1, <1>2 DEF TypeOK

\* Every step keeps the turn and the work as they are, begins a turn, works in one,
\* or ends one.
LEMMA TurnStep ==
  ASSUME TypeOK, LockSound, [Next]_vars
  PROVE  \/ UNCHANGED <<lock, Work>>
         \/ lock = Nobody /\ lock' \in Procs /\ UNCHANGED Work
         \/ lock \in Procs /\ lock' \in {lock, Nobody}
<1> USE ConstantsOK DEF Procs, Work, LockSound, InTurn, InTick
<1> DEFINE Goal == \/ UNCHANGED <<lock, Work>>
                   \/ lock = Nobody /\ lock' \in Procs /\ UNCHANGED Work
                   \/ lock \in Procs /\ lock' \in {lock, Nobody}
<1>1. ASSUME NEW f \in Files, Edit(f) PROVE Goal
  BY <1>1 DEF Edit, repo
<1>2. CASE Notify
  BY <1>2 DEF Notify, repo
<1>3. ASSUME NEW p \in Procs, NEW r \in Repos, SkipRepo(p, r) PROVE Goal
  BY <1>3 DEF SkipRepo, MayVisit, Syncing, repo
<1>4. ASSUME NEW p \in Procs, NEW r \in Repos, FailRepo(p, r) PROVE Goal
  BY <1>4 DEF FailRepo, Visited, MayVisit, Syncing, repo
<1>5. ASSUME NEW p \in Procs, NEW r \in Repos, SyncRepo(p, r) PROVE Goal
  BY <1>5 DEF SyncRepo, Visited, MayVisit, Syncing, repo
<1>34. ASSUME NEW p \in Procs, NEW r \in Repos, DiffFails(p, r) PROVE Goal
  BY <1>34 DEF DiffFails, Visited, MayVisit, Syncing, repo
<1>35. ASSUME NEW p \in Procs, NEW r \in Repos, CountAllFiles(p, r) PROVE Goal
  BY <1>35 DEF CountAllFiles, Visited, MayVisit, Syncing, repo
<1>6. ASSUME NEW p \in Procs, EndSync(p) PROVE Goal
  BY <1>6 DEF EndSync, repo
<1>7. CASE BreakTick
  BY <1>7 DEF BreakTick, repo
<1>8. CASE AcquireAtStart
  BY <1>8 DEF AcquireAtStart, repo
<1>9. CASE NoLockAtStart
  BY <1>9 DEF NoLockAtStart, repo
<1>10. CASE ApplyAtStart
  BY <1>10 DEF ApplyAtStart, repo, ApplyChanges
<1>11. CASE StartIntervals
  BY <1>11 DEF StartIntervals, repo
<1>12. CASE StartWatching
  BY <1>12 DEF StartWatching, repo
<1>13. CASE SeedMtime
  BY <1>13 DEF SeedMtime, repo
<1>14. CASE Stop
  BY <1>14 DEF Stop, repo
<1>15. CASE Poll
  BY <1>15 DEF Poll, repo
<1>16. CASE TryAcquire
  BY <1>16 DEF TryAcquire, repo
<1>17. CASE SkipTick
  BY <1>17 DEF SkipTick, repo
<1>18. CASE Receive
  BY <1>18 DEF Receive, repo
<1>19. CASE Drain
  BY <1>19 DEF Drain, repo
<1>20. CASE Load
  BY <1>20 DEF Load, repo
<1>21. CASE ApplyReload
  BY <1>21 DEF ApplyReload, repo, ApplyChanges
<1>22. CASE FindDue
  BY <1>22 DEF FindDue, repo
<1>23. CASE ApplyTick
  BY <1>23 DEF ApplyTick, repo, ApplyChanges
<1>24. CASE Nap
  BY <1>24 DEF Nap, repo
<1>25. CASE Elapse
  BY <1>25 DEF Elapse, repo
<1>26. ASSUME NEW m \in Manuals, StartManual(m) PROVE Goal
  BY <1>26 DEF StartManual, repo
<1>27. ASSUME NEW m \in Manuals, AcquireManual(m) PROVE Goal
  BY <1>27 DEF AcquireManual, repo
<1>28. ASSUME NEW m \in Manuals, ApplyManual(m) PROVE Goal
  <2>1. lock = m
    BY <1>28 DEF ApplyManual
  <2> QED
    BY <1>28, <2>1 DEF ApplyManual
<1>29. ASSUME NEW r \in Repos, Push(r) PROVE Goal
  BY <1>29 DEF Push, repo
<1>30. CASE Signal
  BY <1>30 DEF Signal, repo
<1>31. CASE Restart
  BY <1>31 DEF Restart, repo
<1>32. ASSUME NEW p \in Procs, Die(p) PROVE Goal
  BY <1>32 DEF Die, repo
<1>33. CASE UNCHANGED vars
  BY <1>33 DEF vars, repo
<1> QED
  BY <1>1, <1>2, <1>3, <1>4, <1>5, <1>6, <1>7, <1>8, <1>9, <1>10, <1>11, <1>12, <1>13,
     <1>14, <1>15, <1>16, <1>17, <1>18, <1>19, <1>20, <1>21, <1>22, <1>23, <1>24, <1>25,
     <1>26, <1>27, <1>28, <1>29, <1>30, <1>31, <1>32, <1>33, <1>34, <1>35
     DEF Next, ServiceStep, ManualStep, Visit, World

LEMMA RefinesLock ==
  ASSUME TypeOK, LockSound, [Next]_vars, Holder = lock, Holder' = lock'
  PROVE  [Turns!Next]_(Turns!vars)
<1>2. \/ UNCHANGED <<lock, Work>>
      \/ lock = Nobody /\ lock' \in Procs /\ UNCHANGED Work
      \/ lock \in Procs /\ lock' \in {lock, Nobody}
  BY TurnStep
<1> QED
  BY <1>2 DEF Holder, Turns!Next, Turns!Take, Turns!Work, Turns!Release, Turns!vars

LEMMA LockInductive == Spec => [](TypeOK /\ LockSound)
<1>1. TypeOK /\ LockSound /\ [Next]_vars => (TypeOK /\ LockSound)'
  BY TypeStep, LockStep
<1> QED
  BY <1>1, TypeInit, LockInit, PTL DEF Spec

\* No two processes sync at the same time (OneTurnAtATime), whoever dies and
\* whenever, for any number of manual syncs.
THEOREM OneTurnAtATimeAlways == Spec => []OneTurnAtATime
BY LockInductive, OneTurn, PTL

\* Syncs take turns (SyncsTakeTurns): the service and the manual syncs implement
\* SyncLock.
THEOREM SyncsTakeTurnsAlways == Spec => SyncsTakeTurns
<1>1. Init => Turns!Init
  <2> SUFFICES ASSUME Init PROVE Holder = Nobody
    BY DEF Turns!Init, Holder
  <2> QED
    BY TypeInit, LockInit, HolderIsLock DEF Init
<1>2. TypeOK /\ LockSound /\ Holder = lock /\ (Holder = lock)' /\ [Next]_vars
      => [Turns!Next]_(Turns!vars)
  BY RefinesLock
<1> QED
  BY <1>1, <1>2, HolderIsLock, LockInductive, PTL DEF Spec, SyncsTakeTurns, Turns!Spec

-----------------------------------------------------------------------------
(* Edits *)

\* Before the loop, an edit is unheard or reported: only the loop looks at mtimes.
EditsSound ==
    (pc[Service] \notin Stopped /\ file \in Configs /\ config[Service] # file)
    => \/ unheard \/ events > 0 \/ notes > 0
       \/ pc[Service] \in Loop \cup InTick /\ Pending

\* During a reload, the same of the configuration being loaded, which an edit may
\* have replaced by the one before it.
ReloadSound ==
    (/\ pc[Service] \in {"reload_sync", "reload_apply"}
     /\ file \in Configs /\ loading # file)
    => unheard \/ events > 0 \/ notes > 0 \/ (watcher = "polls" /\ newer)

LEMMA EditsInit == Init => EditsSound /\ ReloadSound
BY ConstantsOK DEF Init, EditsSound, ReloadSound, Procs

LEMMA EditsStep ==
  TypeOK /\ LockSound /\ EditsSound /\ ReloadSound /\ [Next]_vars
  => (EditsSound /\ ReloadSound)'
<1> SUFFICES ASSUME TypeOK, LockSound, EditsSound, ReloadSound, [Next]_vars
             PROVE  (EditsSound /\ ReloadSound)'
  OBVIOUS
<1> USE ConstantsOK DEF Procs, Goto
<1> /\ pc \in [Procs -> Phases] /\ Service \in Procs /\ events \in Nat /\ notes \in Nat
    /\ config \in [Procs -> Configs]
  BY DEF TypeOK, Phases
<1>a. Capped(notes + 1, MaxEvents) > 0 /\ Capped(events + 1, MaxEvents) > 0
  BY DEF Capped
<1>1. ASSUME NEW f \in Files, Edit(f) PROVE (EditsSound /\ ReloadSound)'
  BY <1>1, <1>a DEF Edit, EditsSound, ReloadSound, Pending, Loop, InTick, Stopped, Phases,
    Listens, conf
<1>2. CASE Notify
  BY <1>2, <1>a DEF Notify, EditsSound, ReloadSound, Pending, Loop, InTick, Stopped, Phases, conf
<1>3. ASSUME NEW p \in Procs, NEW r \in Repos, SkipRepo(p, r) PROVE (EditsSound /\ ReloadSound)'
  BY <1>3 DEF SkipRepo, EditsSound, ReloadSound, Pending, Loop, InTick, Stopped, Phases,
    MayVisit, conf, LockSound
<1>4. ASSUME NEW p \in Procs, NEW r \in Repos, FailRepo(p, r) PROVE (EditsSound /\ ReloadSound)'
  BY <1>4 DEF FailRepo, Visited, EditsSound, ReloadSound, Pending, Loop, InTick, Stopped, Phases,
    MayVisit, conf, LockSound
<1>5. ASSUME NEW p \in Procs, NEW r \in Repos, SyncRepo(p, r) PROVE (EditsSound /\ ReloadSound)'
  BY <1>5 DEF SyncRepo, Visited, EditsSound, ReloadSound, Pending, Loop, InTick, Stopped, Phases,
    MayVisit, conf, LockSound
<1>34. ASSUME NEW p \in Procs, NEW r \in Repos, DiffFails(p, r) PROVE (EditsSound /\ ReloadSound)'
  BY <1>34 DEF DiffFails, Visited, EditsSound, ReloadSound, Pending, Loop, InTick, Stopped, Phases,
    MayVisit, conf, LockSound
<1>35. ASSUME NEW p \in Procs, NEW r \in Repos, CountAllFiles(p, r) PROVE (EditsSound /\ ReloadSound)'
  BY <1>35 DEF CountAllFiles, Visited, EditsSound, ReloadSound, Pending, Loop, InTick, Stopped, Phases,
    MayVisit, conf, LockSound
<1>6. ASSUME NEW p \in Procs, EndSync(p) PROVE (EditsSound /\ ReloadSound)'
  BY <1>6 DEF EndSync, EditsSound, ReloadSound, Pending, Loop, InTick, Stopped, Phases,
    AfterSync, Syncing, LockSound, conf
<1>7. CASE BreakTick
  BY <1>7 DEF BreakTick, EditsSound, ReloadSound, Pending, Loop, InTick, Stopped, Phases, conf
<1>8. CASE AcquireAtStart
  BY <1>8 DEF AcquireAtStart, EditsSound, ReloadSound, Pending, Loop, InTick, Stopped, Phases, conf
<1>9. CASE NoLockAtStart
  BY <1>9 DEF NoLockAtStart, EditsSound, ReloadSound, Pending, Loop, InTick, Stopped, Phases, conf
<1>10. CASE ApplyAtStart
  BY <1>10 DEF ApplyAtStart, EditsSound, ReloadSound, Pending, Loop, InTick, Stopped, Phases, conf
<1>11. CASE StartIntervals
  BY <1>11 DEF StartIntervals, EditsSound, ReloadSound, Pending, Loop, InTick, Stopped, Phases, conf
<1>12. CASE StartWatching
  BY <1>12 DEF StartWatching, EditsSound, ReloadSound, Pending, Loop, InTick, Stopped, Phases, conf
<1>13. CASE SeedMtime
  BY <1>13 DEF SeedMtime, EditsSound, ReloadSound, Pending, Loop, InTick, Stopped, Phases, conf
<1>14. CASE Stop
  BY <1>14 DEF Stop, EditsSound, ReloadSound, Pending, Loop, InTick, Stopped, Phases, conf
<1>15. CASE Poll
  BY <1>15, <1>a DEF Poll, EditsSound, ReloadSound, Pending, Loop, InTick, Stopped, Phases, conf
<1>16. CASE TryAcquire
  BY <1>16 DEF TryAcquire, EditsSound, ReloadSound, Pending, Loop, InTick, Stopped, Phases, conf
<1>17. CASE SkipTick
  BY <1>17 DEF SkipTick, EditsSound, ReloadSound, Pending, Loop, InTick, Stopped, Phases, conf
<1>18. CASE Receive
  BY <1>18 DEF Receive, EditsSound, ReloadSound, Pending, Loop, InTick, Stopped, Phases, conf
<1>19. CASE Drain
  BY <1>19 DEF Drain, EditsSound, ReloadSound, Pending, Loop, InTick, Stopped, Phases, conf
<1>20. CASE Load
  BY <1>20 DEF Load, EditsSound, ReloadSound, Pending, Loop, InTick, Stopped, Phases, conf
<1>21. CASE ApplyReload
  BY <1>21 DEF ApplyReload, EditsSound, ReloadSound, Pending, Loop, InTick, Stopped, Phases, conf
<1>22. CASE FindDue
  BY <1>22 DEF FindDue, EditsSound, ReloadSound, Pending, Loop, InTick, Stopped, Phases, conf
<1>23. CASE ApplyTick
  BY <1>23 DEF ApplyTick, EditsSound, ReloadSound, Pending, Loop, InTick, Stopped, Phases, conf
<1>24. CASE Nap
  <2>1. /\ UNCHANGED <<file, newer, watcher, events, unheard, config, loading>>
        /\ pc' = pc \/ pc' = [pc EXCEPT ![Service] = "loop"]
        /\ notes' = notes \/ notes' > 0
    BY <1>24 DEF Nap
  <2>2. pc[Service] = "nap" /\ pc'[Service] \in {"nap", "loop"}
    BY <1>24, <2>1 DEF Nap
  <2> QED
    BY <2>1, <2>2 DEF EditsSound, ReloadSound, Pending, Loop, InTick, Stopped
<1>25. CASE Elapse
  BY <1>25 DEF Elapse, EditsSound, ReloadSound, Pending, Loop, InTick, Stopped, Phases, conf
<1>26. ASSUME NEW m \in Manuals, StartManual(m) PROVE (EditsSound /\ ReloadSound)'
  BY <1>26 DEF StartManual, EditsSound, ReloadSound, Pending, Loop, InTick, Stopped, Phases,
    conf, LockSound
<1>27. ASSUME NEW m \in Manuals, AcquireManual(m) PROVE (EditsSound /\ ReloadSound)'
  BY <1>27 DEF AcquireManual, EditsSound, ReloadSound, Pending, Loop, InTick, Stopped, Phases,
    conf, LockSound
<1>28. ASSUME NEW m \in Manuals, ApplyManual(m) PROVE (EditsSound /\ ReloadSound)'
  BY <1>28 DEF ApplyManual, EditsSound, ReloadSound, Pending, Loop, InTick, Stopped, Phases,
    conf, LockSound
<1>29. ASSUME NEW r \in Repos, Push(r) PROVE (EditsSound /\ ReloadSound)'
  BY <1>29 DEF Push, EditsSound, ReloadSound, Pending, Loop, InTick, Stopped, Phases, conf
<1>30. CASE Signal
  BY <1>30 DEF Signal, EditsSound, ReloadSound, Pending, Loop, InTick, Stopped, Phases, conf
<1>31. CASE Restart
  BY <1>31 DEF Restart, EditsSound, ReloadSound, Pending, Loop, InTick, Stopped, Phases, conf
<1>32. ASSUME NEW p \in Procs, Die(p) PROVE (EditsSound /\ ReloadSound)'
  BY <1>32 DEF Die, EditsSound, ReloadSound, Pending, Loop, InTick, Stopped, Phases, conf, LockSound
<1>33. CASE UNCHANGED vars
  BY <1>33 DEF vars, EditsSound, ReloadSound, Pending, Loop, InTick, Stopped, Phases, conf
<1> QED
  BY <1>1, <1>2, <1>3, <1>4, <1>5, <1>6, <1>7, <1>8, <1>9, <1>10, <1>11, <1>12, <1>13,
     <1>14, <1>15, <1>16, <1>17, <1>18, <1>19, <1>20, <1>21, <1>22, <1>23, <1>24, <1>25,
     <1>26, <1>27, <1>28, <1>29, <1>30, <1>31, <1>32, <1>33, <1>34, <1>35
     DEF Next, ServiceStep, ManualStep, Visit, World

LEMMA EditsHeard == TypeOK /\ EditsSound => EditsAreHeard
BY DEF TypeOK, EditsSound, EditsAreHeard, Pending, Loop, InTick, Stopped

\* No edit made while the service listens is lost (EditsAreHeard), for any number of
\* edits, notifications, failures and restarts.
THEOREM EditsAreHeardAlways == Spec => []EditsAreHeard
<1>1. TypeOK /\ LockSound /\ EditsSound /\ ReloadSound /\ [Next]_vars
      => (TypeOK /\ LockSound /\ EditsSound /\ ReloadSound)'
  BY TypeStep, LockStep, EditsStep
<1> QED
  BY <1>1, TypeInit, LockInit, EditsInit, EditsHeard, PTL DEF Spec

-----------------------------------------------------------------------------
(* Changes *)

LEMMA UnappliedInit == Init => NothingLeftUnapplied
<1> SUFFICES ASSUME Init PROVE NothingLeftUnapplied
  OBVIOUS
<1>1. \A r \in Repos : 1 .. head[r] = {}
  BY DEF Init
<1> QED
  BY <1>1 DEF NothingLeftUnapplied

\* The commits that have been applied, are to be applied, or are excused.
Held == told \cup lost \cup UNION {changes[p] : p \in Procs}

\* Steps that move no HEAD lose nothing as long as they keep what is held ...
LEMMA Untouched ==
  ASSUME NothingLeftUnapplied, UNCHANGED <<head, told, lost, changes>>
  PROVE  NothingLeftUnapplied'
BY DEF NothingLeftUnapplied

LEMMA KeptIsEnough ==
  ASSUME NothingLeftUnapplied, UNCHANGED head, Held \subseteq Held'
  PROVE  NothingLeftUnapplied'
BY DEF NothingLeftUnapplied, Held

\* ... like those that empty the hands of a process: what was in them is applied
\* or, when it dies or runs with --sync-only, excused.
LEMMA DroppedKeeps ==
  ASSUME TypeOK, NothingLeftUnapplied, NEW p \in Procs, UNCHANGED head,
         changes' = [changes EXCEPT ![p] = {}],
         \/ told' = told \cup changes[p] /\ UNCHANGED lost
         \/ lost' = lost \cup changes[p] /\ UNCHANGED told
  PROVE  NothingLeftUnapplied'
<1>1. DOMAIN changes = Procs
  BY DEF TypeOK
<1>2. \A q \in Procs \ {p} : changes'[q] = changes[q]
  BY <1>1
<1>3. told \subseteq Held' /\ lost \subseteq Held' /\ changes[p] \subseteq Held'
  BY DEF Held
<1>4. ASSUME NEW q \in Procs PROVE changes[q] \subseteq Held'
  BY <1>2, <1>3 DEF Held
<1>5. Held \subseteq Held'
  BY <1>3, <1>4 DEF Held
<1> QED
  BY <1>5, KeptIsEnough

LEMMA AppliedKeeps ==
  ASSUME TypeOK, NothingLeftUnapplied, NEW p \in Procs, ApplyChanges(p)
  PROVE  NothingLeftUnapplied'
BY DroppedKeeps DEF ApplyChanges

\* A step that moves a HEAD has to account for what the move brings.
LEMMA MoveKeeps ==
  ASSUME TypeOK, NothingLeftUnapplied, NEW r \in Repos, NEW c \in Nat, MoveHead(r, c),
         Held \subseteq Held', Behind(r, c) \subseteq Held'
  PROVE  NothingLeftUnapplied'
<1> SUFFICES ASSUME NEW q \in Repos, NEW d \in 1 .. head'[q]
             PROVE  <<q, d>> \in Held'
  BY DEF NothingLeftUnapplied, Held
<1>1. head \in [Repos -> Nat] /\ head' = [head EXCEPT ![r] = c]
  BY DEF TypeOK, MoveHead
<1>2. CASE d \in 1 .. head[q]
  BY <1>2 DEF NothingLeftUnapplied, Held
<1>3. CASE d \notin 1 .. head[q]
  <2>1. q = r /\ head'[r] = c
    BY <1>1, <1>3
  <2>2. d \in head[r] + 1 .. c
    BY <1>1, <1>3, <2>1
  <2> QED
    BY <2>1, <2>2 DEF Behind
<1> QED
  BY <1>2, <1>3

LEMMA UnappliedStep ==
  TypeOK /\ NothingLeftUnapplied /\ [Next]_vars => NothingLeftUnapplied'
<1> SUFFICES ASSUME TypeOK, NothingLeftUnapplied, [Next]_vars PROVE NothingLeftUnapplied'
  OBVIOUS
<1> Service \in Procs /\ Manuals \subseteq Procs
  BY DEF Procs
<1>1. ASSUME NEW f \in Files, Edit(f) PROVE NothingLeftUnapplied'
  BY <1>1, Untouched DEF Edit, repo, mine
<1>2. CASE Notify
  BY <1>2, Untouched DEF Notify, repo, mine
<1>3. ASSUME NEW p \in Procs, NEW r \in Repos, SkipRepo(p, r) PROVE NothingLeftUnapplied'
  BY <1>3, Untouched DEF SkipRepo, repo, mine
<1>4. ASSUME NEW p \in Procs, NEW r \in Repos, FailRepo(p, r) PROVE NothingLeftUnapplied'
  <2>1. PICK c \in {head[r], upstream[r]} : MoveHead(r, c) /\ lost' = lost \cup Behind(r, c)
    BY <1>4 DEF FailRepo
  <2>2. UNCHANGED <<told, changes>>
    BY <1>4 DEF FailRepo, Visited
  <2>3. Held \subseteq Held' /\ Behind(r, c) \subseteq Held'
    BY <2>1, <2>2 DEF Held
  <2>4. c \in Nat
    BY DEF TypeOK
  <2> QED
    BY <2>1, <2>3, <2>4, MoveKeeps
<1>5. ASSUME NEW p \in Procs, NEW r \in Repos, SyncRepo(p, r) PROVE NothingLeftUnapplied'
  <2>1. MoveHead(r, upstream[r]) /\ HandOver(p, Behind(r, upstream[r]))
    BY <1>5 DEF SyncRepo
  <2>2. /\ UNCHANGED <<told, lost>>
        /\ \A q \in Procs : changes[q] \subseteq changes'[q]
        /\ Behind(r, upstream[r]) \subseteq changes'[p]
    BY <1>5, <2>1 DEF SyncRepo, Visited, HandOver, TypeOK
  <2>3. Held \subseteq Held' /\ Behind(r, upstream[r]) \subseteq Held'
    BY <2>2 DEF Held
  <2>4. upstream[r] \in Nat
    BY DEF TypeOK
  <2> QED
    BY <2>1, <2>3, <2>4, MoveKeeps
<1>34. ASSUME NEW p \in Procs, NEW r \in Repos, DiffFails(p, r) PROVE NothingLeftUnapplied'
  <2>1. MoveHead(r, upstream[r]) /\ lost' = lost \cup Behind(r, upstream[r])
    BY <1>34 DEF DiffFails
  <2>2. UNCHANGED <<told, changes>>
    BY <1>34 DEF DiffFails, Visited
  <2>3. Held \subseteq Held' /\ Behind(r, upstream[r]) \subseteq Held'
    BY <2>1, <2>2 DEF Held
  <2>4. upstream[r] \in Nat
    BY DEF TypeOK
  <2> QED
    BY <2>1, <2>3, <2>4, MoveKeeps
<1>35. ASSUME NEW p \in Procs, NEW r \in Repos, CountAllFiles(p, r) PROVE NothingLeftUnapplied'
  <2>1. MoveHead(r, upstream[r]) /\ lost' = lost \cup Behind(r, upstream[r])
    BY <1>35 DEF CountAllFiles
  <2>2. UNCHANGED told /\ \A q \in Procs : changes[q] \subseteq changes'[q]
    BY <1>35 DEF CountAllFiles, Visited, HandOver, TypeOK
  <2>3. Held \subseteq Held' /\ Behind(r, upstream[r]) \subseteq Held'
    BY <2>1, <2>2 DEF Held
  <2>4. upstream[r] \in Nat
    BY DEF TypeOK
  <2> QED
    BY <2>1, <2>3, <2>4, MoveKeeps
<1>6. ASSUME NEW p \in Procs, EndSync(p) PROVE NothingLeftUnapplied'
  BY <1>6, Untouched DEF EndSync, repo, mine
<1>7. CASE BreakTick
  BY <1>7, Untouched DEF BreakTick, repo, mine
<1>8. CASE AcquireAtStart
  BY <1>8, Untouched DEF AcquireAtStart, repo, mine
<1>9. CASE NoLockAtStart
  BY <1>9, Untouched DEF NoLockAtStart, repo, mine
<1>10. CASE ApplyAtStart
  BY <1>10, AppliedKeeps DEF ApplyAtStart, repo, mine
<1>11. CASE StartIntervals
  BY <1>11, Untouched DEF StartIntervals, repo, mine
<1>12. CASE StartWatching
  BY <1>12, Untouched DEF StartWatching, repo, mine
<1>13. CASE SeedMtime
  BY <1>13, Untouched DEF SeedMtime, repo, mine
<1>14. CASE Stop
  BY <1>14, Untouched DEF Stop, repo, mine
<1>15. CASE Poll
  BY <1>15, Untouched DEF Poll, repo, mine
<1>16. CASE TryAcquire
  BY <1>16, Untouched DEF TryAcquire, repo, mine
<1>17. CASE SkipTick
  BY <1>17, Untouched DEF SkipTick, repo, mine
<1>18. CASE Receive
  BY <1>18, Untouched DEF Receive, repo, mine
<1>19. CASE Drain
  BY <1>19, Untouched DEF Drain, repo, mine
<1>20. CASE Load
  BY <1>20, Untouched DEF Load, repo, mine
<1>21. CASE ApplyReload
  BY <1>21, AppliedKeeps DEF ApplyReload, repo, mine
<1>22. CASE FindDue
  BY <1>22, Untouched DEF FindDue, repo, mine
<1>23. CASE ApplyTick
  BY <1>23, AppliedKeeps DEF ApplyTick, repo, mine
<1>24. CASE Nap
  BY <1>24, Untouched DEF Nap, repo, mine
<1>25. CASE Elapse
  BY <1>25, Untouched DEF Elapse, repo, mine
<1>26. ASSUME NEW m \in Manuals, StartManual(m) PROVE NothingLeftUnapplied'
  BY <1>26, Untouched DEF StartManual, repo, mine
<1>27. ASSUME NEW m \in Manuals, AcquireManual(m) PROVE NothingLeftUnapplied'
  BY <1>27, Untouched DEF AcquireManual, repo, mine
<1>28. ASSUME NEW m \in Manuals, ApplyManual(m) PROVE NothingLeftUnapplied'
  BY <1>28, AppliedKeeps DEF ApplyManual, repo, mine
<1>29. ASSUME NEW r \in Repos, Push(r) PROVE NothingLeftUnapplied'
  BY <1>29, Untouched DEF Push, repo, mine
<1>30. CASE Signal
  BY <1>30, Untouched DEF Signal, repo, mine
<1>31. CASE Restart
  BY <1>31, Untouched DEF Restart, repo, mine
<1>32. ASSUME NEW p \in Procs, Die(p) PROVE NothingLeftUnapplied'
  <2>1. /\ UNCHANGED <<head, told>> /\ lost' = lost \cup changes[p]
        /\ changes' = [changes EXCEPT ![p] = {}]
    BY <1>32 DEF Die
  <2> QED
    BY <2>1, DroppedKeeps
<1>33. CASE UNCHANGED vars
  BY <1>33, Untouched DEF vars, repo, mine
<1> QED
  BY <1>1, <1>2, <1>3, <1>4, <1>5, <1>6, <1>7, <1>8, <1>9, <1>10, <1>11, <1>12, <1>13,
     <1>14, <1>15, <1>16, <1>17, <1>18, <1>19, <1>20, <1>21, <1>22, <1>23, <1>24, <1>25,
     <1>26, <1>27, <1>28, <1>29, <1>30, <1>31, <1>32, <1>33, <1>34, <1>35
     DEF Next, ServiceStep, ManualStep, Visit, World

\* Every commit that is checked out has been applied or is in the hands of a process
\* that will (NothingLeftUnapplied), but for the four ways to lose one that the
\* property names, for any number of repositories, processes, failures and signals.
THEOREM NothingLeftUnappliedAlways == Spec => []NothingLeftUnapplied
<1>1. TypeOK /\ NothingLeftUnapplied /\ [Next]_vars => (TypeOK /\ NothingLeftUnapplied)'
  BY TypeStep, UnappliedStep
<1> QED
  BY <1>1, TypeInit, UnappliedInit, PTL DEF Spec
=============================================================================
