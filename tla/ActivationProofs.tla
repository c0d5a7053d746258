--------------------------- MODULE ActivationProofs ---------------------------
(* The safety properties of Activation, for every deployment, every set of      *)
(* changes and any number of spontaneous events.                                *)
EXTENDS Activation, FiniteSetTheorems, TLAPS

(***************************************************************************)
(* None of the properties is inductive: each is about the moment the plan  *)
(* is complete, while what makes it true is that everything the planner    *)
(* remembers - a cached state, the job list, a decision - goes back to     *)
(* something a unit did since the pass began.                              *)
(***************************************************************************)
Planning == phase \in {"pick", "jobs", "ask"}

\* A cached state other than inactive was really taken; inactive covers queued.
StatesSound ==
  \A u \in Units :
    /\ known[u] \in {"starting", "active", "backoff"} => known[u] \in seen[u]
    /\ known[u] = "inactive" /\ ~Faulty => Was(u, {"inactive", "queued"})

\* The job list has only units that had a start job and, unless list-jobs failed,
\* all that had one all along.
JobsSound ==
  /\ \A u \in jobs : Was(u, Joined)
  /\ jobsRead /\ ~Faulty => \A u \in Units \ jobs : ~ AlwaysWas(u, Joined)

\* Nothing is remembered from one pass to the next.
NoLeftovers == ~Planning => /\ known = [u \in Units |-> "unread"]
                            /\ jobsRead = FALSE
                            /\ jobs = {}

Wanted(u) == u \in StartOnSync \/ \E d \in WantedBy[u] : Was(d, ComingUp)
Missable(d) == ~ AlwaysWas(d, {"starting", "active"}) /\ ~ AlwaysWas(d, {"queued"})

\* What plan_unit decided so far is justified.
PlanSound ==
  /\ \A u \in toStart : Wanted(u) /\ (Faulty \/ ~ AlwaysWas(u, Joined))
  /\ \A u \in toRestart : Was(u, Running)
  /\ ~Faulty => \A u \in skipped : \A d \in WantedBy[u] : Missable(d)

\* While plan_unit walks through the reverse dependencies of cur, none of those it
\* has passed over was steadily coming up.
WalkSound ==
  phase = "ask" =>
    /\ jobsRead
    /\ asking \subseteq WantedBy[cur]
    /\ Faulty \/ ~ AlwaysWas(cur, Joined)
    /\ ~Faulty => \A d \in WantedBy[cur] \ asking : Missable(d)

\* quadcd waits only inside a call, and for units that call names.
WaitsForOwn ==
  /\ phase = "wait" => waiting \subseteq BatchUnits(batch)
  /\ phase # "wait" => waiting = {}

IInv ==
  /\ TypeOK
  /\ \A u \in Units : unit[u] \in seen[u]
  /\ StatesSound /\ JobsSound /\ NoLeftovers
  /\ PlanSound /\ WalkSound
  /\ WaitsForOwn

(***************************************************************************)
(* Two properties need more than what the planner remembers being sound.   *)
(***************************************************************************)

\* A deleted unit still has to be read, is to be stopped, or was seen down.
UpAllAlong(u) == AlwaysWas(u, {"starting", "active", "backoff"})

DeletedSound ==
  ~Faulty => \A u \in UnitsOf(input.deleted) \cap Units :
    /\ phase = "stop" => u \in todo \cup toStop \/ ~ UpAllAlong(u)
    /\ phase = "reload" => ~ UpAllAlong(u)

Seeds == toStart \cup toRestart

\* Every unit to be planned still has to be, is being planned, or has been decided about.
Accounted ==
  /\ Seeds \subseteq activating
  /\ Planning =>
       PlannedUnits \subseteq todo \cup activating \cup skipped
                                \cup (IF phase = "pick" THEN {} ELSE {cur})

\* A unit that comes up without quadcd's doing authorises the start of what it wants, by
\* the very state and job list that are remembered for the rest of the pass ...
BusyAuthorise ==
  Planning => \A u \in activating \ Seeds : Authorises(u, known[u])

\* ... and none of the units that want one passed over does.
Refused(d) == known[d] # "unread" /\ ~ Authorises(d, known[d])

RefusalsStand ==
  Planning /\ ~Faulty =>
    /\ \A u \in skipped : asked[u] = WantedBy[u] /\ \A d \in WantedBy[u] : Refused(d)
    /\ phase = "ask" => /\ asked[cur] = WantedBy[cur]
                        /\ \A d \in WantedBy[cur] \ asking : Refused(d)

\* The job list is read before the first answer about reverse dependencies is used.
JobsFirst ==
  Planning => /\ jobsRead \/ (jobs = {} /\ skipped = {})
              /\ phase # "pick" => known[cur] = "inactive"

\* A complete plan counts all it sets off, and what it counts is pulled before it is used.
PullsSound ==
  /\ phase \in {"pull", "issue", "wait"} /\ ~Faulty => SetOff \subseteq activating
  /\ Decided => WorthPulling \subseteq pulled

PInv == Accounted /\ BusyAuthorise /\ RefusalsStand /\ JobsFirst /\ PullsSound

-----------------------------------------------------------------------------
(* Types *)

LEMMA InputTyped ==
  ASSUME TypeOK
  PROVE  /\ UnitsOf(input.changed) \subseteq Units \cup Templates
         /\ UnitsOf(input.deleted) \subseteq Units \cup Templates
BY ConstantsOK DEF TypeOK, UnitsOf

LEMMA ListingTyped ==
  ASSUME NEW t \in Templates, NEW S \in Listings(t)
  PROVE  S \subseteq Units
BY ConstantsOK DEF Listings

LEMMA BecomeTyped ==
  ASSUME TypeOK, NEW n \in [Units -> Conditions], Become(n)
  PROVE  /\ unit' \in [Units -> Conditions]
         /\ seen' \in [Units -> SUBSET Conditions]
         /\ \A u \in Units : seen[u] \subseteq seen'[u] /\ unit'[u] \in seen'[u]
BY DEF TypeOK, Become

LEMMA ReadingTyped ==
  ASSUME TypeOK, NEW u \in Units, NEW r, Read(u, r)
  PROVE  /\ known' \in [Units -> Reports \cup {"unread"}]
         /\ r \in Reports
BY DEF TypeOK, Read, Readings, Report, Reports, Conditions

LEMMA UnitGoesTyped ==
  ASSUME TypeOK, NEW u \in Units, NEW c \in Conditions, UnitGoes(u, c)
  PROVE  /\ unit' \in [Units -> Conditions]
         /\ seen' \in [Units -> SUBSET Conditions]
         /\ \A v \in Units : seen[v] \subseteq seen'[v] /\ unit'[v] \in seen'[v]
         /\ waiting' \subseteq waiting
         /\ UNCHANGED quadcdVars
<1>1. [unit EXCEPT ![u] = c] \in [Units -> Conditions]
  BY DEF TypeOK
<1>2. QED
  BY <1>1, BecomeTyped DEF UnitGoes

LEMMA TypeStep == TypeOK /\ [Next]_vars => TypeOK'
<1> SUFFICES ASSUME TypeOK, [Next]_vars PROVE TypeOK'
  OBVIOUS
<1> USE DEF vars, scanVars, cacheVars, noteVars, planVars, systemVars
<1>1. CASE Begin
  BY <1>1, InputTyped DEF Begin, TypeOK
<1>2. ASSUME NEW u \in Units, ReadDeleted(u) PROVE TypeOK'
  BY <1>2 DEF ReadDeleted, TypeOK
<1>3. ASSUME NEW t \in Templates, ReadDeletedTemplate(t) PROVE TypeOK'
  BY <1>3, ListingTyped DEF ReadDeletedTemplate, TypeOK
<1>4. CASE StopDeleted
  <2>1. PICK S \in Accepted(toStop) :
          Become([u \in Units |-> IF u \in S THEN "inactive" ELSE unit[u]])
    BY <1>4 DEF StopDeleted
  <2>2. [u \in Units |-> IF u \in S THEN "inactive" ELSE unit[u]] \in [Units -> Conditions]
    BY DEF TypeOK, Conditions
  <2>3. unit' \in [Units -> Conditions] /\ seen' \in [Units -> SUBSET Conditions]
    BY <2>1, <2>2, BecomeTyped
  <2>4. QED
    BY <1>4, <2>3 DEF StopDeleted, TypeOK
<1>5. CASE Reload
  BY <1>5, InputTyped DEF Reload, BeginPass, TypeOK
<1>6. ASSUME NEW t \in Templates, PlanTemplate(t) PROVE TypeOK'
  BY <1>6, ListingTyped DEF PlanTemplate, TypeOK
<1>7. ASSUME NEW u \in Units, PlanRestart(u) PROVE TypeOK'
  BY <1>7, ReadingTyped DEF PlanRestart, TypeOK
<1>8. ASSUME NEW u \in Units, PlanStarting(u) PROVE TypeOK'
  BY <1>8, ReadingTyped DEF PlanStarting, TypeOK
<1>9. ASSUME NEW u \in Units, PlanInactive(u) PROVE TypeOK'
  BY <1>9, ReadingTyped DEF PlanInactive, TypeOK
<1>10. CASE ReadJobs
  BY <1>10 DEF ReadJobs, JobLists, TypeOK
<1>11. CASE LeaveToJob
  BY <1>11 DEF LeaveToJob, TypeOK
<1>12. CASE StartForSync
  BY <1>12 DEF StartForSync, PlanStart, TypeOK
<1>13. CASE AskDeps
  <2>1. cur \in Units
    BY <1>13 DEF AskDeps, TypeOK
  <2>2. PICK D \in ReverseDeps(cur) : asking' = D /\ asked' = [asked EXCEPT ![cur] = D]
    BY <1>13 DEF AskDeps
  <2>3. D \subseteq Units
    BY <2>1, ConstantsOK DEF ReverseDeps
  <2>4. asking' \subseteq Units /\ asked' \in [Units -> SUBSET Units]
    BY <2>2, <2>3 DEF TypeOK
  <2>5. QED
    BY <1>13, <2>1, <2>4 DEF AskDeps, TypeOK
<1>14. ASSUME NEW d \in Units, WantedStart(d) PROVE TypeOK'
  BY <1>14, ReadingTyped DEF WantedStart, PlanStart, TypeOK
<1>15. ASSUME NEW d \in Units, PassOverDep(d) PROVE TypeOK'
  BY <1>15, ReadingTyped DEF PassOverDep, TypeOK
<1>16. CASE Skip
  BY <1>16 DEF Skip, TypeOK
<1>17. CASE EndPass
  <2>1. StartedWith(toStart \cup toRestart, skipped, asked) \subseteq skipped
    BY DEF StartedWith
  <2>2. QED
    BY <1>17, <2>1 DEF EndPass, ForgetStates, TypeOK
<1>18. WorthPulling \subseteq Files
  BY DEF WorthPulling, TypeOK
<1>19. CASE PullAndReplan
  BY <1>18, <1>19, InputTyped DEF PullAndReplan, BeginPass, TypeOK
<1>20. CASE NothingToPull
  BY <1>18, <1>20 DEF NothingToPull, TypeOK
<1>21. CASE PullAdded
  BY <1>18, <1>21 DEF PullAdded, Added, TypeOK
<1>22. CASE SkipCall
  BY <1>22 DEF SkipCall, TypeOK
<1>23. ASSUME NEW S \in SUBSET Units, NEW E \in SUBSET Units, Enqueue(S, E)
       PROVE  /\ unit' \in [Units -> Conditions]
              /\ seen' \in [Units -> SUBSET Conditions]
              /\ waiting' \subseteq Units
  <2> DEFINE more == StartedWith(S, Units \ S, WantedBy)
             new == [u \in Units |->
                       IF u \in E \/ (u \in more /\ unit[u] = "inactive")
                         THEN "queued" ELSE unit[u]]
  <2>1. new \in [Units -> Conditions]
    BY DEF TypeOK, Conditions
  <2>2. Become(new) /\ waiting' \subseteq S
    BY <1>23 DEF Enqueue
  <2> HIDE DEF new
  <2>3. QED
    BY <2>1, <2>2, BecomeTyped
<1>24. ASSUME NEW S \in Accepted(BatchUnits(batch)), batch \in 1..4 PROVE S \in SUBSET Units
  BY <1>24 DEF Accepted, BatchUnits, TypeOK
<1>25. CASE StartCall
  <2>1. PICK S \in Accepted(BatchUnits(batch)) :
          Enqueue(S, {u \in S : unit[u] \in {"inactive", "backoff"}})
    BY <1>25 DEF StartCall
  <2>2. S \in SUBSET Units
    BY <1>24, <1>25 DEF StartCall
  <2>3. {u \in S : unit[u] \in {"inactive", "backoff"}} \in SUBSET Units
    BY <2>2
  <2>4. /\ unit' \in [Units -> Conditions]
        /\ seen' \in [Units -> SUBSET Conditions]
        /\ waiting' \subseteq Units
    BY <2>1, <2>2, <2>3, <1>23
  <2>5. QED
    BY <1>25, <2>4 DEF StartCall, TypeOK
<1>26. CASE RestartCall
  <2>1. PICK S \in Accepted(BatchUnits(batch)) : Enqueue(S, S)
    BY <1>26 DEF RestartCall
  <2>2. S \in SUBSET Units
    BY <1>24, <1>26 DEF RestartCall
  <2>3. QED
    BY <1>26, <2>1, <2>2, <1>23 DEF RestartCall, TypeOK
<1>27. CASE CallReturns
  BY <1>27 DEF CallReturns, TypeOK
<1>28. CASE Finish
  BY <1>28 DEF Finish, TypeOK
<1>29. CASE Systemd
  <2>1. PICK u \in Units : \/ JobRuns(u) \/ StartEnds(u) \/ RetryStart(u)
                           \/ Exits(u) \/ StartRequested(u) \/ StoppedByHand(u)
    BY <1>29 DEF Systemd
  <2>2. PICK c \in Conditions : UnitGoes(u, c)
    BY <2>1 DEF JobRuns, StartEnds, RetryStart, Exits, StartRequested, StoppedByHand,
                Conditions
  <2>3. events' \in 0..MaxEvents
    BY <2>1, ConstantsOK DEF JobRuns, StartEnds, RetryStart, Exits, StartRequested,
                StoppedByHand, Progress, Spontaneous, TypeOK
  <2>4. QED
    BY <2>2, <2>3, UnitGoesTyped DEF quadcdVars, TypeOK
<1>30. CASE UNCHANGED vars
  BY <1>30 DEF TypeOK
<1>31. QED
  BY <1>1, <1>2, <1>3, <1>4, <1>5, <1>6, <1>7, <1>8, <1>9, <1>10, <1>11, <1>12, <1>13,
     <1>14, <1>15, <1>16, <1>17, <1>19, <1>20, <1>21, <1>22, <1>25, <1>26, <1>27, <1>28,
     <1>29, <1>30 DEF Next, Quadcd

LEMMA TypeInit == Init => TypeOK
<1> SUFFICES ASSUME Init PROVE TypeOK
  OBVIOUS
<1>1. PICK i \in Inputs, b \in BOOLEAN :
        input = [changed |-> i.changed, deleted |-> i.deleted, syncOnly |-> b]
  BY DEF Init
<1>2. input \in [changed : SUBSET Files, deleted : SUBSET Files, syncOnly : BOOLEAN]
  BY <1>1, ConstantsOK
<1>3. unit \in [Units -> Conditions]
  BY DEF Init
<1>4. seen \in [Units -> SUBSET Conditions]
  BY <1>3 DEF Init
<1>5. events \in 0..MaxEvents
  BY ConstantsOK DEF Init
<1>6. asked \in [Units -> SUBSET Units]
  BY DEF Init
<1>7. known \in [Units -> Reports \cup {"unread"}]
  BY DEF Init
<1>8. batch \in 1..5 /\ round \in 1..2
  BY DEF Init
<1>9. QED
  BY <1>2, <1>3, <1>4, <1>5, <1>6, <1>7, <1>8 DEF Init, TypeOK

\* Every run of apply_changes keeps every variable in its range.
THEOREM TypeCorrect == Spec => []TypeOK
BY TypeInit, TypeStep, PTL DEF Spec

-----------------------------------------------------------------------------
(* The inductive invariant *)

Sound == StatesSound /\ JobsSound /\ PlanSound /\ WalkSound

\* What has been remembered stays sound while units go on: history only grows.
LEMMA SoundStays ==
  ASSUME TypeOK, TypeOK', Sound,
         \A u \in Units : seen[u] \subseteq seen'[u],
         UNCHANGED <<known, jobsRead, jobs, toStart, toRestart, skipped, asking, cur>>,
         phase' = "ask" => phase = "ask"
  PROVE  Sound'
<1> USE ConstantsOK
<1>1. \A u \in Units : \A C : Was(u, C) => Was(u, C)'
  BY DEF Was
<1>2. \A u \in Units : \A C : ~ AlwaysWas(u, C) => ~ AlwaysWas(u, C)'
  BY DEF AlwaysWas
<1>3. StatesSound'
  BY <1>1 DEF Sound, StatesSound
<1>4. JobsSound'
  BY <1>1, <1>2 DEF Sound, JobsSound, TypeOK
<1>5. \A d \in Units : Missable(d) => Missable(d)'
  BY <1>2 DEF Missable
<1>6. \A u \in Units : Wanted(u) => Wanted(u)'
  BY <1>1 DEF Wanted
<1>7. PlanSound'
  BY <1>1, <1>2, <1>5, <1>6 DEF Sound, PlanSound, TypeOK
<1>8. WalkSound'
  BY <1>2, <1>5 DEF Sound, WalkSound, TypeOK
<1>9. QED
  BY <1>3, <1>4, <1>7, <1>8 DEF Sound

\* A reading tells what the unit was at some moment of the pass.
LEMMA ReadSound ==
  ASSUME TypeOK, StatesSound, \A u \in Units : unit[u] \in seen[u],
         NEW u \in Units, NEW r, Read(u, r), seen' = seen
  PROVE  /\ StatesSound'
         /\ r \in {"starting", "active", "backoff"} => r \in seen[u]
         /\ r = "inactive" /\ ~Faulty => Was(u, {"inactive", "queued"})
<1>1. CASE known[u] # "unread"
  <2>1. known' = known /\ r = known[u]
    BY <1>1 DEF Read, TypeOK
  <2>2. QED
    BY <2>1 DEF StatesSound, Was, TypeOK
<1>2. CASE known[u] = "unread"
  <2>1. r \in Readings(u)
    BY <1>2 DEF Read
  <2>2. /\ r \in {"starting", "active", "backoff"} => r \in seen[u]
        /\ r = "inactive" /\ ~Faulty => Was(u, {"inactive", "queued"})
    BY <2>1 DEF Readings, Report, Was, TypeOK, Conditions
  <2>3. \A v \in Units : known'[v] = IF v = u THEN r ELSE known[v]
    BY DEF Read, TypeOK
  <2>4. QED
    BY <2>2, <2>3 DEF StatesSound, Was
<1>3. QED
  BY <1>1, <1>2

\* A new pass starts with nothing remembered.
LEMMA BeginSound ==
  ASSUME TypeOK, NoLeftovers, ~Planning, NEW n, BeginPass(n)
  PROVE  Sound' /\ NoLeftovers' /\ (\A u \in Units : unit'[u] \in seen'[u])
<1>1. /\ \A u \in Units : known'[u] = "unread"
      /\ jobsRead' = FALSE /\ jobs' = {}
  BY DEF BeginPass, NoLeftovers, cacheVars
<1>2. toStart' = {} /\ toRestart' = {} /\ skipped' = {} /\ phase' = "pick"
  BY DEF BeginPass
<1>3. \A u \in Units : unit'[u] \in seen'[u]
  BY DEF BeginPass
<1>4. QED
  BY <1>1, <1>2, <1>3 DEF Sound, StatesSound, JobsSound, PlanSound, WalkSound, NoLeftovers,
                          Planning

LEMMA IInit == Init => IInv
<1> SUFFICES ASSUME Init PROVE IInv
  OBVIOUS
<1>1. TypeOK
  BY TypeInit
<1>2. StatesSound /\ JobsSound /\ NoLeftovers
  BY DEF Init, StatesSound, JobsSound, NoLeftovers
<1>3. PlanSound /\ WalkSound /\ WaitsForOwn
  BY DEF Init, PlanSound, WalkSound, WaitsForOwn
<1>4. \A u \in Units : unit[u] \in seen[u]
  BY DEF Init
<1>5. QED
  BY <1>1, <1>2, <1>3, <1>4 DEF IInv

\* Steps that change units, or nothing the planner remembers.
LEMMA QuietStep ==
  ASSUME IInv, TypeOK',
         \/ Begin \/ StopDeleted \/ SkipCall \/ StartCall \/ RestartCall \/ CallReturns
         \/ Finish \/ NothingToPull \/ PullAdded \/ Systemd \/ UNCHANGED vars
         \/ \E u \in Units : ReadDeleted(u)
         \/ \E t \in Templates : ReadDeletedTemplate(t) \/ PlanTemplate(t)
  PROVE  IInv'
<1> USE DEF vars, scanVars, cacheVars, noteVars, planVars, systemVars, quadcdVars
<1>1. TypeOK /\ Sound /\ (\A u \in Units : unit[u] \in seen[u])
  BY DEF IInv, Sound
<1>2. \A u \in Units : seen[u] \subseteq seen'[u] /\ unit'[u] \in seen'[u]
  <2>1. CASE UNCHANGED <<unit, seen>>
    BY <2>1, <1>1
  <2>2. CASE \E n : Become(n)
    BY <2>2, <1>1 DEF Become, TypeOK
  <2>3. QED
    BY <2>1, <2>2 DEF Begin, StopDeleted, SkipCall, StartCall, RestartCall, CallReturns,
       Finish, NothingToPull, PullAdded, Systemd, ReadDeleted, ReadDeletedTemplate,
       PlanTemplate, Enqueue, JobRuns, StartEnds, RetryStart, Exits, StartRequested,
       StoppedByHand, UnitGoes
<1>3. /\ UNCHANGED <<known, jobsRead, jobs, toStart, toRestart, skipped, asking, cur>>
      /\ phase' = phase \/ (~Planning /\ phase' \notin {"pick", "jobs", "ask"})
  BY DEF Begin, StopDeleted, SkipCall, StartCall, RestartCall, CallReturns, Finish,
     NothingToPull, PullAdded, Systemd, ReadDeleted, ReadDeletedTemplate, PlanTemplate,
     JobRuns, StartEnds, RetryStart, Exits, StartRequested, StoppedByHand, UnitGoes,
     Planning
<1>4. Sound'
  <2>1. phase' = "ask" => phase = "ask"
    BY <1>3 DEF Planning
  <2>2. QED
    BY <1>1, <1>2, <1>3, <2>1, SoundStays
<1>5. NoLeftovers'
  BY <1>3 DEF NoLeftovers, IInv, Planning
<1>6. WaitsForOwn'
  <2>1. CASE StartCall \/ RestartCall
    <3>1. PICK S \in Accepted(BatchUnits(batch)) : waiting' \subseteq S
      BY <2>1 DEF StartCall, RestartCall, Enqueue
    <3>2. S \subseteq BatchUnits(batch)
      BY DEF Accepted
    <3>3. BatchUnits(batch)' = BatchUnits(batch) /\ phase' = "wait"
      BY <2>1 DEF StartCall, RestartCall, BatchUnits
    <3>4. QED
      BY <3>1, <3>2, <3>3 DEF WaitsForOwn
  <2>2. CASE Systemd
    <3>1. waiting' \subseteq waiting /\ BatchUnits(batch)' = BatchUnits(batch)
          /\ phase' = phase
      BY <2>2 DEF Systemd, JobRuns, StartEnds, RetryStart, Exits, StartRequested,
         StoppedByHand, UnitGoes, BatchUnits
    <3>2. QED
      BY <3>1 DEF WaitsForOwn, IInv
  <2>3. CASE CallReturns
    BY <2>3 DEF CallReturns, JobsEnded, WaitsForOwn
  <2>4. CASE UNCHANGED vars
    BY <2>4 DEF WaitsForOwn, IInv, BatchUnits
  <2>5. CASE /\ phase # "wait" /\ phase' # "wait" /\ waiting' = waiting
    BY <2>5 DEF WaitsForOwn, IInv
  <2>6. QED
    BY <2>1, <2>2, <2>3, <2>4, <2>5 DEF Begin, StopDeleted, SkipCall, Finish,
       NothingToPull, PullAdded, ReadDeleted, ReadDeletedTemplate, PlanTemplate
<1>7. QED
  BY <1>2, <1>4, <1>5, <1>6 DEF IInv, Sound

\* Steps that begin or end a planning pass.
LEMMA PassStep ==
  ASSUME IInv, TypeOK', Reload \/ PullAndReplan \/ EndPass
  PROVE  IInv'
<1> USE DEF scanVars, cacheVars, noteVars, planVars, systemVars
<1>1. CASE Reload \/ PullAndReplan
  <2>1. TypeOK /\ NoLeftovers /\ ~Planning
    BY <1>1 DEF IInv, Reload, PullAndReplan, Planning
  <2>2. PICK n : BeginPass(n)
    BY <1>1 DEF Reload, PullAndReplan
  <2>3. WaitsForOwn'
    BY <1>1, <2>2 DEF Reload, PullAndReplan, BeginPass, WaitsForOwn, IInv
  <2>4. QED
    BY <2>1, <2>2, <2>3, BeginSound DEF IInv, Sound
<1>2. CASE EndPass
  <2>1. StatesSound' /\ JobsSound' /\ NoLeftovers'
    BY <1>2 DEF EndPass, ForgetStates, StatesSound, JobsSound, NoLeftovers
  <2>2. PlanSound'
    BY <1>2 DEF EndPass, IInv, PlanSound, Wanted, Missable, Was, AlwaysWas
  <2>3. WalkSound' /\ WaitsForOwn' /\ (\A u \in Units : unit'[u] \in seen'[u])
    BY <1>2 DEF EndPass, IInv, WalkSound, WaitsForOwn
  <2>4. QED
    BY <2>1, <2>2, <2>3 DEF IInv
<1>3. QED
  BY <1>1, <1>2

\* Steps in which plan_unit reads something or decides about one unit.
LEMMA PlanStep ==
  ASSUME IInv, TypeOK',
         \/ ReadJobs \/ LeaveToJob \/ StartForSync \/ AskDeps \/ Skip
         \/ \E u \in Units : \/ PlanRestart(u) \/ PlanStarting(u) \/ PlanInactive(u)
                             \/ WantedStart(u) \/ PassOverDep(u)
  PROVE  IInv'
<1> USE DEF scanVars, cacheVars, noteVars, planVars, systemVars
<1>1. /\ TypeOK /\ StatesSound /\ JobsSound /\ PlanSound /\ WalkSound
      /\ \A u \in Units : unit[u] \in seen[u]
  BY DEF IInv
<1>2. /\ unit' = unit /\ seen' = seen /\ waiting' = waiting
      /\ Planning /\ Planning'
  BY DEF ReadJobs, LeaveToJob, StartForSync, AskDeps, Skip, PlanRestart, PlanStarting,
     PlanInactive, WantedStart, PassOverDep, Planning, PlanStart
<1>3. NoLeftovers' /\ WaitsForOwn' /\ (\A u \in Units : unit'[u] \in seen'[u])
  BY <1>1, <1>2 DEF NoLeftovers, WaitsForOwn, Planning, IInv
<1> DEFINE Goal == StatesSound' /\ JobsSound' /\ PlanSound' /\ WalkSound'
<1>4. SUFFICES Goal
  BY <1>3 DEF IInv
<1>5. \A u \in Units : \A C : Was(u, C)' = Was(u, C) /\ AlwaysWas(u, C)' = AlwaysWas(u, C)
  BY <1>2 DEF Was, AlwaysWas
<1>6. \A u \in Units : Wanted(u)' = Wanted(u) /\ Missable(u)' = Missable(u)
  BY <1>2 DEF Wanted, Missable, Was, AlwaysWas
<1>7. ASSUME NEW u \in Units, PlanRestart(u) PROVE Goal
  <2>1. PICK r \in Running : Read(u, r)
    BY <1>7 DEF PlanRestart
  <2>2. StatesSound' /\ Was(u, Running)
    BY <1>1, <1>2, <2>1, ReadSound DEF Running, Was
  <2>3. JobsSound' /\ WalkSound'
    BY <1>1, <1>5, <1>6, <1>7 DEF PlanRestart, JobsSound, WalkSound, TypeOK
  <2>4. PlanSound'
    <3>1. toStart' = toStart /\ skipped' = skipped /\ toRestart' = toRestart \cup {u}
      BY <1>7 DEF PlanRestart
    <3>2. \A v \in toRestart' : Was(v, Running)'
      BY <1>1, <1>5, <2>2, <3>1 DEF PlanSound, TypeOK
    <3>3. QED
      BY <1>1, <1>5, <1>6, <3>1, <3>2, ConstantsOK DEF PlanSound, TypeOK
  <2>5. QED
    BY <2>2, <2>3, <2>4
<1>8. ASSUME NEW u \in Units, PlanStarting(u) PROVE Goal
  <2>1. StatesSound'
    BY <1>1, <1>2, <1>8, ReadSound DEF PlanStarting
  <2>2. JobsSound' /\ WalkSound' /\ PlanSound'
    BY <1>1, <1>5, <1>6, <1>8, ConstantsOK
       DEF PlanStarting, JobsSound, WalkSound, PlanSound, TypeOK
  <2>3. QED
    BY <2>1, <2>2
<1>9. ASSUME NEW u \in Units, PlanInactive(u) PROVE Goal
  <2>1. StatesSound'
    BY <1>1, <1>2, <1>9, ReadSound DEF PlanInactive
  <2>2. JobsSound' /\ WalkSound' /\ PlanSound'
    BY <1>1, <1>5, <1>6, <1>9, ConstantsOK
       DEF PlanInactive, JobsSound, WalkSound, PlanSound, TypeOK
  <2>3. QED
    BY <2>1, <2>2
<1>10. CASE ReadJobs
  <2>1. jobs' \in JobLists /\ phase' = "jobs"
    BY <1>10 DEF ReadJobs
  <2>2. \A u \in jobs' : Was(u, Joined)
    BY <1>1, <2>1 DEF JobLists, Was
  <2>3. ~Faulty => \A u \in Units \ jobs' : ~ AlwaysWas(u, Joined)
    BY <1>1, <2>1 DEF JobLists, AlwaysWas
  <2>4. JobsSound'
    BY <1>5, <1>10, <2>2, <2>3 DEF ReadJobs, JobsSound, TypeOK
  <2>5. StatesSound' /\ PlanSound' /\ WalkSound'
    BY <1>1, <1>5, <1>6, <1>10, ConstantsOK
       DEF ReadJobs, StatesSound, WalkSound, PlanSound, TypeOK
  <2>6. QED
    BY <2>4, <2>5
<1>11. CASE LeaveToJob
  BY <1>1, <1>5, <1>6, <1>11, ConstantsOK
     DEF LeaveToJob, StatesSound, JobsSound, WalkSound, PlanSound, TypeOK
<1>12. CASE StartForSync
  <2>1. cur \in Units /\ Wanted(cur)
    BY <1>1, <1>12 DEF StartForSync, Wanted, TypeOK
  <2>2. Faulty \/ ~ AlwaysWas(cur, Joined)
    BY <1>1, <1>12, <2>1 DEF StartForSync, JobsSound
  <2>3. PlanSound'
    BY <1>1, <1>5, <1>6, <1>12, <2>1, <2>2, ConstantsOK
       DEF StartForSync, PlanStart, PlanSound, TypeOK
  <2>4. StatesSound' /\ JobsSound' /\ WalkSound'
    BY <1>1, <1>5, <1>12
       DEF StartForSync, PlanStart, StatesSound, JobsSound, WalkSound, TypeOK
  <2>5. QED
    BY <2>3, <2>4
<1>13. CASE AskDeps
  <2>1. cur \in Units /\ cur' = cur /\ cur \notin jobs /\ jobsRead /\ jobsRead' = jobsRead
    BY <1>1, <1>13 DEF AskDeps, TypeOK
  <2>2. Faulty \/ ~ AlwaysWas(cur, Joined)
    BY <1>1, <2>1 DEF JobsSound
  <2>3. asking' \subseteq WantedBy[cur] /\ (~Faulty => asking' = WantedBy[cur])
    BY <1>13 DEF AskDeps, ReverseDeps
  <2>4. WalkSound'
    <3>1. asking' \subseteq WantedBy[cur'] /\ (Faulty \/ ~ AlwaysWas(cur, Joined)')
      BY <1>5, <2>1, <2>2, <2>3
    <3>2. ~Faulty => WantedBy[cur'] \ asking' = {}
      BY <2>1, <2>3
    <3>3. AlwaysWas(cur, Joined)' = (seen'[cur'] \subseteq Joined)
      BY DEF AlwaysWas
    <3>4. QED
      BY <2>1, <3>1, <3>2, <3>3 DEF WalkSound
  <2>5. UNCHANGED <<known, jobs, jobsRead, toStart, toRestart, skipped>>
    BY <1>13 DEF AskDeps
  <2>6. StatesSound' /\ JobsSound'
    BY <1>1, <1>2, <2>5 DEF StatesSound, JobsSound, Was, AlwaysWas
  <2>7. PlanSound'
    BY <1>1, <1>5, <1>6, <2>5, ConstantsOK DEF PlanSound, TypeOK
  <2>8. QED
    BY <2>4, <2>6, <2>7
<1>14. ASSUME NEW d \in Units, WantedStart(d) PROVE Goal
  <2>1. PICK r \in Reports : Authorises(d, r) /\ Read(d, r)
    BY <1>14 DEF WantedStart
  <2>2. /\ StatesSound'
        /\ r \in {"starting", "active", "backoff"} => r \in seen[d]
    BY <1>1, <1>2, <2>1, ReadSound
  <2>3. Was(d, ComingUp)
    <3>1. CASE r = "inactive"
      BY <1>1, <2>1, <3>1 DEF Authorises, JobsSound, Was, Joined, ComingUp
    <3>2. CASE r # "inactive"
      BY <2>1, <2>2, <3>2 DEF Authorises, Was, ComingUp
    <3>3. QED
      BY <3>1, <3>2
  <2>4. cur \in Units /\ Wanted(cur) /\ (Faulty \/ ~ AlwaysWas(cur, Joined))
    BY <1>1, <1>14, <2>3 DEF WantedStart, WalkSound, Wanted, TypeOK
  <2>5. PlanSound'
    BY <1>1, <1>5, <1>6, <1>14, <2>4, ConstantsOK
       DEF WantedStart, PlanStart, PlanSound, TypeOK
  <2>6. JobsSound' /\ WalkSound'
    BY <1>1, <1>5, <1>14 DEF WantedStart, PlanStart, JobsSound, WalkSound, TypeOK
  <2>7. QED
    BY <2>2, <2>5, <2>6
<1>15. ASSUME NEW d \in Units, PassOverDep(d) PROVE Goal
  <2>1. PICK r \in Reports : ~Authorises(d, r) /\ Read(d, r)
    BY <1>15 DEF PassOverDep
  <2>2. /\ StatesSound'
        /\ r \in {"starting", "active", "backoff"} => r \in seen[d]
        /\ r = "inactive" /\ ~Faulty => Was(d, {"inactive", "queued"})
    BY <1>1, <1>2, <2>1, ReadSound
  <2>3. jobsRead /\ phase = "ask" /\ cur \in Units
    BY <1>1, <1>15 DEF PassOverDep, WalkSound, TypeOK
  <2>4. ~Faulty => Missable(d)
    <3>1. CASE r = "backoff"
      BY <2>2, <3>1 DEF Missable, AlwaysWas
    <3>2. CASE r = "inactive"
      BY <1>1, <2>1, <2>2, <2>3, <3>2
         DEF Authorises, JobsSound, Missable, AlwaysWas, Was, Joined
    <3>3. QED
      BY <2>1, <3>1, <3>2 DEF Authorises, Reports
  <2>5. asking' = asking \ {d} /\ cur' = cur /\ jobsRead' = jobsRead
    BY <1>15 DEF PassOverDep
  <2>6. WalkSound'
    BY <1>1, <1>5, <1>6, <2>3, <2>4, <2>5, ConstantsOK DEF WalkSound, TypeOK
  <2>7. JobsSound' /\ PlanSound'
    BY <1>1, <1>5, <1>6, <1>15, ConstantsOK DEF PassOverDep, JobsSound, PlanSound, TypeOK
  <2>8. QED
    BY <2>2, <2>6, <2>7
<1>16. CASE Skip
  <2>1. cur \in Units /\ (~Faulty => \A d \in WantedBy[cur] : Missable(d))
    BY <1>1, <1>16 DEF Skip, WalkSound, TypeOK
  <2>2. PlanSound'
    BY <1>1, <1>5, <1>6, <1>16, <2>1, ConstantsOK DEF Skip, PlanSound, TypeOK
  <2>3. StatesSound' /\ JobsSound' /\ WalkSound'
    BY <1>1, <1>5, <1>16 DEF Skip, StatesSound, JobsSound, WalkSound, TypeOK
  <2>4. QED
    BY <2>2, <2>3
<1>17. QED
  BY <1>7, <1>8, <1>9, <1>10, <1>11, <1>12, <1>13, <1>14, <1>15, <1>16

LEMMA Inductive == Spec => []IInv
<1>1. IInv /\ [Next]_vars => IInv'
  <2> SUFFICES ASSUME IInv, [Next]_vars PROVE IInv'
    OBVIOUS
  <2>1. TypeOK'
    BY TypeStep DEF IInv
  <2>2. QED
    BY <2>1, QuietStep, PassStep, PlanStep DEF Next, Quadcd
<1>2. QED
  BY <1>1, IInit, PTL DEF Spec

-----------------------------------------------------------------------------
(* The properties *)

\* A start is justified by something that came up during the pass that planned it.
THEOREM StartsAreWantedAlways == Spec => []StartsAreWanted
<1>1. IInv => StartsAreWanted
  BY DEF IInv, PlanSound, Wanted, StartsAreWanted
<1>2. QED
  BY <1>1, Inductive, PTL

\* A unit that was down all through the last pass is not restarted.
THEOREM RestartsWereRunningAlways == Spec => []RestartsWereRunning
<1>1. IInv => RestartsWereRunning
  BY DEF IInv, PlanSound, RestartsWereRunning
<1>2. QED
  BY <1>1, Inductive, PTL

\* A start under way all through the pass is neither aborted nor repeated, although
\* states and jobs are read at different moments.
THEOREM StartUnderwayLeftAloneAlways == Spec => []StartUnderwayLeftAlone
<1>1. IInv => StartUnderwayLeftAlone
  <2> SUFFICES ASSUME IInv, NEW u \in Units, AlwaysWas(u, Joined)
               PROVE  u \notin toRestart /\ (u \notin toStart \/ Faulty)
    BY DEF StartUnderwayLeftAlone
  <2>1. ~ Was(u, Running)
    BY DEF AlwaysWas, Was, Joined, Running
  <2>2. QED
    BY <2>1 DEF IInv, PlanSound
<1>2. QED
  BY <1>1, Inductive, PTL

\* No unit is passed over while one that wants it is steadily coming up.
THEOREM SteadyWanterHonouredAlways == Spec => []SteadyWanterHonoured
<1>1. IInv => SteadyWanterHonoured
  BY DEF IInv, PlanSound, Missable, SteadyWanterHonoured
<1>2. QED
  BY <1>1, Inductive, PTL

\* The other units are commanded when no StartOnSync job of quadcd's runs any more.
THEOREM BuildsGoFirstAlways == Spec => []BuildsGoFirst
<1>1. IInv => BuildsGoFirst
  <2> SUFFICES ASSUME IInv, Decided, waiting \cap StartOnSync # {}
               PROVE  batch \in {1, 2}
    BY DEF BuildsGoFirst
  <2>1. phase = "wait" /\ waiting \subseteq BatchUnits(batch) /\ batch \in 1..4
    BY DEF IInv, WaitsForOwn, Decided, TypeOK
  <2>2. batch \notin {3, 4}
    BY <2>1 DEF BatchUnits
  <2>3. QED
    BY <2>1, <2>2
<1>2. QED
  BY <1>1, Inductive, PTL
-----------------------------------------------------------------------------
(* Deleted units *)

LEMMA DeletedStep ==
  ASSUME IInv, DeletedSound, TypeOK', [Next]_vars
  PROVE  DeletedSound'
<1> SUFFICES ASSUME ~Faulty, NEW u \in UnitsOf(input.deleted)' \cap Units
             PROVE  /\ phase' = "stop" => u \in todo' \cup toStop' \/ ~ UpAllAlong(u)'
                    /\ phase' = "reload" => ~ UpAllAlong(u)'
  BY DEF DeletedSound
<1> USE DEF vars, scanVars, cacheVars, noteVars, planVars, systemVars, quadcdVars
<1>1. TypeOK /\ (\A v \in Units : unit[v] \in seen[v]) /\ input' = input
  BY DEF IInv, Next, Quadcd, Systemd, Begin, ReadDeleted, ReadDeletedTemplate, StopDeleted,
     Reload, BeginPass, PlanTemplate, PlanRestart, PlanStarting, PlanInactive, ReadJobs,
     LeaveToJob, StartForSync, AskDeps, WantedStart, PassOverDep, Skip, EndPass,
     PullAndReplan, NothingToPull, PullAdded, SkipCall, StartCall, RestartCall,
     CallReturns, Finish, JobRuns, StartEnds, RetryStart, Exits, StartRequested,
     StoppedByHand, UnitGoes
<1>2. u \in UnitsOf(input.deleted) \cap Units
  BY <1>1 DEF UnitsOf
<1>3. /\ phase = "stop" => u \in todo \cup toStop \/ ~ UpAllAlong(u)
      /\ phase = "reload" => ~ UpAllAlong(u)
  BY <1>2 DEF DeletedSound
<1>4. CASE Begin
  BY <1>1, <1>2, <1>4 DEF Begin
<1>5. ASSUME NEW v \in Units, ReadDeleted(v)
      PROVE  phase' = "stop" /\ (u \in todo' \cup toStop' \/ ~ UpAllAlong(u)')
  <2>1. /\ phase = "stop" /\ phase' = phase /\ todo' = todo \ {v} /\ seen' = seen
        /\ toStop \subseteq toStop'
    BY <1>5 DEF ReadDeleted
  <2>2. CASE u # v
    BY <1>3, <2>1, <2>2 DEF UpAllAlong, AlwaysWas
  <2>3. CASE u = v
    <3>1. u \in toStop' \/ Report(unit[u]) = "inactive"
      BY <1>5, <2>3 DEF ReadDeleted, Readings, NeedsStop
    <3>2. Report(unit[u]) = "inactive" => ~ UpAllAlong(u)
      BY <1>1, <1>2 DEF Report, UpAllAlong, AlwaysWas, TypeOK, Conditions
    <3>3. QED
      BY <2>1, <3>1, <3>2 DEF UpAllAlong, AlwaysWas
  <2>4. QED
    BY <2>1, <2>2, <2>3
<1>6. ASSUME NEW t \in Templates, ReadDeletedTemplate(t)
      PROVE  phase' = "stop" /\ (u \in todo' \cup toStop' \/ ~ UpAllAlong(u)')
  <2>1. /\ phase = "stop" /\ phase' = phase /\ todo' = todo \ {t} /\ seen' = seen
        /\ toStop \subseteq toStop'
    BY <1>6 DEF ReadDeletedTemplate
  <2>2. u # t
    BY <1>2, ConstantsOK
  <2>3. QED
    BY <1>3, <2>1, <2>2 DEF UpAllAlong, AlwaysWas
<1>7. CASE StopDeleted
  <2>1. /\ phase = "stop" /\ todo = {} /\ phase' = "reload"
        /\ Become([v \in Units |-> IF v \in toStop THEN "inactive" ELSE unit[v]])
    BY <1>7 DEF StopDeleted, Accepted
  <2>2. seen[u] \subseteq seen'[u] /\ (u \in toStop => "inactive" \in seen'[u])
    BY <1>2, <2>1 DEF Become
  <2>3. ~ UpAllAlong(u)'
    BY <1>3, <2>1, <2>2 DEF UpAllAlong, AlwaysWas
  <2>4. QED
    BY <2>1, <2>3
<1>8. CASE Systemd
  <2>1. UNCHANGED <<phase, todo, toStop>> /\ seen[u] \subseteq seen'[u]
    BY <1>2, <1>8 DEF Systemd, JobRuns, StartEnds, RetryStart, Exits, StartRequested,
       StoppedByHand, UnitGoes, Become
  <2>2. QED
    BY <1>3, <2>1 DEF UpAllAlong, AlwaysWas
<1>9. CASE UNCHANGED vars
  BY <1>3, <1>9 DEF UpAllAlong, AlwaysWas
<1>10. CASE phase' \notin {"stop", "reload"}
  BY <1>10
<1>11. QED
  BY <1>4, <1>5, <1>6, <1>7, <1>8, <1>9, <1>10 DEF Next, Quadcd, Reload, BeginPass,
     PlanTemplate, PlanRestart, PlanStarting, PlanInactive, ReadJobs, LeaveToJob,
     StartForSync, PlanStart, AskDeps, WantedStart, PassOverDep, Skip, EndPass,
     PullAndReplan, NothingToPull, PullAdded, SkipCall, StartCall, RestartCall,
     CallReturns, Finish

\* No unit that ran all along from the sync on is forgotten by systemd while it runs:
\* every deleted unit was stopped or went down, whatever happened meanwhile.
THEOREM DeletedAreStoppedAlways == Spec => []DeletedAreStopped
<1>1. Init => DeletedSound
  <2>1. Init => phase = "begin"
    BY DEF Init
  <2>2. QED
    BY <2>1 DEF DeletedSound
<1>2. IInv /\ IInv' /\ DeletedSound /\ [Next]_vars => DeletedSound'
  BY DeletedStep DEF IInv
<1>3. DeletedSound => DeletedAreStopped
  BY DEF DeletedSound, UpAllAlong, DeletedAreStopped
<1>4. QED
  BY <1>1, <1>2, <1>3, Inductive, PTL DEF Spec
-----------------------------------------------------------------------------
(* Images *)

\* StartedWith is closed under being wanted ...
LEMMA StartedWithClosed ==
  ASSUME NEW S, NEW Among, NEW wants, NEW v \in Among,
         wants[v] \cap (S \cup StartedWith(S, Among, wants)) # {}
  PROVE  v \in StartedWith(S, Among, wants)
<1>1. ASSUME NEW T \in SUBSET Among,
             \A w \in Among : wants[w] \cap (S \cup T) # {} => w \in T
      PROVE  v \in T
  <2>1. StartedWith(S, Among, wants) \subseteq T
    BY <1>1 DEF StartedWith
  <2>2. wants[v] \cap (S \cup T) # {}
    BY <2>1
  <2>3. QED
    BY <1>1, <2>2
<1>2. QED
  BY <1>1 DEF StartedWith

\* ... and the least such set.
LEMMA StartedWithLeast ==
  ASSUME NEW S, NEW Among, NEW wants, NEW T \in SUBSET Among,
         \A v \in Among : wants[v] \cap (S \cup T) # {} => v \in T
  PROVE  StartedWith(S, Among, wants) \subseteq T
BY DEF StartedWith

\* A plan whose pass is over counts every unit it sets off, along any chain.
LEMMA EndPassCounts ==
  ASSUME IInv, PInv, EndPass, ~Faulty
  PROVE  SetOff' \subseteq activating'
<1> DEFINE marked == StartedWith(Seeds, skipped, asked)
           T == {v \in PlannedUnits : v \in activating \cup marked}
<1>1. /\ TypeOK /\ Seeds \subseteq activating /\ phase = "pick" /\ todo = {} /\ Planning
      /\ activating' = activating \cup marked
      /\ UNCHANGED <<input, listed, toStart, toRestart>>
  BY DEF IInv, PInv, Accounted, EndPass, Seeds, Planning
<1>2. PlannedUnits \subseteq activating \cup skipped
  BY <1>1 DEF PInv, Accounted
<1>3. ASSUME NEW v \in PlannedUnits, WantedBy[v] \cap (Seeds \cup T) # {}
      PROVE  v \in T
  <2>1. CASE v \in activating
    BY <2>1
  <2>2. CASE v \in skipped
    <3>1. asked[v] = WantedBy[v] /\ \A d \in WantedBy[v] : Refused(d)
      BY <1>1, <2>2 DEF PInv, RefusalsStand
    <3>2. PICK d \in WantedBy[v] : d \in Seeds \cup T
      BY <1>3
    <3>3. d \notin activating \ Seeds
      BY <1>1, <3>1, <3>2 DEF PInv, BusyAuthorise, Refused
    <3>4. d \in Seeds \cup marked
      BY <3>2, <3>3
    <3>5. asked[v] \cap (Seeds \cup marked) # {}
      BY <3>1, <3>2, <3>4
    <3>6. v \in marked
      BY <2>2, <3>5, StartedWithClosed
    <3>7. QED
      BY <3>6
  <2>3. QED
    BY <1>2, <2>1, <2>2
<1>4. StartedWith(Seeds, PlannedUnits, WantedBy) \subseteq T
  <2> HIDE DEF T
  <2>1. T \subseteq PlannedUnits
    BY DEF T
  <2>2. QED
    BY <1>3, <2>1, StartedWithLeast
<1>5. SetOff' = SetOff
  BY <1>1 DEF SetOff, PlannedUnits, StartedWith, UnitsOf
<1>6. QED
  BY <1>1, <1>4, <1>5 DEF SetOff, Seeds

LEMMA PInit == Init => PInv
<1>1. Init => /\ phase = "begin" /\ toStart = {} /\ toRestart = {}
  BY DEF Init
<1>2. QED
  BY <1>1 DEF PInv, Accounted, BusyAuthorise, RefusalsStand, JobsFirst, PullsSound, Seeds,
              Planning, Decided

\* Steps outside the planning passes, and steps of systemd.
LEMMA PQuietStep ==
  ASSUME IInv, PInv,
         \/ Begin \/ StopDeleted \/ SkipCall \/ StartCall \/ RestartCall \/ CallReturns
         \/ Finish \/ NothingToPull \/ PullAdded \/ Systemd \/ UNCHANGED vars
         \/ \E u \in Units : ReadDeleted(u)
         \/ \E t \in Templates : ReadDeletedTemplate(t)
  PROVE  PInv'
<1> USE DEF vars, scanVars, cacheVars, noteVars, planVars, systemVars, quadcdVars
<1>1. /\ UNCHANGED <<input, listed, toStart, toRestart, activating, skipped, asked, asking,
                     cur, known, jobs, jobsRead>>
      /\ \/ Planning /\ phase' = phase /\ todo' = todo
         \/ ~Planning /\ phase' \notin {"pick", "jobs", "ask"}
      /\ phase' \in {"pull", "issue", "wait"} => phase \in {"pull", "issue", "wait"}
  BY DEF Begin, StopDeleted, SkipCall, StartCall, RestartCall, CallReturns, Finish,
     NothingToPull, PullAdded, Systemd, ReadDeleted, ReadDeletedTemplate, JobRuns,
     StartEnds, RetryStart, Exits, StartRequested, StoppedByHand, UnitGoes, Planning
<1>2. Planning' => Planning /\ phase' = phase /\ todo' = todo
  BY <1>1 DEF Planning
<1>3. Accounted' /\ BusyAuthorise' /\ RefusalsStand' /\ JobsFirst'
  BY <1>1, <1>2 DEF PInv, Accounted, BusyAuthorise, RefusalsStand, JobsFirst, Seeds,
     PlannedUnits, UnitsOf, Refused, Authorises
<1>4. SetOff' = SetOff /\ WorthPulling' = WorthPulling
  BY <1>1 DEF SetOff, PlannedUnits, StartedWith, UnitsOf, WorthPulling, ActivatesFile
<1>5. Decided' => WorthPulling \subseteq pulled'
  <2>1. CASE NothingToPull \/ PullAdded
    BY <2>1 DEF NothingToPull, PullAdded, Added
  <2>2. CASE pulled' = pulled /\ (Decided' => Decided)
    BY <2>2 DEF PInv, PullsSound
  <2>3. QED
    BY <2>1, <2>2 DEF Begin, StopDeleted, SkipCall, StartCall, RestartCall, CallReturns,
       Finish, Systemd, ReadDeleted, ReadDeletedTemplate, JobRuns, StartEnds, RetryStart,
       Exits, StartRequested, StoppedByHand, UnitGoes, Decided
<1>6. PullsSound'
  BY <1>1, <1>4, <1>5 DEF PInv, PullsSound
<1>7. QED
  BY <1>3, <1>6 DEF PInv

LEMMA PPassStep ==
  ASSUME IInv, PInv, Reload \/ PullAndReplan \/ EndPass
  PROVE  PInv'
<1> USE DEF scanVars, cacheVars, noteVars, planVars, systemVars
<1>1. CASE Reload \/ PullAndReplan
  <2>1. /\ phase' = "pick" /\ todo' = UnitsOf(input.changed) /\ input' = input
        /\ listed' = {} /\ skipped' = {} /\ toStart' = {} /\ toRestart' = {}
        /\ activating' = {} /\ UNCHANGED <<jobsRead, jobs>>
    BY <1>1 DEF Reload, PullAndReplan, BeginPass
  <2>2. jobs = {}
    BY <1>1 DEF Reload, PullAndReplan, IInv, NoLeftovers, Planning
  <2>3. PlannedUnits' \subseteq todo'
    BY <2>1 DEF PlannedUnits, UnitsOf
  <2>4. QED
    BY <2>1, <2>2, <2>3 DEF PInv, Accounted, BusyAuthorise, RefusalsStand, JobsFirst,
       PullsSound, Seeds, Planning, Decided
<1>2. CASE EndPass
  <2>1. /\ phase' = "pull" /\ UNCHANGED <<toStart, toRestart>>
        /\ activating \subseteq activating'
    BY <1>2 DEF EndPass
  <2>2. ~Faulty => SetOff' \subseteq activating'
    BY <1>2, EndPassCounts
  <2>3. QED
    BY <2>1, <2>2 DEF PInv, Accounted, BusyAuthorise, RefusalsStand, JobsFirst,
       PullsSound, Seeds, Planning, Decided
<1>3. QED
  BY <1>1, <1>2
\* What has been read is not read again during the pass.
LEMMA ReadKeeps ==
  ASSUME TypeOK, NEW u \in Units, NEW r, Read(u, r)
  PROVE  /\ known'[u] = r /\ r # "unread"
         /\ \A v \in Units : known[v] # "unread" => known'[v] = known[v]
         /\ \A v \in Units \ {u} : known'[v] = known[v]
<1>1. r \in Reports
  BY ReadingTyped
<1>2. known[u] # "unread" => r = known[u]
  BY DEF Read
<1>3. \A v \in Units : known'[v] = IF v = u THEN r ELSE known[v]
  BY DEF Read, TypeOK
<1>4. QED
  BY <1>1, <1>2, <1>3 DEF Reports

LEMMA PPlanStep ==
  ASSUME IInv, PInv, TypeOK',
         \/ ReadJobs \/ LeaveToJob \/ StartForSync \/ AskDeps \/ Skip
         \/ \E u \in Units : \/ PlanRestart(u) \/ PlanStarting(u) \/ PlanInactive(u)
                             \/ WantedStart(u) \/ PassOverDep(u)
         \/ \E t \in Templates : PlanTemplate(t)
  PROVE  PInv'
<1> USE DEF scanVars, cacheVars, noteVars, planVars, systemVars
<1>1. /\ TypeOK /\ Accounted /\ BusyAuthorise /\ RefusalsStand /\ JobsFirst
      /\ WalkSound
  BY DEF IInv, PInv
<1>2. /\ Planning /\ Planning' /\ input' = input
  BY DEF ReadJobs, LeaveToJob, StartForSync, AskDeps, Skip, PlanRestart, PlanStarting,
     PlanInactive, WantedStart, PassOverDep, Planning, PlanStart, PlanTemplate
<1>3. PullsSound'
  BY <1>2 DEF PullsSound, Planning, Decided
<1> DEFINE Goal == Accounted' /\ BusyAuthorise' /\ RefusalsStand' /\ JobsFirst'
<1>4. SUFFICES Goal
  BY <1>3 DEF PInv
<1>5. \A d \in Units : Authorises(d, known[d]) => known[d] # "unread"
  BY DEF Authorises
<1>6. ASSUME NEW u \in Units, NEW r, Read(u, r), jobs' = jobs
      PROVE  \A d \in Units : /\ Authorises(d, known[d]) => Authorises(d, known[d])'
                              /\ Refused(d) => Refused(d)'
  BY <1>1, <1>5, <1>6, ReadKeeps DEF Authorises, Refused
<1>7. ASSUME listed' = listed PROVE PlannedUnits' = PlannedUnits
  BY <1>2, <1>7 DEF PlannedUnits, UnitsOf
<1>8. WantedBy \in [Units -> SUBSET Units]
  BY ConstantsOK
<1>9. ASSUME NEW u \in Units, PlanRestart(u) PROVE Goal
  <2>1. /\ phase = "pick" /\ phase' = "pick" /\ todo' = todo \ {u}
        /\ toRestart' = toRestart \cup {u} /\ activating' = activating \cup {u}
        /\ UNCHANGED <<listed, skipped, asked, toStart, jobs, jobsRead>>
        /\ \E r : Read(u, r)
    BY <1>9 DEF PlanRestart
  <2>2. Accounted'
    BY <1>1, <1>2, <1>7, <2>1 DEF Accounted, Seeds
  <2>3. BusyAuthorise'
    BY <1>1, <1>2, <1>6, <2>1 DEF BusyAuthorise, Seeds, TypeOK
  <2>4. RefusalsStand'
    BY <1>1, <1>2, <1>6, <1>8, <2>1 DEF RefusalsStand, TypeOK
  <2>5. JobsFirst'
    BY <1>1, <1>2, <2>1 DEF JobsFirst
  <2>6. QED
    BY <2>2, <2>3, <2>4, <2>5
<1>10. ASSUME NEW u \in Units, PlanStarting(u) PROVE Goal
  <2>1. /\ phase = "pick" /\ phase' = "pick" /\ todo' = todo \ {u}
        /\ activating' = activating \cup {u}
        /\ UNCHANGED <<listed, skipped, asked, toStart, toRestart, jobs, jobsRead>>
        /\ Read(u, "starting")
    BY <1>10 DEF PlanStarting
  <2>2. Accounted'
    BY <1>1, <1>2, <1>7, <2>1 DEF Accounted, Seeds
  <2>3. Authorises(u, known[u])'
    BY <1>1, <2>1, ReadKeeps DEF Authorises
  <2>4. BusyAuthorise'
    BY <1>1, <1>2, <1>6, <2>1, <2>3 DEF BusyAuthorise, Seeds, TypeOK
  <2>5. RefusalsStand'
    BY <1>1, <1>2, <1>6, <1>8, <2>1 DEF RefusalsStand, TypeOK
  <2>6. JobsFirst'
    BY <1>1, <1>2, <2>1 DEF JobsFirst
  <2>7. QED
    BY <2>2, <2>4, <2>5, <2>6
<1>11. ASSUME NEW u \in Units, PlanInactive(u) PROVE Goal
  <2>1. /\ phase = "pick" /\ phase' = "jobs" /\ todo' = todo \ {u} /\ cur' = u
        /\ UNCHANGED <<listed, skipped, asked, toStart, toRestart, activating, jobs, jobsRead>>
        /\ Read(u, "inactive")
    BY <1>11 DEF PlanInactive
  <2>2. Accounted'
    BY <1>1, <1>2, <1>7, <2>1 DEF Accounted, Seeds
  <2>3. BusyAuthorise'
    BY <1>1, <1>2, <1>6, <2>1 DEF BusyAuthorise, Seeds, TypeOK
  <2>4. RefusalsStand'
    BY <1>1, <1>2, <1>6, <1>8, <2>1 DEF RefusalsStand, TypeOK
  <2>5. JobsFirst'
    BY <1>1, <1>2, <2>1, ReadKeeps DEF JobsFirst
  <2>6. QED
    BY <2>2, <2>3, <2>4, <2>5
<1>12. CASE ReadJobs
  <2>1. /\ phase = "jobs" /\ phase' = "jobs" /\ jobs = {} /\ skipped = {} /\ jobsRead' = TRUE
        /\ UNCHANGED <<todo, cur, known, listed, skipped, asked, toStart, toRestart, activating>>
    BY <1>1, <1>2, <1>12 DEF ReadJobs, JobsFirst
  <2>2. Accounted' /\ RefusalsStand' /\ JobsFirst'
    BY <1>1, <1>2, <1>7, <2>1 DEF Accounted, RefusalsStand, JobsFirst, Seeds
  <2>3. BusyAuthorise'
    BY <1>1, <1>2, <2>1 DEF BusyAuthorise, Seeds, Authorises
  <2>4. QED
    BY <2>2, <2>3
<1>13. CASE LeaveToJob
  <2>1. /\ phase = "jobs" /\ phase' = "pick" /\ jobsRead /\ cur \in jobs
        /\ activating' = activating \cup {cur}
        /\ UNCHANGED <<todo, known, listed, skipped, asked, toStart, toRestart, jobs, jobsRead>>
    BY <1>13 DEF LeaveToJob
  <2>2. Authorises(cur, known[cur])
    BY <1>1, <1>2, <2>1 DEF Authorises, JobsFirst
  <2>3. Accounted' /\ JobsFirst'
    BY <1>1, <1>2, <1>7, <2>1 DEF Accounted, JobsFirst, Seeds
  <2>4. BusyAuthorise' /\ RefusalsStand'
    BY <1>1, <1>2, <2>1, <2>2 DEF BusyAuthorise, RefusalsStand, Seeds, Authorises, Refused
  <2>5. QED
    BY <2>3, <2>4
<1>14. CASE StartForSync
  <2>1. /\ phase = "jobs" /\ phase' = "pick" /\ jobsRead
        /\ activating' = activating \cup {cur} /\ toStart' = toStart \cup {cur}
        /\ UNCHANGED <<todo, known, listed, skipped, asked, toRestart, jobs, jobsRead>>
    BY <1>14 DEF StartForSync, PlanStart
  <2>2. Accounted' /\ JobsFirst'
    BY <1>1, <1>2, <1>7, <2>1 DEF Accounted, JobsFirst, Seeds
  <2>3. BusyAuthorise' /\ RefusalsStand'
    BY <1>1, <1>2, <2>1 DEF BusyAuthorise, RefusalsStand, Seeds, Authorises, Refused
  <2>4. QED
    BY <2>2, <2>3
<1>15. CASE AskDeps
  <2>1. PICK D \in ReverseDeps(cur) : asking' = D /\ asked' = [asked EXCEPT ![cur] = D]
    BY <1>15 DEF AskDeps
  <2>2. /\ phase = "jobs" /\ phase' = "ask" /\ jobsRead /\ cur \in Units
        /\ UNCHANGED <<todo, cur, known, listed, skipped, toStart, toRestart, activating, jobs,
                       jobsRead>>
    BY <1>1, <1>15 DEF AskDeps, TypeOK
  <2>3. Accounted' /\ JobsFirst' /\ BusyAuthorise'
    BY <1>1, <1>2, <1>7, <2>2 DEF Accounted, JobsFirst, BusyAuthorise, Seeds, Authorises
  <2>4. ~Faulty => D = WantedBy[cur]
    BY DEF ReverseDeps
  <2>5. ~Faulty => \A u \in Units : asked'[u] = IF u = cur THEN WantedBy[cur] ELSE asked[u]
    BY <1>1, <2>1, <2>2, <2>4 DEF TypeOK
  <2>6. RefusalsStand'
    <3>1. SUFFICES ASSUME ~Faulty
                   PROVE  /\ \A u \in skipped : /\ asked'[u] = WantedBy[u]
                                                /\ \A d \in WantedBy[u] : Refused(d)
                          /\ asked'[cur] = WantedBy[cur] /\ WantedBy[cur] \ asking' = {}
      BY <1>2, <2>2 DEF RefusalsStand, Refused, Authorises
    <3>2. QED
      BY <1>1, <1>2, <2>1, <2>2, <2>4, <2>5, <3>1 DEF RefusalsStand, TypeOK
  <2>7. QED
    BY <2>3, <2>6
<1>16. ASSUME NEW d \in Units, WantedStart(d) PROVE Goal
  <2>1. PICK r \in Reports : Read(d, r)
    BY <1>16 DEF WantedStart
  <2>2. /\ phase = "ask" /\ phase' = "pick"
        /\ activating' = activating \cup {cur} /\ toStart' = toStart \cup {cur}
        /\ UNCHANGED <<todo, listed, skipped, asked, toRestart, jobs, jobsRead>>
    BY <1>16 DEF WantedStart, PlanStart
  <2>3. Accounted' /\ JobsFirst'
    BY <1>1, <1>2, <1>7, <2>2 DEF Accounted, JobsFirst, Seeds
  <2>4. BusyAuthorise'
    BY <1>1, <1>2, <1>6, <2>1, <2>2 DEF BusyAuthorise, Seeds, TypeOK
  <2>5. RefusalsStand'
    BY <1>1, <1>2, <1>6, <1>8, <2>1, <2>2 DEF RefusalsStand, TypeOK
  <2>6. QED
    BY <2>3, <2>4, <2>5
<1>17. ASSUME NEW d \in Units, PassOverDep(d) PROVE Goal
  <2>1. PICK r \in Reports : ~Authorises(d, r) /\ Read(d, r)
    BY <1>17 DEF PassOverDep
  <2>2. /\ phase = "ask" /\ phase' = "ask" /\ asking' = asking \ {d} /\ cur \in Units
        /\ UNCHANGED <<todo, cur, listed, skipped, asked, toStart, toRestart, activating, jobs,
                       jobsRead>>
    BY <1>1, <1>17 DEF PassOverDep, TypeOK
  <2>3. Accounted'
    BY <1>1, <1>2, <1>7, <2>2 DEF Accounted, Seeds
  <2>4. JobsFirst'
    <3>1. known[cur] = "inactive"
      BY <1>1, <1>2, <2>2 DEF JobsFirst
    <3>2. known'[cur] = "inactive"
      BY <1>1, <2>1, <2>2, <3>1, ReadKeeps
    <3>3. QED
      BY <1>1, <1>2, <2>2, <3>2 DEF JobsFirst
  <2>5. BusyAuthorise'
    BY <1>1, <1>2, <1>6, <2>1, <2>2 DEF BusyAuthorise, Seeds, TypeOK
  <2>6. Refused(d)'
    BY <1>1, <2>1, <2>2, ReadKeeps DEF Refused, Authorises
  <2>7. RefusalsStand'
    BY <1>1, <1>2, <1>6, <1>8, <2>1, <2>2, <2>6 DEF RefusalsStand, TypeOK
  <2>8. QED
    BY <2>3, <2>4, <2>5, <2>7
<1>18. CASE Skip
  <2>1. /\ phase = "ask" /\ phase' = "pick" /\ asking = {} /\ skipped' = skipped \cup {cur}
        /\ UNCHANGED <<todo, known, listed, asked, toStart, toRestart, activating, jobs, jobsRead>>
    BY <1>18 DEF Skip
  <2>2. Accounted' /\ BusyAuthorise'
    BY <1>1, <1>2, <1>7, <2>1 DEF Accounted, BusyAuthorise, Seeds, Authorises
  <2>3. RefusalsStand'
    BY <1>1, <1>2, <2>1 DEF RefusalsStand, Refused, Authorises
  <2>4. JobsFirst'
    BY <1>1, <1>2, <2>1 DEF JobsFirst, WalkSound
  <2>5. QED
    BY <2>2, <2>3, <2>4
<1>19. ASSUME NEW t \in Templates, PlanTemplate(t) PROVE Goal
  <2>1. PICK S \in Listings(t) : todo' = (todo \ {t}) \cup S /\ listed' = listed \cup S
    BY <1>19 DEF PlanTemplate
  <2>2. /\ phase = "pick" /\ phase' = "pick"
        /\ UNCHANGED <<known, skipped, asked, toStart, toRestart, activating, jobs, jobsRead>>
    BY <1>19 DEF PlanTemplate
  <2>3. PlannedUnits' = PlannedUnits \cup S /\ t \notin PlannedUnits
    BY <1>1, <1>2, <2>1, ConstantsOK DEF PlannedUnits, UnitsOf, TypeOK
  <2>4. Accounted'
    BY <1>1, <1>2, <2>1, <2>2, <2>3 DEF Accounted, Seeds
  <2>5. BusyAuthorise' /\ RefusalsStand' /\ JobsFirst'
    BY <1>1, <1>2, <2>2 DEF BusyAuthorise, RefusalsStand, JobsFirst, Seeds, Refused, Authorises
  <2>6. QED
    BY <2>4, <2>5
<1>20. QED
  BY <1>9, <1>10, <1>11, <1>12, <1>13, <1>14, <1>15, <1>16, <1>17, <1>18, <1>19

\* Every unit a command sets off, directly or along chains of changed units, has its image
\* pulled before the first command: the second pass adds no unit the pulls have not seen.
THEOREM ImagesPulledBeforeUseAlways == Spec => []ImagesPulledBeforeUse
<1>1. IInv /\ IInv' /\ PInv /\ [Next]_vars => PInv'
  <2> SUFFICES ASSUME IInv, IInv', PInv, [Next]_vars PROVE PInv'
    OBVIOUS
  <2>1. TypeOK'
    BY DEF IInv
  <2>2. QED
    BY <2>1, PQuietStep, PPassStep, PPlanStep DEF Next, Quadcd
<1>2. IInv /\ PInv => ImagesPulledBeforeUse
  <2> SUFFICES ASSUME IInv, PInv, Decided, ~Faulty, NEW f \in input.changed \cap ImageFiles,
                      FileUnits(f) \cap SetOff # {}
               PROVE  f \in pulled
    BY DEF ImagesPulledBeforeUse
  <2>1. SetOff \subseteq activating /\ WorthPulling \subseteq pulled
    BY DEF PInv, PullsSound, Decided
  <2>2. ActivatesFile(f)
    BY <2>1 DEF FileUnits, ActivatesFile
  <2>3. QED
    BY <2>1, <2>2 DEF WorthPulling
<1>3. QED
  BY <1>1, <1>2, PInit, Inductive, PTL DEF Spec

-----------------------------------------------------------------------------
(***************************************************************************)
(* That apply_changes ends is liveness, and TLC's.  What it rests on is    *)
(* not: every step of quadcd takes it nearer to its end, and a call waits  *)
(* for nothing but jobs that are under way.                                *)
(***************************************************************************)

\* How many parts of apply_changes are left: the calls, two passes and pulls at most.
Parts ==
  IF phase = "begin" THEN 17
  ELSE IF phase = "stop" THEN 16
  ELSE IF phase = "reload" THEN 15
  ELSE IF Planning THEN (IF round = 1 THEN 14 ELSE 12)
  ELSE IF phase = "pull" THEN (IF round = 1 THEN 13 ELSE 11)
  ELSE IF phase = "issue" THEN 2 * (6 - batch)
  ELSE IF phase = "wait" THEN 11 - 2 * batch
  ELSE 0

\* How many questions about the unit at hand are left.
Questions ==
  IF phase = "ask" THEN Cardinality(asking) + 1
  ELSE IF phase = "jobs" THEN Cardinality(Units) + (IF jobsRead THEN 2 ELSE 3)
  ELSE 0

\* What lies ahead; the instances of a template are still to come when it is.
Ahead == <<Parts, Cardinality(todo \cap Templates), Cardinality(todo), Questions>>

\* The first place where they differ decides.
Below(a, b) ==
  \E i \in 1..4 : a[i] < b[i] /\ \A j \in 1..4 : j < i => a[j] = b[j]

Nearer == Below(Ahead', Ahead)

FiniteUnits == IsFiniteSet(Units) /\ IsFiniteSet(Templates)

LEMMA BelowAt ==
  ASSUME NEW a1, NEW a2, NEW a3, NEW a4, NEW b1, NEW b2, NEW b3, NEW b4,
         \/ a1 < b1
         \/ a1 = b1 /\ a2 < b2
         \/ a1 = b1 /\ a2 = b2 /\ a3 < b3
         \/ a1 = b1 /\ a2 = b2 /\ a3 = b3 /\ a4 < b4
  PROVE  Below(<<a1, a2, a3, a4>>, <<b1, b2, b3, b4>>)
<1> DEFINE a == <<a1, a2, a3, a4>>
           b == <<b1, b2, b3, b4>>
<1>1. /\ a[1] = a1 /\ a[2] = a2 /\ a[3] = a3 /\ a[4] = a4
      /\ b[1] = b1 /\ b[2] = b2 /\ b[3] = b3 /\ b[4] = b4
  OBVIOUS
<1>2. \A j : j \in 1..4 <=> j = 1 \/ j = 2 \/ j = 3 \/ j = 4
  OBVIOUS
<1> HIDE DEF a, b
<1>3. Below(a, b)
  <2>1. CASE a1 < b1
    <3>1. a[1] < b[1] /\ \A j \in 1..4 : j < 1 => a[j] = b[j]
      BY <1>1, <2>1
    <3> QED BY <1>2, <3>1 DEF Below
  <2>2. CASE a1 = b1 /\ a2 < b2
    <3>1. a[2] < b[2] /\ \A j \in 1..4 : j < 2 => a[j] = b[j]
      BY <1>1, <1>2, <2>2
    <3> QED BY <1>2, <3>1 DEF Below
  <2>3. CASE a1 = b1 /\ a2 = b2 /\ a3 < b3
    <3>1. a[3] < b[3] /\ \A j \in 1..4 : j < 3 => a[j] = b[j]
      BY <1>1, <1>2, <2>3
    <3> QED BY <1>2, <3>1 DEF Below
  <2>4. CASE a1 = b1 /\ a2 = b2 /\ a3 = b3 /\ a4 < b4
    <3>1. a[4] < b[4] /\ \A j \in 1..4 : j < 4 => a[j] = b[j]
      BY <1>1, <1>2, <2>4
    <3> QED BY <1>2, <3>1 DEF Below
  <2> QED BY <2>1, <2>2, <2>3, <2>4
<1> QED BY <1>3 DEF a, b

LEMMA AheadTyped ==
  ASSUME FiniteUnits, TypeOK
  PROVE  /\ IsFiniteSet(todo) /\ IsFiniteSet(todo \cap Templates) /\ IsFiniteSet(asking)
         /\ Parts \in Nat /\ Cardinality(todo \cap Templates) \in Nat
         /\ Cardinality(todo) \in Nat /\ Questions \in Nat
         /\ Cardinality(asking) \in Nat /\ Cardinality(asking) <= Cardinality(Units)
         /\ Cardinality(Units) \in Nat
<1>1. IsFiniteSet(Units) /\ IsFiniteSet(Units \cup Templates)
  BY FS_Union DEF FiniteUnits
<1>2. todo \in SUBSET (Units \cup Templates) /\ asking \in SUBSET Units
  BY DEF TypeOK
<1>3. IsFiniteSet(todo) /\ IsFiniteSet(asking) /\ Cardinality(asking) <= Cardinality(Units)
  BY <1>1, <1>2, FS_Subset
<1>4. IsFiniteSet(todo \cap Templates)
  <2>1. todo \cap Templates \in SUBSET todo
    OBVIOUS
  <2> QED BY <1>3, <2>1, FS_Subset
<1>5. /\ Cardinality(todo) \in Nat /\ Cardinality(todo \cap Templates) \in Nat
      /\ Cardinality(asking) \in Nat /\ Cardinality(Units) \in Nat
  BY <1>1, <1>3, <1>4, FS_CardinalityType
<1>6. Parts \in Nat
  BY DEF TypeOK, Parts
<1>7. Questions \in Nat
  BY <1>5 DEF Questions
<1> QED BY <1>1, <1>3, <1>4, <1>5, <1>6, <1>7

\* What is done with is no longer to do.
LEMMA TakenOff ==
  ASSUME NEW S, IsFiniteSet(S), NEW x \in S
  PROVE  Cardinality(S \ {x}) < Cardinality(S)
<1>1. /\ Cardinality(S \ {x}) = Cardinality(S) - 1 /\ Cardinality(S) \in Nat
      /\ IsFiniteSet(S \ {x})
  BY FS_RemoveElement, FS_CardinalityType
<1>2. Cardinality(S \ {x}) \in Nat
  BY <1>1, FS_CardinalityType
<1> QED BY <1>1, <1>2

LEMMA NearerByPart ==
  ASSUME Parts' < Parts
  PROVE  Nearer
BY BelowAt DEF Nearer, Ahead

LEMMA NearerByTemplate ==
  ASSUME FiniteUnits, TypeOK, Parts' = Parts, NEW t \in todo \cap Templates,
         todo' \cap Templates = (todo \cap Templates) \ {t}
  PROVE  Nearer
<1>1. Cardinality(todo' \cap Templates) < Cardinality(todo \cap Templates)
  BY AheadTyped, TakenOff
<1> QED BY <1>1, BelowAt DEF Nearer, Ahead

LEMMA NearerByUnit ==
  ASSUME FiniteUnits, TypeOK, Parts' = Parts, NEW u \in todo \cap Units, todo' = todo \ {u}
  PROVE  Nearer
<1>1. todo' \cap Templates = todo \cap Templates
  BY ConstantsOK
<1>2. Cardinality(todo') < Cardinality(todo)
  BY AheadTyped, TakenOff
<1> QED BY <1>1, <1>2, BelowAt DEF Nearer, Ahead

LEMMA NearerByQuestion ==
  ASSUME Parts' = Parts, todo' = todo, Questions' < Questions
  PROVE  Nearer
BY BelowAt DEF Nearer, Ahead

\* quadcd never goes back: not in a pass, nor to a third one.
LEMMA QuadcdComesNearer ==
  ASSUME FiniteUnits, TypeOK, Quadcd
  PROVE  Nearer
<1>1. round \in 1..2 /\ batch \in 1..5 /\ (phase = "wait" => batch \in 1..4)
  BY DEF TypeOK
<1>2. CASE Begin \/ StopDeleted \/ Reload \/ EndPass \/ PullAndReplan \/ NothingToPull \/ PullAdded
  <2>1. Parts' < Parts
    BY <1>1, <1>2 DEF Begin, StopDeleted, Reload, EndPass, PullAndReplan, NothingToPull, PullAdded,
                      BeginPass, ReplanAllowed, Parts, Planning
  <2> QED BY <2>1, NearerByPart
<1>3. CASE SkipCall \/ StartCall \/ RestartCall \/ CallReturns \/ Finish
  <2>1. Parts' < Parts
    BY <1>1, <1>3 DEF SkipCall, StartCall, RestartCall, CallReturns, Finish, Parts, Planning
  <2> QED BY <2>1, NearerByPart
<1>4. CASE ReadJobs \/ LeaveToJob \/ StartForSync \/ AskDeps \/ Skip
  <2>1. Parts' = Parts /\ todo' = todo
    BY <1>4 DEF ReadJobs, LeaveToJob, StartForSync, AskDeps, Skip, PlanStart, Parts, Planning, scanVars
  <2>2. Questions' < Questions
    <3>1. CASE ReadJobs
      BY <3>1, AheadTyped DEF ReadJobs, Questions
    <3>2. CASE LeaveToJob \/ StartForSync
      BY <3>2, AheadTyped DEF LeaveToJob, StartForSync, PlanStart, Questions
    <3>3. CASE AskDeps
      <4>1. asking' \in SUBSET Units
        <5>1. phase = "jobs" /\ \E D \in ReverseDeps(cur) : asking' = D
          BY <3>3 DEF AskDeps
        <5>2. WantedBy[cur] \in SUBSET Units
          BY <5>1, ConstantsOK DEF TypeOK
        <5> QED BY <5>1, <5>2 DEF ReverseDeps
      <4>2. Cardinality(asking') \in Nat /\ Cardinality(asking') <= Cardinality(Units)
        BY <4>1, FS_Subset, FS_CardinalityType DEF FiniteUnits
      <4> QED BY <3>3, <4>2, AheadTyped DEF AskDeps, Questions
    <3>4. CASE Skip
      BY <3>4, AheadTyped DEF Skip, Questions
    <3> QED BY <1>4, <3>1, <3>2, <3>3, <3>4
  <2> QED BY <2>1, <2>2, NearerByQuestion
<1>5. ASSUME NEW u \in Units, ReadDeleted(u) \/ PlanRestart(u) \/ PlanStarting(u) \/ PlanInactive(u)
      PROVE  Nearer
  <2>1. u \in todo /\ todo' = todo \ {u}
    BY <1>5 DEF ReadDeleted, PlanRestart, PlanStarting, PlanInactive
  <2>2. Parts' = Parts
    BY <1>5 DEF ReadDeleted, PlanRestart, PlanStarting, PlanInactive, Parts, Planning
  <2> QED BY <2>1, <2>2, NearerByUnit
<1>6. ASSUME NEW d \in Units, WantedStart(d) \/ PassOverDep(d) PROVE Nearer
  <2>1. Parts' = Parts /\ todo' = todo
    BY <1>6 DEF WantedStart, PassOverDep, PlanStart, Parts, Planning
  <2>2. Questions' < Questions
    <3>1. CASE WantedStart(d)
      BY <3>1, AheadTyped DEF WantedStart, PlanStart, Questions
    <3>2. CASE PassOverDep(d)
      <4>1. d \in asking /\ asking' = asking \ {d} /\ phase = "ask" /\ phase' = "ask"
        BY <3>2 DEF PassOverDep
      <4>2. Cardinality(asking') < Cardinality(asking) /\ Cardinality(asking') \in Nat
        <5>1. IsFiniteSet(asking \ {d})
          BY AheadTyped, FS_RemoveElement, <4>1
        <5> QED BY <4>1, <5>1, AheadTyped, TakenOff, FS_CardinalityType
      <4> QED BY <4>1, <4>2, AheadTyped DEF Questions
    <3> QED BY <1>6, <3>1, <3>2
  <2> QED BY <2>1, <2>2, NearerByQuestion
<1>7. ASSUME NEW t \in Templates, ReadDeletedTemplate(t) \/ PlanTemplate(t) PROVE Nearer
  <2>1. t \in todo \cap Templates
    BY <1>7 DEF ReadDeletedTemplate, PlanTemplate
  <2>2. Parts' = Parts
    BY <1>7 DEF ReadDeletedTemplate, PlanTemplate, Parts, Planning
  <2>3. todo' \cap Templates = (todo \cap Templates) \ {t}
    <3>1. CASE ReadDeletedTemplate(t)
      BY <3>1 DEF ReadDeletedTemplate
    <3>2. CASE PlanTemplate(t)
      <4>1. PICK S \in Listings(t) : todo' = (todo \ {t}) \cup S
        BY <3>2 DEF PlanTemplate
      <4> QED BY <4>1, ListingTyped, ConstantsOK
    <3> QED BY <1>7, <3>1, <3>2
  <2> QED BY <2>1, <2>2, <2>3, NearerByTemplate
<1> QED BY <1>2, <1>3, <1>4, <1>5, <1>6, <1>7 DEF Quadcd

(***************************************************************************)
(* apply_changes cannot go round in circles: each step of quadcd takes it  *)
(* nearer to its end, by an order in which nothing descends for ever, and  *)
(* whatever systemd and its users do meanwhile takes it no further away.   *)
(* There are two passes at most, however much comes up during a pull.      *)
(***************************************************************************)
THEOREM NeverGoesRound ==
  ASSUME FiniteUnits
  PROVE  Spec => /\ [](Ahead \in Nat \X Nat \X Nat \X Nat)
                 /\ [][Nearer \/ UNCHANGED quadcdVars]_vars
<1>1. TypeOK => Ahead \in Nat \X Nat \X Nat \X Nat
  BY AheadTyped DEF Ahead
<1>2. TypeOK /\ [Next]_vars => [Nearer \/ UNCHANGED quadcdVars]_vars
  <2> SUFFICES ASSUME TypeOK, Next PROVE Nearer \/ UNCHANGED quadcdVars
    OBVIOUS
  <2>1. CASE Quadcd
    BY <2>1, QuadcdComesNearer
  <2>2. CASE Systemd
    BY <2>2 DEF Systemd, JobRuns, StartEnds, RetryStart, Exits, StartRequested, StoppedByHand, UnitGoes
  <2> QED BY <2>1, <2>2 DEF Next
<1> QED BY <1>1, <1>2, TypeCorrect, PTL DEF Spec

\* What quadcd waits for is a job that is under way, and jobs only go on.
WaitsForJobs ==
  /\ phase # "wait" => waiting = {}
  /\ \A u \in waiting : unit[u] \in Joined

OnlyGoesOn(u) == unit[u] = "queued" \/ unit'[u] = unit[u]

(***************************************************************************)
(* No call waits for a job that has ended, or for one that is not there:   *)
(* the units waited for are queued or starting, and until the call returns *)
(* they only become fewer, and none that was starting waits again.         *)
(***************************************************************************)
THEOREM WaitsEndWithJobs ==
  Spec => /\ []WaitsForJobs
          /\ [][phase = "wait" /\ phase' = "wait" =>
                  waiting' \subseteq waiting /\ \A u \in waiting' : OnlyGoesOn(u)]_vars
<1>1. Init => WaitsForJobs
  BY DEF Init, WaitsForJobs
<1>2. TypeOK /\ WaitsForJobs /\ Quadcd => WaitsForJobs' /\ ~(phase = "wait" /\ phase' = "wait")
  <2> SUFFICES ASSUME TypeOK, WaitsForJobs, Quadcd
               PROVE  WaitsForJobs' /\ ~(phase = "wait" /\ phase' = "wait")
    OBVIOUS
  <2>1. CASE StartCall \/ RestartCall
    <3>1. phase = "issue" /\ phase' = "wait" /\ \E S, E : Enqueue(S, E)
      BY <2>1 DEF StartCall, RestartCall
    <3>2. PICK S, E : Enqueue(S, E)
      BY <3>1
    <3>3. \A u \in waiting' : unit'[u] \in Joined
      BY <3>2 DEF Enqueue, Become
    <3> QED BY <3>1, <3>3 DEF WaitsForJobs
  <2>2. CASE CallReturns
    BY <2>2 DEF CallReturns, JobsEnded, WaitsForJobs, systemVars
  <2>3. CASE StopDeleted
    BY <2>3 DEF StopDeleted, WaitsForJobs
  <2>4. CASE ~(StartCall \/ RestartCall \/ CallReturns \/ StopDeleted)
    <3>1. phase # "wait" /\ phase' # "wait" /\ waiting' = waiting
      BY <2>4 DEF Quadcd, Begin, Reload, BeginPass, ReadJobs, LeaveToJob, StartForSync, AskDeps, Skip,
         EndPass, PullAndReplan, NothingToPull, PullAdded, SkipCall, Finish, ReadDeleted,
         PlanRestart, PlanStarting, PlanInactive, WantedStart, PassOverDep, PlanStart,
         ReadDeletedTemplate, PlanTemplate, systemVars
    <3> QED BY <3>1 DEF WaitsForJobs
  <2> QED BY <2>1, <2>2, <2>3, <2>4
<1>3. TypeOK /\ WaitsForJobs /\ Systemd =>
        /\ WaitsForJobs' /\ waiting' \subseteq waiting /\ \A u \in waiting' : OnlyGoesOn(u)
  <2> SUFFICES ASSUME TypeOK, WaitsForJobs, NEW u \in Units,
                      \/ JobRuns(u) \/ StartEnds(u) \/ RetryStart(u)
                      \/ Exits(u) \/ StartRequested(u) \/ StoppedByHand(u)
               PROVE  /\ WaitsForJobs' /\ waiting' \subseteq waiting
                      /\ \A v \in waiting' : OnlyGoesOn(v)
    BY DEF Systemd
  <2>1. PICK c \in Conditions : /\ UnitGoes(u, c)
                                /\ c = "queued" => unit[u] \notin Joined
                                /\ c = "starting" => unit[u] # "starting"
    BY DEF JobRuns, StartEnds, RetryStart, Exits, StartRequested, StoppedByHand, Conditions, Joined
  <2>2. /\ unit' = [unit EXCEPT ![u] = c] /\ phase' = phase /\ unit \in [Units -> Conditions]
        /\ waiting' = IF c \in Joined THEN waiting ELSE waiting \ {u}
        /\ waiting \subseteq Units
    BY <2>1 DEF UnitGoes, Become, quadcdVars, TypeOK
  <2>3. \A v \in waiting' : v \in waiting /\ unit'[v] = IF v = u THEN c ELSE unit[v]
    BY <2>2
  <2>4. u \in waiting' => c \in Joined /\ unit[u] = "queued"
    BY <2>1, <2>2, <2>3 DEF WaitsForJobs, Joined
  <2> QED BY <2>2, <2>3, <2>4 DEF WaitsForJobs, OnlyGoesOn
<1>4. WaitsForJobs /\ UNCHANGED vars => WaitsForJobs'
  BY DEF WaitsForJobs, vars, systemVars
<1>5. TypeOK /\ WaitsForJobs /\ [Next]_vars => WaitsForJobs'
  BY <1>2, <1>3, <1>4 DEF Next
<1>6. TypeOK /\ WaitsForJobs /\ [Next]_vars =>
        [phase = "wait" /\ phase' = "wait" =>
           waiting' \subseteq waiting /\ \A u \in waiting' : OnlyGoesOn(u)]_vars
  BY <1>2, <1>3 DEF Next
<1> QED BY <1>1, <1>5, <1>6, TypeCorrect, PTL DEF Spec
=============================================================================
