----------------------------- MODULE Activation -----------------------------
(***************************************************************************)
(* What quadcd does with the unit files a sync changed or deleted:         *)
(* SyncRunner::apply_changes (src/sync/runner/mod.rs) with the planner     *)
(* (src/sync/units/plan.rs) and the executor (src/sync/units/execute.rs).  *)
(*                                                                         *)
(* Every systemctl call is a step of its own, because systemd and its      *)
(* users go on between two calls: a unit may be started, stopped, fail or  *)
(* come up between the moment the planner reads its state and the moment   *)
(* quadcd acts on what it read.                                            *)
(***************************************************************************)
EXTENDS Naturals

CONSTANTS
  Units,        \* concrete systemd units, template instances among them
  Templates,    \* template units (foo@.service), disjoint from Units
  Files,        \* unit files of the repositories
  UnitOf,       \* file -> the unit or template it generates
  Instances,    \* template -> the units that are instances of it
  WantedBy,     \* unit -> the units whose start makes systemd start it
  StartOnSync,  \* units whose file says StartOnSync=true
  ImageFiles,   \* .container and .image files
  Carries,      \* those of ImageFiles in which an image reference is found
  Inputs,       \* the changes a sync may hand over: [changed, deleted]
  AtFirst,      \* unit -> what it may be doing when the sync is applied
  Faulty,       \* whether systemctl calls may fail
  MaxEvents,    \* bound: changes of units, but for jobs quadcd waits for
  NoUnit        \* not a unit

VARIABLES
  input,      \* the changes being applied, and whether --sync-only was given
  phase,      \* where apply_changes is
  round,      \* which of the at most two planning passes is under way
  todo,       \* units and templates the current pass has still to look at
  cur,        \* the unit plan_unit is deciding about
  asking,     \* reverse dependencies of cur it has still to look at
  known,      \* ActiveStates::states
  jobsRead,   \* whether ActiveStates::queued_start_jobs is filled
  jobs,       \* its content
  listed,     \* instances listed for a changed template
  asked,      \* the reverse dependencies reported for a unit
  skipped,    \* units left alone so far
  toStop, toStart, toRestart, activating,
  pulled,     \* files whose image has been pre-pulled
  batch,      \* the next of the four systemctl start / restart calls
  waiting,    \* jobs the blocking systemctl call waits for
  unit,       \* what each unit is really doing
  seen,       \* history: what each unit has done since the pass began
  events      \* changes of units that count against MaxEvents

scanVars == <<todo, cur, asking>>
cacheVars == <<known, jobsRead, jobs>>
noteVars == <<listed, asked, skipped>>
planVars == <<toStart, toRestart, activating>>
systemVars == <<unit, seen, events, waiting>>
vars == <<input, phase, round, scanVars, cacheVars, noteVars, toStop, planVars,
          pulled, batch, systemVars>>

-----------------------------------------------------------------------------
(* Units as systemd has them *)

\* inactive covers failed and deactivating; queued is inactive with a start job
\* waiting; backoff is "activating (auto-restart)"; active covers reloading.
Conditions == {"inactive", "queued", "starting", "active", "backoff"}

ASSUME ConstantsOK ==
  /\ Units \cap Templates = {}
  /\ UnitOf \in [Files -> Units \cup Templates]
  /\ Instances \in [Templates -> SUBSET Units]
  /\ WantedBy \in [Units -> SUBSET Units]
  /\ StartOnSync \subseteq Units
  /\ ImageFiles \subseteq Files
  /\ Carries \subseteq ImageFiles
  /\ Inputs \subseteq [changed : SUBSET Files, deleted : SUBSET Files]
  /\ AtFirst \in [Units -> SUBSET Conditions]
  /\ Faulty \in BOOLEAN
  /\ MaxEvents \in Nat
  /\ NoUnit \notin Units

\* A wanting unit in one of these starts what it wants.
ComingUp == {"queued", "starting", "active"}

\* ActivationState::is_active, or a restart delay.
Running == {"active", "backoff"}

Joined == {"queued", "starting"}

\* `systemctl show` says inactive of a unit whose start job only waits.
Report(c) == IF c = "queued" THEN "inactive" ELSE c

Reports == {"inactive", "starting", "active", "backoff"}

\* A failed `systemctl show` reads as unknown, for which every test is false.
Readings(u) == {Report(unit[u])} \cup (IF Faulty THEN {"inactive"} ELSE {})

\* Mutant: a job that has begun to run is taken for one that has ended.
WaitingJobLists == {{u \in Units : unit[u] = "queued"}}

\* `systemctl list-jobs` lists waiting and running start jobs; empty on error.
JobLists == {{u \in Units : unit[u] \in Joined}} \cup (IF Faulty THEN {{}} ELSE {})

\* Loaded instances: those doing something are, an inactive one may be.
Listings(t) ==
  {S \in SUBSET Instances[t] : \A i \in Instances[t] \ S : unit[i] = "inactive"}
     \cup (IF Faulty THEN {{}} ELSE {})

ReverseDeps(u) == {WantedBy[u]} \cup (IF Faulty THEN {{}} ELSE {})

\* The part of a command's units systemd accepts.
Accepted(S) == IF Faulty THEN SUBSET S ELSE {S}

UnitsOf(files) == {UnitOf[f] : f \in files}

\* The units among Among that start when those of Seeds do: the least set with
\* Seeds closed under being wanted, wants[u] being what wants u.
StartedWith(Seeds, Among, wants) ==
  {u \in Among : \A S \in SUBSET Among :
     (\A v \in Among : wants[v] \cap (Seeds \cup S) # {} => v \in S) => u \in S}

Become(new) ==
  /\ unit' = new
  /\ seen' = [u \in Units |-> seen[u] \cup {new[u]}]

-----------------------------------------------------------------------------
Init ==
  /\ input \in {[changed |-> i.changed, deleted |-> i.deleted, syncOnly |-> b] :
                  i \in Inputs, b \in BOOLEAN}
  /\ phase = "begin"
  /\ round = 1
  /\ todo = {} /\ cur = NoUnit /\ asking = {}
  /\ known = [u \in Units |-> "unread"] /\ jobsRead = FALSE /\ jobs = {}
  /\ listed = {} /\ asked = [u \in Units |-> {}] /\ skipped = {}
  /\ toStop = {} /\ toStart = {} /\ toRestart = {} /\ activating = {}
  /\ pulled = {} /\ batch = 1 /\ waiting = {}
  /\ unit \in {c \in [Units -> Conditions] : \A u \in Units : c[u] \in AtFirst[u]}
  /\ seen = [u \in Units |-> {unit[u]}]
  /\ events = 0

-----------------------------------------------------------------------------
(* apply_changes up to daemon-reload *)

\* Nothing to do, or --sync-only: return before touching systemd.
Begin ==
  /\ phase = "begin"
  /\ IF input.syncOnly \/ input.changed \cup input.deleted = {}
       THEN phase' = "done" /\ UNCHANGED todo
       ELSE phase' = "stop" /\ todo' = UnitsOf(input.deleted)
  /\ UNCHANGED <<input, round, cur, asking, cacheVars, noteVars, toStop, planVars,
                 pulled, batch, systemVars>>

\* Mutant: a unit that is only activating is not worth stopping.
NeedsStopActive(r) == r = "active"

\* is_running_or_starting, a restart delay included.
NeedsStop(r) == r # "inactive"

\* stop_deleted_units_inner reads one deleted unit.
ReadDeleted(u) ==
  /\ phase = "stop" /\ u \in todo
  /\ todo' = todo \ {u}
  /\ \E r \in Readings(u) :
       toStop' = IF NeedsStop(r) THEN toStop \cup {u} ELSE toStop
  /\ UNCHANGED <<input, phase, round, cur, asking, cacheVars, noteVars, planVars,
                 pulled, batch, systemVars>>

\* Every loaded instance of a deleted template is to be stopped.
ReadDeletedTemplate(t) ==
  /\ phase = "stop" /\ t \in todo
  /\ todo' = todo \ {t}
  /\ \E S \in Listings(t) : toStop' = toStop \cup S
  /\ UNCHANGED <<input, phase, round, cur, asking, cacheVars, noteVars, planVars,
                 pulled, batch, systemVars>>

\* `systemctl stop` blocks until the units are down; a failure is only logged.
StopDeleted ==
  /\ phase = "stop" /\ todo = {}
  /\ phase' = "reload"
  /\ \E S \in Accepted(toStop) :
       Become([u \in Units |-> IF u \in S THEN "inactive" ELSE unit[u]])
  /\ UNCHANGED <<input, round, scanVars, cacheVars, noteVars, toStop, planVars,
                 pulled, batch, events, waiting>>

-----------------------------------------------------------------------------
(* plan_activation *)

\* A new ActivationPlan; the caches are empty (EndPass).
BeginPass(n) ==
  /\ phase' = "pick"
  /\ round' = n
  /\ todo' = UnitsOf(input.changed)
  /\ listed' = {}
  /\ skipped' = {}
  /\ toStart' = {} /\ toRestart' = {} /\ activating' = {}
  /\ seen' = [u \in Units |-> {unit[u]}]
  /\ UNCHANGED <<input, cur, asking, cacheVars, asked, toStop, batch, unit, events,
                 waiting>>

\* daemon-reload, whose failure is only logged, then the first pass.
Reload ==
  /\ phase = "reload"
  /\ BeginPass(1)
  /\ UNCHANGED pulled

\* The loaded instances of a changed template are planned like other units.
PlanTemplate(t) ==
  /\ phase = "pick" /\ t \in todo
  /\ \E S \in Listings(t) :
       /\ todo' = (todo \ {t}) \cup S
       /\ listed' = listed \cup S
  /\ UNCHANGED <<input, phase, round, cur, asking, cacheVars, asked, skipped, toStop,
                 planVars, pulled, batch, systemVars>>

\* ActiveStates::state: one `systemctl show` per unit and pass.
Read(u, r) ==
  /\ r \in IF known[u] = "unread" THEN Readings(u) ELSE {known[u]}
  /\ known' = [known EXCEPT ![u] = r]

\* plan_unit: running or crash-looping.
PlanRestart(u) ==
  /\ phase = "pick" /\ u \in todo
  /\ \E r \in Running : Read(u, r)
  /\ todo' = todo \ {u}
  /\ toRestart' = toRestart \cup {u}
  /\ activating' = activating \cup {u}
  /\ UNCHANGED <<input, phase, round, cur, asking, jobsRead, jobs, noteVars, toStop,
                 toStart, pulled, batch, systemVars>>

\* plan_unit: already starting, left to systemd's own job.
PlanStarting(u) ==
  /\ phase = "pick" /\ u \in todo
  /\ Read(u, "starting")
  /\ todo' = todo \ {u}
  /\ activating' = activating \cup {u}
  /\ UNCHANGED <<input, phase, round, cur, asking, jobsRead, jobs, noteVars, toStop,
                 toStart, toRestart, pulled, batch, systemVars>>

\* plan_unit: reads inactive, which the job list may still correct.
PlanInactive(u) ==
  /\ phase = "pick" /\ u \in todo
  /\ Read(u, "inactive")
  /\ todo' = todo \ {u}
  /\ cur' = u
  /\ phase' = "jobs"
  /\ UNCHANGED <<input, round, asking, jobsRead, jobs, noteVars, toStop, planVars,
                 pulled, batch, systemVars>>

\* has_queued_start_job: one `systemctl list-jobs` per pass, when first needed.
ReadJobs ==
  /\ phase = "jobs" /\ ~jobsRead
  /\ jobsRead' = TRUE
  /\ jobs' \in JobLists
  /\ UNCHANGED <<input, phase, round, scanVars, known, noteVars, toStop, planVars,
                 pulled, batch, systemVars>>

\* The unit has a start job: AlreadyStarting.
LeaveToJob ==
  /\ phase = "jobs" /\ jobsRead
  /\ cur \in jobs
  /\ activating' = activating \cup {cur}
  /\ phase' = "pick" /\ cur' = NoUnit
  /\ UNCHANGED <<input, round, todo, asking, cacheVars, noteVars, toStop, toStart,
                 toRestart, pulled, batch, systemVars>>

PlanStart ==
  /\ toStart' = toStart \cup {cur}
  /\ activating' = activating \cup {cur}
  /\ phase' = "pick" /\ cur' = NoUnit /\ asking' = {}

StartForSync ==
  /\ phase = "jobs" /\ jobsRead
  /\ cur \notin jobs /\ cur \in StartOnSync
  /\ PlanStart
  /\ UNCHANGED <<input, round, todo, cacheVars, noteVars, toStop, toRestart, pulled,
                 batch, systemVars>>

\* `systemctl show` of the reverse dependencies of cur.
AskDeps ==
  /\ phase = "jobs" /\ jobsRead
  /\ cur \notin jobs /\ cur \notin StartOnSync
  /\ phase' = "ask"
  /\ \E D \in ReverseDeps(cur) :
       /\ asking' = D
       /\ asked' = [asked EXCEPT ![cur] = D]
  /\ UNCHANGED <<input, round, todo, cur, cacheVars, listed, skipped, toStop,
                 planVars, pulled, batch, systemVars>>

\* Mutants: a restart delay counts as coming up; a start job does not count.
AuthorisesComingUp(d, r) == r # "inactive" \/ d \in jobs
AuthorisesRunning(d, r) == r \in {"active", "starting"}

\* authorises_start: coming up, and not merely waiting out a restart delay.
Authorises(d, r) == r \in {"active", "starting"} \/ (r = "inactive" /\ d \in jobs)

WantedStart(d) ==
  /\ phase = "ask" /\ d \in asking
  /\ \E r \in Reports : Authorises(d, r) /\ Read(d, r)
  /\ PlanStart
  /\ UNCHANGED <<input, round, todo, jobsRead, jobs, noteVars, toStop, toRestart,
                 pulled, batch, systemVars>>

PassOverDep(d) ==
  /\ phase = "ask" /\ d \in asking
  /\ \E r \in Reports : ~Authorises(d, r) /\ Read(d, r)
  /\ asking' = asking \ {d}
  /\ UNCHANGED <<input, phase, round, todo, cur, jobsRead, jobs, noteVars, toStop,
                 planVars, pulled, batch, systemVars>>

\* Nothing that wants the unit is coming up.
Skip ==
  /\ phase = "ask" /\ asking = {}
  /\ skipped' = skipped \cup {cur}
  /\ phase' = "pick" /\ cur' = NoUnit
  /\ UNCHANGED <<input, round, todo, asking, cacheVars, listed, asked, toStop,
                 planVars, pulled, batch, systemVars>>

\* Mutant: the second pass trusts what the first one read.
KeepStates == UNCHANGED <<known, jobsRead, jobs, asked>>

\* ActiveStates and the reverse dependencies go out of scope with the pass.
ForgetStates ==
  /\ known' = [u \in Units |-> "unread"]
  /\ jobsRead' = FALSE
  /\ jobs' = {}
  /\ asked' = [u \in Units |-> {}]

\* mark_transitively_activated: skipped units that systemd starts with others.
EndPass ==
  /\ phase = "pick" /\ todo = {}
  /\ activating' = activating \cup StartedWith(toStart \cup toRestart, skipped, asked)
  /\ phase' = "pull"
  /\ ForgetStates
  /\ UNCHANGED <<input, round, scanVars, listed, skipped, toStop, toStart, toRestart,
                 pulled, batch, systemVars>>

-----------------------------------------------------------------------------
(* Pre-pull *)

\* Mutant: a template's file is looked up like any other.
ActivatesNamed(f) == UnitOf[f] \in activating

\* A template's file counts when one of the instances listed for it does.
ActivatesFile(f) ==
  IF UnitOf[f] \in Templates
    THEN activating \cap listed \cap Instances[UnitOf[f]] # {}
    ELSE UnitOf[f] \in activating

WorthPulling == {f \in input.changed \cap ImageFiles : ActivatesFile(f)}

\* Mutant: chase the state for as long as there is something to pull.
ReplanAlways == TRUE

ReplanAllowed == round = 1

\* The first pull is followed by a second pass if it pulled anything.
PullAndReplan ==
  /\ phase = "pull" /\ ReplanAllowed
  /\ WorthPulling \cap Carries # {}
  /\ pulled' = WorthPulling
  /\ BeginPass(2)

NothingToPull ==
  /\ phase = "pull" /\ round = 1
  /\ WorthPulling \cap Carries = {}
  /\ pulled' = WorthPulling
  /\ phase' = "issue"
  /\ UNCHANGED <<input, round, scanVars, cacheVars, noteVars, toStop, planVars, batch,
                 systemVars>>

\* Mutant: what the second pass adds is started with its image missing.
NothingAdded == {}

Added == WorthPulling \ pulled

\* What the second pass added is pulled too; there is no third pass.
PullAdded ==
  /\ phase = "pull" /\ round = 2
  /\ pulled' = pulled \cup Added
  /\ phase' = "issue"
  /\ UNCHANGED <<input, round, scanVars, cacheVars, noteVars, toStop, planVars, batch,
                 systemVars>>

-----------------------------------------------------------------------------
(* execute_activation: start and restart StartOnSync units, then the others *)

BatchUnits(b) ==
  CASE b = 1 -> toStart \cap StartOnSync
    [] b = 2 -> toRestart \cap StartOnSync
    [] b = 3 -> toStart \ StartOnSync
    [] b = 4 -> toRestart \ StartOnSync

SkipCall ==
  /\ phase = "issue" /\ batch <= 4
  /\ BatchUnits(batch) = {}
  /\ batch' = batch + 1
  /\ UNCHANGED <<input, phase, round, scanVars, cacheVars, noteVars, toStop, planVars,
                 pulled, systemVars>>

\* The transaction systemd builds for a command that leaves Enqueued to start:
\* it starts what they want, too. quadcd waits for the units it named.
Enqueue(S, Enqueued) ==
  LET more == StartedWith(S, Units \ S, WantedBy)
      new == [u \in Units |->
                IF u \in Enqueued \/ (u \in more /\ unit[u] = "inactive")
                  THEN "queued" ELSE unit[u]]
  IN  /\ Become(new)
      /\ waiting' = {u \in S : new[u] \in Joined}

StartCall ==
  /\ phase = "issue" /\ batch \in {1, 3}
  /\ BatchUnits(batch) # {}
  /\ \E S \in Accepted(BatchUnits(batch)) :
       Enqueue(S, {u \in S : unit[u] \in {"inactive", "backoff"}})
  /\ phase' = "wait"
  /\ UNCHANGED <<input, round, scanVars, cacheVars, noteVars, toStop, planVars, pulled,
                 batch, events>>

\* A restart takes the unit down first, whatever it is doing.
RestartCall ==
  /\ phase = "issue" /\ batch \in {2, 4}
  /\ BatchUnits(batch) # {}
  /\ \E S \in Accepted(BatchUnits(batch)) : Enqueue(S, S)
  /\ phase' = "wait"
  /\ UNCHANGED <<input, round, scanVars, cacheVars, noteVars, toStop, planVars, pulled,
                 batch, events>>

\* Mutant: the call does not block.
NotBlocking == TRUE

JobsEnded == waiting = {}

\* systemctl returns when the jobs it waits for have ended, well or badly.
CallReturns ==
  /\ phase = "wait" /\ JobsEnded
  /\ phase' = "issue"
  /\ batch' = batch + 1
  /\ UNCHANGED <<input, round, scanVars, cacheVars, noteVars, toStop, planVars, pulled,
                 systemVars>>

Finish ==
  /\ phase = "issue" /\ batch > 4
  /\ phase' = "done"
  /\ UNCHANGED <<input, round, scanVars, cacheVars, noteVars, toStop, planVars, pulled,
                 batch, systemVars>>

-----------------------------------------------------------------------------
(* systemd and its users, while quadcd is at it *)

quadcdVars == <<input, phase, round, scanVars, cacheVars, noteVars, toStop, planVars,
                pulled, batch>>

UnitGoes(u, c) ==
  /\ phase \notin {"begin", "done"}
  /\ Become([unit EXCEPT ![u] = c])
  /\ waiting' = IF c \in Joined THEN waiting ELSE waiting \ {u}
  /\ UNCHANGED quadcdVars

Spontaneous == events < MaxEvents /\ events' = events + 1

\* Jobs quadcd waits for go on without bound.
Progress(u) == IF u \in waiting THEN UNCHANGED events ELSE Spontaneous

\* A waiting start job runs; a target's ends at once; a dependency may fail it.
JobRuns(u) ==
  /\ unit[u] = "queued" /\ Progress(u)
  /\ \E c \in {"starting", "active", "inactive"} : UnitGoes(u, c)

StartEnds(u) ==
  /\ unit[u] = "starting" /\ Progress(u)
  /\ \E c \in {"active", "inactive", "backoff"} : UnitGoes(u, c)

\* The restart delay is over.
RetryStart(u) ==
  /\ unit[u] = "backoff" /\ Spontaneous
  /\ UnitGoes(u, "starting")

\* The service exits or crashes.
Exits(u) ==
  /\ unit[u] = "active" /\ Spontaneous
  /\ \E c \in {"inactive", "backoff"} : UnitGoes(u, c)

\* A start is requested: by an operator, a timer, or the boot transaction.
StartRequested(u) ==
  /\ unit[u] \in {"inactive", "backoff"} /\ Spontaneous
  /\ UnitGoes(u, "queued")

StoppedByHand(u) ==
  /\ unit[u] # "inactive" /\ Spontaneous
  /\ UnitGoes(u, "inactive")

-----------------------------------------------------------------------------
Quadcd ==
  \/ Begin \/ StopDeleted \/ Reload
  \/ ReadJobs \/ LeaveToJob \/ StartForSync \/ AskDeps \/ Skip \/ EndPass
  \/ PullAndReplan \/ NothingToPull \/ PullAdded
  \/ SkipCall \/ StartCall \/ RestartCall \/ CallReturns \/ Finish
  \/ \E u \in Units : \/ ReadDeleted(u)
                      \/ PlanRestart(u) \/ PlanStarting(u) \/ PlanInactive(u)
                      \/ WantedStart(u) \/ PassOverDep(u)
  \/ \E t \in Templates : ReadDeletedTemplate(t) \/ PlanTemplate(t)

Systemd ==
  \E u \in Units : \/ JobRuns(u) \/ StartEnds(u) \/ RetryStart(u)
                   \/ Exits(u) \/ StartRequested(u) \/ StoppedByHand(u)

Next == Quadcd \/ Systemd

Spec == Init /\ [][Next]_vars

\* quadcd is a running process, and every start job of systemd ends.
Fairness ==
  /\ WF_vars(Quadcd)
  /\ \A u \in Units : WF_vars(JobRuns(u)) /\ WF_vars(StartEnds(u))

FairSpec == Spec /\ Fairness

-----------------------------------------------------------------------------
(* Properties *)

\* Every variable stays in its range: the phases and caches of apply_changes and
\* the units of systemd.
TypeOK ==
  /\ input \in [changed : SUBSET Files, deleted : SUBSET Files, syncOnly : BOOLEAN]
  /\ phase \in {"begin", "stop", "reload", "pick", "jobs", "ask", "pull", "issue",
                "wait", "done"}
  /\ round \in 1..2
  /\ todo \subseteq Units \cup Templates
  /\ cur \in Units \cup {NoUnit}
  /\ (phase \in {"jobs", "ask"}) => cur \in Units
  /\ asking \subseteq Units
  /\ known \in [Units -> Reports \cup {"unread"}]
  /\ jobsRead \in BOOLEAN
  /\ jobs \subseteq Units
  /\ listed \subseteq Units
  /\ asked \in [Units -> SUBSET Units]
  /\ skipped \subseteq Units
  /\ toStop \subseteq Units
  /\ toStart \subseteq Units /\ toRestart \subseteq Units /\ activating \subseteq Units
  /\ pulled \subseteq Files
  /\ batch \in 1..5
  /\ (phase = "wait") => batch \in 1..4
  /\ waiting \subseteq Units
  /\ unit \in [Units -> Conditions]
  /\ seen \in [Units -> SUBSET Conditions]
  /\ events \in 0..MaxEvents

Was(u, conditions) == seen[u] \cap conditions # {}
AlwaysWas(u, conditions) == seen[u] \subseteq conditions

\* The plan that is about to be executed, or is being executed, is complete.
Decided == phase \in {"issue", "wait"}

\* A unit is started only if its file asks for it or if some unit that wants it was
\* coming up at a moment of the planning pass that decided so: what an earlier pass
\* read, or the restart delay of a crash-looping unit, never authorises a start.
StartsAreWanted ==
  Decided => \A u \in toStart : \/ u \in StartOnSync
                                \/ \E d \in WantedBy[u] : Was(d, ComingUp)

\* A unit is restarted only if it was running or crash-looping at a moment of the
\* pass that decided so: one that was down before the pull ended and stayed down
\* is not brought back because it ran when the first pass looked.
RestartsWereRunning ==
  Decided => \A u \in toRestart : Was(u, Running)

\* A start that was under way when the pass began and still is when it ends is never
\* cut short by a restart; and if no systemctl call failed it gets no command at all.
\* The state of a unit and the job list are read at different moments, and between
\* the two the job goes from waiting to running.
StartUnderwayLeftAlone ==
  Decided => \A u \in Units : AlwaysWas(u, Joined) =>
                /\ u \notin toRestart
                /\ u \notin toStart \/ Faulty

\* A unit is not passed over while one that wants it runs (or is starting) all through
\* the pass, or has its start job waiting all through it, wherever in the pass the
\* planner happens to look.
SteadyWanterHonoured ==
  Decided /\ ~Faulty =>
    \A u \in skipped : \A d \in WantedBy[u] :
      ~ AlwaysWas(d, {"starting", "active"}) /\ ~ AlwaysWas(d, {"queued"})

PlannedUnits == (UnitsOf(input.changed) \cap Units) \cup listed

\* What quadcd's commands make systemd start, along chains of planned units.
SetOff ==
  toStart \cup toRestart \cup StartedWith(toStart \cup toRestart, PlannedUnits, WantedBy)

FileUnits(f) ==
  IF UnitOf[f] \in Templates THEN listed \cap Instances[UnitOf[f]] ELSE {UnitOf[f]}

\* No command is issued while the image of a changed file is still to be pulled
\* though the command starts its unit, directly or as a dependency of changed units;
\* the second pass may have added units the first pull did not cover.
ImagesPulledBeforeUse ==
  Decided /\ ~Faulty =>
    \A f \in input.changed \cap ImageFiles : FileUnits(f) \cap SetOff # {} => f \in pulled

\* While the jobs of StartOnSync units that quadcd started or restarted run, none of
\* the other units has been commanded: a build is over before its user starts.
BuildsGoFirst ==
  Decided /\ waiting \cap StartOnSync \cap (toStart \cup toRestart) # {} => batch \in {1, 2}

\* When systemd is about to forget a deleted unit, the unit has not been running or
\* starting ever since the sync was applied: it has been stopped or went down.
DeletedAreStopped ==
  phase = "reload" /\ ~Faulty =>
    \A u \in UnitsOf(input.deleted) \cap Units : ~ AlwaysWas(u, {"starting", "active", "backoff"})

\* Applying changes comes to an end: two passes at most, however much the units change
\* while images are pulled, and no call waits for a job that has ended.
Terminates == <>(phase = "done")

=============================================================================
