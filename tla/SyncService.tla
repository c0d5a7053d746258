--------------------------- MODULE SyncService ---------------------------
(***************************************************************************)
(* `quadcd sync --service` (run_service) next to manual `quadcd sync` runs *)
(* (run_once): the sync lock, the intervals of the repositories, and the   *)
(* configuration file with its watcher or, failing that, its polling.      *)
(*                                                                         *)
(* Syncing one repository is one step here, with the outcomes it may have, *)
(* and so is applying the changes: Checkout and Activation model what      *)
(* happens inside.                                                         *)
(***************************************************************************)
EXTENDS Naturals, FiniteSets

CONSTANTS
    Repos,
    Configs,        \* contents of the file that load
    Broken,         \* content that does not load
    Missing,        \* no file
    Every,          \* [Configs -> functions from some Repos to intervals]
    NoInterval,     \* a repository without (or with an invalid) interval
    DefaultTick,
    MaxAge,         \* ages above it are not told apart; at least every interval
    Service,
    Manuals,
    Nobody,
    NoEntry,        \* a repository without an entry in last_sync
    Watchers,       \* how setting up the watcher may end
    OddStamps,      \* whether a write may leave the file no newer than before
    MayDie,         \* whether processes may be killed
    MaxEvents,      \* config events under way, or queued
    MaxEdits, MaxPushes, MaxRuns,
    MaxFaults       \* failures and deaths

Procs == {Service} \cup Manuals
Files == Configs \cup {Broken, Missing}

ASSUME ConstantsOK ==
    /\ Service \notin Manuals /\ Nobody \notin Procs
    /\ Broken \notin Configs /\ Missing \notin Configs /\ Broken # Missing
    /\ \A c \in Configs :
          /\ DOMAIN Every[c] \subseteq Repos
          /\ \A r \in DOMAIN Every[c] : Every[c][r] \in Nat \cup {NoInterval}
    /\ MaxAge \in Nat /\ DefaultTick \in Nat /\ MaxEvents \in Nat \ {0}
    /\ NoInterval \notin Nat /\ NoEntry \notin Nat
    /\ Watchers \subseteq {"works", "deaf", "polls"}
    /\ OddStamps \in BOOLEAN /\ MayDie \in BOOLEAN
    /\ MaxEdits \in Nat /\ MaxPushes \in Nat /\ MaxRuns \in Nat /\ MaxFaults \in Nat

VARIABLES
    pc,         \* where each process is
    lock,       \* who holds .quadcd-sync.lock
    config,     \* the configuration each process works from
    loading,    \* the configuration a reload is syncing
    todo,       \* repositories still to visit in the loop under way
    changes,    \* what each process has to hand to apply_changes, as <<repository, commit>>
    only,       \* manual syncs run with --sync-only
    age,        \* last_sync, as the time since then
    spent,      \* time since `now` was read in this tick
    tick,
    remaining,  \* of the sleep under way
    shutdown,   \* SHUTDOWN
    file,       \* the config file
    newer,      \* whether its mtime is newer than config_mtime
    watcher,
    events,     \* file events not yet handed to the channel
    notes,      \* notifications in the channel
    unheard,    \* history: edits since the last load that nothing reports
    upstream,   \* last commit of each remote
    head,       \* commit of each checkout
    told,       \* commits whose changes have been applied, as <<repository, commit>>
    lost,       \* history: commits that were checked out with nobody to apply them
    used        \* how much of each Max has been used

sched == <<age, spent, tick, remaining>>
conf  == <<file, newer, watcher, events, notes, unheard>>
repo  == <<upstream, head, told, lost>>
mine  == <<todo, changes, only>>
vars  == <<pc, lock, config, loading, mine, sched, shutdown, conf, repo, used>>

Work == <<head, told>>

-----------------------------------------------------------------------------
(* Helpers. *)

Goto(p, there) == pc' = [pc EXCEPT ![p] = there]

Use(what) == used' = [used EXCEPT ![what] = @ + 1]

Fault == used.faults < MaxFaults /\ Use("faults")

Capped(n, top) == IF n < top THEN n ELSE top

\* interval_duration of the repositories that have one
Intervals(c) ==
    {Every[c][r] : r \in {q \in DOMAIN Every[c] : Every[c][q] # NoInterval}}

MinInterval(c) ==
    IF Intervals(c) = {} THEN DefaultTick
    ELSE CHOOSE i \in Intervals(c) : \A j \in Intervals(c) : i <= j

\* now - last_sync, which is now when there is no entry
Since(r) == IF age[r] = NoEntry THEN 0 ELSE age[r]

Due(c) ==
    {r \in DOMAIN Every[c] : Every[c][r] # NoInterval /\ Since(r) >= Every[c][r]}

Older == [r \in Repos |-> IF age[r] = NoEntry THEN NoEntry
                          ELSE Capped(age[r] + 1, MaxAge)]

\* phases of the service
Syncing  == {"start_sync", "reload_sync", "tick_sync"}
Applying == {"start_apply", "reload_apply", "tick_apply"}
Loop     == {"loop", "try", "nap"}
InTick   == {"recv", "drain", "load", "reload_sync", "reload_apply", "now",
             "tick_sync", "tick_apply"}
Stopped  == {"ended", "dead"}

\* A process between taking the lock and giving it back.
InTurn(p) == pc[p] \in {"start_sync", "start_apply", "sync", "apply"} \cup InTick

AfterSync(phase) ==
    CASE phase = "start_sync"  -> "start_apply"
      [] phase = "reload_sync" -> "reload_apply"
      [] phase = "tick_sync"   -> "tick_apply"
      [] phase = "sync"        -> "apply"

-----------------------------------------------------------------------------
(* The configuration file. *)

\* Whether the service would learn of an edit made now.
Listens ==
    \/ watcher = "works"
    \/ watcher = "polls" /\ pc[Service] \in Loop \cup InTick

\* Somebody writes, replaces or removes the file.  The watcher passes on Modify
\* and Create events only, and a removal leaves no mtime to compare.
Edit(f) ==
    /\ used.edits < MaxEdits /\ Use("edits")
    /\ f # file /\ file' = f
    /\ \E moves \in IF OddStamps THEN BOOLEAN ELSE {TRUE} :
          /\ newer' = (newer \/ (moves /\ f # Missing))
          /\ unheard' = (unheard \/ (~Listens /\ pc[Service] \notin Stopped)
                                 \/ (watcher = "polls" /\ f # Missing /\ ~newer'))
    /\ events' = IF watcher = "works" /\ f # Missing
                 THEN Capped(events + 1, MaxEvents) ELSE events
    /\ UNCHANGED <<pc, lock, config, loading, mine, sched, shutdown, watcher, notes, repo>>

\* The watcher's thread sends a notification.
Notify ==
    /\ events > 0
    /\ events' = events - 1
    /\ notes' = Capped(notes + 1, MaxEvents)
    /\ UNCHANGED <<pc, lock, config, loading, mine, sched, shutdown, file, newer, watcher,
                   unheard, repo, used>>

-----------------------------------------------------------------------------
(* One repository, and what follows when all are visited. *)

\* last_sync.insert(name, now), in a tick only
Stamp(p, r) ==
    age' = IF pc[p] = "tick_sync" THEN [age EXCEPT ![r] = spent] ELSE age

MayVisit(p, r) ==
    /\ pc[p] \in Syncing \cup {"sync"}
    /\ r \in todo[p]
    /\ pc[p] = "tick_sync" => ~shutdown
    /\ todo' = [todo EXCEPT ![p] = @ \ {r}]

\* safe_repo_dir or create_dir_all fails: last_sync stays as it is
SkipRepo(p, r) ==
    /\ MayVisit(p, r)
    /\ Fault
    /\ UNCHANGED <<pc, lock, config, loading, changes, only, sched, shutdown, conf, repo>>

\* The commits up to c that are not checked out yet.
Behind(r, c) == {r} \X (head[r] + 1 .. c)

\* sync_repo_inner moves HEAD to commit c, or leaves it where it is.
MoveHead(r, c) == head' = [head EXCEPT ![r] = c]

HandOver(p, commits) == changes' = [changes EXCEPT ![p] = @ \cup commits]

Visited == <<pc, lock, config, loading, only, spent, tick, remaining, shutdown, conf,
             upstream, told>>

\* An error from sync_repo_inner.  The clone, pull or reset may have been killed
\* by GIT_TIMEOUT after HEAD had moved: the next sync finds nothing to do.
FailRepo(p, r) ==
    /\ MayVisit(p, r)
    /\ Fault
    /\ Stamp(p, r)
    /\ \E c \in {head[r], upstream[r]} :
          /\ MoveHead(r, c)
          /\ lost' = lost \cup Behind(r, c)
    /\ UNCHANGED <<Visited, changes>>

\* HEAD has moved, but git diff fails: Updated, with no changes.
DiffFails(p, r) ==
    /\ MayVisit(p, r)
    /\ head[r] # upstream[r]
    /\ Fault
    /\ Stamp(p, r)
    /\ MoveHead(r, upstream[r])
    /\ lost' = lost \cup Behind(r, upstream[r])
    /\ UNCHANGED <<Visited, changes>>

\* git rev-parse fails before or after, or --force has set another URL: every unit
\* file there is counts as changed, but those that are gone are not reported.
CountAllFiles(p, r) ==
    /\ MayVisit(p, r)
    /\ Fault
    /\ Stamp(p, r)
    /\ MoveHead(r, upstream[r])
    /\ HandOver(p, {r} \X (1 .. upstream[r]))
    /\ lost' = lost \cup Behind(r, upstream[r])
    /\ UNCHANGED Visited

\* Cloned, Updated or AlreadyUpToDate
SyncRepo(p, r) ==
    /\ MayVisit(p, r)
    /\ Stamp(p, r)
    /\ MoveHead(r, upstream[r])
    /\ HandOver(p, Behind(r, upstream[r]))
    /\ UNCHANGED <<Visited, lost, used>>

\* Mutant: the signal ends the tick with its changes.
DropTick ==
    /\ pc[Service] = "tick_sync" /\ shutdown /\ todo[Service] # {}
    /\ todo' = [todo EXCEPT ![Service] = {}]
    /\ changes' = [changes EXCEPT ![Service] = {}]
    /\ UNCHANGED <<pc, lock, config, loading, only, sched, shutdown, conf, repo, used>>

\* A signal ends the loop of a tick, not that of the other syncs.
BreakTick ==
    /\ pc[Service] = "tick_sync" /\ shutdown /\ todo[Service] # {}
    /\ todo' = [todo EXCEPT ![Service] = {}]
    /\ UNCHANGED <<pc, lock, config, loading, changes, only, sched, shutdown, conf, repo,
                   used>>

EndSync(p) ==
    /\ pc[p] \in Syncing \cup {"sync"}
    /\ todo[p] = {}
    /\ Goto(p, AfterSync(pc[p]))
    /\ UNCHANGED <<lock, config, loading, mine, sched, shutdown, conf, repo, used>>

\* apply_changes; --sync-only returns before it does anything
ApplyChanges(p) ==
    /\ IF p \in Manuals /\ only[p]
       THEN /\ lost' = lost \cup changes[p]
            /\ UNCHANGED told
       ELSE /\ told' = told \cup changes[p]
            /\ UNCHANGED lost
    /\ changes' = [changes EXCEPT ![p] = {}]
    /\ UNCHANGED <<upstream, head>>

-----------------------------------------------------------------------------
(* The service. *)

\* The initial sync waits for the lock.
AcquireAtStart ==
    /\ pc[Service] = "start"
    /\ lock = Nobody /\ lock' = Service
    /\ todo' = [todo EXCEPT ![Service] = DOMAIN Every[config[Service]]]
    /\ Goto(Service, "start_sync")
    /\ UNCHANGED <<config, loading, changes, only, sched, shutdown, conf, repo, used>>

\* The lock file cannot be opened: the service goes on without an initial sync.
NoLockAtStart ==
    /\ pc[Service] = "start"
    /\ Fault
    /\ Goto(Service, "intervals")
    /\ UNCHANGED <<lock, config, loading, mine, sched, shutdown, conf, repo>>

ApplyAtStart ==
    /\ pc[Service] = "start_apply"
    /\ ApplyChanges(Service)
    /\ lock' = Nobody
    /\ Goto(Service, "intervals")
    /\ UNCHANGED <<config, loading, todo, only, sched, shutdown, conf, used>>

StartIntervals ==
    /\ pc[Service] = "intervals"
    /\ age' = [r \in Repos |-> IF r \in DOMAIN Every[config[Service]] THEN 0 ELSE NoEntry]
    /\ Goto(Service, "watch")
    /\ UNCHANGED <<lock, config, loading, mine, spent, tick, remaining, shutdown, conf, repo,
                   used>>

\* "works"; or "polls": there is no watcher; or "deaf": there is one, but it
\* could not watch the directory, which leaves polling off.
StartWatching ==
    /\ pc[Service] = "watch"
    /\ watcher' \in Watchers
    /\ Goto(Service, "seed")
    /\ UNCHANGED <<lock, config, loading, mine, sched, shutdown, file, newer, events, notes,
                   unheard, repo, used>>

SeedMtime ==
    /\ pc[Service] = "seed"
    /\ newer' = (file = Missing)
    /\ tick' = MinInterval(config[Service])
    /\ Goto(Service, "loop")
    /\ UNCHANGED <<lock, config, loading, mine, age, spent, remaining, shutdown, file,
                   watcher, events, notes, unheard, repo, used>>

\* Mutant: queued notifications are handled first.
StopWhenQuiet ==
    /\ pc[Service] = "loop" /\ shutdown /\ notes = 0
    /\ Goto(Service, "ended")
    /\ watcher' = "off" /\ events' = 0 /\ notes' = 0
    /\ UNCHANGED <<lock, config, loading, mine, sched, shutdown, file, newer, unheard, repo,
                   used>>

Stop ==
    /\ pc[Service] = "loop" /\ shutdown
    /\ Goto(Service, "ended")
    /\ watcher' = "off" /\ events' = 0 /\ notes' = 0
    /\ UNCHANGED <<lock, config, loading, mine, sched, shutdown, file, newer, unheard, repo,
                   used>>

Poll ==
    /\ pc[Service] = "loop" /\ ~shutdown
    /\ IF watcher = "polls" /\ newer /\ file # Missing
       THEN /\ newer' = FALSE
            /\ notes' = Capped(notes + 1, MaxEvents)
       ELSE UNCHANGED <<newer, notes>>
    /\ Goto(Service, "try")
    /\ UNCHANGED <<lock, config, loading, mine, sched, shutdown, file, watcher, events,
                   unheard, repo, used>>

\* Mutant: the tick goes on without the lock.
TickAnyway ==
    /\ pc[Service] = "try"
    /\ lock' = Service
    /\ Goto(Service, "recv")
    /\ UNCHANGED <<config, loading, mine, sched, shutdown, conf, repo, used>>

TryAcquire ==
    /\ pc[Service] = "try"
    /\ lock = Nobody /\ lock' = Service
    /\ Goto(Service, "recv")
    /\ UNCHANGED <<config, loading, mine, sched, shutdown, conf, repo, used>>

\* The lock is held, or its file cannot be opened: no tick this time.
SkipTick ==
    /\ pc[Service] = "try"
    /\ \/ lock # Nobody /\ UNCHANGED used
       \/ Fault
    /\ remaining' = tick
    /\ Goto(Service, "nap")
    /\ UNCHANGED <<lock, config, loading, mine, age, spent, tick, shutdown, conf, repo>>

Receive ==
    /\ pc[Service] = "recv"
    /\ IF notes > 0
       THEN notes' = notes - 1 /\ Goto(Service, "drain")
       ELSE UNCHANGED notes /\ Goto(Service, "now")
    /\ UNCHANGED <<lock, config, loading, mine, sched, shutdown, file, newer, watcher,
                   events, unheard, repo, used>>

Drain ==
    /\ pc[Service] = "drain"
    /\ notes' = 0
    /\ Goto(Service, "load")
    /\ UNCHANGED <<lock, config, loading, mine, sched, shutdown, file, newer, watcher,
                   events, unheard, repo, used>>

\* Repositories that have no entry yet start their interval now; a file that
\* does not load keeps the current configuration.
Load ==
    /\ pc[Service] = "load"
    /\ unheard' = FALSE
    /\ IF file \in Configs
       THEN /\ loading' = file
            /\ todo' = [todo EXCEPT ![Service] = DOMAIN Every[file]]
            /\ age' = [r \in Repos |-> IF r \in DOMAIN Every[file] /\ age[r] = NoEntry
                                       THEN 0 ELSE age[r]]
            /\ Goto(Service, "reload_sync")
       ELSE /\ UNCHANGED <<loading, todo, age>>
            /\ Goto(Service, "now")
    /\ UNCHANGED <<lock, config, changes, only, spent, tick, remaining, shutdown, file,
                   newer, watcher, events, notes, repo, used>>

ApplyReload ==
    /\ pc[Service] = "reload_apply"
    /\ ApplyChanges(Service)
    /\ config' = [config EXCEPT ![Service] = loading]
    /\ tick' = MinInterval(loading)
    /\ Goto(Service, "now")
    /\ UNCHANGED <<lock, loading, todo, only, age, spent, remaining, shutdown, conf, used>>

FindDue ==
    /\ pc[Service] = "now"
    /\ spent' = 0
    /\ todo' = [todo EXCEPT ![Service] = Due(config[Service])]
    /\ Goto(Service, "tick_sync")
    /\ UNCHANGED <<lock, config, loading, changes, only, age, tick, remaining, shutdown,
                   conf, repo, used>>

\* Mutant: the lock is kept for the next tick.
KeepLock ==
    /\ pc[Service] = "tick_apply"
    /\ ApplyChanges(Service)
    /\ remaining' = tick
    /\ Goto(Service, "nap")
    /\ UNCHANGED <<lock, config, loading, todo, only, age, spent, tick, shutdown, conf, used>>

ApplyTick ==
    /\ pc[Service] = "tick_apply"
    /\ ApplyChanges(Service)
    /\ lock' = Nobody
    /\ remaining' = tick
    /\ Goto(Service, "nap")
    /\ UNCHANGED <<config, loading, todo, only, age, spent, tick, shutdown, conf, used>>

\* Mutant: the notification that ends the sleep is used up.
NapSwallows ==
    /\ pc[Service] = "nap"
    /\ notes' = 0
    /\ IF remaining = 0 \/ notes > 0 \/ shutdown
       THEN Goto(Service, "loop") /\ UNCHANGED <<age, remaining>>
       ELSE age' = Older /\ remaining' = remaining - 1 /\ UNCHANGED pc
    /\ UNCHANGED <<lock, config, loading, mine, spent, tick, shutdown, file, newer, watcher,
                   events, unheard, repo, used>>

\* One nap of the sleep; a notification ends the sleep and stays queued once.
Nap ==
    /\ pc[Service] = "nap"
    /\ \/ /\ remaining = 0
          /\ Goto(Service, "loop")
          /\ UNCHANGED <<notes, age, remaining>>
       \/ /\ remaining > 0 /\ notes > 0
          /\ notes' = 1
          /\ Goto(Service, "loop")
          /\ UNCHANGED <<age, remaining>>
       \/ /\ remaining > 0 /\ notes = 0
          /\ age' = Older
          /\ remaining' = remaining - 1
          /\ IF shutdown THEN Goto(Service, "loop") ELSE UNCHANGED pc
          /\ UNCHANGED notes
    /\ UNCHANGED <<lock, config, loading, mine, spent, tick, shutdown, file, newer, watcher,
                   events, unheard, repo, used>>

\* Syncing and applying take time.
Elapse ==
    /\ pc[Service] \in Syncing \cup Applying
    /\ age' = Older
    /\ spent' = Capped(spent + 1, MaxAge)
    /\ <<age, spent>>' # <<age, spent>>
    /\ UNCHANGED <<pc, lock, config, loading, mine, tick, remaining, shutdown, conf, repo,
                   used>>

-----------------------------------------------------------------------------
(* Manual syncs: `quadcd sync` reads the configuration, then waits. *)

StartManual(m) ==
    /\ pc[m] = "idle"
    /\ used.runs < MaxRuns /\ Use("runs")
    /\ file \in Configs /\ DOMAIN Every[file] # {}
    /\ config' = [config EXCEPT ![m] = file]
    /\ \E so \in BOOLEAN : only' = [only EXCEPT ![m] = so]
    /\ Goto(m, "wait")
    /\ UNCHANGED <<lock, loading, todo, changes, sched, shutdown, conf, repo>>

AcquireManual(m) ==
    /\ pc[m] = "wait"
    /\ lock = Nobody /\ lock' = m
    /\ todo' = [todo EXCEPT ![m] = DOMAIN Every[config[m]]]
    /\ Goto(m, "sync")
    /\ UNCHANGED <<config, loading, changes, only, sched, shutdown, conf, repo, used>>

ApplyManual(m) ==
    /\ pc[m] = "apply"
    /\ ApplyChanges(m)
    /\ lock' = Nobody
    /\ Goto(m, "idle")
    /\ UNCHANGED <<config, loading, todo, only, sched, shutdown, conf, used>>

-----------------------------------------------------------------------------
(* The world. *)

Push(r) ==
    /\ used.pushes < MaxPushes /\ Use("pushes")
    /\ upstream' = [upstream EXCEPT ![r] = @ + 1]
    /\ UNCHANGED <<pc, lock, config, loading, mine, sched, shutdown, conf, head, told, lost>>

Signal ==
    /\ pc[Service] \notin Stopped
    /\ ~shutdown /\ shutdown' = TRUE
    /\ UNCHANGED <<pc, lock, config, loading, mine, sched, conf, repo, used>>

\* A process is killed: the kernel frees its lock, and its memory is gone.
Die(p) ==
    /\ pc[p] \notin Stopped \cup {"idle"}
    /\ MayDie /\ Fault
    /\ lock' = IF lock = p THEN Nobody ELSE lock
    /\ lost' = lost \cup changes[p]
    /\ changes' = [changes EXCEPT ![p] = {}]
    /\ todo' = [todo EXCEPT ![p] = {}]
    /\ IF p = Service
       THEN /\ Goto(p, "dead")
            /\ watcher' = "off" /\ events' = 0 /\ notes' = 0
       ELSE /\ Goto(p, "idle")
            /\ UNCHANGED <<watcher, events, notes>>
    /\ UNCHANGED <<config, loading, only, sched, shutdown, file, newer, unheard, upstream,
                   head, told>>

\* systemd starts the service again.  With a file that does not load it exits.
Restart ==
    /\ pc[Service] = "dead"
    /\ file \in Configs /\ DOMAIN Every[file] # {}
    /\ config' = [config EXCEPT ![Service] = file]
    /\ unheard' = FALSE
    /\ shutdown' = FALSE
    /\ Goto(Service, "start")
    /\ UNCHANGED <<lock, loading, mine, sched, file, newer, watcher, events, notes, repo,
                   used>>

-----------------------------------------------------------------------------
Init ==
    /\ pc = [p \in Procs |-> IF p = Service THEN "start" ELSE "idle"]
    /\ lock = Nobody
    /\ file \in {c \in Configs : DOMAIN Every[c] # {}}
    /\ config = [p \in Procs |-> file]
    /\ loading = file
    /\ todo = [p \in Procs |-> {}]
    /\ changes = [p \in Procs |-> {}]
    /\ only = [p \in Procs |-> FALSE]
    /\ age = [r \in Repos |-> NoEntry]
    /\ spent = 0 /\ tick = DefaultTick /\ remaining = 0
    /\ shutdown = FALSE
    /\ newer = FALSE /\ watcher = "off" /\ events = 0 /\ notes = 0 /\ unheard = FALSE
    /\ upstream = [r \in Repos |-> 0] /\ head = upstream
    /\ told = {} /\ lost = {}
    /\ used = [edits |-> 0, pushes |-> 0, runs |-> 0, faults |-> 0]

Visit(p) ==
    \/ \E r \in Repos : \/ SkipRepo(p, r) \/ FailRepo(p, r) \/ DiffFails(p, r)
                         \/ CountAllFiles(p, r) \/ SyncRepo(p, r)
    \/ EndSync(p)

ServiceStep ==
    \/ AcquireAtStart \/ NoLockAtStart \/ ApplyAtStart
    \/ StartIntervals \/ StartWatching \/ SeedMtime
    \/ Stop \/ Poll \/ TryAcquire \/ SkipTick
    \/ Receive \/ Drain \/ Load \/ ApplyReload
    \/ FindDue \/ BreakTick \/ ApplyTick \/ Nap
    \/ Visit(Service)

ManualStep(m) == AcquireManual(m) \/ ApplyManual(m) \/ Visit(m)

World ==
    \/ \E f \in Files : Edit(f)
    \/ Elapse
    \/ \E m \in Manuals : StartManual(m)
    \/ \E r \in Repos : Push(r)
    \/ Signal \/ Restart
    \/ \E p \in Procs : Die(p)

Next == ServiceStep \/ Notify \/ (\E m \in Manuals : ManualStep(m)) \/ World

Spec == Init /\ [][Next]_vars

\* The processes run, git and podman time out, the watcher's thread runs.
Fairness ==
    /\ WF_vars(ServiceStep) /\ WF_vars(Notify)
    /\ \A m \in Manuals : WF_vars(ManualStep(m))

FairSpec == Spec /\ Fairness

-----------------------------------------------------------------------------
(* Properties. *)

\* The variables have their types.
TypeOK ==
    /\ pc \in [Procs -> Syncing \cup Applying \cup Loop \cup InTick \cup Stopped \cup
                        {"start", "intervals", "watch", "seed", "idle", "wait", "sync", "apply"}]
    /\ lock \in Procs \cup {Nobody}
    /\ config \in [Procs -> Configs] /\ loading \in Configs
    /\ todo \in [Procs -> SUBSET Repos] /\ changes \in [Procs -> SUBSET (Repos \X Nat)]
    /\ only \in [Procs -> BOOLEAN]
    /\ age \in [Repos -> Nat \cup {NoEntry}]
    /\ spent \in Nat /\ tick \in Nat /\ remaining \in Nat
    /\ shutdown \in BOOLEAN /\ newer \in BOOLEAN /\ unheard \in BOOLEAN
    /\ file \in Files /\ watcher \in {"works", "deaf", "polls", "off"}
    /\ events \in Nat /\ notes \in Nat
    /\ upstream \in [Repos -> Nat] /\ head \in [Repos -> Nat]
    /\ told \subseteq Repos \X Nat /\ lost \subseteq Repos \X Nat
    /\ used \in [{"edits", "pushes", "runs", "faults"} -> Nat]

\* "a manual `quadcd sync` and the service never sync at the same time"
\* (lock.rs:1): whoever syncs has the turn until it has applied its changes,
\* whatever processes die, and checkouts and deployments change in turns only.
Turns ==
    INSTANCE SyncLock
    WITH holder <- IF \E p \in Procs : InTurn(p) THEN CHOOSE p \in Procs : InTurn(p)
                   ELSE Nobody,
         work <- Work

OneTurnAtATime == \A p, q \in Procs : InTurn(p) /\ InTurn(q) => p = q

SyncsTakeTurns == Turns!Spec

\* A service in its loop that works from another configuration than the file
\* holds knows it: a notification is queued or on its way, the next poll will
\* see a newer mtime, or the file is being loaded.  No order of edits, drains,
\* failed loads and skipped ticks loses an edit that was made while the service
\* was listening.
Pending ==
    \/ events > 0 \/ notes > 0
    \/ watcher = "polls" /\ newer
    \/ pc[Service] \in {"drain", "load"}
    \/ pc[Service] \in {"reload_sync", "reload_apply"} /\ loading = file

EditsAreHeard ==
    /\ pc[Service] \in Loop \cup InTick
    /\ file \in Configs /\ config[Service] # file
    => Pending \/ unheard

\* Every commit that is checked out has been applied, or is in the hands of a
\* process that will apply it.  There are four ways to lose one: the process is
\* killed before it applies, it was run with --sync-only, git moved HEAD and then
\* failed, or git could not tell what the move changed.  Nothing else does: no
\* signal that ends a tick half way, no skipped tick, no reload that drops the
\* repository, no failure of another repository, no other process's turn.
NothingLeftUnapplied ==
    \A r \in Repos : \A c \in 1 .. head[r] :
        <<r, c>> \in told \cup lost \cup UNION {changes[p] : p \in Procs}

\* Once the file is left alone, the service works from it, unless it ends, dies
\* or could not hear of the edit.
ReloadsInTheEnd ==
    <>[](\/ pc[Service] \in Stopped
         \/ config[Service] = file \/ file \notin Configs
         \/ unheard)

\* A configured repository that is due is synced, however many ticks are skipped
\* because a manual sync has the lock.
DueIsSynced ==
    \A r \in Repos :
        []<>(\/ pc[Service] \in Stopped
             \/ r \notin Due(config[Service])
             \/ \E p \in Procs : InTurn(p) /\ r \in todo[p])

\* A signal ends the service.
SignalEndsService == shutdown ~> pc[Service] \in Stopped
=============================================================================
