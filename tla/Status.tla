------------------------------ MODULE Status ------------------------------
(***************************************************************************)
(* `quadcd status`: one look at every repository and every unit.  It takes *)
(* no lock, so what it reads comes from different moments: meanwhile syncs *)
(* fetch and move checkouts, systemd reloads, units start and fail, and    *)
(* the clock is set.                                                       *)
(***************************************************************************)
EXTENDS Integers, Sequences, Functions

CONSTANTS
    RepoOrder,      \* configured repositories, sorted by name
    UnitsOf,        \* all_unit_files of a repository, as units
    Units,
    Odd,            \* repositories that may be missing, misdirected or ahead at first
    None,
    MinRestarts,    \* RESTART_LOOP_MIN_RESTARTS
    MaxUptime,      \* RESTART_LOOP_MAX_UPTIME
    MaxEvents,      \* bound: things that happen in the world
    MaxFaults

Repos == Range(RepoOrder)

\* RepoState
RepoStates ==
    {"missing", "url-mismatch", "error", "up-to-date", "ahead", "behind", "diverged"}

\* ServiceStatus; the state of a unit may be unknown
ServiceStates ==
    [active : {"active", "activating", "inactive", ""}, reload : BOOLEAN,
     pending : BOOLEAN, loop : BOOLEAN]

ASSUME ConstantsOK ==
    /\ RepoOrder \in Seq(Repos) /\ IsInjective(RepoOrder)
    /\ UnitsOf \in [Repos -> SUBSET Units]
    /\ Odd \subseteq Repos
    /\ None \notin Int /\ None \notin RepoStates /\ None \notin ServiceStates
    /\ MinRestarts \in Nat /\ MaxUptime \in Nat /\ MaxEvents \in Nat /\ MaxFaults \in Nat

VARIABLES
    step,       \* of status
    fetches,    \* not --no-fetch
    todo,       \* repositories not looked at yet; the first is being looked at
    toShow,     \* its units not entered yet
    reading,    \* what `systemctl show` has said of one of them, or None
    began,      \* [mono, wall]: both clocks, read when the run began
    repos,      \* the report: repository -> its state, or None
    services,   \* unit -> what is shown, or None
    warned,     \* units found twice, repositories with local commits
    rc,
    git,        \* repositories whose checkout exists
    sameUrl,    \* those whose origin is the configured one
    head, track, upstream,  \* commits, by their number
    mine,       \* checkouts with commits of their own
    unit,       \* unit -> [active, since, restarts]
    text, loaded, running,  \* version of a unit's file, of it in systemd, in the process
    mtime,      \* of the unit's generated file by the wall clock, or None: there is none
    reloading,  \* systemd has cleared the generated files and runs the generator
    now,        \* the monotonic clock; events of the world take time
    skew,       \* how far the wall clock is ahead of it
    set,        \* when that has changed: the clock was set, or the machine slept
    faults,
    target,     \* history: commits a checkout must have, in the eyes of this run
    wrong,      \* history: what has been wrong ever since the run began
    reasons,    \* history: what could have made an alarm since
    failed      \* history: a command of this run has failed

report == <<repos, services, warned>>
refs   == <<git, sameUrl, head, track, upstream, mine>>
clock  == <<skew, set>>
world  == <<refs, unit, text, loaded, running, mtime, reloading, now, clock>>
run    == <<step, fetches, todo, toShow, reading, began, rc, target>>
vars   == <<run, report, world, faults, wrong, reasons, failed>>

-----------------------------------------------------------------------------
(* What is wrong *)

Managed == UNION {UnitsOf[r] : r \in git}

\* It runs another definition than systemd has, whose file is there, and since it
\* started the wall clock has gone on as the other one.
Outdated(u) ==
    /\ unit[u].active = "active" /\ loaded[u] # None /\ running[u] # loaded[u]
    /\ mtime[u] # None /\ set <= unit[u].since

BadUnits ==
    {<<u, "down">> : u \in {v \in Managed : unit[v].active # "active"}}
    \cup {<<u, "unloaded">> : u \in {v \in Managed : loaded[v] \notin {None, text[v]}}}
    \cup {<<u, "outdated">> : u \in {v \in Managed : Outdated(v)}}
    \cup {<<u, "old">> : u \in {v \in Managed : running[v] # loaded[v]}}

\* With respect to given commits: lost, misdirected or behind.
BadRepos(commits) ==
    {<<r, "astray">> : r \in
        {q \in Repos : q \notin git \/ q \notin sameUrl \/ head[q] < commits[q]}}

\* What may make an alarm: something is wrong, a unit crashes again and again, its
\* file was written after it started, or the clock has been set since.
Reasons ==
    {why \in {"wrong", "looping", "written", "clock"} :
        \/ why = "wrong" /\ BadRepos(upstream) \cup BadUnits # {}
        \/ why = "looping" /\ \E u \in Managed : unit[u].restarts >= MinRestarts
        \/ why = "written" /\ \E u \in Managed :
              mtime[u] # None /\ mtime[u] > unit[u].since + skew
        \/ why = "clock" /\ \E u \in Managed : set > unit[u].since}

\* The history variables after a step; the next state decides.
Observe ==
    /\ wrong' = wrong \cap (BadRepos(target) \cup BadUnits)'
    /\ reasons' = reasons \cup Reasons'

-----------------------------------------------------------------------------
(* Operators of the report *)

\* RepoState::is_problem
RepoProblem(state) == state \notin {"up-to-date", "ahead"}

\* ServiceStatus::is_problem
ServiceProblem(s) == s.active # "active" \/ s.reload \/ s.pending \/ s.loop

\* Mutant: a pending restart is noted only after the reload note.
NotesOfReload(s) ==
    {n \in {"daemon-reload pending", "restart pending", "restart loop?", "not active"} :
        \/ n = "daemon-reload pending" /\ s.reload
        \/ n = "restart pending" /\ s.pending /\ s.reload
        \/ n = "restart loop?" /\ s.loop
        \/ n = "not active" /\ s.active \notin {"active", "activating"}}

\* service_note
Notes(s) ==
    {n \in {"daemon-reload pending", "restart pending", "restart loop?", "not active"} :
        \/ n = "daemon-reload pending" /\ s.reload
        \/ n = "restart pending" /\ s.pending
        \/ n = "restart loop?" /\ s.loop
        \/ n = "not active" /\ s.active \notin {"active", "activating"}}

\* report_exit_code
ExitCode ==
    IF \/ \E r \in Repos : repos[r] # None /\ RepoProblem(repos[r])
       \/ \E u \in Units : services[u] # None /\ ServiceProblem(services[u])
    THEN 1 ELSE 0

\* Mutant: local commits hide the commits that are missing.
CountedAhead(r) ==
    IF r \in mine THEN "ahead" ELSE IF head[r] = track[r] THEN "up-to-date" ELSE "behind"

\* git rev-list --left-right --count HEAD...origin/<branch>
Counted(r) ==
    CASE r \notin mine /\ head[r] = track[r] -> "up-to-date"
      [] r \in mine /\ head[r] = track[r]    -> "ahead"
      [] r \notin mine /\ head[r] < track[r] -> "behind"
      [] OTHER                               -> "diverged"

\* What `systemctl show` says of a unit; it has a FragmentPath if systemd has it loaded.
Shown(u) ==
    [unit |-> u, active |-> unit[u].active, since |-> unit[u].since,
     restarts |-> unit[u].restarts, reload |-> loaded[u] \notin {None, text[u]},
     path |-> loaded[u] # None]

\* checked_sub: a unit that became active after the clock was read has none
Uptime(s) ==
    IF s.active = "active" /\ s.since <= began.mono THEN began.mono - s.since ELSE None

\* fragment_mtime_newer_than_active, which reads the time of the file only now
FragmentNewer(s) ==
    /\ s.path /\ Uptime(s) # None
    /\ mtime[s.unit] # None
    /\ mtime[s.unit] > began.wall - Uptime(s)

\* Mutant: a short uptime is a loop.
ServiceJustUp(s) ==
    [active  |-> s.active,
     reload  |-> s.reload,
     pending |-> ~s.reload /\ s.active = "active" /\ FragmentNewer(s),
     loop    |-> s.active = "active" /\ Uptime(s) # None /\ Uptime(s) < MaxUptime]

\* build_service_status
Service(s) ==
    [active  |-> s.active,
     reload  |-> s.reload,
     pending |-> ~s.reload /\ s.active = "active" /\ FragmentNewer(s),
     loop    |-> /\ s.active = "active" /\ s.restarts >= MinRestarts
                 /\ Uptime(s) # None /\ Uptime(s) < MaxUptime]

\* What a failed `systemctl show` says.
Unknown == [active |-> "", reload |-> FALSE, pending |-> FALSE, loop |-> FALSE]

-----------------------------------------------------------------------------
(* The run *)

Begin ==
    /\ step = "idle"
    /\ fetches' \in BOOLEAN
    /\ began' = [mono |-> now, wall |-> now + skew]
    /\ todo' = RepoOrder
    /\ step' = "repo"
    /\ target' = IF fetches' THEN upstream ELSE track
    /\ wrong' = BadRepos(target') \cup BadUnits
    /\ reasons' = Reasons
    /\ UNCHANGED <<toShow, reading, report, rc, world, faults, failed>>

Goes(there) ==
    step' = there /\ UNCHANGED <<fetches, todo, toShow, reading, began, rc, target>>

Says(state) == repos' = [repos EXCEPT ![Head(todo)] = state] /\ UNCHANGED <<services, warned>>

Fails ==
    /\ faults < MaxFaults /\ faults' = faults + 1
    /\ failed' = TRUE

\* safe_repo_dir; then whether there is a checkout, and its HEAD
LookAtRepo ==
    /\ step = "repo" /\ todo # <<>>
    /\ IF Head(todo) \in git THEN Goes("url") /\ UNCHANGED report
       ELSE Goes("units") /\ Says("missing")
    /\ UNCHANGED <<world, faults, failed>> /\ Observe

RefuseRepo ==
    /\ step = "repo" /\ todo # <<>>
    /\ Fails
    /\ Says("error")
    /\ todo' = Tail(todo)
    /\ UNCHANGED <<step, fetches, toShow, reading, began, rc, target, world>> /\ Observe

ReadUrl ==
    /\ step = "url"
    /\ \/ /\ IF Head(todo) \in sameUrl THEN Goes("fetch") /\ UNCHANGED report
             ELSE Goes("units") /\ Says("url-mismatch")
          /\ UNCHANGED <<faults, failed>>
       \/ Fails /\ Goes("units") /\ Says("error")
    /\ UNCHANGED world /\ Observe

Fetch ==
    /\ step = "fetch"
    /\ \/ /\ track' = IF fetches THEN [track EXCEPT ![Head(todo)] = upstream[Head(todo)]]
                      ELSE track
          /\ Goes("count")
          /\ UNCHANGED <<report, faults, failed>>
       \/ fetches /\ Fails /\ Goes("units") /\ Says("error") /\ UNCHANGED track
    /\ UNCHANGED <<git, sameUrl, head, upstream, mine, unit, text, loaded, running, mtime,
                   reloading, now, clock>>
    /\ Observe

Count ==
    /\ step = "count"
    /\ \/ /\ repos' = [repos EXCEPT ![Head(todo)] = Counted(Head(todo))]
          /\ warned' = warned \cup (IF Counted(Head(todo)) = "ahead" THEN {Head(todo)} ELSE {})
          /\ UNCHANGED <<services, faults, failed>>
       \/ Fails /\ Says("error")
    /\ Goes("units")
    /\ UNCHANGED world /\ Observe

\* The units are listed if there is a checkout now; those shown for an earlier
\* repository are not shown again.
ListUnits ==
    /\ step = "units"
    /\ LET found == IF Head(todo) \in git THEN UnitsOf[Head(todo)] ELSE {}
           again == {u \in found : services[u] # None} IN
          /\ toShow' = found \ again
          /\ warned' = warned \cup again
    /\ step' = "show"
    /\ UNCHANGED <<fetches, todo, reading, began, rc, target, repos, services, world, faults,
                   failed>>
    /\ Observe

\* show_state; systemd answers when it is not reloading.
ShowUnit(u) ==
    /\ step = "show" /\ u \in toShow /\ reading = None
    /\ ~reloading
    /\ reading' = Shown(u)
    /\ UNCHANGED <<step, fetches, todo, toShow, began, rc, target, report, world, faults, failed>>
    /\ Observe

Enters(u, service) ==
    /\ toShow' = toShow \ {u}
    /\ services' = [services EXCEPT ![u] = service]
    /\ UNCHANGED <<step, fetches, todo, began, rc, target, repos, warned, world>>

ShowFails(u) ==
    /\ step = "show" /\ u \in toShow /\ reading = None
    /\ Fails
    /\ Enters(u, Unknown)
    /\ UNCHANGED reading /\ Observe

\* After is_enabled, which is only shown, the unit's file is looked at.
EnterUnit ==
    /\ reading # None
    /\ Enters(reading.unit, Service(reading))
    /\ reading' = None
    /\ UNCHANGED <<faults, failed>> /\ Observe

EndRepo ==
    /\ step = "show" /\ toShow = {}
    /\ step' = "repo" /\ todo' = Tail(todo)
    /\ UNCHANGED <<fetches, toShow, reading, began, rc, target, report, world, faults, failed>>
    /\ Observe

\* A report that cannot be written is a problem, too.
Report ==
    /\ step = "repo" /\ todo = <<>>
    /\ step' = "done"
    /\ \/ rc' = ExitCode /\ UNCHANGED <<faults, failed>>
       \/ rc' = 1 /\ Fails
    /\ UNCHANGED <<fetches, todo, toShow, reading, began, target, report, world>> /\ Observe

-----------------------------------------------------------------------------
(* The world: what happens takes time, and while systemd reloads it starts nothing. *)

Happens ==
    /\ now < MaxEvents /\ now' = now + 1
    /\ step # "done"
    /\ UNCHANGED <<run, report, faults, failed>>

CloneDone(r) ==
    /\ Happens
    /\ r \notin git /\ git' = git \cup {r}
    /\ head' = [head EXCEPT ![r] = upstream[r]] /\ track' = [track EXCEPT ![r] = upstream[r]]
    /\ UNCHANGED <<sameUrl, upstream, mine, unit, text, loaded, running, mtime, reloading, clock>>
    /\ Observe

SyncFetches(r) ==
    /\ Happens
    /\ r \in git /\ track' = [track EXCEPT ![r] = upstream[r]]
    /\ UNCHANGED <<git, sameUrl, head, upstream, mine, unit, text, loaded, running, mtime,
                   reloading, clock>>
    /\ Observe

\* Moved to what was fetched, with new files for some of the units.  Commits of its
\* own go, if the sync is forced.
SyncMoves(r) ==
    /\ Happens
    /\ r \in git /\ head[r] < track[r]
    /\ head' = [head EXCEPT ![r] = track[r]] /\ mine' = mine \ {r}
    /\ \E changed \in SUBSET UnitsOf[r] :
          text' = [u \in Units |-> IF u \in changed THEN text[u] + 1 ELSE text[u]]
    /\ UNCHANGED <<git, sameUrl, track, upstream, unit, loaded, running, mtime, reloading, clock>>
    /\ Observe

Push(r) ==
    /\ Happens
    /\ upstream' = [upstream EXCEPT ![r] = @ + 1]
    /\ UNCHANGED <<git, sameUrl, head, track, mine, unit, text, loaded, running, mtime, reloading,
                   clock>>
    /\ Observe

\* A daemon-reload: the generated files are gone until the generator has written them.
ReloadBegins ==
    /\ step # "done" /\ ~reloading
    /\ reloading' = TRUE
    /\ mtime' = [u \in Units |-> None]
    /\ UNCHANGED <<run, report, faults, failed, refs, unit, text, loaded, running, now, clock>>
    /\ Observe

\* It writes every unit file anew, or fails on the way; systemd knows what was written.
ReloadEnds ==
    /\ Happens
    /\ reloading /\ reloading' = FALSE
    /\ \E made \in SUBSET Units :
          /\ loaded' = [u \in Units |-> IF u \in made THEN text[u] ELSE None]
          /\ mtime' = [u \in Units |-> IF u \in made THEN now' + skew ELSE None]
    /\ UNCHANGED <<refs, unit, text, running, clock>> /\ Observe

\* The wall clock is set, or goes on while the machine sleeps.
ClockSteps ==
    /\ Happens
    /\ skew' \in {skew - 1, skew + 1} /\ set' = now'
    /\ UNCHANGED <<refs, unit, text, loaded, running, mtime, reloading>> /\ Observe

Becomes(u, active, restarts) ==
    unit' = [unit EXCEPT ![u] = [active |-> active, since |-> now', restarts |-> restarts]]

Runs(u) == loaded[u] # None /\ running' = [running EXCEPT ![u] = loaded[u]]

Starts(u) ==
    /\ Happens /\ ~reloading
    /\ Becomes(u, "active", 0) /\ Runs(u)
    /\ UNCHANGED <<refs, text, loaded, mtime, reloading, clock>> /\ Observe

\* It fails, waits to be restarted, and comes back.
Crashes(u) ==
    /\ Happens /\ ~reloading
    /\ \/ unit[u].active = "active" /\ Becomes(u, "activating", unit[u].restarts)
          /\ UNCHANGED running
       \/ unit[u].active = "activating" /\ Becomes(u, "active", unit[u].restarts + 1)
          /\ Runs(u)
       \/ unit[u].active # "inactive" /\ Becomes(u, "inactive", unit[u].restarts)
          /\ UNCHANGED running
    /\ UNCHANGED <<refs, text, loaded, mtime, reloading, clock>> /\ Observe

\* Nobody knows what has happened before: commits may be waiting, and a changed unit may
\* not have been reloaded, or not restarted.
Init ==
    /\ step = "idle" /\ fetches = FALSE /\ todo = <<>> /\ toShow = {} /\ reading = None
    /\ began = [mono |-> 0, wall |-> 0]
    /\ repos = [r \in Repos |-> None] /\ services = [u \in Units |-> None] /\ warned = {}
    /\ rc = None
    /\ git \in {Repos, Repos \ Odd} /\ sameUrl \in {Repos, Repos \ Odd} /\ mine \in {{}, Odd \cap git}
    /\ head = [r \in Repos |-> 0] /\ track \in [Repos -> {0, 1}] /\ upstream = track
    /\ unit = [u \in Units |-> [active |-> "active", since |-> 0, restarts |-> 0]]
    /\ text \in [Units -> {0, 1}] /\ loaded \in [Units -> {0, 1}]
    /\ \A u \in Units : loaded[u] <= text[u]
    /\ running = [u \in Units |-> 0] /\ mtime = loaded
    /\ reloading = FALSE /\ now = 1 /\ skew = 0 /\ set = 0 /\ faults = 0
    /\ target = head /\ wrong = {} /\ reasons = {} /\ failed = FALSE

StatusStep ==
    \/ Begin \/ LookAtRepo \/ RefuseRepo \/ ReadUrl \/ Fetch \/ Count
    \/ ListUnits \/ EnterUnit \/ EndRepo \/ Report
    \/ \E u \in Units : ShowUnit(u) \/ ShowFails(u)

World ==
    \/ \E r \in Repos : CloneDone(r) \/ SyncFetches(r) \/ SyncMoves(r) \/ Push(r)
    \/ ReloadBegins \/ ReloadEnds \/ ClockSteps
    \/ \E u \in Units : Starts(u) \/ Crashes(u)

Next == StatusStep \/ World

Spec == Init /\ [][Next]_vars

-----------------------------------------------------------------------------
(* Properties *)

\* A status that exits with 0 has missed nothing that was wrong all the time it ran: a
\* checkout that lacks a commit the remote had when it began, a unit that is down, not
\* reloaded, or runs an old definition ("exits non-zero on any problem", README:144), in
\* whatever order it read and whatever happened meanwhile.  Of an old definition it can
\* tell only from the time of the unit's file: where that could not be read for a
\* moment, or the clock was set after the unit started, it may miss it
\* (status/mod.rs:407-438).
TroubleIsReported ==
    step = "done" /\ rc = 0 => \A w \in wrong : w[2] = "old"

\* When it exits with 1, and no command failed, something was wrong while it ran, the
\* generator has written the file of a running unit, or the clock was set while it ran.
AlarmsHaveAReason == step = "done" /\ rc = 1 /\ ~failed => reasons # {}

\* The table explains the exit code: a repository that is neither up to date nor
\* ahead, or a service with a note or still activating (render.rs:115-132).
ReportExplainsExit ==
    step = "done" /\ ~failed =>
        (rc = 1 <=>
            \/ \E r \in Repos : repos[r] # None /\ RepoProblem(repos[r])
            \/ \E u \in Units : services[u] # None /\
                  (Notes(services[u]) # {} \/ services[u].active = "activating"))

\* "needs restart" means that the running instance predates the unit's definition
\* (status/mod.rs:382).  It does not: every daemon-reload writes the generated files
\* anew, so units that nobody changed are reported, too.
CalmIsQuiet ==
    step = "done" /\ reasons \subseteq {"written"} /\ ~failed => rc = 0
=============================================================================
