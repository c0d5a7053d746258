# QuadCD in TLA+

A verification development kept beside QuadCD: TLA+ modules translated from the Rust
sources, TLC configurations that check them on small instances, and TLAPS proofs of the
properties that matter most. `PROJECT.json` maps every definition to the lines it stands
for, and lists the hazards the properties are for. Paths below are relative to the
repository.

## 1. The system

| Component | Source | State it keeps | Operations | Module |
|---|---|---|---|---|
| Activation | `src/sync/runner/mod.rs` (`apply_changes`), `src/sync/units/`, `src/sync/systemd/mod.rs` | the plan, the caches of a pass, files already pulled | stop deleted units, `daemon-reload`, plan, pre-pull, plan again, start and restart | `Activation` |
| Checkout | `src/sync/repo.rs`, `src/sync/vcs.rs` | `.git`, HEAD, remote URL, remote branches, working tree | clone, pull, or (forced) set URL, fetch, reset; diff of two commits | `Checkout`, `Deploy` |
| Service loop | `src/sync/runner/service.rs`, `src/lock.rs`, `src/lib.rs` | current configuration, `last_sync`, notifications, config mtime, shutdown flag, lock file | initial sync, watch or poll the config, reload, tick, sleep, shut down | `SyncService`, `SyncLock` |
| Sync of all repositories | `src/sync/runner/mod.rs` (`sync_all`, `run_once`), `src/app.rs` (`run_sync`) | merged changes | loop over repositories, merge, apply, exit code | `ManualSync`, `SyncService` |
| Unit settings, watches | `src/sync/settings.rs`, `src/sync/watch.rs` | none | read `StartOnSync=` and `Watch=`, match globs | `UnitSettings`, `Watch`, `Glob` |
| Images | `src/sync/image.rs`, `src/sync/podman.rs` | none | extract references and policies, pull each once, time out | `ImageFile`, `Prepull` |
| Generator, dry run | `src/app.rs` (`run_generate`), `src/generator.rs`, `src/install/`, `src/dryrun.rs` | Quadlet directory, systemd's generator directory | install, link, run podman's generator, clean; show | `Generate` |
| Status | `src/status/` | none | fetch, compare HEAD with the remote, query units, exit code | `Status` |
| Configuration | `src/config.rs`, `src/cd_config.rs` | the parsed file, directories, variables | read for a mode, read again for another | `ManualSync` |
| Command line | `src/cli.rs` | none | parse arguments | `CommandLine` |
| Output, rendering, start-up | `src/output.rs`, `src/status/render.rs`, `src/main.rs` | none | layout | none |

How they interact. `quadcd sync` runs once (`run_once`) or as a service (`run_service`);
both take the file lock `.quadcd-sync.lock`, call `sync_repo_inner` for each repository,
merge the changed and deleted unit files, and hand them to `apply_changes`. Its
`daemon-reload` makes systemd run QuadCD again, as a generator, which turns the checkouts
into units. `apply_changes` then asks systemd what the units are doing and commands it.
systemd, podman, git, the remote and the operator act at the same time and take no lock;
`quadcd status` and the generator read the checkouts without it.

What is hard, and what has to hold:

* *Activation.* A plan is made from several `systemctl` answers, each of another moment,
  and an image pull of minutes lies between plan and execution. Starts and restarts must
  rest on what was true during the deciding pass, a start under way must not be cut short,
  a build must end before its users are touched, an image must be there before its unit
  starts, deleted units must be down before systemd forgets them, and the whole must end.
* *Checkout.* Any git command can fail or be killed half way. HEAD is the only record of
  what has been handled, and it moves before anything is handled.
* *Service.* The config may be written at any time, the lock may be held by a manual sync,
  SIGTERM and SIGKILL may arrive anywhere. No config change may be lost, no due repository
  forgotten, and nothing checked out left unapplied.
* *Generator.* Several repositories may produce one unit name; the later file wins and the
  loser must hear of it. A file listed may be another, or gone, when it is read.
* *Status.* Reads checkouts without the lock while a sync may be moving them: trouble that
  was there all the time must not fall between two readings.
* *Readers.* Small sequential parsers and matchers with several interacting pieces of
  state, whose mistakes change what runs.

How the models fit together. Each calls the next by name where the code does, and takes its
outcome as given: `SyncService` and `ManualSync` sync a repository in one step
(`Checkout` has its commands) and apply changes in one (`Activation`); `Activation` asks
whether a file has an image (`ImageFile`) and pulls (`Prepull`); `Checkout` marks watched
units by `Watches` (`Watch`, whose segments are `Glob`, whose globs `UnitSettings` reads).
`MCReaders` puts the sequential readers side by side for TLC: a variable `reader` says
which of them runs, and the others do nothing.

## 2. Plan

Done: `Activation`, `Checkout` with `Deploy`, `SyncService` with `SyncLock`, `Generate`,
`Status`, the readers, and the proofs of section 9.

Left, in this order:

1. `Deployment`: checkout, generator and activation composed over two repositories, so that
   a sync that runs while another unit of the same name is installed can be asked about.
2. The machines of `Generate` and `Status` as implementations of what they promise (install
   a set of units; read a world once), where the theorems so far are about invariants.

## 3. Activation

`Activation.tla` is a machine with a program counter, `phase`:

    begin -> stop -> reload -> pick <-> jobs <-> ask -> pull -> (pick ...) -> issue <-> wait -> done

| Phase | Code |
|---|---|
| `begin` | early returns of `apply_changes`: no changes, `--sync-only` |
| `stop` | `stop_deleted_units_inner`: one read per deleted unit, one `systemctl stop` |
| `reload` | `daemon-reload` |
| `pick`, `jobs`, `ask` | `plan_activation` and `plan_unit`: state of the unit, the job list, its reverse dependencies; `EndPass` is `mark_transitively_activated` |
| `pull` | `files_worth_pulling`, `pre_pull_images`, the second pass and its extra pull |
| `issue`, `wait` | `run_batch`: start and restart of `StartOnSync=` units, then start and restart of the others; each call blocks until its jobs end |

Each unit is `inactive`, `queued` (a start job that waits), `starting`, `active` or
`backoff` (waiting out its restart delay). What `systemctl` answers is derived from that:
`show` says inactive of a queued unit, `list-jobs` lists queued and starting ones, and with
`Faulty` any call may give the empty answer that the code's error paths return. Between any
two calls a unit may move (`Systemd`): jobs run, fail or end, services exit, restart delays
run out, starts are requested and operators stop units. A `systemctl start` or `restart`
also queues what the units want (`StartedWith` over `WantedBy`).

`seen` is history: what each unit has done since the pass began. `events` counts the changes
used up.

Abstractions. Files are model values with a unit name (`UnitOf`), and an image or none
(`ImageFiles`, `Carries`: whether `extract_images` finds a reference). The units of a pass
are planned in any order, which covers the sorted order of the code. Reverse dependencies
are fixed. A pull always succeeds as far as the plan is concerned: `pre_pull_images` reports
whether it had images to pull, not whether podman got them. `systemctl stop` ends before
anything else happens, since it blocks and stopping is not interleaved with reads of the
same unit. The final `show_state` per unit only logs.

### Runs

Both use the scenarios of `MCActivation.tla`. `MaxEvents` bounds the changes of units other
than jobs QuadCD waits for; `AtFirst` says what units may be doing at first.

| Run | Scenario | Checks |
|---|---|---|
| `act_chain` | target wants container, container requires `.image`; a template with one running instance; files change and are deleted; 2 events | `StartsAreWanted`, `RestartsWereRunning`, `StartUnderwayLeftAlone`, `SteadyWanterHonoured`, `ImagesPulledBeforeUse`, `DeletedAreStopped` |
| `act_build` | a service wants a container, `StartOnSync=` build next to it; `systemctl` calls fail; 1 event; fair | `BuildsGoFirst`, `Terminates` |

The bounds suffice for the cases that matter: three units give a chain of two dependencies,
which is what transitive marking needs; two events let one unit change between two reads of
a pass and another between passes, and violations of the mutated models need no more.

Fairness (`act_build`): QuadCD is a running process, so it takes a step when it can
(`WF(Quadcd)`); each start job of systemd ends, because jobs have timeouts. Units owe
nothing else: they may change for ever in principle, and `Terminates` holds because there
are two passes at most.

## 4. Checkout

`Checkout.tla` is `sync_repo_inner` with one git command per step:

    idle -> clone ----------------------------------------------> handle -> idle
    idle -> head -> url -> branch -> fetch -> reset  -> post ----> handle -> idle
                                  \-> pull ------------^

| Phase | Code |
|---|---|
| `clone` | no `.git`: `clone_repo`; all unit files count as changed |
| `head`, `url`, `branch` | `head_sha`, `remote_url` with mismatch and `set_remote_url`, `default_branch` |
| `fetch`, `reset` | with `--force` |
| `pull` | `pull_ff_only` |
| `post` | `head_sha` again, then `diff` or `from_present` (`Found`) |
| `handle` | `sync_all` takes the result over, for `apply_changes` |

`repo` is the checkout: whether there is a `.git`, HEAD, the remote's URL, `origin/HEAD`,
the remote-tracking branches, the working tree. `remote` is what is published. `told` is what
the caller has been told to deploy, per unit file: its content and that of the files its
`Watch=` globs match, which is what makes a report of an unchanged unit necessary. `tips` and
`published` are history.

Failures. `Fails` are commands that may fail and leave nothing done; when `head` or `diff`
fails, the code carries on with what `head_sha` and `changed_files` return then. `Leftovers`
are what commands killed by `GIT_TIMEOUT` leave: a `.git` without a commit or without files, some
of the refs, a HEAD that has moved. `Dies` are the phases in which quadcd may die. Others
push, rewrite, delete and switch branches (`Moves`), and `quadcd status` fetches without the
lock.

Abstractions. Files are model values with a content; a commit is a tree. Unit files of a clone
or of `from_present` are reported by path, where the code reports their base names. Working
trees half written by a killed reset or merge, local edits, submodules and renames (which git
reports as one file deleted and one added) are left out. One sync runs at a time: the lock.

`Deploy.tla` is the abstract specification: what is told jumps from the content of one
published commit to that of another. `OneCommitAtATime` is the refinement.

### Runs

| Run | Scenario | Checks |
|---|---|---|
| `ck_faulty` | two branches, the configuration may switch between them; pushes and rewrites; two failures or deaths before HEAD moves | `NothingMissed`, `SyncedToConfigured`, `OneCommitAtATime` |
| `ck_chaos` | two remotes, configurations of either; everything may happen and fail | `ReportsAreTrue`, `UnforcedKeepsHistory` |
| `ck_live` | one branch, forced and unforced syncs in any order; failures and killed fetches and clones; fair | `Converges` |
| `ck_v_crash` | quadcd dies right after the pull | violated: `PulledIsHandled` |

The commits are enough for an update that deletes a unit and touches only a watched file of
another (`c2`), a rewritten history (`x2`) and an unrelated one (`d1`). Two faults allow a
failure in the retry of a failure; two pushes allow one between two commands of a sync and
one before the next. `Configs` with one entry keep the configuration fixed.

Fairness: `WF(Sync)`: the service ticks for ever, and quadcd is a running process. Nothing is
assumed of the remote, and failures are bounded by `MaxFaults` only, so `Converges` says
that syncs recover once failures stop. Forced syncs after a rewrite are covered by
`SyncedToConfigured`.

`ck_v_crash` is a finding: README.md:88 says that after pulling, sync handles each changed
unit. HEAD, the only record of what was handled, moves before anything is handled. In the
counterexample quadcd dies after the pull, before it has compared the commits, and the next
sync finds nothing to do.

## 5. Service loop and lock

`SyncService.tla` has a program counter for each process: the service and the manual syncs.

    service:  start -> start_sync -> start_apply -> intervals -> watch -> seed -> loop
              loop -> try -> recv [-> drain -> load -> reload_sync -> reload_apply] -> now
              now -> tick_sync -> tick_apply -> nap -> loop
              try -> nap, when the lock is held; loop -> ended, on a signal
    manual:   idle -> wait -> sync -> apply -> idle

| Part | Code |
|---|---|
| `AcquireAtStart`, `NoLockAtStart` | the initial sync of `run_service`, which waits for the lock, or is left out when its file cannot be opened |
| `StartWatching` | the watcher: `works`; `polls` when it cannot be made; `deaf` when the directory cannot be watched and the watcher is kept, which turns polling off |
| `try`, `SkipTick` | `try_acquire_and_tick`: the tick is left out when a manual sync has the lock |
| `Poll`, `recv`, `drain`, `load` | `check_config_mtime`, then `try_reload_config`: the channel, its draining, reading the file; a file that does not load keeps the configuration; new repositories start their interval now |
| `tick_sync`, `BreakTick` | `service_tick`: repositories whose interval has passed; a signal ends the loop between two repositories |
| `Nap` | one nap of the sleep; a notification ends the sleep and stays queued once |
| `Edit`, `Notify` | somebody writes or removes the file; the watcher's thread delivers later |
| `SkipRepo`, `FailRepo`, `DiffFails`, `CountAllFiles`, `SyncRepo` | one repository: the outcomes of `safe_repo_dir` and `sync_repo_inner` (below) |
| `Push`, `Signal`, `Die`, `Restart` | the world; death frees the lock and forgets the memory |

Syncing one repository is one step with the outcomes that it may have for HEAD and for what
the caller gets. `SkipRepo`: the repository is passed over. `FailRepo`: an error, with HEAD where
it was, or moved by a clone, pull or reset that `GIT_TIMEOUT` killed after that. `DiffFails`:
HEAD has moved, `git diff` fails, and the answer is `Updated` with no changes (`vcs.rs:303`).
`CountAllFiles`: `git rev-parse` fails, or a forced sync has set another URL, so that all unit files there
count as changed and the deleted ones are not reported. `SyncRepo`: what is between the two
commits is handed over. `changes`, `told` and `lost` are sets of commits, as pairs of repository and
number, so that a later sync of a repository cannot make up for a commit that was lost.

`unheard` and `lost` are history. `unheard` holds from an edit that nothing could report (made
while no watcher existed, or with an mtime no newer where the service polls) until the file is
next read. A removal is reported by neither, and leaves the service with its configuration.
`lost` are the commits that were checked out with nobody left to apply them. There are four ways to
lose one: the process died first; it was run with `--sync-only`; git failed after it had moved HEAD;
or git could not tell what the move changed, that is, `DiffFails`, or `CountAllFiles` as far as files
were deleted. `NothingLeftUnapplied` says that there is no other way.

`SyncLock.tla` is the abstract specification: one holder at a time, and work changes only in
a turn. `SyncsTakeTurns` is the refinement.

| Run | Scenario | Checks |
|---|---|---|
| `svc_turns` | intervals of no time; watchers of all three kinds; 2 edits, 1 push, 1 manual run, 1 fault (of git too) or death | `EditsAreHeard`, `NothingLeftUnapplied`, `SyncsTakeTurns` |
| `svc_live` | intervals of one unit of time, ages up to 2; 1 edit, 1 failure, 1 manual run; fair | `ReloadsInTheEnd`, `DueIsSynced`, `SignalEndsService` |

Two edits let one fall between drain and load, or between a failed load and its repair. Two
repositories allow a signal between them. Ages need one unit above the longest interval: due
and overdue. Deadlock is not checked, because the service may end.

Fairness (`svc_live`): the running processes take steps, since git, podman and systemctl have
timeouts; the watcher's thread delivers what it has; time passes in the sleep. Nobody is
obliged to edit, push, signal or run a manual sync. A manual sync ends, so the lock comes
free; that the tick then gets it needs no strong fairness because runs of manual syncs are
bounded.

## 6. Generator and dry run

`Generate.tla`:

    check -> (preview) -> make -> see_quadlets -> see_units -> see_quadlets ...
          -> dirs -> quadlets -> units -> dirs ... -> podman -> clean -> (print) -> done

| Phase | Code |
|---|---|
| `check` | without source directories, podman's generator is run as if QuadCD were not there; a dry run prints what it can read |
| `make` | the Quadlet directory, or a temporary one, is made; systemd has emptied it before (`Begin`), unless `QUADLET_UNIT_DIRS` names another |
| `see_quadlets`, `see_units` | `warn_duplicate_units`, one listing of one directory per step, with its maps `seen` and `generated` (of the Quadlets that make a unit, the last); `WarnCollisions` compares the two at the end |
| `quadlets`, `units` | per source directory: the files listed, then read and installed one by one; links of `[Install]` |
| `dirs` (end) | drop-in directories of the standard Quadlet directory |
| `podman` | podman's generator, which may be missing, not executable, or fail half way. In a dry run it prints the services itself (`shown`), and its failure is not looked at (`ShowDryRun`) |
| `clean` | `clean_generated_source_paths` |
| `print` | a dry run prints the normal directory (`printed`) |

A sync moves files (`Move`) at any moment; `moved` is history. `failed` says that the run has
logged an error. Contents are values, and an installed unit is its text, where that is from, and its
`SourcePath=` lines.

Run `gen` has two repositories with files of the same names, two Quadlets that make the service
of a unit file, one move and one failure; real and dry runs, every state of podman's generator.
It checks `TypeOK`, `SuccessMeansInstalled`, `OneRealSource`, `LinksAreMade`,
`OverridesAreWarnedOf` and `DryRunShowsTheRun`. Two directories are what precedence needs, two
Quadlets of one service what the map `generated` needs; a second failure would only end an
ended run.

`OverridesAreWarnedOf` is about the files there are, the maps are what the code has found of them in
listings of different moments. A warning names one Quadlet of each unit, and there is none where
several Quadlets make a unit that is no file (section 11); the property says no more than that.

`DryRunShowsTheRun` relates a dry run to a real one by way of the files: the unit files a dry
run prints are of the last path of each name, with its text, which is what `SuccessMeansInstalled`
says of a real run, and podman has been given the same Quadlet files. The two differ where a
unit file has the name of a service: a real run ends with podman's, a dry run shows both.

## 7. Status

`Status.tla` reads one thing per step: both clocks, then per repository the checkout, its
URL, the fetch, the count of commits on either side, then its units. Of a unit it asks `systemctl
show` (`ShowUnit`, the answer is kept in `reading`), and later looks at the time of the unit's file
(`EnterUnit`); `is-enabled` in between is only shown.

World events (`MaxEvents`) are pushes, the fetches and moves of syncs, crashes and starts, the end of
a reload, and steps of the wall clock. A `daemon-reload` is two steps: `ReloadBegins` takes the
generated files away, `ReloadEnds` has written all of them, or some when the generator failed. In
between systemd answers no call and starts nothing. There are two clocks: `now` is the monotonic one,
the wall clock is ahead of it by `skew`, and `set` is when that last changed (`ClockSteps`: the clock was
set, or the machine slept). Status converts the start of a unit from one to the other by the two
times of `began`, as the code does.

History: `target` is what the remotes had at first (with `--no-fetch`, what had been fetched of
them), `wrong` the troubles that have been there all the time, `reasons` everything that could have
caused an alarm: something wrong, a crash loop, a file written after the unit started, a clock
set after it.

Run `status`: two repositories that both have one unit, three events and one failing command.
`TroubleIsReported`: steady trouble is not missed by an exit code of success. Of a unit that runs an
old definition (`"old"`) this is promised as far as the file's time can tell (`Outdated`):
the file was there all the time, and the wall clock has not been set since the unit started. Where
the file could not be read for a moment the answer is "not newer" (`mod.rs:415-424`), and a clock set
forward makes the file look older; section 11 has both. The other checks are
`AlarmsHaveAReason` and `ReportExplainsExit`. Three events let one fall into each of the
repositories' readings and one into the unit's.

`st_v_reload` is a finding: status/mod.rs:382 says that `restart_pending` means an instance older
than the definition of its unit on disk. A `daemon-reload` writes every generated file again, so it
says so of a running unit that nobody changed (`CalmIsQuiet`).

## 8. The readers

| Module | Machine | Property |
|---|---|---|
| `Glob` | `match_segment`, one turn of its loop per step | `AnswerIsRight`: yes if and only if the text can be laid along the pattern; `MatchReturns` |
| `UnitSettings` | `parse_settings`, one line per step | `SettingsAsWritten`: what systemd makes of the lines read (the last value, lists reset by an empty value), and every mistake warned of |
| `Watch` | `mark_watched`, one glob per step; `resolve` and `match_segments` | `WatchersAreMarked`: just the units one of whose globs reaches a touched file inside the repository, each once |
| `ImageFile` | `extract_images`, one line per step, then `filter_pull_args`, one flag per step | `PulledAsWritten`: image, policy and flags as written |
| `Prepull` | `pre_pull_images`, one reference per step: collected, weighed (`policies`), kept (`kept`); then `Podman::pull` with timeout, TERM and KILL | `OnceAndEagerly`, `NoPodmanLeftBehind`, `PullingEnds` |
| `CommandLine` | `parse_cli`, one argument per step | `CallIsUnderstood`: systemd's calls and people's are told apart, and do what is written |
| `ManualSync` | `from_env`, `apply_flags`, `run_sync`, `sync_all`, `effective_source_dirs` | `SettingsOfOwnPlace` (settings of one mode only; variables of one's own directory), `ExitTellsOfEveryRepo` |

Run `readers` tries all inputs within its bounds: globs of 4 characters over two letters and
both wildcards, against names of 4; unit files of 5 lines and image files of 4; command lines
of 4 words; two source directories with two files each that may ask for one image under two
policies. Four characters allow two stars with something between them and a mismatch after
each; 5 lines allow a section left and entered again around a key, a reset and a repetition.

Fairness: a call that runs takes steps (`Glob`, `Prepull`); and a podman that has closed its
standard error ends, which `wait` relies on. That podman ends when told to is *not* assumed:
the KILL is what `PullingEnds` rests on.

## 9. Proofs

### Assumptions

`ConstantsOK` in `Activation.tla`: units and templates are disjoint, files name one of them,
instances and dependencies are units, and the inputs are sets of files. Nothing is assumed
about sizes, about the dependency relation (cycles are allowed) or about `Faulty`, except that
`NeverGoesRound` assumes `FiniteUnits`: finitely many units and templates.

`ConstantsOK` in `Checkout.tla`: commits have trees and histories that contain themselves,
units watch files that are no units, and the remotes are well formed. `NothingMissedAlways`
and `OneCommitAtATimeAlways` also assume `Recoverable`: one remote, and no failure that loses
what HEAD no longer tells. Each of its clauses is needed: `ck_faulty` with any
one of them dropped violates `NothingMissed`.

`SyncedToConfiguredAlways` assumes `BranchesStay` instead: every configuration names its branch,
and where syncs may be forced every remote has the configured branches and nobody deletes one. Without
the first, the stale `origin/HEAD` names the branch; without the second, a forced sync resets to
what an earlier fetch left of it (section 11). Failures of every kind, deaths, rewrites, several
remotes, changes of URL and fetches by others are allowed. `ck_faulty` satisfies it.

`ConstantsOK` in `SyncService.tla`: processes and special values are distinct, intervals are
numbers or none. Nothing is assumed about the numbers of repositories, configurations and
manual syncs. `GlobAssumption`: patterns and names are finite sequences, and no name has a
literal star in it (section 11 says what happens then).

`ConstantsOK` in `Status.tla`: the repositories are listed once each, and "nothing read yet" is
no number and no state. `ConstantsOK` in `Generate.tla`: directories and paths are listed once each, paths in the
order of their directories, no name is both a Quadlet's and a plain unit's, and contents that are
text differ from those that are not; "nothing there" is no file, name or content.
`SuccessMeansInstalledAlways` also assumes `~Override`: with `QUADLET_UNIT_DIRS` the directory
is not emptied, and keeps files of runs before (section 11).

`PrepullConstantsOK`: directories and files are finite sequences, and a policy is one of the
four. `CommandLineConstantsOK`: no directory of systemd's is called like a flag (they are absolute
paths). `WatchConstantsOK`: unit files are listed once each, by `find_files` and by a diff, and no
glob is without a segment (`parse_settings` takes an empty `Watch=` for a reset). `ManualSyncConstantsOK`: there are finitely many repositories. `ImageFileConstantsOK`: the
name of a `.image` or `.build` unit is no image, and no name is empty. Specifications of the
readers (`GlobSpec`, `WatchSpec`, `PullSpec`, `CliSpec`, `ManualSpec`, `SettingsSpec`, `ImageSpec`) are the machines alone, without the other readers of `MCReaders` and without fairness.

### What is proved

`ActivationProofs.tla` proves, for every value of the constants: `TypeCorrect`,
`StartsAreWantedAlways`, `RestartsWereRunningAlways`, `StartUnderwayLeftAloneAlways`,
`SteadyWanterHonouredAlways`, `BuildsGoFirstAlways`, `DeletedAreStoppedAlways` and
`ImagesPulledBeforeUseAlways`. All but the last two follow from one inductive invariant, `IInv`:

* `StatesSound`: a cached state is one the unit really had during this pass. Without it
  nothing links `known` to `seen`.
* `JobsSound`: a unit in the job list was queued or starting during this pass; and without
  faults, one that was so all through the pass is in it. It carries the argument that
  reading the state before the job list is the right order: a start under way is either read
  as starting, or it was waiting at that moment and has not ended since, so the job list,
  which is read later, has it.
* `NoLeftovers`: between passes the caches are empty, so nothing of the first pass reaches
  the second. The mutant that keeps them breaks `RestartsWereRunning`.
* `PlanSound`: what each set of the plan promises about `seen`.
* `WalkSound`: what the wanting units passed over so far were not, which becomes a promise
  about skipped units when the walk ends.
* `WaitsForOwn`: the jobs waited for are of the batch under way; the batches of
  `StartOnSync=` units come first.

`DeletedAreStoppedAlways` needs `DeletedSound`: a deleted unit still has to be read, is marked for
stopping, or was seen down. `ImagesPulledBeforeUseAlways` needs more, because `SetOff`, what the
commands set off, is the least set closed under being wanted, while the plan is computed unit
by unit. Its invariant, `PInv`:

* `Accounted`: each unit to be planned still has to be, is being planned, or is in
  `activating` or `skipped`.
* `BusyAuthorise`: a unit in `activating` that quadcd does not command authorises the start of what
  it wants, by the state and the jobs remembered for the rest of the pass.
* `RefusalsStand`: no unit that wants a skipped one has done so. A unit asked early and
  planned late gives the same answer, because `known` is read once and `JobsFirst` says that the
  job list is read before the first answer is used.
* `PullsSound`: hence `activating` is closed when a pass ends, and contains `SetOff`; and
  what it contains is pulled before the first command, the second pass's additions included.

`NeverGoesRound` says why `apply_changes` ends. `Ahead` counts the parts left of it (calls, passes
and pulls), the templates and units left of the part, and the questions left about the unit at
hand. Every step of quadcd takes it down, in the order in which the first place that differs
decides; nothing else touches it. Templates count before units because listing the instances of
one adds to what is to be done; a pass is a part because the second begins with units to do
again. `WaitsEndWithJobs` says what the calls wait for meanwhile: jobs that are queued or
starting, fewer and fewer of them. That systemd ends each such job is the fairness of `act_build`.

`CheckoutProofs.tla` proves `TypeCorrect`, `ReportsAreTrueAlways` and
`UnforcedKeepsHistoryAlways` for every set of faults, and, assuming `Recoverable`,
`NothingMissedAlways` and the refinement `OneCommitAtATimeAlways`. Two inductive invariants:

* `IInv`: `PhaseOK` (which phases belong to which kind of sync, and that only a missing
  checkout is cloned) and `PreOK`: HEAD is where it was read until the sync itself moves it,
  and then the files that differ between the two commits are those of the new one. Without
  it nothing ties the two commits that are compared to the working tree, which a killed clone
  may have left empty.
* `RInv` adds `CheckoutOK` (the working tree is that of HEAD), `PublishedOK` (only published
  commits get in) and `ToldOK`: what is told is what is checked out, was when HEAD was read,
  or will be when the changes have been applied. `DiffTells` is the lemma that what `diff`
  and `mark_watched` report is exactly what turns the old commit's units into the new one's.

`SyncedToConfiguredAlways` rests on `AskedOK` and `TipsOK`: during a sync every tip of the configured
branch is recorded, git is asked for that branch at that URL, and what has been fetched of it,
then HEAD, is one of those tips. Another fetch between the sync's own and its reset
(`quadcd status` takes no lock) does no harm, because it brings a later tip of the same branch.

`SyncServiceProofs.tla` proves, for any number of repositories and processes, `TypeCorrect`,
`OneTurnAtATimeAlways`, the refinement `SyncsTakeTurnsAlways`, `EditsAreHeardAlways` and
`NothingLeftUnappliedAlways`:

* `LockSound`: a process is in its turn just if the lock is its own. Two in turn would both be
  the holder, and the refinement maps the holder to the one in turn. `Die` keeps it because
  the kernel frees the lock in the same step.
* `EditsSound`: in the loop the configuration is that of the file, or the edit is `Pending`, or
  was never audible. The case that matters is between `drain` and `load`: an edit made there
  leaves a notification that the drain cannot take, or a newer mtime.
* `ReloadSound`: the same of the configuration being loaded, while the reload syncs: an edit may
  have replaced it by the one before it.

`NothingLeftUnapplied` is inductive given the types. `MoveKeeps`: a step that moves a HEAD hands over, or
writes off as lost, each commit that it passes; `DroppedKeeps`: a process that lets go of its
commits has applied them or, in the ways listed in section 5, lost them; all other steps leave
`Held`, the union of the three, as it was. The lock has no part in it, since the commits of one process
are never taken by another.

`GlobProofs.tla` proves `AnswerIsRightAlways`: for patterns and names of every length the loop
answers yes exactly if the pattern matches. A match is an assignment of the pattern's characters
to stretches of the name (a function, not a recursive operator). The invariant has `Sound`, that
the consumed prefixes fit; `Complete`, that if the whole matches, the rest fits from here, or from
the last star with more for it; and `Shifted`, that the plain characters since the star can only
move together. The earlier stars may be forgotten because whatever they could take, the last one
can take too. `LoopIsBounded` gives the turns the loop takes, although it sets both its counters
back: at most `(|t| + 1)(|p| + |t| + 1) + |p| + |t| + 1` for a pattern `p` and a name `t`, as the last
star takes each character once, and between two of those the loop goes through both once.

It also proves `WatchersAreMarkedAlways`, for any number of unit files, globs and touched paths of
any length. How one segment is matched (`SegmentMatches`) is left open there. Three parts:

* `StackIsRight`: after any number of segments the stack of `resolve` holds the names that no `..`
  has taken back, in their order, or the glob has led above the root (`StackHolds`). That
  `..` takes back the right one rests on another clause: how deep the segments from a name on
  lead is how many names that count stand from there on.
* `CoversAsMatched`: what is left of the resolved pattern matches from a place of the path just if
  what is left of the glob as written can be laid along the path from there (`AsMatched`).
* `WatchInv`: the files left are an end of the list, the globs left an end of the unit's list, the
  globs before them reach nothing, and of the files before the one at hand those that
  watch something have been added.

The recursion of `match_segments` is a function over the places of the pattern, from its end
(`MatchingFrom`), and the loop of `resolve` one over the number of segments (`Stacks`). The library's
induction theorems take an operator, which the provers cannot instantiate, so
`FromZeroOn` states induction for a set of numbers, from the well-foundedness of `<`;
`StacksDefined` and `MatchingDefined` show with it that the two functions exist.

`StatusProofs.tla` proves, for any number of repositories and units and anything that happens
meanwhile: `TypeCorrect`, `TroubleIsReportedAlways`, `AlarmsHaveAReasonAlways` and
`ReportExplainsExitAlways`. Its invariant:

* `TroubleOK`: unless the report already has a problem, each repository in trouble all the time
  is still to be entered, and each unit in trouble is still to be listed or shown.
* `TargetOK`: the commits that were there at first are tracked once the fetch is done, whoever
  else fetches; so the count of commits behind includes them. And the two clocks differ as they did
  at first, unless the wall clock was set.
* `OnceEach`: every repository and unit is entered once, so that no entry hides an earlier
  one; a unit of two repositories is the first one's.
* `WorldOK`: refs only go on, and a unit that runs an old definition (`Outdated`) started before the
  file of the new one was written, by the wall clock too. It makes the comparison of the file's
  time with the unit's a test.
* `ReadingOK`: what `systemctl show` has said still tells of the trouble when the unit's file is
  looked at (`Telling`), and has a reason if it alarms (`Reasonable`).
* `ReasonOK` and `DoneOK`: an alarm has a reason or a failed command; the exit code is the
  report's.

`GenerateProofs.tla` proves, for any directories, names, contents and faults: `TypeCorrect`,
`SuccessMeansInstalledAlways`, `OneRealSourceAlways`, `LinksAreMadeAlways`,
`OverridesAreWarnedOfAlways` and `DryRunShowsTheRunAlways`. Its invariant:

* `ListOK`: the list is of files of the current directory, and what was there when it was read
  and is no longer in it comes before the rest.
* `InstalledOK`: of the paths of a name that the run has been through (`Handled`), the last one with a
  file is installed, unless an error has been reported. A name a sync has moved is excused.
* `EndOK`: success means that all directories have been gone through.
* `SourcesOK`, `LinksOK`: the first `SourcePath=` line is quadcd's own; links start at installed
  units and are all those asked for.
* `SeenOK`, `GeneratedOK`: the names kept are those of the files that the listings so far have
  found (`SeenFiles`), of names found twice it has warned, and each unit that a Quadlet found makes has
  an entry, whichever Quadlet was last. `CollisionsOK`: so the entries and the files suffice to warn of each
  collision at the end. `WarnedOK` adds that each warning is true. `StageOK` says what is known
  before the first listing.
* `PreviewOK`: a dry run has printed what there was, then what it has installed, and podman the services
  of that if it did not fail.

`ReadersProofs.tla` proves, for inputs of every length: `OnceAndEagerlyAlways`,
`NoPodmanLeftBehindAlways`, `CallIsUnderstoodAlways`, `SettingsOfOwnPlaceAlways`,
`ExitTellsOfEveryRepoAlways` and `SettingsAsWrittenAlways`. Each follows from an invariant
that says what the loop has made of the elements it has passed:

* `PullInv`: `Gathered` (no file read is forgotten), `WeighedUpTo` (the policy of an image is
  that of a reference to it, and no less eager than any), `KeptUpTo` and `KeptOnce` (each
  image is kept, and once), `PodmanAccountedFor` (outside a pull, a podman that lives was left
  to itself after an I/O error). `PullingComesNearerItsEnd` has a measure as `NeverGoesRound` has: the
  loop, its turns left, and what is left of the turn. No image is tried twice, and
  `job.wait()`, which has no limit, is reached only when podman has closed its standard error.
* `CliInv`: `ParsedSoFar` (the flags are those of the words passed, each of which the
  subcommand knows or takes as a directory) and `EndedForAReason` (what each outcome says of the
  word it ended at).
* `ManualInv`: `ConfigInUse` (the configuration is wholly of one mode, also after `apply_flags`
  has read it again) and `RoundIsWhole` (repositories done and to do are all there are, and the
  exit code is about those done).
* `SettingsInv` is `SettingsAsWritten` with what `inSection` says of the last header. A line
  changes which assignments still count, and the places of the values in the list with it, so
  the lemmas are about counting: the n-th of a set of places when one more comes after them.

`ImageFileProofs.tla` proves `PulledAsWrittenAlways` for image files of every length, from
`ImageInv`: after each line, what is known of the file is what its lines say (`ReadSoFar`), and
what the filter has let through is, in order, what it should have (`FilteredSoFar`), the next
argument being no value of a flag. Two lemmas carry it: a value that counts is the last one from
then on (`LastValueCounts`), and behind a row of bare flags values and flags alternate
(`ValuesAlternate`).

Three `CASE` expressions, in `ManualSync` and `Watch`, had arms that overlap, whose meaning TLA+
leaves open although TLC takes the first. They cannot be proved about, and are written with `IF`
now, in the order of the code.

### What is only model-checked

The liveness properties `Terminates`, `Converges`,
`ReloadsInTheEnd`, `DueIsSynced`, `SignalEndsService`, `MatchReturns` and `PullingEnds`: fairness
and `ENABLED` are out of the prover's reach. What three of them rest on is proved: for
`Terminates`, `MatchReturns` and `PullingEnds` each step comes nearer to the end (`NeverGoesRound`,
`LoopIsBounded`, `PullingComesNearerItsEnd`), so that it remains for TLC that a step is always
possible until then, and taken.

The invariants of the runs, their action properties and refinements are all proved. The type
invariants of `Activation`, `Checkout`, `SyncService`, `Status` and the readers are proved and
not checked by a run of their own.

## 10. Not modelled

* Layout: message prefixes, kmsg, the columns and JSON of the status table, colours. They keep
  no state and no property is about them.
* Grammars of TOML, dotenv files and durations: a file is valid or not, an interval is a number
  or none. Quoting in `split_args`: an argument list is a sequence of values.
* `start_on_sync_units` scans all directories and keeps nothing; its result is the constant
  `StartOnSync` of `Activation`.
* Local edits in checkouts, working trees half written by a killed reset, submodules, and
  renames (which git reports as one file deleted and one added).
* Symbolic links that lead out of a repository, and file permissions other than failures to
  read, write or open. The listing of a directory does not fail.
* `Preview` reads all files of a dry run in one step; `Generate` reads them one by one when it
  installs them, in a dry run too.
* What the `subprocess` crate (1.2.1 in Cargo.lock; its source is not in the repository) does with a
  podman whose output could not be read: `job` goes out of scope without `detach` (`podman.rs:154`), and
  `ReadFails` goes on at once. If the crate waits there, the call lasts until that podman ends, and a
  podman that hangs without its standard error would keep the lock: `PullingEnds` then holds
  up to such an error only.
* Start-up: building the configuration for `generate` and `status`, and the installation of the
  signal handlers; `Signal` may come at any time of the service.

## 11. Also met

Behaviour found while translating that no run checks.

*Activation*

* A unit that wants another is itself changed, reads inactive while its job waits, and its job
  is over when the job list is read (`plan.rs:255`): what it wants is not started, against
  `plan.rs:45`.
* A unit stopped by hand during the pull after the second pass is restarted
  (`runner/mod.rs:318`); the test at `runner/mod.rs:436` is about the first pull.
* A build that is already running is in no batch, so nothing waits for it (`plan.rs:187`),
  against README.md:116.
* A deleted unit with a queued start job is left alone and may come up before the reload
  (`execute.rs:171`; `execute.rs:124` says that deleted units are stopped before it).
* The unit of a moved file, deleted and changed at once, is stopped and then reads inactive
  (`execute.rs:171`).
* A changed unit that was stopped by hand is started when an active unit wants it; README.md:91
  says that units stopped by hand stay stopped, and `plan.rs` lists it among its known gaps.
* A unit that one repository deletes and another still provides is stopped.

*Checkout*

* After a forced change of URL, `origin/HEAD` and the old remote's branches survive
  (`vcs.rs:383`), so that the reset may go to a commit of the old remote and succeed;
  README.md:136 says that `--force` allows URL changes. Units of files that went away with the
  old URL are not stopped (`repo.rs:127` says why).
* The default branch is the one the clone saw (`vcs.rs:383`, README.md:75); a forced sync of a
  branch deleted at the remote succeeds with its last commit (`vcs.rs:341`).
* When `git diff` fails after the pull, the changes are lost (`vcs.rs:303`), and so they are when
  the pull, the reset or the clone is killed after it has moved HEAD (`repo.rs:150`). A clone killed
  before its checkout leaves a HEAD without files, which pulls find up to date.

*Service*

* An edit during the initial sync comes before the watcher and is missed until the next one
  (`service.rs:73`; README.md:134 says that changes are picked up).
* A watcher that could not watch the directory is kept, so nothing polls (`service.rs:105`);
  polling misses a file put in place with an mtime that is not newer (`service.rs:32`).
* A repository removed from the configuration and added again keeps its `last_sync`, and may be
  synced early (`service.rs:254`).
* A manual sync works from the configuration it read before it waited for the lock
  (`app.rs:400`).

*Generator*

* Without podman's generator the run returns with success before it has installed anything
  (`app.rs:153-161`); the comment there says that the installation is done.
* With `QUADLET_UNIT_DIRS` nobody empties the directory, and files of removed units stay in it
  (`app.rs:210-212`).
* dryrun.rs:134 says that a dry run returns 0 on success and 1 on failure. When podman's generator
  fails, and services are missing from what it prints, it returns 0 and says nothing of it
  (`dryrun.rs:246`).
* Two Quadlets that make one service are not warned of unless a unit file has that name, too, and
  then one of them is named (`discover.rs:111,130,151`).
* Without source directories a real run has podman's generator read its own directories, a dry run
  an empty one (`app.rs:140`, `dryrun.rs:145`).
* Links that the `[Install]` section of an overridden unit asked for survive when the overriding
  one asks for none (README.md:149, README.md:189).

*Status*

* README.md:144 says that status exits non-zero on any problem. A unit may run an old definition all the
  time and be missed: systemd begins a reload after `systemctl show` has answered, and the
  unit's file is gone when status looks at it (`mod.rs:417`).
* A unit that runs an old definition is missed, too, when the wall clock was set forward after the
  file was written, or the machine slept since (`status/mod.rs:421`).
* Of a unit that two repositories provide, status shows the first and the generator installs the
  last. The clocks are read before the units (`status/mod.rs:386`).

*Readers*

* Where a file name has a literal `*` at the place of a glob's `*`, the two are taken for equal
  characters before the glob's is looked at as a wildcard (`watch.rs:129`), so that `*` does not
  match the name `*a`, against `watch.rs:102`.
* A `Watch=` that matches another unit's file never fires (README.md:117 says repo files): only
  files that are no units count.
* Of a fresh clone, images of `.container` files in subdirectories are not pulled in advance,
  and files of the same name in other repositories are read (`settings.rs:86`).
* A bare `--tls-verify` in `PodmanArgs=` takes the next argument for its value; an invalid
  `TLSVerify=` forgets an earlier valid one; of two files that ask for one image the first one's
  credentials are used, also when the other's policy is.
* If `QUADCD_CONFIG` names a file that does not exist, the default one is read.
* Repositories that are skipped do not count as failures: the exit code is 0.
* With `SYSTEMD_SCOPE` set and a directory named `sync`, `quadcd sync` is taken for systemd's
  call. The arm for `-version` in `parse_generate` is never reached.

## 12. Running

    tlc -workers 2 -config act_chain.cfg MCActivation.tla
    tlc -workers 2 -config ck_faulty.cfg MCCheckout.tla
    tlc -workers 2 -config svc_turns.cfg MCSyncService.tla
    tlc -workers 2 -config gen.cfg MCGenerate.tla
    tlc -workers 2 -config status.cfg MCStatus.tla
    tlc -workers 2 -config readers.cfg MCReaders.tla
    tlapm ActivationProofs.tla
    tlapm CheckoutProofs.tla
    tlapm SyncServiceProofs.tla
    tlapm GlobProofs.tla
    tlapm StatusProofs.tla
    tlapm GenerateProofs.tla
    tlapm ReadersProofs.tla
    tlapm ImageFileProofs.tla
