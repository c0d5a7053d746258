----------------------------- MODULE ManualSync -----------------------------
(***************************************************************************)
(* quadcd sync from its start to its exit code: the configuration made of  *)
(* the environment (Config::from_env), made again for the mode the flags   *)
(* ask for (apply_flags), the checks of run_sync (app.rs), every repository*)
(* synced once (sync_all), and the variables of each source directory for  *)
(* what is activated (effective_source_dirs).  How one repository is       *)
(* synced is modelled in Checkout; its outcome is given here.              *)
(***************************************************************************)
EXTENDS Integers, Sequences, FiniteSets, SequencesExt

CONSTANTS Repos,      \* names of repositories
          Givens,     \* the sets of paths the environment may override
          ConfigFiles,\* what a config file may be
          DirsInOrder,\* the subdirectories a data directory may have, sorted
          EnvKeys     \* EnvKeys[d]: the variables the .env of directory d sets

VARIABLES environ,    \* the flags and the environment
          disk,       \* the config files
          cfg,        \* Config
          doing,      \* how far run_sync has come
          todo,       \* repositories to come
          outcome_of, \* what became of the others
          dirs,       \* source directories to come
          effective,  \* the variables of the others
          exit

manualVars == <<environ, disk, cfg, doing, todo, outcome_of, dirs, effective, exit>>

Modes == {"user", "system"}
Absent == [there |-> FALSE, valid |-> FALSE, repos |-> {}]
NoConfig == Absent
RootKey == "QUADCD_REPO_ROOT"
NoVars == [k \in {} |-> <<>>]

\* A config file names repositories, finitely many of them.
ASSUME ManualSyncConstantsOK ==
  /\ IsFiniteSet(Repos)
  /\ \A file \in ConfigFiles : file.repos \subseteq Repos

ManualInit ==
  /\ environ \in [force : BOOLEAN, root : BOOLEAN, scope : {"unset", "system", "user"},
                  exe : {"bin", "user-generators", "system-generators"}, given : Givens,
                  sync_only : BOOLEAN]
  /\ disk \in [{"user", "system", "given"} -> ConfigFiles]
  /\ cfg = <<>> /\ doing = "start"
  /\ todo = {} /\ outcome_of = NoVars
  /\ dirs = <<>> /\ effective = NoVars
  /\ exit = -1

-----------------------------------------------------------------------------
DetectMode(force) ==
  IF force THEN "user"
  ELSE IF environ.exe = "user-generators" THEN "user"
  ELSE IF environ.exe = "system-generators" THEN "system"
  ELSE IF environ.scope # "unset" THEN environ.scope
  ELSE IF environ.root THEN "system" ELSE "user"

\* source_dir, podman_generator, quadlet_dropins_dir: the environment's, or the mode's
Resolved(what, mode) == IF what \in environ.given THEN "given" ELSE mode

\* CDConfig::config_path: QUADCD_CONFIG if there is such a file, else the mode's if there is
ConfigPath(mode) ==
  IF "config" \in environ.given /\ disk["given"].there THEN "given"
  ELSE IF disk[mode].there THEN mode ELSE "none"

\* try_load_cd_config: one that cannot be read, or names a bad repository, is none
TryLoad(path) == IF path # "none" /\ disk[path].valid THEN disk[path] ELSE NoConfig

\* load_env_file: each variable with the directory whose .env sets it
LoadEnv(d) == [k \in EnvKeys[d] |-> <<d, "env">>]

FromEnv ==
  /\ doing = "start"
  /\ cfg' = LET mode == DetectMode(FALSE) IN
       [mode |-> mode, data |-> mode, source |-> Resolved("source", mode),
        generator |-> Resolved("generator", mode), dropins |-> Resolved("dropins", mode),
        vars |-> LoadEnv(mode), path |-> ConfigPath(mode), config |-> TryLoad(ConfigPath(mode))]
  /\ doing' = "flags"
  /\ UNCHANGED <<environ, disk, todo, outcome_of, dirs, effective, exit>>

\* Somebody edits a config file just then.
EditConfig ==
  /\ doing = "flags"
  /\ \E place \in DOMAIN disk, file \in ConfigFiles : disk' = [disk EXCEPT ![place] = file]
  /\ UNCHANGED <<environ, cfg, doing, todo, outcome_of, dirs, effective, exit>>

\* Mutant: the configuration read first is kept.
ApplyFlagsTwice ==
  /\ doing = "flags"
  /\ cfg' = LET mode == DetectMode(environ.force) IN
       [cfg EXCEPT !.mode = mode, !.generator = Resolved("generator", mode), !.data = mode,
                   !.source = Resolved("source", mode), !.dropins = Resolved("dropins", mode),
                   !.vars = LoadEnv(mode)]
  /\ doing' = "check"
  /\ UNCHANGED <<environ, disk, todo, outcome_of, dirs, effective, exit>>

ApplyFlags ==
  /\ doing = "flags"
  /\ cfg' = LET mode == DetectMode(environ.force) IN
       [cfg EXCEPT !.mode = mode, !.generator = Resolved("generator", mode), !.data = mode,
                   !.source = Resolved("source", mode), !.dropins = Resolved("dropins", mode),
                   !.vars = LoadEnv(mode), !.path = ConfigPath(mode),
                   !.config = TryLoad(ConfigPath(mode))]
  /\ doing' = "check"
  /\ UNCHANGED <<environ, disk, todo, outcome_of, dirs, effective, exit>>

-----------------------------------------------------------------------------
Exit(code) ==
  /\ exit' = code /\ doing' = "ended"
  /\ UNCHANGED <<environ, disk, cfg, todo, outcome_of, dirs, effective>>

\* No git, no configuration that can be loaded, no repository in it, no data directory
RefuseSync ==
  /\ doing = "check"
  /\ Exit(1)

Checked == doing = "check" /\ cfg.config # NoConfig /\ cfg.config.repos # {}

\* --service: the loop is modelled in SyncService.
RunService ==
  /\ Checked
  /\ Exit(0)

TakeLock ==
  /\ Checked
  /\ doing' = "sync" /\ todo' = cfg.config.repos
  /\ UNCHANGED <<environ, disk, cfg, outcome_of, dirs, effective, exit>>

(***************************************************************************)
(* sync_all goes on to the next repository whatever becomes of this one:   *)
(* unit files of it changed (a clone or an update), none did, it failed,   *)
(* or its directory could not be made and it is skipped.                   *)
(***************************************************************************)
Outcomes == {"changed", "same", "failed", "skipped"}

\* Mutant: the first failure ends the round.
SyncUntilFailure(r, what) ==
  /\ doing = "sync" /\ r \in todo
  /\ todo' = IF what = "failed" THEN {} ELSE todo \ {r}
  /\ outcome_of' = [q \in DOMAIN outcome_of \cup {r} |-> IF q = r THEN what ELSE outcome_of[q]]
  /\ UNCHANGED <<environ, disk, cfg, doing, dirs, effective, exit>>

SyncRepo(r, what) ==
  /\ doing = "sync" /\ r \in todo
  /\ todo' = todo \ {r}
  /\ outcome_of' = [q \in DOMAIN outcome_of \cup {r} |-> IF q = r THEN what ELSE outcome_of[q]]
  /\ UNCHANGED <<environ, disk, cfg, doing, dirs, effective, exit>>

Became(whats) == {r \in DOMAIN outcome_of : outcome_of[r] \in whats}

\* The directories of this data directory: repositories once configured leave theirs behind.
SourceDirs(there) ==
  IF "source" \in environ.given THEN <<"given">>
  ELSE SelectSeq(DirsInOrder, LAMBDA d : d \in there)

ApplyChanges ==
  /\ doing = "sync" /\ todo = {} /\ Became({"changed"}) # {} /\ ~environ.sync_only
  /\ \E old \in SUBSET (ToSet(DirsInOrder) \ DOMAIN outcome_of) :
       dirs' = SourceDirs(Became(Outcomes \ {"skipped"}) \cup old)
  /\ doing' = "dirs"
  /\ UNCHANGED <<environ, disk, cfg, todo, outcome_of, effective, exit>>

\* merge_env_vars and with_repo_root: the .env of the directory, then the reserved variable
Merged(base, d) ==
  LET own == LoadEnv(d)
  IN [k \in DOMAIN base \cup DOMAIN own \cup {RootKey} |->
        IF k = RootKey THEN <<d, "path">> ELSE IF k \in DOMAIN own THEN own[k] ELSE base[k]]

AddSourceDir ==
  /\ doing = "dirs" /\ dirs # <<>>
  /\ effective' = [e \in DOMAIN effective \cup {Head(dirs)} |->
                     IF e = Head(dirs) THEN Merged(cfg.vars, e) ELSE effective[e]]
  /\ dirs' = Tail(dirs)
  /\ UNCHANGED <<environ, disk, cfg, doing, todo, outcome_of, exit>>

Failures == Cardinality(Became({"failed"}))

\* run_once is over: nothing had changed, or what had is activated (see Activation).
EndSync ==
  /\ \/ doing = "sync" /\ todo = {} /\ (Became({"changed"}) = {} \/ environ.sync_only)
     \/ doing = "dirs" /\ dirs = <<>>
  /\ Exit(IF Failures > 0 THEN 1 ELSE 0)

ManualNext ==
  \/ FromEnv \/ EditConfig \/ ApplyFlags \/ RefuseSync \/ RunService \/ TakeLock
  \/ \E r \in Repos, what \in Outcomes : SyncRepo(r, what)
  \/ ApplyChanges \/ AddSourceDir \/ EndSync

-----------------------------------------------------------------------------
(***************************************************************************)
(* Once the flags are known nothing is left of the mode that was guessed   *)
(* before them: every directory is the mode's or the environment's, and    *)
(* the configuration is that of the file it is said to come from, as the   *)
(* file was then (apply_flags sets each field again).                      *)
(***************************************************************************)
ModeIsWhole ==
  doing \notin {"start", "flags"} =>
    /\ environ.force => cfg.mode = "user"
    /\ cfg.data = cfg.mode
    /\ {cfg.source, cfg.generator, cfg.dropins, cfg.path} \subseteq {cfg.mode, "given", "none"}
    /\ \A k \in DOMAIN cfg.vars : cfg.vars[k][1] = cfg.data
    /\ \A file \in {cfg.config} \ {NoConfig} : cfg.path # "none" /\ file = disk[cfg.path]

(***************************************************************************)
(* Exit code 0 after a sync means that each repository of the mode's       *)
(* configuration was synced, or skipped with a warning, and one that fails *)
(* keeps none of the others from being synced: 1 means that one failed.    *)
(***************************************************************************)
ExitTellsOfEveryRepo ==
  doing = "ended" /\ outcome_of # NoVars =>
    /\ DOMAIN outcome_of = disk[cfg.path].repos
    /\ exit = 0 <=> \A r \in DOMAIN outcome_of : outcome_of[r] # "failed"

(***************************************************************************)
(* A variable in a unit file is that of the unit's own directory, or of    *)
(* the data directory: none gets from one repository into another's files, *)
(* and no .env changes what QUADCD_REPO_ROOT stands for.                   *)
(***************************************************************************)
VariablesOfOwnDir ==
  \A d \in DOMAIN effective :
    /\ DOMAIN effective[d] = EnvKeys[d] \cup EnvKeys[cfg.mode] \cup {RootKey}
    /\ \A k \in DOMAIN effective[d] :
         effective[d][k] = IF k = RootKey THEN <<d, "path">>
                           ELSE IF k \in EnvKeys[d] THEN <<d, "env">> ELSE <<cfg.mode, "env">>

(***************************************************************************)
(* Settings come from the place of the mode in use, variables from there   *)
(* and from the unit's directory (config.rs:125-160, 187-252).             *)
(***************************************************************************)
SettingsOfOwnPlace == ModeIsWhole /\ VariablesOfOwnDir
=============================================================================
