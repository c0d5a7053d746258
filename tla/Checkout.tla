------------------------------ MODULE Checkout ------------------------------
(***************************************************************************)
(* One repository: sync_repo_inner (src/sync/repo.rs) over GitVcs          *)
(* (src/sync/vcs.rs), run again and again by its callers.                  *)
(*                                                                         *)
(* Every git command is a step, because each may fail, or be killed by     *)
(* GIT_TIMEOUT, and quadcd may die between two.  Meanwhile others push to  *)
(* the remote, and `quadcd status`, which takes no lock, fetches.          *)
(***************************************************************************)
EXTENDS Naturals

CONSTANTS
  Commits,     \* commits of all remotes
  NoCommit,    \* an unborn HEAD, a branch that does not exist
  History,     \* commit -> itself and the commits it descends from
  Paths,       \* paths of the files in the repositories
  UnitFiles,   \* those of Paths with the extension of a unit file
  Watches,     \* unit file -> other paths its Watch= globs match
  Contents,    \* what a file may contain
  Absent,      \* the content of a file that is not there
  Tree,        \* commit -> path -> content
  Urls,
  Branches,
  NoBranch,    \* no branch configured, or not known
  InitBranch,  \* what `git init` calls the first branch
  Remotes,     \* what may be published at first: url -> [tips, default]
  Pushable,    \* url -> commits that may be pushed there
  Moves,       \* what else may happen to a branch: "rewrite", "delete", "default"
  Configs,     \* configurations of the repository: [url, branch]
  ForceChoices,\* whether a sync is run with --force
  Fails,       \* commands that may fail and leave nothing done
  Leftovers,   \* what killed commands may leave behind
  Dies,        \* phases in which quadcd may die
  MaxFaults,   \* bound: failed or killed commands and deaths of quadcd
  MaxPushes    \* bound: changes of the remotes

VARIABLES
  want, force, \* the configuration and --force of this sync
  phase,       \* the command sync_repo_inner is about to run
  pre,         \* pre_sha
  urlChanged,  \* url_changed
  branch,      \* branch
  changes,     \* UnitChanges of a finished sync
  ended,       \* how the last sync ended
  repo,        \* the checkout
  remote,      \* url -> tips of its branches, and the default one
  told,        \* unit file -> what the caller was last told to deploy
  tips,        \* history: tips of the configured branch during this sync
  published,   \* history: commits that have been the tip of a branch
  faults, pushes

syncVars == <<want, force, pre, urlChanged, branch, changes>>
remoteVars == <<remote, published, pushes>>
vars == <<phase, syncVars, ended, repo, remoteVars, told, tips, faults>>

Commands == {"clone", "head", "url", "branch", "fetch", "reset", "pull", "post", "diff"}
MaybeCommit == Commits \cup {NoCommit}
MaybeBranch == Branches \cup {NoBranch}

ASSUME ConstantsOK ==
  /\ NoCommit \notin Commits /\ NoBranch \notin Branches /\ InitBranch \in Branches
  /\ History \in [Commits -> SUBSET Commits]
  /\ \A c \in Commits : c \in History[c]
  /\ UnitFiles \subseteq Paths
  /\ Watches \in [UnitFiles -> SUBSET (Paths \ UnitFiles)]
  /\ Absent \in Contents
  /\ Tree \in [MaybeCommit -> [Paths -> Contents]]
  /\ Tree[NoCommit] = [p \in Paths |-> Absent]
  /\ Remotes \subseteq [Urls -> [tips : [Branches -> MaybeCommit], default : Branches]]
  /\ \A r \in Remotes : \A u \in Urls : r[u].tips[r[u].default] # NoCommit
  /\ Pushable \in [Urls -> SUBSET Commits]
  /\ Moves \subseteq {"rewrite", "delete", "default"}
  /\ Configs \subseteq [url : Urls, branch : MaybeBranch] /\ Configs # {}
  /\ ForceChoices \subseteq BOOLEAN /\ ForceChoices # {}
  /\ Fails \subseteq Commands
  /\ Leftovers \subseteq {"unborn", "unchecked", "refs", "head"}
  /\ Dies \subseteq Commands \cup {"handle"}
  /\ MaxFaults \in Nat /\ MaxPushes \in Nat

-----------------------------------------------------------------------------
(* What a unit is made of *)

Gone == <<>>

\* What a deployment of unit file f rests on: its content, and that of the files
\* it watches.
Material(tree, f) ==
  IF tree[f] = Absent THEN Gone ELSE <<tree[f], [p \in Watches[f] |-> tree[p]]>>

MaterialOf(tree) == [f \in UnitFiles |-> Material(tree, f)]

Present(tree) == {f \in UnitFiles : tree[f] # Absent}

Untouched == [changed |-> {}, deleted |-> {}]

\* UnitChanges::from_present(all_unit_files)
FromPresent == [changed |-> Present(repo.tree), deleted |-> {}]

Touched(old, new) == {p \in Paths : Tree[old][p] # Tree[new][p]}

\* Mutant: the watching units are not added.
MarkNone(other) == {}

\* mark_watched: units of the working tree whose globs match a changed path.
MarkWatched(other) == {f \in Present(repo.tree) : Watches[f] \cap other # {}}

\* Mutant: a file that the new commit does not have counts as changed, too.
DiffAllChanged(old, new) ==
  [changed |-> (Touched(old, new) \cap UnitFiles)
                  \cup MarkWatched(Touched(old, new) \ UnitFiles),
   deleted |-> {}]

\* Mutant: files that the new commit does not have are not reported.
DiffOfPresent(old, new) ==
  [changed |-> (Touched(old, new) \cap Present(Tree[new]))
                  \cup MarkWatched(Touched(old, new) \ UnitFiles),
   deleted |-> {}]

\* git diff --name-status, filed by UnitChanges::record, then mark_watched.
Diff(old, new) ==
  LET units == Touched(old, new) \cap UnitFiles
  IN  [changed |-> (units \cap Present(Tree[new]))
                      \cup MarkWatched(Touched(old, new) \ UnitFiles),
       deleted |-> units \ Present(Tree[new])]

-----------------------------------------------------------------------------
(* The remotes *)

\* The branch a configuration asks for: "optional, default: remote default branch".
Asked(cfg) == IF cfg.branch = NoBranch THEN remote[cfg.url].default ELSE cfg.branch

Tip(cfg) == remote[cfg.url].tips[Asked(cfg)]

\* What has gone into a commit; nothing has gone into an unborn branch.
Past(c) == IF c = NoCommit THEN {} ELSE History[c]

AllTips(r) == {r[u].tips[b] : u \in Urls, b \in Branches} \ {NoCommit}

Init ==
  /\ want \in Configs /\ force \in ForceChoices
  /\ phase = "idle" /\ ended = "none"
  /\ pre = NoCommit /\ urlChanged = FALSE /\ branch = NoBranch
  /\ changes = Untouched
  /\ repo = [dotGit |-> FALSE, head |-> NoCommit, onBranch |-> InitBranch,
             origin |-> want.url, originHead |-> NoBranch,
             tracked |-> [b \in Branches |-> NoCommit], tree |-> Tree[NoCommit]]
  /\ remote \in Remotes
  /\ told = MaterialOf(Tree[NoCommit])
  /\ tips = {}
  /\ published = AllTips(remote)
  /\ faults = 0 /\ pushes = 0

RemoteBecomes(r) ==
  /\ pushes < MaxPushes /\ pushes' = pushes + 1
  /\ remote' = r
  /\ published' = published \cup AllTips(r)
  /\ UNCHANGED <<phase, syncVars, ended, repo, told, faults>>
  /\ tips' = tips \cup ({Tip(want)'} \ {NoCommit})

Push(u, b, c) ==
  /\ c \in Pushable[u] \ {remote[u].tips[b]}
  /\ remote[u].tips[b] # NoCommit
  /\ "rewrite" \in Moves \/ remote[u].tips[b] \in Past(c)
  /\ RemoteBecomes([remote EXCEPT ![u].tips[b] = c])

DeleteBranch(u, b) ==
  /\ "delete" \in Moves
  /\ b # remote[u].default /\ remote[u].tips[b] # NoCommit
  /\ RemoteBecomes([remote EXCEPT ![u].tips[b] = NoCommit])

SwitchDefault(u, b) ==
  /\ "default" \in Moves
  /\ b # remote[u].default /\ remote[u].tips[b] # NoCommit
  /\ RemoteBecomes([remote EXCEPT ![u].default = b])

\* git fetch origin: new tips; refs of branches that are gone are not pruned.
FetchedRefs ==
  [b \in Branches |-> IF remote[repo.origin].tips[b] = NoCommit
                        THEN repo.tracked[b] ELSE remote[repo.origin].tips[b]]

\* quadcd status fetches at any time, unless the URL is not the configured one.
StatusFetches ==
  /\ repo.dotGit /\ repo.origin = want.url
  /\ repo.tracked # FetchedRefs
  /\ repo' = [repo EXCEPT !.tracked = FetchedRefs]
  /\ UNCHANGED <<phase, syncVars, ended, remoteVars, told, tips, faults>>

-----------------------------------------------------------------------------
(* sync_repo_inner *)

frame == <<remoteVars, told, tips, faults>>

Begin(cfg, f) ==
  /\ phase = "idle"
  /\ want' = cfg /\ force' = f
  /\ phase' = IF repo.dotGit THEN "head" ELSE "clone"
  /\ ended' = "none"
  /\ pre' = NoCommit /\ urlChanged' = FALSE /\ branch' = NoBranch
  /\ changes' = Untouched
  /\ tips' = {Tip(cfg)} \ {NoCommit}
  /\ UNCHANGED <<repo, remoteVars, told, faults>>

\* Return Err, or die: whatever was found out is forgotten.
Abandon == phase' = "idle" /\ ended' = "failed"

Clone ==
  /\ phase = "clone" /\ Tip(want) # NoCommit
  /\ repo' = [dotGit |-> TRUE, head |-> Tip(want), onBranch |-> Asked(want),
              origin |-> want.url, originHead |-> remote[want.url].default,
              tracked |-> remote[want.url].tips, tree |-> Tree[Tip(want)]]
  /\ changes' = [changed |-> Present(Tree[Tip(want)]), deleted |-> {}]
  /\ phase' = "handle"
  /\ UNCHANGED <<want, force, pre, urlChanged, branch, ended, frame>>

CloneOfMissing ==
  /\ phase = "clone" /\ Tip(want) = NoCommit
  /\ Abandon
  /\ UNCHANGED <<syncVars, repo, frame>>

\* head_sha, None when git rev-parse fails.
HeadReadings == {repo.head} \cup (IF "head" \in Fails THEN {NoCommit} ELSE {})

ReadHead ==
  /\ phase = "head"
  /\ pre' \in HeadReadings
  /\ phase' = "url"
  /\ UNCHANGED <<want, force, urlChanged, branch, changes, ended, repo, frame>>

SameUrl ==
  /\ phase = "url" /\ repo.origin = want.url
  /\ phase' = "branch"
  /\ UNCHANGED <<syncVars, ended, repo, frame>>

RefuseUrl ==
  /\ phase = "url" /\ repo.origin # want.url /\ ~force
  /\ Abandon
  /\ UNCHANGED <<syncVars, repo, frame>>

ChangeUrl ==
  /\ phase = "url" /\ repo.origin # want.url /\ force
  /\ repo' = [repo EXCEPT !.origin = want.url]
  /\ urlChanged' = TRUE
  /\ phase' = "branch"
  /\ UNCHANGED <<want, force, pre, branch, changes, ended, frame>>

\* default_branch: origin/HEAD, else the checked-out branch.
DefaultBranches ==
  {IF repo.originHead # NoBranch THEN repo.originHead ELSE repo.onBranch}
     \cup (IF "branch" \in Fails THEN {repo.onBranch} ELSE {})

PickBranch ==
  /\ phase = "branch"
  /\ branch' \in IF want.branch = NoBranch THEN DefaultBranches ELSE {want.branch}
  /\ phase' = IF force THEN "fetch" ELSE "pull"
  /\ UNCHANGED <<want, force, pre, urlChanged, changes, ended, repo, frame>>

\* Mutant: fetching is left to the next sync.
OldRefs == repo.tracked

NewRefs == FetchedRefs

Fetch ==
  /\ phase = "fetch"
  /\ repo' = [repo EXCEPT !.tracked = NewRefs]
  /\ phase' = "reset"
  /\ UNCHANGED <<syncVars, ended, frame>>

MoveTo(c, tree) == repo' = [repo EXCEPT !.head = c, !.tree = tree]

Reset ==
  /\ phase = "reset" /\ repo.tracked[branch] # NoCommit
  /\ MoveTo(repo.tracked[branch], Tree[repo.tracked[branch]])
  /\ phase' = "post"
  /\ UNCHANGED <<syncVars, ended, frame>>

ResetToMissing ==
  /\ phase = "reset" /\ repo.tracked[branch] = NoCommit
  /\ Abandon
  /\ UNCHANGED <<syncVars, repo, frame>>

Incoming == remote[repo.origin].tips[branch]

\* Mutant: the pull also takes a history that was rewritten.
AnyPull == Incoming # NoCommit

\* git pull --ff-only: the branch is there and has not diverged.
CanPull ==
  /\ Incoming # NoCommit
  /\ \/ repo.head = NoCommit
     \/ Incoming \in Past(repo.head) \/ repo.head \in Past(Incoming)

Ahead == Incoming \in Past(repo.head)

Overwrites ==
  \E p \in Touched(repo.head, Incoming) :
    repo.tree[p] \notin {Tree[repo.head][p], Tree[Incoming][p]}

FastForward ==
  LET merged == [p \in Paths |-> IF p \in Touched(repo.head, Incoming)
                                   THEN Tree[Incoming][p] ELSE repo.tree[p]]
  IN  repo' = [repo EXCEPT !.tracked[branch] = Incoming,
                           !.head = IF Ahead THEN @ ELSE Incoming,
                           !.tree = IF Ahead THEN @ ELSE merged]

Pull ==
  /\ phase = "pull" /\ CanPull /\ (Ahead \/ ~Overwrites)
  /\ FastForward
  /\ phase' = "post"
  /\ UNCHANGED <<syncVars, ended, frame>>

\* The branch is fetched all the same.
PullRefused ==
  /\ phase = "pull" /\ ~(CanPull /\ (Ahead \/ ~Overwrites))
  /\ repo' = IF Incoming = NoCommit THEN repo ELSE [repo EXCEPT !.tracked[branch] = Incoming]
  /\ Abandon
  /\ UNCHANGED <<syncVars, frame>>

\* changed_files is empty when git diff fails.
Found(new) ==
  CASE urlChanged \/ pre = NoCommit \/ new = NoCommit -> {FromPresent}
    [] ~urlChanged /\ NoCommit \notin {pre, new} /\ pre = new -> {Untouched}
    [] ~urlChanged /\ NoCommit \notin {pre, new} /\ pre # new ->
         {Diff(pre, new)} \cup (IF "diff" \in Fails THEN {Untouched} ELSE {})

Compare ==
  /\ phase = "post"
  /\ \E new \in HeadReadings : changes' \in Found(new)
  /\ phase' = "handle"
  /\ UNCHANGED <<want, force, pre, urlChanged, branch, ended, repo, frame>>

\* What the changes make of what has been told so far.
Applied ==
  [f \in UnitFiles |->
     CASE f \in changes.changed -> Material(repo.tree, f)
       [] f \in changes.deleted \ changes.changed -> Gone
       [] f \notin changes.changed \cup changes.deleted -> told[f]]

\* The caller takes the changes over (sync_all, then apply_changes).
Handle ==
  /\ phase = "handle"
  /\ told' = Applied
  /\ phase' = "idle" /\ ended' = "ok"
  /\ UNCHANGED <<syncVars, repo, remoteVars, tips, faults>>

-----------------------------------------------------------------------------
(* Failures *)

Fault == faults < MaxFaults /\ faults' = faults + 1

\* A command fails before it has done anything: no network, no permission.
CommandFails ==
  /\ phase \in Fails \cap {"clone", "url", "fetch", "reset", "pull"}
  /\ Fault /\ Abandon
  /\ UNCHANGED <<syncVars, repo, remoteVars, told, tips>>

\* A killed clone leaves a .git behind, with or without a HEAD, and no files.
CloneKilled ==
  /\ phase = "clone" /\ Tip(want) # NoCommit
  /\ Fault /\ Abandon
  /\ \/ /\ "unborn" \in Leftovers
        /\ repo' = [repo EXCEPT !.dotGit = TRUE, !.origin = want.url]
     \/ /\ "unchecked" \in Leftovers
        /\ repo' = [repo EXCEPT !.dotGit = TRUE, !.origin = want.url,
                      !.head = Tip(want), !.onBranch = Asked(want),
                      !.originHead = remote[want.url].default,
                      !.tracked = remote[want.url].tips]
  /\ UNCHANGED <<syncVars, remoteVars, told, tips>>

\* A killed fetch has updated some of the refs.
FetchKilled ==
  /\ phase = "fetch" /\ "refs" \in Leftovers
  /\ Fault /\ Abandon
  /\ \E B \in SUBSET Branches :
       repo' = [repo EXCEPT !.tracked =
                  [b \in Branches |-> IF b \in B THEN FetchedRefs[b] ELSE repo.tracked[b]]]
  /\ UNCHANGED <<syncVars, remoteVars, told, tips>>

\* The time is up when HEAD has moved, and git has not exited yet.
KilledAfterMove ==
  /\ "head" \in Leftovers
  /\ \/ /\ phase = "reset" /\ repo.tracked[branch] # NoCommit
        /\ MoveTo(repo.tracked[branch], Tree[repo.tracked[branch]])
     \/ phase = "pull" /\ CanPull /\ (Ahead \/ ~Overwrites) /\ FastForward
  /\ Fault /\ Abandon
  /\ UNCHANGED <<syncVars, remoteVars, told, tips>>

QuadcdDies ==
  /\ phase \in Dies
  /\ Fault /\ Abandon
  /\ UNCHANGED <<syncVars, repo, remoteVars, told, tips>>

-----------------------------------------------------------------------------
SyncStep ==
  \/ Clone \/ CloneOfMissing \/ ReadHead \/ SameUrl \/ RefuseUrl \/ ChangeUrl
  \/ PickBranch \/ Fetch \/ Reset \/ ResetToMissing \/ Pull \/ PullRefused
  \/ Compare \/ Handle

Sync == SyncStep \/ \E cfg \in Configs, f \in ForceChoices : Begin(cfg, f)

Failure ==
  CommandFails \/ CloneKilled \/ FetchKilled \/ KilledAfterMove \/ QuadcdDies

Others ==
  \/ StatusFetches
  \/ \E u \in Urls, b \in Branches :
       \/ DeleteBranch(u, b) \/ SwitchDefault(u, b)
       \/ \E c \in Commits : Push(u, b, c)

Next == Sync \/ Failure \/ Others

Spec == Init /\ [][Next]_vars

\* The service's next tick comes, and quadcd is a running process.
FairSpec == Spec /\ WF_vars(Sync)

-----------------------------------------------------------------------------
(* Properties *)

RepoType ==
  [dotGit : BOOLEAN, head : MaybeCommit, onBranch : Branches, origin : Urls,
   originHead : MaybeBranch, tracked : [Branches -> MaybeCommit],
   tree : [Paths -> Contents]]

RemoteType == [Urls -> [tips : [Branches -> MaybeCommit], default : Branches]]

ChangesType == [changed : SUBSET UnitFiles, deleted : SUBSET UnitFiles]

Materials == {Gone} \cup {Material(t, f) : t \in [Paths -> Contents], f \in UnitFiles}

\* Every variable stays in its range, and a branch is known before git is asked for it.
TypeOK ==
  /\ want \in [url : Urls, branch : MaybeBranch] /\ force \in BOOLEAN
  /\ phase \in Commands \cup {"idle", "handle"}
  /\ ended \in {"none", "failed", "ok"}
  /\ pre \in MaybeCommit /\ urlChanged \in BOOLEAN /\ branch \in MaybeBranch
  /\ phase \in {"fetch", "reset", "pull"} => branch \in Branches
  /\ changes \in ChangesType
  /\ repo \in RepoType /\ remote \in RemoteType
  /\ told \in [UnitFiles -> Materials]
  /\ tips \subseteq Commits /\ published \subseteq Commits
  /\ faults \in 0..MaxFaults /\ pushes \in 0..MaxPushes

\* What a sync reports is so when the caller acts on it: changed files are in the
\* working tree, deleted ones are not, whatever failed or was killed before and
\* whoever fetched meanwhile.
ReportsAreTrue ==
  phase = "handle" =>
    /\ changes.changed \subseteq Present(repo.tree)
    /\ changes.deleted \cap Present(repo.tree) = {}

\* When a sync has succeeded, everything that the working tree holds has been
\* reported, by it or by earlier ones, files that units watch included; also after
\* syncs that failed or died half way.
NothingMissed ==
  phase = "idle" /\ ended = "ok" => told = MaterialOf(repo.tree)

\* A sync that succeeds has taken the checkout to a commit that was the tip of the
\* configured branch at the configured URL while it ran; an unforced one may instead
\* find the checkout ahead of it.
SyncedToConfigured ==
  phase = "handle" =>
    \/ repo.head \in tips
    \/ ~force /\ tips \cap Past(repo.head) # {}

\* Without --force the checkout never leaves its history, whatever is pushed.
UnforcedKeepsHistory ==
  [][repo.head # NoCommit /\ repo'.head # repo.head =>
       force \/ repo.head \in Past(repo'.head)]_vars

\* What has been reported is at all times the content of one published commit, and
\* never a mixture: Deploy.tla.
Deployed == INSTANCE Deploy WITH told <- told, published <- published
OneCommitAtATime == Deployed!Spec

\* When nobody pushes any more and commands have stopped failing, the tip of the
\* configured branch gets deployed and stays so.
Converges == <>[](told = MaterialOf(Tree[Tip(want)]))

-----------------------------------------------------------------------------
(* What documents say and the code does not do *)

\* README.md:88 "After pulling, sync runs daemon-reload and handles each changed unit":
\* a successful sync leaves nothing unhandled that git has pulled, or it will be
\* handled by no later sync either.
PulledIsHandled ==
  phase = "idle" /\ ended = "ok" =>
    \A f \in UnitFiles : repo.tree[f] # Absent => told[f] = Material(repo.tree, f)
=============================================================================
