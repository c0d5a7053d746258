---------------------------- MODULE StatusProofs ----------------------------
(* What `quadcd status` says, for any repositories and units, any number of    *)
(* failing commands, and whatever happens while it looks.                      *)
EXTENDS Status, TLAPS

-----------------------------------------------------------------------------
(* Types *)

UnitStates ==
  [active : {"active", "activating", "inactive"}, since : Nat, restarts : Nat]

Readings ==
  [unit : Units, active : {"active", "activating", "inactive"}, since : Nat,
   restarts : Nat, reload : BOOLEAN, path : BOOLEAN]

RunTyped ==
  /\ step \in {"idle", "repo", "url", "fetch", "count", "units", "show", "done"}
  /\ step \in {"url", "fetch", "count", "units", "show"} => todo # <<>>
  /\ fetches \in BOOLEAN /\ todo \in Seq(Repos) /\ toShow \subseteq Units
  /\ reading \in Readings \cup {None} /\ began \in [mono : Nat, wall : Int]
  /\ repos \in [Repos -> RepoStates \cup {None}]
  /\ services \in [Units -> ServiceStates \cup {None}]
  /\ target \in [Repos -> Nat] /\ failed \in BOOLEAN

WorldTyped ==
  /\ git \subseteq Repos /\ mine \subseteq Repos
  /\ head \in [Repos -> Nat] /\ track \in [Repos -> Nat] /\ upstream \in [Repos -> Nat]
  /\ unit \in [Units -> UnitStates]
  /\ text \in [Units -> Nat] /\ loaded \in [Units -> Nat \cup {None}]
  /\ running \in [Units -> Nat] /\ mtime \in [Units -> Int \cup {None}]
  /\ reloading \in BOOLEAN /\ now \in Nat /\ skew \in Int /\ set \in Nat

TypeOK == RunTyped /\ WorldTyped

LEMMA HeadTyped ==
  ASSUME todo \in Seq(Repos), todo # <<>>
  PROVE  /\ Head(todo) \in Repos /\ Head(todo) = todo[1] /\ Len(todo) \in Nat /\ Len(todo) >= 1
         /\ Tail(todo) \in Seq(Repos) /\ Len(Tail(todo)) = Len(todo) - 1
         /\ \A i \in 1..Len(Tail(todo)) : Tail(todo)[i] = todo[i + 1]
OBVIOUS

LEMMA ShownTyped ==
  ASSUME WorldTyped, NEW u \in Units
  PROVE  Shown(u) \in Readings
<1>1. unit[u] \in UnitStates
  BY DEF WorldTyped
<1>2. (loaded[u] \notin {None, text[u]}) \in BOOLEAN /\ (loaded[u] # None) \in BOOLEAN
  OBVIOUS
<1>3. QED
  BY <1>1, <1>2 DEF Shown, Readings, UnitStates

LEMMA ServiceTyped ==
  ASSUME NEW s \in Readings
  PROVE  Service(s) \in ServiceStates /\ Unknown \in ServiceStates
<1>1. s.active \in {"active", "activating", "inactive"} /\ s.reload \in BOOLEAN
  BY DEF Readings
<1>2. QED
  BY <1>1 DEF Service, Unknown, ServiceStates

LEMMA CountedTyped == \A r \in Repos : Counted(r) \in RepoStates
BY DEF Counted, RepoStates

LEMMA SaysTyped ==
  ASSUME RunTyped, todo # <<>>, NEW s \in RepoStates, Says(s)
  PROVE  /\ repos' \in [Repos -> RepoStates \cup {None}]
         /\ services' = services
BY HeadTyped DEF Says, RunTyped

LEMMA TypeInit == Init => TypeOK
<1> SUFFICES ASSUME Init PROVE TypeOK
  OBVIOUS
<1>1. RunTyped
  <2>1. todo = <<>> /\ step = "idle"
    BY DEF Init
  <2>2. todo \in Seq(Repos)
    BY <2>1
  <2>3. target \in [Repos -> Nat] /\ repos \in [Repos -> RepoStates \cup {None}]
        /\ services \in [Units -> ServiceStates \cup {None}]
    BY DEF Init
  <2>4. /\ fetches \in BOOLEAN /\ toShow \subseteq Units /\ failed \in BOOLEAN
        /\ reading \in Readings \cup {None}
    BY DEF Init
  <2>5. began = [mono |-> 0, wall |-> 0]
    BY DEF Init
  <2>6. began \in [mono : Nat, wall : Int]
    BY <2>5
  <2>7. QED
    BY <2>1, <2>2, <2>3, <2>4, <2>6 DEF RunTyped
<1>2. git \subseteq Repos /\ mine \subseteq Repos
  BY ConstantsOK DEF Init
<1>3. /\ head \in [Repos -> Nat] /\ track \in [Repos -> Nat] /\ upstream \in [Repos -> Nat]
      /\ unit \in [Units -> UnitStates]
  BY DEF Init, UnitStates
<1>4. text \in [Units -> Nat] /\ running \in [Units -> Nat]
  BY DEF Init
<1>5. reloading \in BOOLEAN /\ now = 1 /\ skew = 0 /\ set = 0
  BY DEF Init
<1>6. loaded \in [Units -> {0, 1}] /\ mtime = loaded
  BY DEF Init
<1>7. loaded \in [Units -> Nat \cup {None}] /\ mtime \in [Units -> Int \cup {None}]
  BY <1>6
<1>8. QED
  BY <1>1, <1>2, <1>3, <1>4, <1>7, <1>5 DEF TypeOK, WorldTyped

\* The steps of the run; the world, but for what the run itself fetches, stands still.
LEMMA RunTypeStep ==
  ASSUME TypeOK, StatusStep
  PROVE  TypeOK'
<1> USE DEF TypeOK, run, report, world, refs, clock
<1>1. CASE Begin
  <2>1. /\ todo' \in Seq(Repos) /\ target' \in [Repos -> Nat]
        /\ began' \in [mono : Nat, wall : Int]
    BY <1>1, ConstantsOK DEF Begin, WorldTyped
  <2>2. QED
    BY <1>1, <2>1 DEF Begin, RunTyped, WorldTyped
<1>2. CASE LookAtRepo
  <2>1. repos' \in [Repos -> RepoStates \cup {None}] /\ services' = services
    BY <1>2, SaysTyped DEF LookAtRepo, RunTyped, RepoStates
  <2>2. QED
    BY <1>2, <2>1 DEF LookAtRepo, Goes, RunTyped, WorldTyped
<1>3. CASE RefuseRepo
  <2>1. repos' \in [Repos -> RepoStates \cup {None}] /\ services' = services
    BY <1>3, SaysTyped DEF RefuseRepo, RepoStates
  <2>2. todo' \in Seq(Repos)
    BY <1>3, HeadTyped DEF RefuseRepo, RunTyped
  <2>3. QED
    BY <1>3, <2>1, <2>2 DEF RefuseRepo, Fails, RunTyped, WorldTyped
<1>4. CASE ReadUrl
  <2>1. repos' \in [Repos -> RepoStates \cup {None}] /\ services' = services
    BY <1>4, SaysTyped DEF ReadUrl, RunTyped, RepoStates
  <2>2. UNCHANGED <<todo, toShow, reading, began, target, fetches>> /\ step' \in {"fetch", "units"}
        /\ failed' \in BOOLEAN
    BY <1>4 DEF ReadUrl, Goes, Fails, RunTyped
  <2>3. QED
    BY <1>4, <2>1, <2>2 DEF ReadUrl, RunTyped, WorldTyped
<1>5. CASE Fetch
  <2>1. repos' \in [Repos -> RepoStates \cup {None}] /\ services' = services
    BY <1>5, SaysTyped DEF Fetch, RunTyped, RepoStates
  <2>2. UNCHANGED <<todo, toShow, reading, began, target, fetches>> /\ step' \in {"count", "units"}
        /\ failed' \in BOOLEAN
    BY <1>5 DEF Fetch, Goes, Fails, RunTyped
  <2>3. track' \in [Repos -> Nat]
    BY ZenonT(40), <1>5, HeadTyped DEF Fetch, RunTyped, WorldTyped
  <2>4. QED
    BY <1>5, <2>1, <2>2, <2>3 DEF Fetch, RunTyped, WorldTyped
<1>6. CASE Count
  <2>1. Head(todo) \in Repos
    BY <1>6, HeadTyped DEF Count, RunTyped
  <2>2. repos' \in [Repos -> RepoStates \cup {None}] /\ services' = services
    <3>1. CASE repos' = [repos EXCEPT ![Head(todo)] = Counted(Head(todo))] /\ services' = services
      BY <2>1, <3>1, CountedTyped DEF RunTyped
    <3>2. CASE Says("error")
      BY <1>6, <3>2, SaysTyped DEF Count, RunTyped, RepoStates
    <3>3. QED
      BY <1>6, <3>1, <3>2 DEF Count
  <2>3. UNCHANGED <<todo, toShow, reading, began, target, fetches>> /\ step' = "units"
        /\ failed' \in BOOLEAN
    BY <1>6 DEF Count, Goes, Fails, RunTyped
  <2>4. QED
    BY <1>6, <2>2, <2>3 DEF Count, RunTyped, WorldTyped
<1>7. CASE ListUnits
  <2>1. toShow' \subseteq Units
    BY <1>7, HeadTyped, ConstantsOK DEF ListUnits, RunTyped
  <2>2. QED
    BY <1>7, <2>1 DEF ListUnits, RunTyped, WorldTyped
<1>8. ASSUME NEW u \in Units, ShowUnit(u) \/ ShowFails(u) PROVE TypeOK'
  <2>1. CASE ShowUnit(u)
    BY <1>8, <2>1, ShownTyped DEF ShowUnit, RunTyped, WorldTyped
  <2>2. CASE ShowFails(u)
    <3>1. services' \in [Units -> ServiceStates \cup {None}]
      BY <2>2 DEF ShowFails, Enters, Unknown, ServiceStates, RunTyped
    <3>2. QED
      BY <2>2, <3>1 DEF ShowFails, Enters, Fails, RunTyped, WorldTyped
  <2>3. QED
    BY <1>8, <2>1, <2>2
<1>9. CASE EnterUnit
  <2>1. services' \in [Units -> ServiceStates \cup {None}]
    BY <1>9, ServiceTyped DEF EnterUnit, Enters, RunTyped, Readings
  <2>2. QED
    BY <1>9, <2>1 DEF EnterUnit, Enters, RunTyped, WorldTyped
<1>10. CASE EndRepo
  <2>1. todo' \in Seq(Repos)
    BY <1>10, HeadTyped DEF EndRepo, RunTyped
  <2>2. QED
    BY <1>10, <2>1 DEF EndRepo, RunTyped, WorldTyped
<1>11. CASE Report
  BY <1>11 DEF Report, Fails, RunTyped, WorldTyped
<1>12. QED
  BY <1>1, <1>2, <1>3, <1>4, <1>5, <1>6, <1>7, <1>8, <1>10, <1>11, <1>9 DEF StatusStep

\* What happens in the world is not about the run.
LEMMA WorldHappens ==
  World => /\ UNCHANGED <<run, report, faults, failed>> /\ step # "done" /\ step' = step
           /\ Observe
           /\ now' \in {now, now + 1}
BY DEF World, CloneDone, SyncFetches, SyncMoves, Push, ReloadBegins, ReloadEnds, ClockSteps,
       Starts, Crashes, Happens, run

LEMMA WorldTypeStep ==
  ASSUME TypeOK, World
  PROVE  TypeOK'
<1> USE DEF TypeOK, run, report, world, refs, clock
<1>1. RunTyped' /\ now' \in Nat
  BY WorldHappens DEF RunTyped, WorldTyped
<1>2. ASSUME NEW r \in Repos, CloneDone(r) \/ SyncFetches(r) \/ SyncMoves(r) \/ Push(r)
      PROVE  WorldTyped'
  <2>1. /\ git' \subseteq Repos /\ mine' \subseteq Repos
        /\ UNCHANGED <<unit, loaded, running, mtime, reloading, clock>>
    BY <1>2 DEF CloneDone, SyncFetches, SyncMoves, Push, WorldTyped
  <2>2. head' \in [Repos -> Nat] /\ track' \in [Repos -> Nat] /\ upstream' \in [Repos -> Nat]
    BY <1>2 DEF CloneDone, SyncFetches, SyncMoves, Push, WorldTyped
  <2>3. text' \in [Units -> Nat]
    BY <1>2 DEF CloneDone, SyncFetches, SyncMoves, Push, WorldTyped
  <2>4. QED
    BY <1>1, <2>1, <2>2, <2>3 DEF WorldTyped
<1>3. CASE ReloadBegins
  BY <1>1, <1>3 DEF ReloadBegins, WorldTyped
<1>4. CASE ReloadEnds
  <2>1. PICK made \in SUBSET Units :
          /\ loaded' = [u \in Units |-> IF u \in made THEN text[u] ELSE None]
          /\ mtime' = [u \in Units |-> IF u \in made THEN now' + skew ELSE None]
    BY <1>4 DEF ReloadEnds
  <2>2. loaded' \in [Units -> Nat \cup {None}] /\ mtime' \in [Units -> Int \cup {None}]
    BY <1>1, <2>1 DEF WorldTyped
  <2>3. QED
    BY <1>1, <1>4, <2>2 DEF ReloadEnds, WorldTyped
<1>5. CASE ClockSteps
  BY <1>1, <1>5 DEF ClockSteps, WorldTyped
<1>6. ASSUME NEW u \in Units, Starts(u) \/ Crashes(u) PROVE WorldTyped'
  <2>1. unit' \in [Units -> UnitStates]
    <3>1. unit[u].restarts \in Nat /\ unit[u].restarts + 1 \in Nat
      BY DEF WorldTyped, UnitStates
    <3>2. PICK a \in {"active", "activating", "inactive"}, n \in Nat : Becomes(u, a, n)
      BY <1>6, <3>1 DEF Starts, Crashes
    <3>3. QED
      BY <1>1, <3>2 DEF Becomes, WorldTyped, UnitStates
  <2>2. running' \in [Units -> Nat]
    BY <1>6 DEF Starts, Crashes, Runs, WorldTyped
  <2>3. QED
    BY <1>1, <1>6, <2>1, <2>2 DEF Starts, Crashes, WorldTyped
<1>7. QED
  BY <1>1, <1>2, <1>3, <1>4, <1>5, <1>6 DEF World

LEMMA TypeStep == TypeOK /\ [Next]_vars => TypeOK'
<1>1. TypeOK /\ UNCHANGED vars => TypeOK'
  BY DEF TypeOK, RunTyped, WorldTyped, vars, run, report, world, refs, clock
<1>2. QED
  BY <1>1, RunTypeStep, WorldTypeStep DEF Next
-----------------------------------------------------------------------------
(* The inductive invariant *)

(***************************************************************************)
(* What the report says was so at some moment, and so is what a repository *)
(* or unit still to be looked at will be found in.  So trouble that lasts  *)
(* is in the report, or is going to be: its repository is still in todo,   *)
(* its unit will be listed, or what systemctl has said of it gives it away.*)
(***************************************************************************)

\* Refs only go on, and of a unit that runs an old definition the file of the new one
\* was written after it started.
WorldOK ==
  /\ \A r \in Repos : head[r] <= track[r] /\ track[r] <= upstream[r]
  /\ set <= now
  /\ \A u \in Units :
       /\ unit[u].since <= now
       /\ Outdated(u) => mtime[u] > unit[u].since + skew

\* Commits that must be there are at the remote, and tracked once they have been fetched.
\* The two clocks differ as they did when the run began, unless the wall clock was set.
TargetOK ==
  step # "idle" =>
    /\ began.mono <= now
    /\ set <= began.mono => began.wall = began.mono + skew
    /\ \A r \in Repos : target[r] <= IF fetches THEN upstream[r] ELSE track[r]
    /\ step = "count" => target[Head(todo)] <= track[Head(todo)]

\* Every repository and every unit is entered in the report once.
Entered(i) == i = 1 /\ step \in {"units", "show"}

OnceEach ==
  /\ \A i, j \in 1..Len(todo) : todo[i] = todo[j] => i = j
  /\ \A i \in 1..Len(todo) : Entered(i) \/ repos[todo[i]] = None
  /\ \A u \in toShow : services[u] = None /\ u \in Managed
  /\ step # "show" => toShow = {}
  /\ step = "idle" => \A r \in Repos : repos[r] = None
  /\ step = "idle" => \A u \in Units : services[u] = None

\* What has been found so far of the repository being looked at.
FoundOK ==
  /\ step \in {"url", "fetch", "count"} => Head(todo) \in git
  /\ step \in {"fetch", "count"} => Head(todo) \in sameUrl

\* The report has a problem.
Alarm ==
  \/ \E r \in Repos : repos[r] # None /\ RepoProblem(repos[r])
  \/ \E u \in Units : services[u] # None /\ ServiceProblem(services[u])

ToBeEntered(r) == \E i \in 1..Len(todo) : todo[i] = r /\ ~ Entered(i)

ToBeListed(u) ==
  \E i \in 1..Len(todo) :
    todo[i] \in git /\ u \in UnitsOf[todo[i]] /\ ~ (i = 1 /\ step = "show")

\* What `systemctl show` has said of a unit tells of trouble that is still there, and
\* what it tells has a reason.
WrittenSince(s, wall) == mtime[s.unit] # None /\ mtime[s.unit] > s.since + wall

Telling(s) ==
  /\ s.unit \in toShow
  /\ <<s.unit, "down">> \in wrong => s.active # "active"
  /\ <<s.unit, "unloaded">> \in wrong => s.reload
  /\ <<s.unit, "outdated">> \in wrong =>
       s.path /\ s.active = "active" /\ s.since = unit[s.unit].since

Reasonable(s) ==
  \/ reasons # {}
  \/ /\ s.active = "active" /\ ~s.reload /\ ~(s.restarts >= MinRestarts)
     /\ s.since <= began.mono => ~WrittenSince(s, began.wall - began.mono)

ReadingOK == reading # None => step = "show" /\ Telling(reading) /\ Reasonable(reading)

\* Trouble is there until it is dropped, and will be reported unless something has been.
TroubleOK ==
  /\ step = "idle" => wrong = {}
  /\ wrong \subseteq BadRepos(target) \cup BadUnits
  /\ step # "done" /\ ~Alarm =>
       /\ \A r \in Repos : <<r, "astray">> \in wrong => ToBeEntered(r)
       /\ \A u \in Units, why \in {"down", "unloaded", "outdated"} :
            <<u, why>> \in wrong => services[u] = None /\ (u \in toShow \/ ToBeListed(u))
  /\ \A u \in Units : <<u, "outdated">> \in wrong => unit[u].since <= began.mono

\* An alarm has a reason or a failed command.
ReasonOK == Alarm => failed \/ reasons # {}

\* The exit code is that of the report, and nothing happens any more.
DoneOK ==
  step = "done" => /\ rc = ExitCode \/ (failed /\ rc = 1)
                   /\ rc = 0 => \A w \in wrong : w[2] = "old"

IInv ==
  /\ TypeOK /\ WorldOK /\ TargetOK /\ OnceEach /\ FoundOK
  /\ ReadingOK /\ TroubleOK /\ ReasonOK /\ DoneOK
-----------------------------------------------------------------------------
(* Lemmas about the steps *)

\* All steps but the first keep the history.
LEMMA ObserveKeeps ==
  ASSUME Observe
  PROVE  /\ wrong' \subseteq wrong /\ wrong' \subseteq (BadRepos(target) \cup BadUnits)'
         /\ reasons \subseteq reasons' /\ Reasons' \subseteq reasons'
BY DEF Observe

\* The run looks, and may fetch one repository.
LEMMA RunLooks ==
  ASSUME TypeOK, StatusStep, ~Begin
  PROVE  /\ Observe
         /\ UNCHANGED <<git, sameUrl, head, upstream, mine, unit, text, loaded, running,
                        mtime, now, skew, set, target, began, fetches>>
         /\ \A r \in Repos : track'[r] \in {track[r], upstream[r]}
         /\ failed => failed'
<1> USE DEF world, refs, clock, Goes, Says, Fails
<1>1. CASE Fetch
  <2>1. Head(todo) \in Repos
    BY <1>1, HeadTyped DEF Fetch, TypeOK, RunTyped
  <2>2. \A r \in Repos : track'[r] \in {track[r], upstream[r]}
    BY <1>1, <2>1 DEF Fetch, TypeOK, WorldTyped
  <2>3. QED
    BY <1>1, <2>2 DEF Fetch
<1>2. CASE ~Fetch
  BY <1>2 DEF StatusStep, LookAtRepo, RefuseRepo, ReadUrl, Count, ListUnits, ShowUnit, ShowFails,
              EnterUnit, Enters, EndRepo, Report
<1>3. QED
  BY <1>1, <1>2

\* The run goes from one step to another.
LEMMA RunGoes ==
  ASSUME ReadingOK, StatusStep, ~Begin
  PROVE  step \notin {"idle", "done"} /\ step' # "idle"
BY DEF StatusStep, LookAtRepo, RefuseRepo, ReadUrl, Fetch, Count, ListUnits, ShowUnit, ShowFails,
       EnterUnit, Enters, EndRepo, Report, Goes, ReadingOK

\* One unit is entered in the report.
LEMMA EntersOne ==
  ASSUME TypeOK, ReadingOK, EnterUnit \/ \E u \in Units : ShowFails(u)
  PROVE  /\ step = "show" /\ step' = "show"
         /\ UNCHANGED <<todo, repos, warned, world>> /\ Observe
         /\ \E u \in toShow :
              /\ toShow' = toShow \ {u}
              /\ \/ services' = [services EXCEPT ![u] = Unknown] /\ failed' = TRUE
                 \/ /\ reading # None /\ u = reading.unit
                    /\ services' = [services EXCEPT ![u] = Service(reading)]
BY DEF EnterUnit, ShowFails, Enters, Fails, ReadingOK, Telling

\* Checkouts come, refs go on, and what becomes active runs what is loaded.
LEMMA WorldGoesOn ==
  ASSUME TypeOK, WorldOK, World
  PROVE  /\ UNCHANGED <<run, report, failed, sameUrl>> /\ step # "done" /\ git \subseteq git'
         /\ now' \in {now, now + 1}
         /\ \A r \in Repos : track[r] <= track'[r] /\ upstream[r] <= upstream'[r]
         /\ \A u \in Units : \/ unit'[u] = unit[u]
                             \/ unit'[u].active # "active" \/ running'[u] = loaded'[u]
<1> USE DEF TypeOK, WorldTyped, WorldOK
<1>1. UNCHANGED <<run, report, failed>> /\ step # "done" /\ now' \in {now, now + 1}
  BY WorldHappens
<1>2. ASSUME NEW r \in Repos, CloneDone(r) \/ SyncFetches(r) \/ SyncMoves(r) \/ Push(r)
      PROVE  /\ sameUrl' = sameUrl /\ git \subseteq git' /\ unit' = unit
             /\ \A q \in Repos : track[q] <= track'[q] /\ upstream[q] <= upstream'[q]
  <2>1. sameUrl' = sameUrl /\ git \subseteq git' /\ unit' = unit
    BY <1>2 DEF CloneDone, SyncFetches, SyncMoves, Push
  <2>2. \A q \in Repos : track'[q] \in {track[q], upstream[q]}
    BY <1>2 DEF CloneDone, SyncFetches, SyncMoves, Push
  <2>3. \A q \in Repos : upstream'[q] \in {upstream[q], upstream[q] + 1}
    BY <1>2 DEF CloneDone, SyncFetches, SyncMoves, Push
  <2>4. QED
    BY <2>1, <2>2, <2>3
<1>3. CASE ReloadBegins \/ ReloadEnds \/ ClockSteps
  BY <1>1, <1>3 DEF ReloadBegins, ReloadEnds, ClockSteps, refs
<1>4. ASSUME NEW u \in Units, Starts(u) \/ Crashes(u)
      PROVE  /\ UNCHANGED <<sameUrl, git, track, upstream>>
             /\ \A v \in Units : \/ unit'[v] = unit[v]
                                 \/ unit'[v].active # "active" \/ running'[v] = loaded'[v]
  <2>1. UNCHANGED <<sameUrl, git, track, upstream, loaded>>
    BY <1>4 DEF Starts, Crashes, refs
  <2>2. PICK a \in {"active", "activating", "inactive"},
             n \in {0, unit[u].restarts, unit[u].restarts + 1} : Becomes(u, a, n)
    BY <1>4 DEF Starts, Crashes
  <2>3. \A v \in Units \ {u} : unit'[v] = unit[v]
    BY <2>2 DEF Becomes
  <2>4. unit'[u].active # "active" \/ running'[u] = loaded'[u]
    BY <1>4, <2>1 DEF Starts, Crashes, Becomes, Runs
  <2>5. QED
    BY <2>1, <2>3, <2>4
<1>5. QED
  BY <1>1, <1>2, <1>3, <1>4 DEF World

\* What is wrong with a repository or a unit, before and after a step.
LEMMA BadFacts ==
  /\ \A r : <<r, "astray">> \in BadRepos(target) \cup BadUnits =>
       r \in Repos /\ (r \notin git \/ r \notin sameUrl \/ head[r] < target[r])
  /\ \A u : <<u, "down">> \in BadRepos(target) \cup BadUnits =>
       u \in Managed /\ unit[u].active # "active"
  /\ \A u : <<u, "unloaded">> \in BadRepos(target) \cup BadUnits =>
       u \in Managed /\ loaded[u] \notin {None, text[u]}
  /\ \A u : <<u, "outdated">> \in BadRepos(target) \cup BadUnits =>
       u \in Managed /\ Outdated(u)
BY DEF BadRepos, BadUnits

LEMMA BadFactsNext ==
  /\ \A r : <<r, "astray">> \in (BadRepos(target) \cup BadUnits)' =>
       r \in Repos /\ (r \notin git' \/ r \notin sameUrl' \/ head'[r] < target'[r])
  /\ \A u : <<u, "down">> \in (BadRepos(target) \cup BadUnits)' =>
       u \in Managed' /\ unit'[u].active # "active"
  /\ \A u : <<u, "unloaded">> \in (BadRepos(target) \cup BadUnits)' =>
       u \in Managed' /\ loaded'[u] \notin {None, text'[u]}
  /\ \A u : <<u, "outdated">> \in (BadRepos(target) \cup BadUnits)' =>
       u \in Managed' /\ Outdated(u)'
BY DEF BadRepos, BadUnits

-----------------------------------------------------------------------------
(* The world *)

LEMMA WorldOKStep ==
  ASSUME TypeOK, WorldOK, [Next]_vars
  PROVE  WorldOK'
<1> USE DEF TypeOK, WorldTyped
<1>1. CASE Begin \/ UNCHANGED vars
  BY <1>1 DEF Begin, vars, world, refs, clock, WorldOK, Outdated
<1>2. CASE StatusStep /\ ~Begin
  BY <1>2, RunLooks DEF WorldOK, Outdated
<1>3. CASE World
  <2>1. now' \in {now, now + 1} /\ now \in Nat /\ \A u \in Units : unit[u].since \in Nat
    BY <1>3, WorldGoesOn DEF UnitStates
  <2>2. ASSUME NEW r \in Repos, CloneDone(r) \/ SyncFetches(r) \/ SyncMoves(r) \/ Push(r)
        PROVE  WorldOK'
    <3>1. UNCHANGED <<unit, running, loaded, mtime, skew, set>>
      BY <2>2 DEF CloneDone, SyncFetches, SyncMoves, Push, clock
    <3>2. \A q \in Repos : head'[q] <= track'[q] /\ track'[q] <= upstream'[q]
      <4>1. CASE CloneDone(r)
        BY <4>1 DEF CloneDone, WorldOK
      <4>2. CASE SyncFetches(r)
        BY <4>2 DEF SyncFetches, WorldOK
      <4>3. CASE SyncMoves(r)
        BY <4>3 DEF SyncMoves, WorldOK
      <4>4. CASE Push(r)
        BY <4>4 DEF Push, WorldOK
      <4>5. QED
        BY <2>2, <4>1, <4>2, <4>3, <4>4
    <3>3. QED
      BY <2>1, <3>1, <3>2 DEF WorldOK, Outdated
  <2>3. CASE ReloadBegins
    <3>1. UNCHANGED <<head, track, upstream, unit, set, now>> /\ \A u \in Units : mtime'[u] = None
      BY <2>3 DEF ReloadBegins, refs, clock
    <3>2. QED
      BY <3>1 DEF WorldOK, Outdated
  <2>4. CASE ReloadEnds
    <3>1. /\ UNCHANGED <<head, track, upstream, unit, set, skew>> /\ now' = now + 1
          /\ \A u \in Units : mtime'[u] \in {now' + skew, None}
      BY <2>4 DEF ReloadEnds, Happens, refs, clock
    <3>2. QED
      BY <2>1, <3>1 DEF WorldOK, Outdated
  <2>5. CASE ClockSteps
    <3>1. UNCHANGED <<head, track, upstream, unit>> /\ now' = now + 1 /\ set' = now'
      BY <2>5 DEF ClockSteps, Happens, refs
    <3>2. QED
      BY <2>1, <3>1 DEF WorldOK, Outdated
  <2>6. ASSUME NEW u \in Units, Starts(u) \/ Crashes(u) PROVE WorldOK'
    <3>1. UNCHANGED <<head, track, upstream, loaded, mtime, skew, set>>
      BY <2>6 DEF Starts, Crashes, refs, clock
    <3>2. PICK a \in {"active", "activating", "inactive"},
               n \in {0, unit[u].restarts, unit[u].restarts + 1} : Becomes(u, a, n)
      BY <2>6 DEF Starts, Crashes
    <3>3. /\ \A v \in Units \ {u} : unit'[v] = unit[v] /\ running'[v] = running[v]
          /\ unit'[u].since = now'
      BY <2>6, <3>2 DEF Becomes, Starts, Crashes, Runs
    <3>4. unit'[u].active = "active" => running'[u] = loaded'[u]
      BY <2>6 DEF Starts, Crashes, Becomes, Runs
    <3>5. QED
      BY <2>1, <3>1, <3>3, <3>4 DEF WorldOK, Outdated
  <2>7. QED
    BY <1>3, <2>2, <2>3, <2>4, <2>5, <2>6 DEF World
<1>4. QED
  BY <1>1, <1>2, <1>3 DEF Next

LEMMA TargetStep ==
  ASSUME TypeOK, WorldOK, TargetOK, ReadingOK, [Next]_vars
  PROVE  TargetOK'
<1> USE DEF TypeOK, WorldTyped, RunTyped
<1>1. CASE Begin
  BY <1>1 DEF Begin, world, refs, clock, WorldOK, TargetOK
<1>2. CASE Fetch
  <2>1. Head(todo) \in Repos /\ todo' = todo
    BY <1>2, HeadTyped DEF Fetch, Goes
  <2>2. /\ step = "fetch" /\ step' \in {"count", "units"}
        /\ step' = "count" /\ fetches => track'[Head(todo)] = upstream[Head(todo)]
        /\ \A r \in Repos : track'[r] \in {track[r], upstream[r]}
        /\ ~fetches => track' = track
        /\ UNCHANGED <<target, fetches, upstream, began, now, skew, set>>
    BY <1>2, <2>1 DEF Fetch, Goes, clock
  <2>3. \A r \in Repos : /\ fetches => target[r] <= upstream[r]
                         /\ ~fetches => target[r] <= track[r]
    BY <2>2 DEF TargetOK
  <2>4. \A r \in Repos : target[r] <= IF fetches THEN upstream[r] ELSE track'[r]
    BY <2>2, <2>3
  <2>5. step' = "count" => target[Head(todo)] <= track'[Head(todo)]
    BY <2>1, <2>2, <2>3
  <2>6. QED
    BY <2>1, <2>2, <2>4, <2>5 DEF TargetOK
<1>3. CASE StatusStep /\ ~Begin /\ ~Fetch
  <2>1. UNCHANGED <<target, fetches, upstream, began, now, skew, set>>
    BY <1>3, RunLooks
  <2>2. step # "idle"
    BY <1>3, RunGoes
  <2>3. step' # "count" /\ track' = track
    <3>1. CASE EnterUnit \/ \E u \in Units : ShowFails(u)
      BY <3>1, EntersOne DEF world, refs
    <3>2. CASE ~EnterUnit /\ ~ \E u \in Units : ShowFails(u)
      BY <1>3, <3>2 DEF StatusStep, LookAtRepo, RefuseRepo, ReadUrl, Count, ListUnits,
                        ShowUnit, EndRepo, Report, Goes, world, refs
    <3>3. QED
      BY <3>1, <3>2
  <2>4. QED
    BY <2>1, <2>2, <2>3 DEF TargetOK
<1>4. CASE World
  <2>1. UNCHANGED <<step, fetches, todo, target, began>>
    BY <1>4, WorldGoesOn DEF run
  <2>2. step = "count" => Head(todo) \in Repos
    BY HeadTyped
  <2>3. /\ \A r \in Repos : track[r] <= track'[r] /\ upstream[r] <= upstream'[r]
        /\ now' \in {now, now + 1} /\ track' \in [Repos -> Nat] /\ upstream' \in [Repos -> Nat]
    BY <1>4, WorldGoesOn, WorldTypeStep
  <2>4. step # "idle" => \A r \in Repos : target'[r] <= IF fetches' THEN upstream'[r] ELSE track'[r]
    <3>1. ASSUME step # "idle", NEW r \in Repos, fetches PROVE target[r] <= upstream'[r]
      BY <2>3, <3>1 DEF TargetOK
    <3>2. ASSUME step # "idle", NEW r \in Repos, ~fetches PROVE target[r] <= track'[r]
      BY <2>3, <3>2 DEF TargetOK
    <3>3. QED
      BY <2>1, <3>1, <3>2
  <2>5. step = "count" => target[Head(todo)] <= track'[Head(todo)]
    BY <2>2, <2>3 DEF TargetOK
  <2>6. UNCHANGED <<skew, set>> \/ set' = now + 1
    BY <1>4 DEF World, CloneDone, SyncFetches, SyncMoves, Push, ReloadBegins, ReloadEnds,
                ClockSteps, Starts, Crashes, Happens, clock
  <2>7. step # "idle" => /\ began'.mono <= now'
                         /\ set' <= began'.mono => began'.wall = began'.mono + skew'
    <3>1. began.mono \in Nat
      OBVIOUS
    <3>2. QED
      BY <2>1, <2>3, <2>6, <3>1 DEF TargetOK
  <2>8. QED
    BY <2>1, <2>4, <2>5, <2>7 DEF TargetOK
<1>5. CASE UNCHANGED vars
  BY <1>5 DEF vars, run, world, refs, clock, TargetOK
<1>6. QED
  BY <1>1, <1>2, <1>3, <1>4, <1>5 DEF Next
-----------------------------------------------------------------------------
(* The report *)

\* What is said of a repository is entered at its name and nowhere else.
LEMMA SaysOne ==
  ASSUME TypeOK, OnceEach, todo # <<>>, NEW s,
         repos' = [repos EXCEPT ![Head(todo)] = s]
  PROVE  /\ repos'[Head(todo)] = s
         /\ \A i \in 2..Len(todo) : repos'[todo[i]] = None
         /\ \A r \in Repos \ {Head(todo)} : repos'[r] = repos[r]
<1>1. Head(todo) \in Repos /\ Head(todo) = todo[1] /\ 1 \in 1..Len(todo)
  BY HeadTyped DEF TypeOK, RunTyped
<1>2. \A r \in Repos : repos'[r] = IF r = Head(todo) THEN s ELSE repos[r]
  BY <1>1 DEF TypeOK, RunTyped
<1>3. ASSUME NEW i \in 2..Len(todo) PROVE repos'[todo[i]] = None
  <2>1. i \in 1..Len(todo) /\ i # 1 /\ todo[i] \in Repos
    BY <1>1 DEF TypeOK, RunTyped
  <2>2. todo[i] # todo[1]
    BY <1>1, <2>1 DEF OnceEach
  <2>3. repos[todo[i]] = None
    BY <2>1 DEF OnceEach, Entered
  <2>4. QED
    BY <1>1, <1>2, <2>1, <2>2, <2>3
<1>4. QED
  BY <1>1, <1>2, <1>3

\* Going on to the next repository.
LEMMA NextRepo ==
  ASSUME TypeOK, OnceEach, todo # <<>>, todo' = Tail(todo), step' = "repo",
         \A i \in 2..Len(todo) : repos'[todo[i]] = None,
         toShow' = {}
  PROVE  OnceEach'
<1>1. /\ Len(todo) \in Nat /\ Len(todo') = Len(todo) - 1
      /\ \A i \in 1..Len(todo') : todo'[i] = todo[i + 1] /\ i + 1 \in 1..Len(todo)
                                  /\ i + 1 \in 2..Len(todo)
  BY HeadTyped DEF TypeOK, RunTyped
<1>2. \A i, j \in 1..Len(todo') : todo'[i] = todo'[j] => i = j
  <2> SUFFICES ASSUME NEW i \in 1..Len(todo'), NEW j \in 1..Len(todo'), todo'[i] = todo'[j]
               PROVE  i = j
    OBVIOUS
  <2>1. i + 1 = j + 1
    BY <1>1 DEF OnceEach
  <2>2. i \in Int /\ j \in Int
    BY <1>1
  <2>3. QED
    BY <2>1, <2>2
<1>3. \A i \in 1..Len(todo') : repos'[todo'[i]] = None
  BY <1>1
<1>4. QED
  BY <1>2, <1>3 DEF OnceEach, Entered

LEMMA OnceStep ==
  ASSUME TypeOK, WorldOK, OnceEach, ReadingOK, [Next]_vars
  PROVE  OnceEach'
<1> USE DEF Goes
<1>1. CASE Begin
  <2>1. /\ step = "idle" /\ step' = "repo" /\ todo' = RepoOrder
        /\ UNCHANGED <<toShow, repos, services>>
    BY <1>1 DEF Begin, report
  <2>2. DOMAIN RepoOrder = 1..Len(RepoOrder) /\ \A i \in 1..Len(RepoOrder) : RepoOrder[i] \in Repos
    BY ConstantsOK
  <2>3. \A i, j \in 1..Len(RepoOrder) : RepoOrder[i] = RepoOrder[j] => i = j
    BY <2>2, ConstantsOK DEF IsInjective
  <2>4. QED
    BY <2>1, <2>2, <2>3 DEF OnceEach, Entered
<1>2. ASSUME step' = "units", todo # <<>>, UNCHANGED <<todo, toShow, services>>,
             step \notin {"idle", "show"},
             NEW s, repos' = [repos EXCEPT ![Head(todo)] = s]
      PROVE  OnceEach'
  <2>1. \A i \in 1..Len(todo) : i = 1 \/ i \in 2..Len(todo)
    BY DEF TypeOK, RunTyped
  <2>2. toShow = {}
    BY <1>2 DEF OnceEach
  <2>3. \A i \in 2..Len(todo) : repos'[todo[i]] = None
    BY <1>2, SaysOne
  <2>4. QED
    BY <1>2, <2>1, <2>2, <2>3 DEF OnceEach, Entered
<1>3. ASSUME step' \in {"url", "fetch", "count"}, step \notin {"idle", "show", "units"},
             UNCHANGED <<todo, toShow, repos, services>>
      PROVE  OnceEach'
  BY <1>3 DEF OnceEach, Entered
<1>4. CASE LookAtRepo \/ ReadUrl \/ Fetch \/ Count
  <2>1. todo # <<>> /\ step \in {"repo", "url", "fetch", "count"}
    BY <1>4 DEF LookAtRepo, ReadUrl, Fetch, Count, TypeOK, RunTyped
  <2>2. \/ step' = "units" /\ \E s : repos' = [repos EXCEPT ![Head(todo)] = s]
        \/ step' \in {"url", "fetch", "count"} /\ repos' = repos
    BY <1>4 DEF LookAtRepo, ReadUrl, Fetch, Count, Says, report
  <2>3. UNCHANGED <<todo, toShow, services>>
    BY <1>4 DEF LookAtRepo, ReadUrl, Fetch, Count, Says, report
  <2>4. QED
    BY <1>2, <1>3, <2>1, <2>2, <2>3
<1>5. CASE RefuseRepo
  <2>1. /\ todo # <<>> /\ step = "repo" /\ step' = step /\ todo' = Tail(todo)
        /\ repos' = [repos EXCEPT ![Head(todo)] = "error"] /\ toShow' = toShow
    BY <1>5 DEF RefuseRepo, Says
  <2>2. toShow' = {}
    BY <2>1 DEF OnceEach
  <2>3. QED
    BY <2>1, <2>2, SaysOne, NextRepo
<1>6. CASE ListUnits
  <2>1. /\ step = "units" /\ step' = "show" /\ UNCHANGED <<todo, repos, services, git>>
        /\ todo # <<>> /\ Head(todo) \in Repos
    BY <1>6, HeadTyped DEF ListUnits, world, refs, TypeOK, RunTyped
  <2>2. \A u \in toShow' : services[u] = None /\ Head(todo) \in git /\ u \in UnitsOf[Head(todo)]
    BY <1>6 DEF ListUnits
  <2>3. \A u \in toShow' : services'[u] = None /\ u \in Managed'
    BY <2>1, <2>2 DEF Managed
  <2>4. QED
    BY <2>1, <2>3 DEF OnceEach, Entered
<1>7. CASE EnterUnit \/ \E u \in Units : ShowFails(u)
  <2>1. PICK u \in toShow : toShow' = toShow \ {u} /\ \E v : services' = [services EXCEPT ![u] = v]
    BY <1>7, EntersOne
  <2>2. step = "show" /\ step' = "show" /\ UNCHANGED <<todo, repos, git>>
    BY <1>7, EntersOne DEF world, refs
  <2>3. toShow \subseteq Units /\ Managed' = Managed
        /\ \A v \in Units \ {u} : services'[v] = services[v]
    BY <2>1, <2>2 DEF TypeOK, RunTyped, Managed
  <2>4. QED
    BY <2>1, <2>2, <2>3 DEF OnceEach, Entered
<1>8. ASSUME NEW u \in Units, ShowUnit(u) PROVE OnceEach'
  BY <1>8 DEF ShowUnit, report, world, refs, OnceEach, Entered, Managed
<1>9. CASE EndRepo
  <2>1. /\ todo # <<>> /\ step = "show" /\ step' = "repo" /\ todo' = Tail(todo)
        /\ repos' = repos /\ toShow' = {} /\ Len(todo) \in Nat
    BY <1>9 DEF EndRepo, report, TypeOK, RunTyped
  <2>2. \A i \in 2..Len(todo) : i \in 1..Len(todo) /\ ~ Entered(i)
    BY <2>1 DEF Entered
  <2>3. QED
    BY <2>1, <2>2, NextRepo DEF OnceEach
<1>10. CASE Report
  BY <1>10 DEF Report, report, OnceEach, Entered
<1>11. CASE World
  <2>1. UNCHANGED <<step, todo, toShow, repos, services>> /\ Managed \subseteq Managed'
    BY <1>11, WorldGoesOn DEF run, report, Managed
  <2>2. QED
    BY <2>1 DEF OnceEach, Entered
<1>12. CASE UNCHANGED vars
  BY <1>12 DEF vars, run, report, world, refs, OnceEach, Entered, Managed
<1>13. QED
  BY <1>1, <1>4, <1>5, <1>6, <1>7, <1>9, <1>10, <1>11, <1>12, <1>8 DEF Next, StatusStep

LEMMA FoundStep ==
  ASSUME TypeOK, WorldOK, FoundOK, ReadingOK, [Next]_vars
  PROVE  FoundOK'
<1>1. CASE LookAtRepo \/ ReadUrl \/ Fetch
  BY <1>1 DEF LookAtRepo, ReadUrl, Fetch, Goes, world, refs, FoundOK
<1>2. CASE StatusStep /\ step' \notin {"url", "fetch", "count"}
  BY <1>2 DEF FoundOK
<1>3. CASE World
  BY <1>3, WorldGoesOn DEF run, FoundOK
<1>4. CASE UNCHANGED vars
  BY <1>4 DEF vars, run, world, refs, FoundOK
<1>5. QED
  BY <1>1, <1>2, <1>3, <1>4 DEF Next, StatusStep, Begin, RefuseRepo, Count, ListUnits,
     ShowUnit, ShowFails, EnterUnit, Enters, EndRepo, Report, Goes, ReadingOK

-----------------------------------------------------------------------------
(* Trouble that lasts *)

\* What has been entered in the report stays as it is.
LEMMA ReportGrows ==
  ASSUME TypeOK, OnceEach, ReadingOK, [Next]_vars
  PROVE  /\ \A r \in Repos : repos[r] # None => repos'[r] = repos[r]
         /\ \A u \in Units : services[u] # None => services'[u] = services[u]
<1>1. ASSUME step \in {"repo", "url", "fetch", "count"}, todo # <<>>, services' = services,
             NEW s, repos' = [repos EXCEPT ![Head(todo)] = s]
      PROVE  /\ \A r \in Repos : repos[r] # None => repos'[r] = repos[r]
             /\ \A u \in Units : services[u] # None => services'[u] = services[u]
  <2>1. Head(todo) = todo[1] /\ 1 \in 1..Len(todo)
    BY <1>1, HeadTyped DEF TypeOK, RunTyped
  <2>2. repos[Head(todo)] = None
    BY <1>1, <2>1 DEF OnceEach, Entered
  <2>3. QED
    BY <1>1, <2>2, SaysOne
<1>2. CASE LookAtRepo \/ RefuseRepo \/ ReadUrl \/ Fetch \/ Count
  <2>1. /\ step \in {"repo", "url", "fetch", "count"} /\ todo # <<>> /\ services' = services
        /\ repos' = repos \/ \E s : repos' = [repos EXCEPT ![Head(todo)] = s]
    BY <1>2 DEF LookAtRepo, RefuseRepo, ReadUrl, Fetch, Count, Says, report, TypeOK, RunTyped
  <2>2. QED
    BY <1>1, <2>1
<1>3. CASE EnterUnit \/ \E u \in Units : ShowFails(u)
  <2>1. PICK u \in toShow : \E v : services' = [services EXCEPT ![u] = v]
    BY <1>3, EntersOne
  <2>2. services[u] = None
    BY DEF OnceEach
  <2>3. repos' = repos /\ \A v \in Units \ {u} : services'[v] = services[v]
    BY <1>3, <2>1, EntersOne DEF TypeOK, RunTyped
  <2>4. QED
    BY <2>2, <2>3
<1>4. CASE Begin \/ ListUnits \/ EndRepo \/ Report \/ UNCHANGED vars \/ \E u \in Units : ShowUnit(u)
  BY <1>4 DEF Begin, ListUnits, EndRepo, Report, ShowUnit, vars, report
<1>5. CASE World
  BY <1>5, WorldHappens DEF report
<1>6. QED
  BY <1>2, <1>3, <1>4, <1>5 DEF Next, StatusStep

LEMMA AlarmStays ==
  ASSUME TypeOK, OnceEach, ReadingOK, [Next]_vars, Alarm
  PROVE  Alarm'
BY ReportGrows DEF Alarm

\* A unit in trouble is shown as a problem, whatever has happened since systemctl was asked.
LEMMA TroubleShows ==
  ASSUME TypeOK, WorldOK, TargetOK, ReadingOK, TroubleOK, reading # None,
         NEW why \in {"down", "unloaded", "outdated"}, <<reading.unit, why>> \in wrong
  PROVE  ServiceProblem(Service(reading))
<1> DEFINE u == reading.unit
<1>1. CASE why \in {"down", "unloaded"}
  BY <1>1 DEF ReadingOK, Telling, ServiceProblem, Service
<1>2. CASE why = "outdated"
  <2>1. u \in Units /\ step = "show"
    BY DEF TypeOK, RunTyped, Readings, ReadingOK
  <2>2. /\ reading.path /\ reading.active = "active" /\ reading.since = unit[u].since
        /\ Outdated(u) /\ unit[u].since <= began.mono
    BY <1>2, <2>1, BadFacts DEF ReadingOK, Telling, TroubleOK
  <2>3. /\ reading.since \in Nat /\ began.mono \in Nat /\ began.wall \in Int /\ skew \in Int
        /\ set \in Nat /\ mtime[u] \in Int
    BY <2>1, <2>2 DEF TypeOK, WorldTyped, RunTyped, Readings, Outdated
  <2>4. mtime[u] > reading.since + skew /\ began.wall = began.mono + skew
    BY <2>1, <2>2, <2>3 DEF WorldOK, TargetOK, Outdated
  <2>5. Uptime(reading) = began.mono - reading.since /\ Uptime(reading) \in Int
    BY <2>2, <2>3 DEF Uptime
  <2>6. mtime[u] > began.wall - Uptime(reading)
    BY <2>3, <2>4, <2>5
  <2>7. FragmentNewer(reading)
    BY <2>2, <2>3, <2>5, <2>6, ConstantsOK DEF FragmentNewer
  <2>8. QED
    BY <2>2, <2>7 DEF ServiceProblem, Service
<1>3. QED
  BY <1>1, <1>2

\* When the run has found out what a repository's state is, it reports it if it is
\* lost, misdirected or behind.
LEMMA AstrayIsEntered ==
  ASSUME TypeOK, WorldOK, TargetOK, OnceEach, FoundOK,
         LookAtRepo \/ ReadUrl \/ Fetch \/ Count, step' = "units",
         <<Head(todo), "astray">> \in wrong'
  PROVE  Alarm'
<1>1. todo # <<>> /\ Head(todo) \in Repos
  BY HeadTyped DEF LookAtRepo, ReadUrl, Fetch, Count, TypeOK, RunTyped
<1>2. ASSUME NEW s \in RepoStates, RepoProblem(s), repos' = [repos EXCEPT ![Head(todo)] = s]
      PROVE  Alarm'
  BY <1>1, <1>2, SaysOne, ConstantsOK DEF Alarm
<1>3. CASE \E s \in {"missing", "url-mismatch", "error"} : Says(s)
  BY <1>2, <1>3 DEF Says, RepoStates, RepoProblem
<1>4. CASE Count /\ repos' = [repos EXCEPT ![Head(todo)] = Counted(Head(todo))]
  <2>1. Observe /\ ~Begin /\ StatusStep
    BY <1>4 DEF Count, StatusStep, Begin
  <2>2. Head(todo) \notin git \/ Head(todo) \notin sameUrl \/ head[Head(todo)] < target[Head(todo)]
    BY <2>1, ObserveKeeps, BadFactsNext, RunLooks
  <2>3. head[Head(todo)] < target[Head(todo)] /\ target[Head(todo)] <= track[Head(todo)]
    BY <1>4, <2>2 DEF FoundOK, TargetOK, Count
  <2>4. head[Head(todo)] # track[Head(todo)]
    BY <1>1, <2>3 DEF TypeOK, WorldTyped, RunTyped
  <2>5. Counted(Head(todo)) \in {"behind", "diverged"}
    BY <2>4 DEF Counted
  <2>6. QED
    BY <1>2, <1>4, <2>5 DEF RepoStates, RepoProblem
<1>5. QED
  BY <1>3, <1>4 DEF LookAtRepo, ReadUrl, Fetch, Count, Goes

\* Going on to the next repository leaves what is still to be done.
LEMMA StillToDo ==
  ASSUME TypeOK, todo # <<>>, todo' = Tail(todo), step' = "repo", UNCHANGED git
  PROVE  /\ \A r \in Repos : ToBeEntered(r) /\ r # Head(todo) => ToBeEntered(r)'
         /\ step \in {"units", "show"} => \A r \in Repos : ToBeEntered(r) => ToBeEntered(r)'
         /\ step = "show" => \A u \in Units : ToBeListed(u) => ToBeListed(u)'
<1>1. /\ Len(todo) \in Nat /\ Head(todo) = todo[1]
      /\ \A i \in 2..Len(todo) : i - 1 \in 1..Len(todo') /\ todo'[i - 1] = todo[i]
  BY HeadTyped DEF TypeOK, RunTyped
<1>2. \A i \in 1..Len(todo) : i # 1 => i \in 2..Len(todo)
  BY <1>1
<1>3. ASSUME NEW r \in Repos, NEW i \in 2..Len(todo), todo[i] = r
      PROVE  ToBeEntered(r)'
  BY <1>1, <1>3 DEF ToBeEntered, Entered
<1>4. ASSUME NEW r \in Repos, ToBeEntered(r), r # Head(todo) \/ step \in {"units", "show"}
      PROVE  ToBeEntered(r)'
  BY <1>1, <1>2, <1>3, <1>4 DEF ToBeEntered, Entered
<1>5. ASSUME NEW u \in Units, step = "show", ToBeListed(u) PROVE ToBeListed(u)'
  <2>1. PICK i \in 1..Len(todo) : i # 1 /\ todo[i] \in git /\ u \in UnitsOf[todo[i]]
    BY <1>5 DEF ToBeListed
  <2>2. i - 1 \in 1..Len(todo') /\ todo'[i - 1] = todo[i]
    BY <1>1, <1>2, <2>1
  <2>3. QED
    BY <2>1, <2>2 DEF ToBeListed
<1>6. QED
  BY <1>4, <1>5

\* Trouble with a repository is reported, or still to be found.
LEMMA AstrayStep ==
  ASSUME TypeOK, WorldOK, TargetOK, OnceEach, FoundOK, ReadingOK, TroubleOK, [Next]_vars,
         step' # "done", ~Alarm', NEW r \in Repos, <<r, "astray">> \in wrong'
  PROVE  ToBeEntered(r)'
<1>1. ~Alarm
  BY AlarmStays
<1>2. CASE Begin
  <2>1. PICK i \in 1..Len(RepoOrder) : RepoOrder[i] = r
    BY ConstantsOK DEF Repos, Range
  <2>2. todo' = RepoOrder /\ step' = "repo"
    BY <1>2 DEF Begin
  <2>3. QED
    BY <2>1, <2>2 DEF ToBeEntered, Entered
<1>3. ASSUME ~Begin, StatusStep \/ World PROVE ToBeEntered(r)
  <2>1. Observe /\ step # "done"
    BY <1>3, RunLooks, RunGoes, WorldHappens
  <2>2. <<r, "astray">> \in wrong
    BY <2>1, ObserveKeeps
  <2>3. QED
    BY <1>1, <2>1, <2>2 DEF TroubleOK
<1>4. CASE LookAtRepo \/ ReadUrl \/ Fetch \/ Count
  <2>1. ToBeEntered(r)
    BY <1>3, <1>4 DEF LookAtRepo, ReadUrl, Fetch, Count, Begin, StatusStep
  <2>2. PICK i \in 1..Len(todo) : todo[i] = r /\ ~Entered(i)
    BY <2>1 DEF ToBeEntered
  <2>3. todo' = todo /\ step' \in {"url", "fetch", "count", "units"} /\ todo # <<>>
    BY <1>4 DEF LookAtRepo, ReadUrl, Fetch, Count, Goes, TypeOK, RunTyped
  <2>4. i = 1 => step' # "units"
    BY <1>4, <2>2, <2>3, AstrayIsEntered, HeadTyped DEF TypeOK, RunTyped
  <2>5. QED
    BY <2>2, <2>3, <2>4 DEF ToBeEntered, Entered
<1>5. CASE RefuseRepo
  <2>1. /\ todo # <<>> /\ step = "repo" /\ step' = "repo" /\ todo' = Tail(todo) /\ git' = git
        /\ repos' = [repos EXCEPT ![Head(todo)] = "error"]
    BY <1>5 DEF RefuseRepo, Says, world, refs
  <2>2. Alarm'
    <3>1. repos'[Head(todo)] = "error" /\ Head(todo) \in Repos
      BY <2>1, SaysOne, HeadTyped DEF TypeOK, RunTyped
    <3>2. QED
      BY <3>1, ConstantsOK DEF Alarm, RepoProblem, RepoStates
  <2>3. QED
    BY <2>2
<1>6. CASE EndRepo
  <2>1. ToBeEntered(r)
    BY <1>3, <1>6 DEF EndRepo, Begin, StatusStep
  <2>2. todo # <<>> /\ step = "show" /\ step' = "repo" /\ todo' = Tail(todo) /\ git' = git
    BY <1>6 DEF EndRepo, world, refs, TypeOK, RunTyped
  <2>3. QED
    BY <2>1, <2>2, StillToDo
<1>7. CASE ListUnits
  <2>1. ToBeEntered(r)
    BY <1>3, <1>7 DEF ListUnits, Begin, StatusStep
  <2>2. step = "units" /\ step' = "show" /\ todo' = todo
    BY <1>7 DEF ListUnits
  <2>3. QED
    BY <2>1, <2>2 DEF ToBeEntered, Entered
<1>8. CASE EnterUnit \/ \E u \in Units : ShowUnit(u) \/ ShowFails(u)
  <2>1. step = "show" /\ step' = "show" /\ todo' = todo
    BY <1>8, EntersOne DEF ShowUnit
  <2>2. ToBeEntered(r)
    BY <1>3, <1>8, <2>1 DEF StatusStep, Begin
  <2>3. QED
    BY <2>1, <2>2 DEF ToBeEntered, Entered
<1>9. CASE World
  <2>1. step' = step /\ todo' = todo
    BY <1>9, WorldHappens DEF run
  <2>2. ~Begin
    BY <2>1 DEF Begin
  <2>3. QED
    BY <1>3, <1>9, <2>1, <2>2 DEF ToBeEntered, Entered
<1>10. CASE UNCHANGED vars
  BY <1>1, <1>10 DEF vars, run, TroubleOK, ToBeEntered, Entered
<1>11. QED
  BY <1>2, <1>4, <1>5, <1>6, <1>7, <1>8, <1>9, <1>10 DEF Next, StatusStep, Report

\* A step other than the first does not add to the trouble.
LEMMA TroubleWasThere ==
  ASSUME TypeOK, WorldOK, ReadingOK, TroubleOK, [Next]_vars, ~Begin
  PROVE  /\ wrong' \subseteq wrong
         /\ UNCHANGED vars \/ (step # "done" /\ Observe)
<1>1. CASE StatusStep
  BY <1>1, RunLooks, RunGoes, ObserveKeeps
<1>2. CASE World
  BY <1>2, WorldHappens, ObserveKeeps
<1>3. CASE UNCHANGED vars
  BY <1>3 DEF vars
<1>4. QED
  BY <1>1, <1>2, <1>3 DEF Next

\* Trouble with a unit is reported, or still to be shown.
LEMMA UnitStep ==
  ASSUME TypeOK, WorldOK, TargetOK, OnceEach, FoundOK, ReadingOK, TroubleOK, [Next]_vars,
         step' # "done", ~Alarm',
         NEW u \in Units, NEW why \in {"down", "unloaded", "outdated"}, <<u, why>> \in wrong'
  PROVE  services'[u] = None /\ (u \in toShow' \/ ToBeListed(u)')
<1>1. ~Alarm
  BY AlarmStays
<1>2. CASE Begin
  <2>1. <<u, why>> \in (BadRepos(target) \cup BadUnits)'
    BY <1>2 DEF Begin, world, refs, clock, BadRepos, BadUnits, Managed, Outdated
  <2>2. u \in Managed'
    BY <2>1, BadFactsNext
  <2>3. /\ step = "idle" /\ todo' = RepoOrder /\ step' = "repo" /\ git' = git
        /\ services' = services
    BY <1>2 DEF Begin, world, refs, report
  <2>4. PICK r \in git : u \in UnitsOf[r]
    BY <2>2, <2>3 DEF Managed
  <2>5. PICK i \in 1..Len(RepoOrder) : RepoOrder[i] = r
    BY <2>4, ConstantsOK DEF Repos, Range, TypeOK, WorldTyped
  <2>6. QED
    BY <2>3, <2>4, <2>5 DEF ToBeListed, OnceEach
<1>3. ASSUME ~Begin, step' # "done"
      PROVE  /\ step # "done" /\ <<u, why>> \in wrong
             /\ services[u] = None /\ (u \in toShow \/ ToBeListed(u))
  <2>1. step # "done" /\ <<u, why>> \in wrong
    BY <1>3, TroubleWasThere DEF vars, run
  <2>2. QED
    BY <1>1, <2>1 DEF TroubleOK
<1>4. CASE LookAtRepo \/ ReadUrl \/ Fetch \/ Count
  <2>1. ~Begin /\ step \in {"repo", "url", "fetch", "count"}
    BY <1>4 DEF LookAtRepo, ReadUrl, Fetch, Count, Begin
  <2>2. /\ UNCHANGED <<todo, toShow, git, services>>
        /\ step' \in {"url", "fetch", "count", "units"}
    BY <1>4 DEF LookAtRepo, ReadUrl, Fetch, Count, Goes, Says, report, world, refs
  <2>3. QED
    BY <1>3, <2>1, <2>2 DEF ToBeListed
<1>5. CASE RefuseRepo
  <2>1. /\ todo # <<>> /\ step = "repo" /\ step' = "repo" /\ todo' = Tail(todo) /\ git' = git
        /\ repos' = [repos EXCEPT ![Head(todo)] = "error"]
    BY <1>5 DEF RefuseRepo, Says, world, refs
  <2>2. repos'[Head(todo)] = "error" /\ Head(todo) \in Repos
    BY <2>1, SaysOne, HeadTyped DEF TypeOK, RunTyped
  <2>3. QED
    BY <2>2, ConstantsOK DEF Alarm, RepoProblem, RepoStates
<1>6. CASE EndRepo
  <2>1. ~Begin /\ todo # <<>> /\ step = "show" /\ step' = "repo" /\ todo' = Tail(todo)
        /\ git' = git /\ services' = services /\ toShow = {}
    BY <1>6 DEF EndRepo, Begin, world, refs, report, TypeOK, RunTyped
  <2>2. QED
    BY <1>3, <2>1, StillToDo
<1>7. CASE ListUnits
  <2>1. /\ ~Begin /\ step = "units" /\ step' = "show" /\ toShow = {}
        /\ UNCHANGED <<todo, services, git>>
    BY <1>7 DEF ListUnits, Begin, world, refs, OnceEach
  <2>2. services[u] = None /\ ToBeListed(u)
    BY <1>3, <2>1
  <2>3. PICK i \in 1..Len(todo) : todo[i] \in git /\ u \in UnitsOf[todo[i]]
    BY <2>2 DEF ToBeListed
  <2>4. CASE i = 1
    <3>1. Head(todo) \in git /\ u \in UnitsOf[Head(todo)]
      BY <2>1, <2>3, <2>4, HeadTyped DEF TypeOK, RunTyped
    <3>2. QED
      BY <1>7, <2>1, <2>2, <3>1 DEF ListUnits
  <2>5. CASE i # 1
    BY <2>1, <2>2, <2>3, <2>5 DEF ToBeListed
  <2>6. QED
    BY <2>4, <2>5
<1>8. CASE EnterUnit \/ \E v \in Units : ShowFails(v)
  <2>1. PICK v \in toShow :
          /\ toShow' = toShow \ {v}
          /\ \/ services' = [services EXCEPT ![v] = Unknown]
             \/ /\ reading # None /\ v = reading.unit
                /\ services' = [services EXCEPT ![v] = Service(reading)]
    BY <1>8, EntersOne
  <2>2. step = "show" /\ step' = "show" /\ UNCHANGED <<todo, git>> /\ ~Begin
    BY <1>8, EntersOne DEF world, refs, Begin
  <2>3. v \in Units /\ \A w \in Units \ {v} : services'[w] = services[w]
    BY <2>1 DEF TypeOK, RunTyped
  <2>4. <<u, why>> \in wrong
    BY <1>3, <2>2
  <2>5. u # v
    <3>1. SUFFICES ASSUME u = v PROVE FALSE
      OBVIOUS
    <3>2. services'[v] = Unknown
          \/ (reading # None /\ v = reading.unit /\ services'[v] = Service(reading))
      BY <2>1, <2>3 DEF TypeOK, RunTyped
    <3>3. ServiceProblem(Unknown) /\ Unknown \in ServiceStates
      BY DEF ServiceProblem, Unknown, ServiceStates
    <3>4. reading # None => Service(reading) \in ServiceStates
      BY ServiceTyped DEF TypeOK, RunTyped
    <3>5. ServiceProblem(services'[v]) /\ services'[v] # None
      <4>1. CASE services'[v] = Unknown
        BY <3>3, <4>1, ConstantsOK
      <4>2. CASE reading # None /\ v = reading.unit /\ services'[v] = Service(reading)
        <5>1. ServiceProblem(Service(reading))
          BY <2>4, <3>1, <4>2, TroubleShows
        <5>2. QED
          BY <3>4, <4>2, <5>1, ConstantsOK
      <4>3. QED
        BY <3>2, <4>1, <4>2
    <3>6. QED
      BY <2>3, <3>5 DEF Alarm
  <2>6. QED
    BY <1>3, <2>1, <2>2, <2>3, <2>5 DEF ToBeListed
<1>9. ASSUME NEW v \in Units, ShowUnit(v)
       PROVE  services'[u] = None /\ (u \in toShow' \/ ToBeListed(u)')
  <2>1. ~Begin /\ UNCHANGED <<step, todo, toShow, services, git>>
    BY <1>9 DEF ShowUnit, Begin, report, world, refs
  <2>2. QED
    BY <1>3, <2>1 DEF ToBeListed
<1>10. CASE World
  <2>1. UNCHANGED <<step, todo, toShow, services>> /\ git \subseteq git'
    BY <1>10, WorldGoesOn DEF run, report
  <2>2. ~Begin
    BY <2>1 DEF Begin
  <2>3. QED
    BY <1>3, <2>1, <2>2 DEF ToBeListed
<1>11. CASE UNCHANGED vars
  BY <1>1, <1>11 DEF vars, run, report, world, refs, TroubleOK, ToBeListed
<1>12. QED
  BY <1>2, <1>4, <1>5, <1>6, <1>7, <1>8, <1>10, <1>11, <1>9 DEF Next, StatusStep, Report

\* Without a reason nothing is wrong with a unit, it does not crash again and again, and
\* its file is no younger than its start.
LEMMA NoReason ==
  ASSUME Reasons = {}, NEW u \in Managed
  PROVE  /\ unit[u].active = "active" /\ loaded[u] \in {None, text[u]}
         /\ ~(unit[u].restarts >= MinRestarts) /\ ~(set > unit[u].since)
         /\ ~(mtime[u] # None /\ mtime[u] > unit[u].since + skew)
<1>1. BadUnits = {}
  BY DEF Reasons
<1>2. unit[u].active = "active"
  <2>1. unit[u].active # "active" => <<u, "down">> \in BadUnits
    BY DEF BadUnits
  <2>2. QED
    BY <1>1, <2>1
<1>3. loaded[u] \in {None, text[u]}
  <2>1. loaded[u] \notin {None, text[u]} => <<u, "unloaded">> \in BadUnits
    BY DEF BadUnits
  <2>2. QED
    BY <1>1, <2>1
<1>4. QED
  BY <1>2, <1>3 DEF Reasons

\* What systemctl says of a unit stays true as far as it matters, or there is a reason.
LEMMA ReadingStep ==
  ASSUME TypeOK, WorldOK, TargetOK, OnceEach, ReadingOK, [Next]_vars
  PROVE  ReadingOK'
<1>1. ASSUME NEW u \in Units, ShowUnit(u) PROVE ReadingOK'
  <2>1. /\ reading' = Shown(u) /\ step' = "show" /\ step = "show" /\ u \in toShow' /\ Observe
        /\ UNCHANGED <<git, unit, text, loaded, mtime, skew, set, began>> /\ UNCHANGED world
    BY <1>1 DEF ShowUnit, world, refs, clock
  <2>2. u \in Managed /\ Managed' = Managed
    BY <1>1, <2>1 DEF OnceEach, ShowUnit, Managed
  <2>3. Telling(reading)'
    <3>1. wrong' \subseteq (BadRepos(target) \cup BadUnits)'
      BY <2>1, ObserveKeeps
    <3>2. <<u, "down">> \in wrong' => unit[u].active # "active"
      BY <2>1, <3>1, BadFactsNext
    <3>3. <<u, "unloaded">> \in wrong' => loaded[u] \notin {None, text[u]}
      BY <2>1, <3>1, BadFactsNext
    <3>4. <<u, "outdated">> \in wrong' => unit[u].active = "active" /\ loaded[u] # None
      BY <2>1, <3>1, BadFactsNext DEF Outdated
    <3>5. QED
      BY <2>1, <3>2, <3>3, <3>4 DEF Telling, Shown
  <2>4. Reasonable(reading)'
    <3>1. CASE reasons' # {}
      BY <3>1 DEF Reasonable
    <3>2. CASE reasons' = {}
      <4>1. Reasons = {}
        BY <2>1, <3>2, ObserveKeeps
          DEF world, refs, clock, Reasons, BadRepos, BadUnits, Managed, Outdated
      <4>2. unit[u].since \in Nat /\ began.mono \in Nat /\ began.wall \in Int /\ skew \in Int
            /\ set \in Nat /\ mtime[u] \in Int \cup {None}
        BY DEF TypeOK, WorldTyped, RunTyped, UnitStates
      <4>3. unit[u].since <= began.mono => ~(mtime[u] # None
               /\ mtime[u] > unit[u].since + (began.wall - began.mono))
        BY <2>1, <2>2, <4>1, <4>2, NoReason DEF TargetOK
      <4>4. unit[u].active = "active" /\ loaded[u] \in {None, text[u]}
            /\ ~(unit[u].restarts >= MinRestarts)
        BY <2>2, <4>1, NoReason
      <4>5. QED
        BY <2>1, <4>3, <4>4 DEF Reasonable, WrittenSince, Shown
    <3>3. QED
      BY <3>1, <3>2
  <2>5. QED
    BY <2>1, <2>3, <2>4 DEF ReadingOK
<1>2. CASE StatusStep /\ ~ \E u \in Units : ShowUnit(u)
  <2>1. CASE reading = None
    <3>1. reading' = reading
      BY <1>2, <2>1 DEF StatusStep, Begin, LookAtRepo, RefuseRepo, ReadUrl, Fetch, Count,
         ListUnits, ShowFails, EnterUnit, EndRepo, Report, Goes
    <3>2. QED
      BY <2>1, <3>1 DEF ReadingOK
  <2>2. CASE reading # None
    <3>1. step = "show" /\ toShow # {}
      BY <2>2 DEF ReadingOK, Telling
    <3>2. EnterUnit
      BY <1>2, <2>2, <3>1 DEF StatusStep, Begin, LookAtRepo, RefuseRepo, ReadUrl, Fetch, Count,
         ListUnits, ShowFails, EndRepo, Report
    <3>3. QED
      BY <3>2 DEF EnterUnit, ReadingOK
  <2>3. QED
    BY <2>1, <2>2
<1>3. CASE World
  <2> DEFINE u == reading.unit
  <2>1. CASE reading = None
    BY <1>3, <2>1, WorldHappens DEF run, ReadingOK
  <2>2. CASE reading # None
    <3>1. /\ UNCHANGED <<step, toShow, reading, began>> /\ Observe
          /\ wrong' \subseteq wrong /\ reasons \subseteq reasons'
          /\ wrong' \subseteq (BadRepos(target) \cup BadUnits)' /\ Reasons' \subseteq reasons'
      BY <1>3, WorldHappens, ObserveKeeps DEF run
    <3>2. u \in Units /\ step = "show" /\ Telling(reading) /\ Reasonable(reading)
      BY <2>2 DEF TypeOK, RunTyped, Readings, ReadingOK
    <3>3. Telling(reading)'
      <4>1. <<u, "outdated">> \in wrong' => unit'[u] = unit[u]
        BY <1>3, <3>1, <3>2, WorldGoesOn, BadFactsNext DEF Outdated
      <4>2. QED
        BY <3>1, <3>2, <4>1 DEF Telling
    <3>4. Reasonable(reading)'
      <4>1. CASE mtime'[u] \in {mtime[u], None}
        BY <3>1, <3>2, <4>1 DEF Reasonable, WrittenSince
      <4>2. CASE ReloadEnds /\ mtime'[u] # None
        <5>1. mtime'[u] = now' + skew' /\ unit' = unit /\ now' = now + 1 /\ git' = git
          BY <3>2, <4>2 DEF ReloadEnds, Happens, refs, clock
        <5>2. u \in Managed'
          BY <3>2, <5>1 DEF Telling, OnceEach, Managed
        <5>3. unit[u].since <= now /\ unit[u].since \in Nat /\ now \in Nat /\ skew' \in Int
          BY <3>2, <4>2 DEF WorldOK, TypeOK, WorldTyped, UnitStates, ReloadEnds, clock
        <5>4. mtime'[u] > unit'[u].since + skew'
          BY <5>1, <5>3
        <5>5. "written" \in Reasons'
          BY <4>2, <5>2, <5>4 DEF Reasons
        <5>6. QED
          BY <3>1, <5>5 DEF Reasonable
      <4>3. mtime'[u] \in {mtime[u], None} \/ ReloadEnds
        BY <1>3, <3>2 DEF World, CloneDone, SyncFetches, SyncMoves, Push, ReloadBegins, ClockSteps,
           Starts, Crashes
      <4>4. QED
        BY <4>1, <4>2, <4>3
    <3>5. QED
      BY <3>1, <3>2, <3>3, <3>4 DEF ReadingOK
  <2>3. QED
    BY <2>1, <2>2
<1>4. CASE UNCHANGED vars
  BY <1>4 DEF vars, run, world, ReadingOK, Telling, Reasonable, WrittenSince
<1>5. QED
  BY <1>1, <1>2, <1>3, <1>4 DEF Next

LEMMA TroubleStep ==
  ASSUME TypeOK, WorldOK, TargetOK, OnceEach, FoundOK, ReadingOK, TroubleOK, [Next]_vars
  PROVE  TroubleOK'
<1>1. step' = "idle" => wrong' = {}
  <2>1. step' = "idle" => step = "idle" /\ ~Begin
    BY RunGoes, WorldHappens DEF Next, vars, run, Begin
  <2>2. QED
    BY <2>1, TroubleWasThere DEF TroubleOK
<1>2. wrong' \subseteq (BadRepos(target) \cup BadUnits)'
  <2>1. CASE Begin
    BY <2>1 DEF Begin, world, refs, clock, BadRepos, BadUnits, Managed, Outdated
  <2>2. CASE UNCHANGED vars
    BY <2>2 DEF TroubleOK, vars, run, world, refs, clock, BadRepos, BadUnits, Managed, Outdated
  <2>3. QED
    BY <2>1, <2>2, TroubleWasThere, ObserveKeeps
<1>3. ASSUME NEW u \in Units, <<u, "outdated">> \in wrong'
      PROVE  unit'[u].since <= began'.mono
  <2>1. CASE Begin
    BY <2>1 DEF Begin, world, WorldOK
  <2>2. ASSUME ~Begin, unit'[u] = unit[u], began' = began
        PROVE  unit'[u].since <= began'.mono
    BY <1>3, <2>2, TroubleWasThere DEF TroubleOK
  <2>3. CASE StatusStep /\ ~Begin
    BY <2>2, <2>3, RunLooks
  <2>4. CASE UNCHANGED vars
    BY <1>3, <2>4 DEF vars, run, world, TroubleOK
  <2>5. CASE World
    <3>1. Outdated(u)'
      BY <1>2, <1>3, BadFactsNext
    <3>2. unit'[u] = unit[u] /\ began' = began /\ step' = step
      BY <2>5, <3>1, WorldGoesOn, WorldHappens DEF run, Outdated
    <3>3. ~Begin
      BY <3>2 DEF Begin
    <3>4. QED
      BY <2>2, <3>2, <3>3
  <2>6. QED
    BY <2>1, <2>3, <2>4, <2>5 DEF Next
<1>4. QED
  BY <1>1, <1>2, <1>3, AstrayStep, UnitStep DEF TroubleOK

-----------------------------------------------------------------------------
(* Alarms and the exit code *)

\* What a repository or a unit is reported to be, when it is a problem, is wrong.
LEMMA ProblemsAreReal ==
  ASSUME TypeOK, WorldOK
  PROVE  /\ \A r \in Repos : r \notin git \/ r \notin sameUrl => "wrong" \in Reasons
         /\ \A r \in Repos : RepoProblem(Counted(r)) => "wrong" \in Reasons
<1>1. ASSUME NEW r \in Repos, r \notin git \/ r \notin sameUrl \/ head[r] < upstream[r]
      PROVE  "wrong" \in Reasons
  <2>1. <<r, "astray">> \in BadRepos(upstream)
    BY <1>1 DEF BadRepos
  <2>2. QED
    BY <2>1 DEF Reasons
<1>2. ASSUME NEW r \in Repos, RepoProblem(Counted(r)) PROVE "wrong" \in Reasons
  <2>1. head[r] # track[r]
    <3>1. SUFFICES ASSUME head[r] = track[r] PROVE Counted(r) \in {"up-to-date", "ahead"}
      BY <1>2 DEF RepoProblem
    <3>2. ~(head[r] < track[r])
      BY <3>1 DEF TypeOK, WorldTyped
    <3>3. CASE r \in mine
      BY <3>1, <3>3 DEF Counted
    <3>4. CASE r \notin mine
      BY <3>1, <3>2, <3>4 DEF Counted
    <3>5. QED
      BY <3>3, <3>4
  <2>2. head[r] <= track[r] /\ track[r] <= upstream[r] /\ head[r] \in Nat /\ track[r] \in Nat
        /\ upstream[r] \in Nat
    BY DEF WorldOK, TypeOK, WorldTyped
  <2>3. head[r] < upstream[r]
    BY <2>1, <2>2
  <2>4. QED
    BY <1>1, <2>3
<1>3. QED
  BY <1>1, <1>2

LEMMA ReadingsAreReal ==
  ASSUME TypeOK, ReadingOK, reading # None, ServiceProblem(Service(reading))
  PROVE  reasons # {}
<1>1. SUFFICES ASSUME reasons = {} PROVE FALSE
  OBVIOUS
<1>2. /\ reading.active = "active" /\ ~reading.reload /\ ~(reading.restarts >= MinRestarts)
      /\ reading.since <= began.mono => ~WrittenSince(reading, began.wall - began.mono)
  BY <1>1 DEF ReadingOK, Reasonable
<1>3. FragmentNewer(reading)
  BY <1>2 DEF ServiceProblem, Service
<1>4. reading.since <= began.mono /\ Uptime(reading) = began.mono - reading.since
  BY <1>3 DEF FragmentNewer, Uptime
<1>5. /\ reading.since \in Nat /\ began.mono \in Nat /\ began.wall \in Int
      /\ mtime[reading.unit] \in Int
  BY <1>3 DEF TypeOK, RunTyped, WorldTyped, Readings, FragmentNewer
<1>6. mtime[reading.unit] > reading.since + (began.wall - began.mono)
  BY <1>3, <1>4, <1>5 DEF FragmentNewer
<1>7. QED
  BY <1>2, <1>3, <1>4, <1>6 DEF WrittenSince, FragmentNewer

LEMMA ReasonStep ==
  ASSUME TypeOK, WorldOK, OnceEach, FoundOK, ReadingOK, ReasonOK, [Next]_vars
  PROVE  ReasonOK'
<1>1. CASE Begin
  BY <1>1 DEF Begin, report, OnceEach, ReasonOK, Alarm
<1>2. ASSUME ~Begin, Alarm PROVE failed' \/ reasons' # {}
  <2>1. failed \/ reasons # {}
    BY <1>2 DEF ReasonOK
  <2>2. CASE StatusStep
    BY <1>2, <2>1, <2>2, RunLooks, ObserveKeeps
  <2>3. CASE World
    BY <2>1, <2>3, WorldGoesOn, WorldHappens, ObserveKeeps
  <2>4. CASE UNCHANGED vars
    BY <2>1, <2>4 DEF vars
  <2>5. QED
    BY <2>2, <2>3, <2>4 DEF Next
<1>3. CASE LookAtRepo \/ RefuseRepo \/ ReadUrl \/ Fetch \/ Count
  <2>1. StatusStep /\ ~Begin /\ Observe
    BY <1>3 DEF LookAtRepo, RefuseRepo, ReadUrl, Fetch, Count, StatusStep, Begin
  <2>2. todo # <<>> /\ Head(todo) \in Repos
    BY <1>3, HeadTyped DEF LookAtRepo, RefuseRepo, ReadUrl, Fetch, Count, TypeOK, RunTyped
  <2>3. \/ report' = report
        \/ failed'
        \/ Says("missing") /\ Head(todo) \notin git /\ UNCHANGED world
        \/ Says("url-mismatch") /\ Head(todo) \notin sameUrl /\ UNCHANGED world
        \/ /\ repos' = [repos EXCEPT ![Head(todo)] = Counted(Head(todo))]
           /\ services' = services /\ UNCHANGED world
    BY <1>3 DEF LookAtRepo, RefuseRepo, ReadUrl, Fetch, Count, Fails
  <2>4. CASE report' = report
    BY <1>2, <2>1, <2>4 DEF ReasonOK, Alarm, report
  <2>5. ASSUME UNCHANGED world, "wrong" \in Reasons PROVE reasons' # {}
    BY <2>1, <2>5, ObserveKeeps
      DEF world, refs, clock, Reasons, BadRepos, BadUnits, Managed, Outdated
  <2>6. CASE \/ Says("missing") /\ Head(todo) \notin git /\ UNCHANGED world
             \/ Says("url-mismatch") /\ Head(todo) \notin sameUrl /\ UNCHANGED world
    BY <2>2, <2>5, <2>6, ProblemsAreReal DEF ReasonOK
  <2>7. CASE /\ repos' = [repos EXCEPT ![Head(todo)] = Counted(Head(todo))]
             /\ services' = services /\ UNCHANGED world
    <3>1. CASE RepoProblem(Counted(Head(todo)))
      BY <2>2, <2>5, <2>7, <3>1, ProblemsAreReal DEF ReasonOK
    <3>2. CASE ~RepoProblem(Counted(Head(todo)))
      <4>1. Alarm' => Alarm
        BY <2>2, <2>7, <3>2, SaysOne DEF Alarm
      <4>2. QED
        BY <1>2, <2>1, <4>1 DEF ReasonOK
    <3>3. QED
      BY <3>1, <3>2
  <2>8. QED
    BY <2>3, <2>4, <2>6, <2>7 DEF ReasonOK
<1>4. CASE EnterUnit \/ \E u \in Units : ShowFails(u)
  <2>1. Observe /\ ~Begin /\ repos' = repos /\ reasons \subseteq reasons'
    BY <1>4, EntersOne, ObserveKeeps DEF Begin
  <2>2. CASE failed'
    BY <2>2 DEF ReasonOK
  <2>3. CASE reading # None /\ services' = [services EXCEPT ![reading.unit] = Service(reading)]
    <3>1. CASE ServiceProblem(Service(reading))
      BY <2>1, <2>3, <3>1, ReadingsAreReal DEF ReasonOK
    <3>2. CASE ~ServiceProblem(Service(reading))
      <4>1. \A v \in Units :
              services'[v] = IF v = reading.unit THEN Service(reading) ELSE services[v]
        BY <2>3 DEF TypeOK, RunTyped
      <4>2. Alarm' => Alarm
        BY <2>1, <3>2, <4>1 DEF Alarm
      <4>3. QED
        BY <1>2, <2>1, <4>2 DEF ReasonOK
    <3>3. QED
      BY <3>1, <3>2
  <2>4. QED
    BY <1>4, <2>2, <2>3, EntersOne
<1>5. CASE ListUnits \/ EndRepo \/ Report \/ \E u \in Units : ShowUnit(u)
  BY <1>2, <1>5 DEF ListUnits, EndRepo, Report, ShowUnit, Begin, report, ReasonOK, Alarm
<1>6. CASE World
  <2>1. UNCHANGED report /\ ~Begin
    BY <1>6, WorldHappens DEF Begin
  <2>2. QED
    BY <1>2, <2>1 DEF report, ReasonOK, Alarm
<1>7. CASE UNCHANGED vars
  BY <1>7 DEF vars, report, ReasonOK, Alarm
<1>8. QED
  BY <1>1, <1>3, <1>4, <1>5, <1>6, <1>7 DEF Next, StatusStep

LEMMA AlarmIsExit == ExitCode = (IF Alarm THEN 1 ELSE 0)
BY DEF ExitCode, Alarm

LEMMA DoneStep ==
  ASSUME TypeOK, TroubleOK, OnceEach, ReadingOK, DoneOK, [Next]_vars
  PROVE  DoneOK'
<1>1. CASE Report
  <2>1. /\ step = "repo" /\ todo = <<>> /\ UNCHANGED report /\ Observe
        /\ rc' = ExitCode \/ (rc' = 1 /\ failed')
    BY <1>1 DEF Report, Fails
  <2>2. ExitCode' = ExitCode
    BY <2>1 DEF ExitCode, report
  <2>3. ASSUME rc' = 0 PROVE \A w \in wrong' : w[2] = "old"
    <3>1. ~Alarm
      BY <2>1, <2>3, AlarmIsExit
    <3>2. toShow = {} /\ 1..Len(todo) = {}
      BY <2>1 DEF OnceEach
    <3>3. /\ \A r \in Repos : <<r, "astray">> \notin wrong
          /\ \A u \in Units, why \in {"down", "unloaded", "outdated"} : <<u, why>> \notin wrong
      BY <2>1, <3>1, <3>2 DEF TroubleOK, ToBeEntered, ToBeListed
    <3>4. wrong \subseteq BadRepos(target) \cup BadUnits /\ Managed \subseteq Units
      BY ConstantsOK DEF TroubleOK, Managed, TypeOK, WorldTyped
    <3>5. ASSUME NEW w \in wrong PROVE w[2] = "old"
      <4>1. CASE w \in BadRepos(target)
        <5>1. PICK r \in Repos : w = <<r, "astray">>
          BY <4>1 DEF BadRepos
        <5>2. QED
          BY <3>3, <3>5, <5>1
      <4>2. CASE w \in BadUnits
        <5>1. PICK u \in Managed, why \in {"down", "unloaded", "outdated", "old"} : w = <<u, why>>
          BY <4>2 DEF BadUnits
        <5>2. QED
          BY <3>3, <3>4, <3>5, <5>1
      <4>3. QED
        BY <3>4, <3>5, <4>1, <4>2
    <3>6. QED
      BY <2>1, <3>5, ObserveKeeps
  <2>4. QED
    BY <2>1, <2>2, <2>3 DEF DoneOK
<1>2. CASE StatusStep /\ ~Report
  <2>1. step' # "done"
    BY <1>2 DEF StatusStep, Begin, LookAtRepo, RefuseRepo, ReadUrl, Fetch, Count, ListUnits,
       ShowUnit, ShowFails, EnterUnit, Enters, EndRepo, Goes, ReadingOK
  <2>2. QED
    BY <2>1 DEF DoneOK
<1>3. CASE World
  BY <1>3, WorldHappens DEF run, DoneOK
<1>4. CASE UNCHANGED vars
  BY <1>4 DEF vars, run, report, ExitCode, DoneOK
<1>5. QED
  BY <1>1, <1>2, <1>3, <1>4 DEF Next

-----------------------------------------------------------------------------
(* The theorems *)

LEMMA IInit == Init => IInv
<1> SUFFICES ASSUME Init PROVE IInv
  OBVIOUS
<1>1. TypeOK
  BY TypeInit
<1>2. /\ step = "idle" /\ todo = <<>> /\ toShow = {} /\ wrong = {} /\ reading = None
      /\ \A r \in Repos : repos[r] = None
      /\ \A u \in Units : services[u] = None
  BY DEF Init
<1>3. /\ \A r \in Repos : head[r] = 0 /\ track[r] \in {0, 1} /\ upstream[r] = track[r]
      /\ \A u \in Units : /\ unit[u].since = 0 /\ loaded[u] \in {0, 1} /\ running[u] = 0
                          /\ mtime[u] = loaded[u]
      /\ now = 1 /\ skew = 0 /\ set = 0
  BY DEF Init
<1>4. WorldOK
  BY <1>3 DEF WorldOK, Outdated
<1>5. OnceEach
  BY <1>2 DEF OnceEach
<1>6. TargetOK /\ FoundOK /\ ReadingOK /\ TroubleOK /\ DoneOK
  BY <1>2 DEF TargetOK, FoundOK, ReadingOK, TroubleOK, DoneOK
<1>7. ReasonOK
  BY <1>2 DEF ReasonOK, Alarm
<1>8. QED
  BY <1>1, <1>4, <1>5, <1>6, <1>7 DEF IInv

LEMMA IStep == IInv /\ [Next]_vars => IInv'
BY TypeStep, WorldOKStep, TargetStep, OnceStep, FoundStep, ReadingStep, TroubleStep, ReasonStep,
   DoneStep
   DEF IInv

LEMMA IAlways == Spec => []IInv
BY IInit, IStep, PTL DEF Spec

\* Every variable keeps its type: among others, no repository is looked at without one
\* being left in the list, and every entry of the report is one of the states of
\* RepoState and ServiceStatus (status/mod.rs:66-102).
THEOREM TypeCorrect == Spec => []TypeOK
<1>1. IInv => TypeOK
  BY DEF IInv
<1>2. QED
  BY <1>1, IAlways, PTL

\* `quadcd status` that exits with 0 has missed nothing that was wrong all the time it
\* ran, for any number of repositories and units, any failing commands, and whatever syncs,
\* reloads, crashes and steps of the clock do between its reads: no checkout that is
\* lost, misdirected or behind, no unit that is down or not reloaded, and none that runs an
\* old definition, as long as the file of the new one can be read and the clock has not
\* been set since the unit started (run_status and report_exit_code, status/mod.rs).
THEOREM TroubleIsReportedAlways == Spec => []TroubleIsReported
<1>1. IInv => TroubleIsReported
  BY DEF IInv, DoneOK, TroubleIsReported
<1>2. QED
  BY <1>1, IAlways, PTL

\* An exit code of 1 without a failed command has a reason: something was wrong, a unit
\* restarted again and again, the generator wrote the file of a running unit, or the wall
\* clock was set since one started.
THEOREM AlarmsHaveAReasonAlways == Spec => []AlarmsHaveAReason
<1>1. IInv => AlarmsHaveAReason
  BY AlarmIsExit DEF IInv, DoneOK, ReasonOK, AlarmsHaveAReason
<1>2. QED
  BY <1>1, IAlways, PTL

\* A service is a problem exactly if the table shows a note for it, or that it is still
\* activating (ServiceStatus::is_problem, service_note).
LEMMA NotesTellProblems ==
  ASSUME NEW s \in ServiceStates
  PROVE  ServiceProblem(s) <=> Notes(s) # {} \/ s.active = "activating"
BY DEF ServiceStates, ServiceProblem, Notes

\* The table explains the exit code, whatever the repositories and units.
THEOREM ReportExplainsExitAlways == Spec => []ReportExplainsExit
<1>1. ASSUME IInv, step = "done", ~failed PROVE ReportExplainsExit
  <2>1. rc = ExitCode
    BY <1>1 DEF IInv, DoneOK
  <2>2. \A u \in Units : services[u] # None => services[u] \in ServiceStates
    BY <1>1 DEF IInv, TypeOK, RunTyped
  <2>3. \A u \in Units : services[u] # None =>
          (ServiceProblem(services[u])
             <=> Notes(services[u]) # {} \/ services[u].active = "activating")
    BY <2>2, NotesTellProblems
  <2>4. QED
    BY <2>1, <2>3, AlarmIsExit DEF Alarm, ReportExplainsExit
<1>2. IInv => ReportExplainsExit
  BY <1>1 DEF ReportExplainsExit
<1>3. QED
  BY <1>2, IAlways, PTL
=============================================================================
