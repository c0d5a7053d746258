----------------------------- MODULE Generate -----------------------------
(***************************************************************************)
(* `quadcd generate`, which systemd runs at every daemon-reload, and its   *)
(* dry run: unit files of all checkouts are installed one by one, podman's *)
(* generator turns the Quadlet files into services, and what podman wrote  *)
(* is cleaned.  Nothing is locked: a sync may change the checkouts while   *)
(* their files are listed and read.                                        *)
(***************************************************************************)
EXTENDS Naturals, Sequences, Functions

CONSTANTS
    PathOrder,      \* all paths a unit file may have: by directory, and sorted
    DirOrder,       \* the source directories, sorted
    DirOf, NameOf,  \* of a path: its source directory, its file name
    QuadletNames, SystemdNames,
    Makes,          \* generated_unit_name: the service of a Quadlet file
    Contents,       \* what a readable file may hold
    Installs,       \* [Contents -> links its [Install] section asks for]
    Garbage,        \* content that is not text
    AtFirst,        \* what paths may hold before anybody moves a file
    None,
    Dropins,        \* *.d directories of the standard Quadlet directory
    Override,       \* QUADLET_UNIT_DIRS is set: the directory is nobody's to clear
    MaxMoves, MaxRuns, MaxFaults

Paths == Range(PathOrder)
Names == QuadletNames \cup SystemdNames

Position(p) == CHOOSE i \in DOMAIN PathOrder : PathOrder[i] = p

\* An installed file: its text, where it is from, and its SourcePath= lines.
Unit == [text : Contents, from : Paths, sources : Seq(Paths \cup {None})]

ASSUME ConstantsOK ==
    /\ PathOrder \in Seq(Paths) /\ IsInjective(PathOrder)
    /\ DirOrder \in Seq(Range(DirOrder)) /\ IsInjective(DirOrder)
    /\ DOMAIN DirOf = Paths /\ DOMAIN NameOf = Paths
    /\ Range(DirOf) \subseteq Range(DirOrder)
    /\ \A p, q \in Paths : \A i, j \in DOMAIN DirOrder :
          DirOf[p] = DirOrder[i] /\ DirOf[q] = DirOrder[j] /\ i < j => Position(p) < Position(q)
    /\ Range(NameOf) \subseteq Names
    /\ QuadletNames \cap SystemdNames = {}
    /\ Makes \in [QuadletNames -> SystemdNames]
    /\ DOMAIN Installs = Contents
    /\ None \notin Contents \cup {Garbage} \cup Paths \cup Names \cup {0, 1} /\ None \notin Unit
    /\ Garbage \notin Contents
    /\ AtFirst \subseteq Contents \cup {Garbage, None}
    /\ Override \in BOOLEAN
    /\ MaxMoves \in Nat /\ MaxRuns \in Nat /\ MaxFaults \in Nat

VARIABLES
    pc,
    dry,        \* -dryrun: everything is in a new temporary directory
    podman,     \* its generator: "ok", "missing" or "unusable"
    src,        \* [Paths -> content, or None]
    dirs,       \* source directories of this run
    at,         \* the one being looked at or installed
    seen,       \* names warn_duplicate_units has found so far (seen_quadlet, seen_systemd)
    generated,  \* [SystemdNames -> the Quadlet found last that makes it, or None]
    list,       \* files found and not installed yet; the first is next
    quadlet,    \* [QuadletNames -> installed file, or None]
    normal,     \* [SystemdNames -> unit, or None]
    links,      \* <<unit, link>> in *.wants/ and *.requires/
    dropins,    \* *.d links in the Quadlet directory
    previewed,  \* source files a dry run prints
    shown,      \* Quadlet files whose services podman's dry run prints
    printed,    \* names of the normal directory a dry run prints
    warned,     \* <<overriding, overridden>> names warn_duplicate_units has warned of
    rc,         \* exit code, or None while running
    ran,        \* podman's generator has been run; in a dry run, to success
    moved,      \* history: paths that changed since the run began
    failed,     \* history: an error was logged in this run
    used

machine == <<pc, dry, podman, dirs, at, list>>
search  == <<seen, generated, warned>>
target  == <<quadlet, normal, links, dropins>>
result  == <<previewed, shown, printed, rc, ran>>
vars    == <<machine, search, src, target, result, moved, failed, used>>

-----------------------------------------------------------------------------
(* Operators *)

Present(p) == src[p] # None

\* find_files: the files of a directory with one of the extensions
FindFiles(d, names) == {p \in Paths : DirOf[p] = d /\ NameOf[p] \in names /\ Present(p)}

\* set_source_path drops the lines of the text and adds one.
Installed(p) == [text |-> src[p], from |-> p, sources |-> <<p>>]

\* Mutant: the last line is kept.
KeepLast(unit) == [unit EXCEPT !.sources = <<@[Len(@)]>>]

\* clean_duplicate_source_path
KeepFirst(unit) == [unit EXCEPT !.sources = <<Head(@)>>]

\* find_files sorts.
First == CHOOSE p \in list : \A q \in list : Position(p) <= Position(q)
Last(S) == CHOOSE p \in S : \A q \in S : Position(q) <= Position(p)

NamesOf(S) == {NameOf[p] : p \in S}

NoneMade == [u \in SystemdNames |-> None]

Fault == used.faults < MaxFaults /\ used' = [used EXCEPT !.faults = @ + 1]

Exit(code) == pc' = "done" /\ rc' = code

-----------------------------------------------------------------------------
(* Before anything is installed *)

\* systemd has cleared the normal directory, and with it the quadcd directory,
\* unless QUADLET_UNIT_DIRS names another one.
Begin ==
    /\ pc \in {"idle", "done"}
    /\ used.runs < MaxRuns /\ used' = [used EXCEPT !.runs = @ + 1]
    /\ podman' \in {"ok", "missing", "unusable"}
    /\ dirs' \in {DirOrder, <<>>}
    /\ pc' = "check"
    /\ IF Override /\ ~dry THEN UNCHANGED <<quadlet, dropins>>
       ELSE quadlet' = [n \in QuadletNames |-> None] /\ dropins' = {}
    /\ normal' = [n \in SystemdNames |-> None] /\ links' = {}
    /\ at' = 1 /\ list' = {} /\ seen' = {} /\ generated' = NoneMade
    /\ previewed' = {} /\ shown' = {} /\ printed' = {} /\ warned' = {}
    /\ rc' = None /\ ran' = FALSE
    /\ moved' = {} /\ failed' = FALSE
    /\ UNCHANGED <<dry, src>>

\* Without source directories podman's generator is run as if quadcd were not there.
NoSources ==
    /\ pc = "check" /\ ~dry /\ dirs = <<>>
    /\ \E code \in IF podman = "ok" THEN {0, 1} ELSE {IF podman = "missing" THEN 0 ELSE 1} :
          Exit(code)
    /\ UNCHANGED <<dry, podman, dirs, at, list, search, src, target, previewed, shown, printed,
                   ran, moved, failed, used>>

PodmanUnusable ==
    /\ pc = "check" /\ ~dry /\ dirs # <<>> /\ podman # "ok"
    /\ Exit(IF podman = "missing" THEN 0 ELSE 1)
    /\ UNCHANGED <<dry, podman, dirs, at, list, search, src, target, previewed, shown, printed,
                   ran, moved, failed, used>>

\* Mutant: only Quadlet files are previewed.
PreviewQuadlets ==
    /\ pc = "check" /\ dry
    /\ LET found == {p \in Paths : DirOf[p] \in Range(dirs) /\ NameOf[p] \in QuadletNames} IN
          /\ previewed' = {p \in found : src[p] \in Contents}
          /\ failed' = \E p \in found : src[p] = Garbage
    /\ pc' = "make"
    /\ UNCHANGED <<dry, podman, dirs, at, list, search, src, target, shown, printed, rc, ran,
                   moved, used>>

\* A dry run prints every file it can read, overridden ones too, and warns of others.
Preview ==
    /\ pc = "check" /\ dry
    /\ LET found == {p \in Paths : DirOf[p] \in Range(dirs) /\ Present(p)} IN
          /\ previewed' = {p \in found : src[p] \in Contents}
          /\ failed' = \E p \in found : src[p] = Garbage
    /\ pc' = "make"
    /\ UNCHANGED <<dry, podman, dirs, at, list, search, src, target, shown, printed, rc, ran,
                   moved, used>>

Ready == pc = "make" \/ (pc = "check" /\ ~dry /\ dirs # <<>> /\ podman = "ok")

\* The Quadlet directory, or the temporary one, cannot be made.
NoDirectory ==
    /\ Ready /\ Fault
    /\ Exit(1)
    /\ failed' = TRUE
    /\ UNCHANGED <<dry, podman, dirs, at, list, search, src, target, previewed, shown, printed,
                   ran, moved>>

MakeDirectory ==
    /\ Ready
    /\ pc' = "see_quadlets"
    /\ UNCHANGED <<dry, podman, dirs, at, list, search, src, target, result, moved, failed, used>>

-----------------------------------------------------------------------------
(* warn_duplicate_units lists every directory once more. *)

\* Names found before, or twice in this listing
Repeated(found) ==
    {NameOf[p] : p \in {q \in found : \/ NameOf[q] \in seen
                                      \/ \E o \in found : o # q /\ NameOf[o] = NameOf[q]}}

WarnOf(names) == warned' = warned \cup {<<n, n>> : n \in names}

\* The map keeps one Quadlet of each generated unit: the one inserted last.
Making(found) ==
    [u \in SystemdNames |->
        LET makers == {p \in found : Makes[NameOf[p]] = u} IN
        IF makers = {} THEN generated[u] ELSE NameOf[Last(makers)]]

\* Mutant: only files of one directory are compared.
SeeOneDirectory ==
    /\ pc = "see_quadlets" /\ at <= Len(dirs)
    /\ LET found == FindFiles(dirs[at], QuadletNames) IN
          /\ seen' = NamesOf(found)
          /\ WarnOf({NameOf[p] : p \in {q \in found :
                        \E o \in found : o # q /\ NameOf[o] = NameOf[q]}})
          /\ generated' = Making(found)
    /\ pc' = "see_units"
    /\ UNCHANGED <<dry, podman, dirs, at, list, src, target, result, moved, failed, used>>

SeeQuadlets ==
    /\ pc = "see_quadlets" /\ at <= Len(dirs)
    /\ LET found == FindFiles(dirs[at], QuadletNames) IN
          /\ seen' = seen \cup NamesOf(found)
          /\ WarnOf(Repeated(found))
          /\ generated' = Making(found)
    /\ pc' = "see_units"
    /\ UNCHANGED <<dry, podman, dirs, at, list, src, target, result, moved, failed, used>>

SeeUnits ==
    /\ pc = "see_units"
    /\ LET found == FindFiles(dirs[at], SystemdNames) IN
          /\ seen' = seen \cup NamesOf(found)
          /\ WarnOf(Repeated(found))
    /\ at' = at + 1
    /\ pc' = "see_quadlets"
    /\ UNCHANGED <<dry, podman, dirs, list, generated, src, target, result, moved, failed, used>>

\* Of the Quadlets that make a unit that is also a file, one is named.
WarnCollisions ==
    /\ pc = "see_quadlets" /\ at > Len(dirs)
    /\ warned' = warned \cup
          {<<generated[u], u>> : u \in {v \in SystemdNames : generated[v] # None /\ v \in seen}}
    /\ at' = 1
    /\ pc' = "dirs"
    /\ UNCHANGED <<dry, podman, dirs, list, seen, generated, src, target, result, moved, failed,
                   used>>

-----------------------------------------------------------------------------
(* Installing *)

ListQuadlets ==
    /\ pc = "dirs" /\ at <= Len(dirs)
    /\ list' = FindFiles(dirs[at], QuadletNames)
    /\ pc' = "quadlets"
    /\ UNCHANGED <<dry, podman, dirs, at, search, src, target, result, moved, failed, used>>

\* Mutant: a file that cannot be read is installed.
InstallUnread ==
    /\ pc = "quadlets" /\ list # {}
    /\ quadlet' = [quadlet EXCEPT ![NameOf[First]] = Installed(First)]
    /\ list' = list \ {First}
    /\ UNCHANGED <<pc, dry, podman, dirs, at, search, src, normal, links, dropins, result, moved,
                   failed, used>>

InstallQuadlet ==
    /\ pc = "quadlets" /\ list # {}
    /\ LET p == First IN
          /\ src[p] \in Contents
          /\ quadlet' = [quadlet EXCEPT ![NameOf[p]] = Installed(p)]
    /\ list' = list \ {First}
    /\ UNCHANGED <<pc, dry, podman, dirs, at, search, src, normal, links, dropins, result, moved,
                   failed, used>>

ListUnits ==
    /\ pc = "quadlets" /\ list = {}
    /\ list' = FindFiles(dirs[at], SystemdNames)
    /\ pc' = "units"
    /\ UNCHANGED <<dry, podman, dirs, at, search, src, target, result, moved, failed, used>>

\* Mutant: only the first file of a name is linked.
LinkFirst ==
    /\ pc = "units" /\ list # {}
    /\ LET p == First IN
          /\ src[p] \in Contents
          /\ normal' = [normal EXCEPT ![NameOf[p]] = Installed(p)]
          /\ links' = IF normal[NameOf[p]] # None THEN links
                      ELSE links \cup ({NameOf[p]} \X Installs[src[p]])
    /\ list' = list \ {First}
    /\ UNCHANGED <<pc, dry, podman, dirs, at, search, src, quadlet, dropins, result, moved, failed,
                   used>>

\* The file is installed, then linked as its [Install] section says; a link that
\* is there already is left, and one that cannot be made is left out with a warning.
InstallUnit ==
    /\ pc = "units" /\ list # {}
    /\ LET p == First IN
          /\ src[p] \in Contents
          /\ normal' = [normal EXCEPT ![NameOf[p]] = Installed(p)]
          /\ \/ /\ links' = links \cup ({NameOf[p]} \X Installs[src[p]])
                /\ UNCHANGED <<failed, used>>
             \/ /\ Fault /\ failed' = TRUE
                /\ \E some \in SUBSET Installs[src[p]] :
                      links' = links \cup ({NameOf[p]} \X some)
    /\ list' = list \ {First}
    /\ UNCHANGED <<pc, dry, podman, dirs, at, search, src, quadlet, dropins, result, moved>>

\* Mutant: an error ends the directory, not the run.
FailDirectory ==
    /\ pc \in {"quadlets", "units"} /\ list # {}
    /\ src[First] \notin Contents
    /\ failed' = TRUE
    /\ list' = {}
    /\ UNCHANGED <<pc, rc, dry, podman, dirs, at, search, src, target, previewed, shown, printed, ran,
                   moved, used>>

\* A file that is gone, is no text, or cannot be written ends a real run; a dry run
\* goes on with what comes next in the directory.
InstallFails ==
    /\ pc \in {"quadlets", "units"} /\ list # {}
    /\ \/ src[First] \notin Contents /\ UNCHANGED used
       \/ Fault
    /\ failed' = TRUE
    /\ IF dry THEN list' = {} /\ UNCHANGED <<pc, rc>>
       ELSE Exit(1) /\ UNCHANGED list
    /\ UNCHANGED <<dry, podman, dirs, at, search, src, target, previewed, shown,
                   printed, ran, moved>>

NextDir ==
    /\ pc = "units" /\ list = {}
    /\ at' = at + 1
    /\ pc' = "dirs"
    /\ UNCHANGED <<dry, podman, dirs, list, search, src, target, result, moved, failed, used>>

-----------------------------------------------------------------------------
(* After everything is installed *)

\* symlink_dropins; the first failure leaves the others out, with a warning.
LinkDropins ==
    /\ pc = "dirs" /\ at > Len(dirs)
    /\ \/ dropins' = dropins \cup Dropins /\ UNCHANGED <<failed, used>>
       \/ /\ Fault /\ failed' = TRUE
          /\ \E some \in SUBSET Dropins : dropins' = dropins \cup some
    /\ pc' = "podman"
    /\ UNCHANGED <<dry, podman, dirs, at, list, search, src, quadlet, normal, links, result,
                   moved>>

Services == {n \in QuadletNames : quadlet[n] # None}

\* Whose service a unit is when podman has made those of these Quadlets; of several
\* that make the same unit, any.
Owners(made) ==
    {f \in [SystemdNames -> made \cup {None}] :
        \A u \in SystemdNames :
            IF f[u] = None THEN \A n \in made : Makes[n] # u ELSE Makes[f[u]] = u}

\* podman's generator makes services of the Quadlet files, each with a SourcePath=
\* line of its own; on failure it makes some.
RunPodman ==
    /\ pc = "podman" /\ podman = "ok" /\ ~dry
    /\ ran' = TRUE
    /\ \E made \in {Services} \cup (IF used.faults < MaxFaults THEN SUBSET Services ELSE {}) :
          /\ \E owner \in Owners(made) :
                normal' = [u \in SystemdNames |->
                    IF owner[u] = None THEN normal[u]
                    ELSE [quadlet[owner[u]] EXCEPT !.sources = Append(@, None)]]
          /\ rc' = IF made = Services THEN 0 ELSE 1
          /\ IF made = Services THEN UNCHANGED used ELSE Fault
    /\ pc' = "clean"
    /\ UNCHANGED <<dry, podman, dirs, at, list, search, src, quadlet, links, dropins, previewed,
                   shown, printed, moved, failed>>

\* In a dry run it prints the services itself.  If it is not there it is left out; if
\* it cannot be run that is logged; if it fails nothing is, and it has printed some.
ShowDryRun ==
    /\ pc = "podman" /\ dry
    /\ \/ podman = "ok" /\ shown' = Services /\ ran' = TRUE /\ UNCHANGED <<failed, used>>
       \/ podman = "ok" /\ shown' \in SUBSET Services /\ Fault /\ UNCHANGED <<ran, failed>>
       \/ podman = "unusable" /\ failed' = TRUE /\ UNCHANGED <<shown, ran, used>>
       \/ podman = "missing" /\ UNCHANGED <<shown, ran, failed, used>>
    /\ pc' = IF podman = "missing" THEN "print" ELSE "clean"
    /\ UNCHANGED <<dry, podman, dirs, at, list, search, src, target, previewed, printed, rc,
                   moved>>

\* clean_generated_source_paths; the first failure leaves the rest, with a warning.
Clean ==
    /\ pc = "clean"
    /\ \E some \in {SystemdNames} \cup (IF used.faults < MaxFaults THEN SUBSET SystemdNames ELSE {}) :
          /\ normal' = [u \in SystemdNames |->
                IF u \in some /\ normal[u] # None THEN KeepFirst(normal[u]) ELSE normal[u]]
          /\ IF some = SystemdNames THEN UNCHANGED <<used, failed>>
             ELSE Fault /\ failed' = TRUE
    /\ pc' = IF dry THEN "print" ELSE "done"
    /\ UNCHANGED <<dry, podman, dirs, at, list, search, src, quadlet, links, dropins, result, moved>>

\* A dry run prints what is in the normal directory; a file it cannot read is left
\* out with a warning.
PrintNormalDir ==
    /\ pc = "print"
    /\ LET there == {u \in SystemdNames : normal[u] # None} IN
          \/ printed' = there /\ UNCHANGED <<failed, used>>
          \/ printed' \in SUBSET there /\ Fault /\ failed' = TRUE
    /\ Exit(0)
    /\ UNCHANGED <<dry, podman, dirs, at, list, search, src, target, previewed, shown, ran, moved>>

-----------------------------------------------------------------------------
(* A sync changes a checkout. *)
Move(p, c) ==
    /\ used.moves < MaxMoves /\ used' = [used EXCEPT !.moves = @ + 1]
    /\ src[p] # c
    /\ src' = [src EXCEPT ![p] = c]
    /\ moved' = moved \cup {p}
    /\ UNCHANGED <<machine, search, target, result, failed>>

Init ==
    /\ pc = "idle" /\ dry \in BOOLEAN /\ podman = "ok"
    /\ src \in [Paths -> AtFirst]
    /\ dirs = DirOrder /\ at = 1 /\ list = {}
    /\ quadlet = [n \in QuadletNames |-> None]
    /\ normal = [n \in SystemdNames |-> None]
    /\ links = {} /\ dropins = {} /\ previewed = {} /\ shown = {} /\ printed = {}
    /\ seen = {} /\ generated = NoneMade /\ warned = {}
    /\ rc = None /\ ran = FALSE /\ moved = {} /\ failed = FALSE
    /\ used = [moves |-> 0, runs |-> 0, faults |-> 0]

Run ==
    \/ NoSources \/ PodmanUnusable \/ Preview \/ NoDirectory \/ MakeDirectory
    \/ SeeQuadlets \/ SeeUnits \/ WarnCollisions
    \/ ListQuadlets \/ InstallQuadlet \/ ListUnits \/ InstallUnit \/ InstallFails \/ NextDir
    \/ LinkDropins \/ RunPodman \/ ShowDryRun \/ Clean \/ PrintNormalDir

Next ==
    \/ Begin \/ Run
    \/ \E p \in Paths, c \in Contents \cup {Garbage, None} : Move(p, c)

Spec == Init /\ [][Next]_vars

-----------------------------------------------------------------------------
(* Properties *)

\* Every variable keeps its type.
TypeOK ==
    /\ pc \in {"idle", "check", "make", "see_quadlets", "see_units", "dirs", "quadlets", "units",
               "podman", "clean", "print", "done"}
    /\ dry \in BOOLEAN /\ podman \in {"ok", "missing", "unusable"}
    /\ src \in [Paths -> Contents \cup {Garbage, None}]
    /\ dirs \in {DirOrder, <<>>} /\ at \in 1..(Len(DirOrder) + 1) /\ list \subseteq Paths
    /\ quadlet \in [QuadletNames -> Unit \cup {None}]
    /\ normal \in [SystemdNames -> Unit \cup {None}]
    /\ links \subseteq SystemdNames \X UNION Range(Installs) /\ dropins \subseteq Dropins
    /\ previewed \subseteq Paths /\ shown \subseteq QuadletNames /\ printed \subseteq SystemdNames
    /\ seen \subseteq Names /\ generated \in [SystemdNames -> QuadletNames \cup {None}]
    /\ warned \subseteq Names \X Names
    /\ rc \in {None, 0, 1} /\ ran \in BOOLEAN /\ moved \subseteq Paths /\ failed \in BOOLEAN
    /\ used \in [moves : 0..MaxMoves, runs : 0..MaxRuns, faults : 0..MaxFaults]

Installing == dirs # <<>> /\ (dry \/ podman = "ok")

\* The names that no sync has touched since the run began: all their paths are as
\* the generator found them.
Steady(n) == \A p \in moved : NameOf[p] # n

Providers(n) == {p \in Paths : NameOf[p] = n /\ Present(p)}

\* The file the last path provides.
Wins(p) == \A q \in Providers(NameOf[p]) : Position(q) <= Position(p)

\* What is installed of a name is what the last path that has it provides, as it is now.
AsProvided(n, file) ==
    IF file = None THEN Providers(n) = {}
    ELSE file.from \in Providers(n) /\ Wins(file.from) /\ src[file.from] = file.text

\* A run that ends with success has installed, of every name that was left alone,
\* the file of the last path that has it, with its present text, and nothing of
\* another name: an error on the way, a file that vanished or a generator that
\* failed shows in the exit code (app.rs:207-240, discover.rs:101-105).
SuccessMeansInstalled ==
    (pc = "done" /\ rc = 0 /\ ~dry /\ Installing) =>
        \A n \in Names : Steady(n) =>
            \/ \E q \in QuadletNames : Makes[q] = n /\ quadlet[q] # None
            \/ AsProvided(n, IF n \in QuadletNames THEN quadlet[n] ELSE normal[n])

\* After a successful run every unit points at exactly one source: the file in the
\* checkout, not the copy podman read (mod.rs:29-48).
OneRealSource ==
    (pc = "done" /\ rc = 0 /\ ~dry /\ Installing /\ ~failed) =>
        \A u \in SystemdNames : normal[u] # None => normal[u].sources = <<normal[u].from>>

\* After a successful run every link leads to an installed unit, and a unit is linked
\* as its own text asks, also where an earlier file of its name was installed first
\* (README:189, mod.rs:175-205).
LinksAreMade ==
    (pc = "done" /\ rc = 0 /\ ~dry /\ Installing /\ ~failed) =>
        /\ \A l \in links : normal[l[1]] # None
        /\ \A u \in SystemdNames :
              (normal[u] # None /\ ~\E n \in Services : Makes[n] = u) =>
                  {u} \X Installs[normal[u].text] \subseteq links

\* Nobody is overridden in silence: where two files have a name, or a file has the
\* name of a Quadlet's service, and no sync has touched them, the run has warned of
\* it, and it warns of nothing that is not so.  Of several Quadlets that make the
\* service one is named, and none where no file has its name (discover.rs:106-162).
OverridesAreWarnedOf ==
    (pc = "done" /\ Installing /\ ~failed) =>
        /\ \A n \in Names :
              Steady(n) /\ (\E p, q \in Providers(n) : p # q) => <<n, n>> \in warned
        /\ \A n \in QuadletNames :
              Steady(n) /\ Steady(Makes[n]) /\ Providers(n) # {} /\ Providers(Makes[n]) # {}
                  => \E q \in QuadletNames : Makes[q] = Makes[n] /\ <<q, Makes[n]>> \in warned
        /\ \A w \in warned :
              Steady(w[1]) /\ Steady(w[2]) =>
                  /\ Providers(w[1]) # {} /\ Providers(w[2]) # {}
                  /\ w[1] = w[2] => \E p, q \in Providers(w[1]) : p # q
                  /\ w[1] # w[2] => w[1] \in QuadletNames /\ Makes[w[1]] = w[2]

\* A dry run in which nothing fails previews every file, prints the unit files that a
\* real run would install, each with the text of the last path that has its name, and
\* has podman's generator print the services of the Quadlet files, with theirs: for a
\* real run SuccessMeansInstalled says the same.  Unlike a real run it shows both, the
\* unit file and the service of its name; and when the generator fails it says nothing
\* of it (dryrun.rs:135-288).
DryRunShowsTheRun ==
    (pc = "done" /\ dry /\ rc = 0 /\ Installing /\ ~failed) =>
        \A n \in Names : Steady(n) =>
            /\ Providers(n) \subseteq previewed
            /\ AsProvided(n, IF n \in QuadletNames THEN quadlet[n] ELSE normal[n])
            /\ n \in SystemdNames => (n \in printed <=> Providers(n) # {})
            /\ n \in QuadletNames /\ ran => (n \in shown <=> Providers(n) # {})
=============================================================================
