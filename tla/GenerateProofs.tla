--------------------------- MODULE GenerateProofs ---------------------------
(* What `quadcd generate` and its dry run leave behind, for any source         *)
(* directories, files and names, any number of runs and failures, and syncs    *)
(* that change the files at any moment.                                        *)
EXTENDS Generate, WellFoundedInduction, TLAPS

-----------------------------------------------------------------------------
(* The inductive invariant *)

\* The files being installed are those of the current directory.  A file that was
\* there when it was listed, and has been installed, comes before those that have not.
ListOK ==
  pc \in {"quadlets", "units"} =>
    /\ at \in DOMAIN dirs
    /\ \A p \in list : /\ DirOf[p] = dirs[at]
                       /\ NameOf[p] \in IF pc = "quadlets" THEN QuadletNames ELSE SystemdNames
    /\ \A p \in list, q \in Paths \ list :
         DirOf[q] = dirs[at] /\ NameOf[q] = NameOf[p] /\ Steady(NameOf[q]) /\ Present(q) =>
           Position(q) <= Position(p)

\* What is known of a run before it installs anything, and before a dry run prints.
StageOK ==
  /\ pc \in {"idle", "check", "make"} => at = 1 /\ seen = {} /\ generated = NoneMade /\ warned = {}
  /\ pc = "check" => ~failed
  /\ pc = "see_units" => at \in DOMAIN dirs
  /\ pc \in {"make", "print"} => dry

\* The run has been through this path.
Handled(p) == pc \in {"dirs", "quadlets", "units", "podman", "clean", "print", "done"} /\
  \E j \in DOMAIN dirs :
    /\ DirOf[p] = dirs[j]
    /\ \/ j < at
       \/ j = at /\ pc = "quadlets" /\ NameOf[p] \in QuadletNames /\ p \notin list
       \/ j = at /\ pc = "units" /\ (NameOf[p] \in QuadletNames \/ p \notin list)

\* Of the paths of a name that it has been through, the last one with a file is installed.
Chosen(n, unit) ==
  IF unit = None THEN \A q \in Paths : NameOf[q] = n /\ Handled(q) => ~Present(q)
  ELSE /\ NameOf[unit.from] = n /\ Handled(unit.from) /\ src[unit.from] = unit.text
       /\ \A q \in Paths :
            NameOf[q] = n /\ Handled(q) /\ Present(q) => Position(q) <= Position(unit.from)

Made(u) == \E n \in QuadletNames : Makes[n] = u /\ quadlet[n] # None

\* podman's generator may have written its service over the unit.
Replaced(u) == ~dry /\ Made(u)

\* No error has been passed over.
Sound == (dry => ~failed) /\ (pc = "done" \/ (pc = "clean" /\ ~dry) => rc = 0)

InstalledOK ==
  Sound =>
    /\ dry \/ ~Override => \A n \in QuadletNames : Steady(n) => Chosen(n, quadlet[n])
    /\ \A u \in SystemdNames : Steady(u) => Chosen(u, normal[u]) \/ Replaced(u)

\* A run that succeeds has been through all directories.
EndOK == pc \in {"podman", "clean", "print"} \/ (pc = "done" /\ rc = 0 /\ Installing) => at > Len(dirs)

\* The first line is the one of set_source_path.
SourceFirst(unit) == unit.sources # <<>> /\ unit.sources[1] = unit.from

SourcesOK ==
  /\ \A n \in QuadletNames : quadlet[n] # None => SourceFirst(quadlet[n])
  /\ \A u \in SystemdNames : normal[u] # None => SourceFirst(normal[u])

LinksOK ==
  /\ \A l \in links : normal[l[1]] # None
  /\ ~failed =>
       \A u \in SystemdNames : normal[u] # None /\ ~Made(u) =>
         {u} \X Installs[normal[u].text] \subseteq links

\* The files warn_duplicate_units has found: when it has found them all, it has seen
\* all directories.
SeenFiles ==
  {p \in Paths : Present(p) /\ \E j \in DOMAIN dirs :
     /\ DirOf[p] = dirs[j]
     /\ pc \in {"see_quadlets", "see_units"} =>
          j < at \/ (j = at /\ pc = "see_units" /\ NameOf[p] \in QuadletNames)}

\* What OverridesAreWarnedOf says of one warning.
TrueWarning(w) ==
  Steady(w[1]) /\ Steady(w[2]) =>
    /\ Providers(w[1]) # {} /\ Providers(w[2]) # {}
    /\ w[1] = w[2] => \E p, q \in Providers(w[1]) : p # q
    /\ w[1] # w[2] => w[1] \in QuadletNames /\ Makes[w[1]] = w[2]

\* The names it keeps are those of the files it has found, and it has warned of those
\* found twice.
SeenOK ==
  /\ \A p \in SeenFiles : Steady(NameOf[p]) => NameOf[p] \in seen
  /\ \A n \in seen : Steady(n) => \E p \in SeenFiles : NameOf[p] = n
  /\ \A p, q \in SeenFiles : p # q /\ NameOf[p] = NameOf[q] /\ Steady(NameOf[p]) =>
       <<NameOf[p], NameOf[p]>> \in warned

\* A unit has a Quadlet that makes it as soon as one has been found.
GeneratedOK ==
  /\ \A p \in SeenFiles : NameOf[p] \in QuadletNames /\ Steady(NameOf[p]) =>
       generated[Makes[NameOf[p]]] # None
  /\ \A u \in SystemdNames : generated[u] # None =>
       /\ Makes[generated[u]] = u
       /\ Steady(generated[u]) => \E p \in SeenFiles : NameOf[p] = generated[u]

CollisionsOK ==
  pc \notin {"see_quadlets", "see_units"} =>
    \A p, q \in SeenFiles :
      /\ NameOf[p] \in QuadletNames /\ NameOf[q] = Makes[NameOf[p]]
      /\ Steady(NameOf[p]) /\ Steady(NameOf[q])
      => \E n \in QuadletNames : Makes[n] = NameOf[q] /\ <<n, NameOf[q]>> \in warned

Looked == pc \notin {"idle", "check", "make"} /\ Installing /\ ~failed

WarnedOK ==
  Looked => SeenOK /\ GeneratedOK /\ CollisionsOK /\ \A w \in warned : TrueWarning(w)

\* A dry run has printed what there was.
PreviewOK ==
  dry =>
    /\ pc \notin {"idle", "check"} /\ ~failed =>
         \A p \in Paths : DirOf[p] \in Range(dirs) /\ Present(p) => p \in previewed \cup moved
    /\ ran => pc \in {"clean", "print", "done"} /\ shown = Services
    /\ pc = "done" /\ rc = 0 /\ Installing /\ ~failed =>
         printed = {u \in SystemdNames : normal[u] # None}

IInv ==
  /\ TypeOK /\ StageOK /\ ListOK /\ InstalledOK /\ EndOK /\ SourcesOK /\ LinksOK /\ WarnedOK /\ PreviewOK
  /\ OneRealSource
-----------------------------------------------------------------------------
(* Lemmas about the operators *)

\* A non-empty set of natural numbers has a least element.
LEMMA LeastOf ==
  ASSUME NEW S, S \subseteq Nat, S # {}
  PROVE  \E i \in S : \A j \in S : i <= j
<1>1. PICK i \in S : \A j \in S : <<j, i>> \notin OpToRel(<, Nat)
  BY NatLessThanWellFounded, WFMin, Zenon
<1>2. ASSUME NEW j \in S PROVE i <= j
  <2>1. <<j, i>> \notin {ss \in Nat \X Nat : ss[1] < ss[2]}
    BY <1>1 DEF OpToRel
  <2>2. QED
    BY <2>1
<1>3. QED
  BY <1>2

LEMMA PositionFacts ==
  ASSUME NEW p \in Paths
  PROVE  Position(p) \in Nat /\ PathOrder[Position(p)] = p
<1>1. \E i \in DOMAIN PathOrder : PathOrder[i] = p
  BY DEF Paths, Range
<1>2. Position(p) \in DOMAIN PathOrder /\ PathOrder[Position(p)] = p
  BY <1>1 DEF Position
<1>3. QED
  BY <1>2, ConstantsOK

\* The next file is in the list, and no other one comes before it.
LEMMA FirstFacts ==
  ASSUME list \subseteq Paths, list # {}
  PROVE  First \in list /\ \A q \in list : Position(First) <= Position(q)
<1>1. PICK i \in {Position(p) : p \in list} : \A j \in {Position(p) : p \in list} : i <= j
  <2>1. {Position(p) : p \in list} \subseteq Nat
    BY PositionFacts
  <2>2. QED
    BY <2>1, LeastOf
<1>2. \E p \in list : \A q \in list : Position(p) <= Position(q)
  BY <1>1
<1>3. QED
  BY <1>2 DEF First

\* Of files found, one is the last.
LEMMA LastFacts ==
  ASSUME NEW S, S \subseteq Paths, S # {}
  PROVE  Last(S) \in S
<1> DEFINE ToEnd(p) == Len(PathOrder) - Position(p)
<1>1. \A p \in Paths : Position(p) \in Nat /\ ToEnd(p) \in Nat
  <2> SUFFICES ASSUME NEW p \in Paths PROVE Position(p) \in Nat /\ ToEnd(p) \in Nat
    OBVIOUS
  <2>1. Len(PathOrder) \in Nat /\ DOMAIN PathOrder = 1..Len(PathOrder)
    BY ConstantsOK
  <2>2. Position(p) \in DOMAIN PathOrder
    BY DEF Paths, Range, Position
  <2>3. QED
    BY <2>1, <2>2
<1>2. PICK i \in {ToEnd(p) : p \in S} : \A j \in {ToEnd(p) : p \in S} : i <= j
  <2>1. {ToEnd(p) : p \in S} \subseteq Nat /\ {ToEnd(p) : p \in S} # {}
    BY <1>1
  <2> HIDE DEF ToEnd
  <2>2. QED
    BY <2>1, LeastOf
<1>3. PICK p \in S : i = ToEnd(p)
  BY <1>2
<1>4. \A q \in S : Position(q) <= Position(p)
  <2> SUFFICES ASSUME NEW q \in S PROVE Position(q) <= Position(p)
    OBVIOUS
  <2>1. ToEnd(p) <= ToEnd(q)
    BY <1>2, <1>3
  <2>2. Len(PathOrder) \in Nat
    BY ConstantsOK
  <2>3. QED
    BY <1>1, <2>1, <2>2
<1>5. QED
  BY <1>4 DEF Last

\* A file that can be read is installed as a unit from its path.
LEMMA InstalledFacts ==
  ASSUME NEW p \in Paths, src[p] \in Contents
  PROVE  /\ Installed(p) \in Unit /\ Installed(p) # None
         /\ Installed(p).text = src[p] /\ Installed(p).from = p /\ Installed(p).sources = <<p>>
<1>1. <<p>> \in Seq(Paths \cup {None})
  OBVIOUS
<1>2. Installed(p) \in Unit
  BY <1>1 DEF Installed, Unit
<1>3. QED
  BY <1>2, ConstantsOK DEF Installed

\* What podman's generator makes of a Quadlet file: a unit with one more line.
LEMMA MadeFacts ==
  ASSUME NEW unit \in Unit
  PROVE  LET made == [unit EXCEPT !.sources = Append(@, None)] IN
         /\ made \in Unit /\ made # None
         /\ made.text = unit.text /\ made.from = unit.from
         /\ made.sources = Append(unit.sources, None)
<1> DEFINE made == [unit EXCEPT !.sources = Append(@, None)]
<1>1. unit.sources \in Seq(Paths \cup {None})
  BY DEF Unit
<1>2. Append(unit.sources, None) \in Seq(Paths \cup {None})
  BY <1>1
<1>3. made = [text |-> unit.text, from |-> unit.from, sources |-> Append(unit.sources, None)]
  BY SMTT(30) DEF Unit
<1> HIDE DEF made
<1>4. made \in Unit
  BY <1>2, <1>3 DEF Unit
<1>5. /\ made.text = unit.text /\ made.from = unit.from
      /\ made.sources = Append(unit.sources, None)
  BY <1>3
<1>6. QED
  BY <1>4, <1>5, ConstantsOK DEF made

\* Cleaning changes the lines only.
LEMMA KeepFirstFacts ==
  ASSUME NEW unit \in Unit, unit.sources # <<>>
  PROVE  /\ KeepFirst(unit) \in Unit /\ KeepFirst(unit) # None
         /\ KeepFirst(unit).text = unit.text /\ KeepFirst(unit).from = unit.from
         /\ KeepFirst(unit).sources = <<unit.sources[1]>>
<1>1. unit.sources \in Seq(Paths \cup {None}) /\ Head(unit.sources) = unit.sources[1]
  BY DEF Unit
<1>2. <<unit.sources[1]>> \in Seq(Paths \cup {None})
  BY <1>1
<1>3. KeepFirst(unit) = [text |-> unit.text, from |-> unit.from, sources |-> <<unit.sources[1]>>]
  BY <1>1 DEF KeepFirst, Unit
<1>4. KeepFirst(unit) \in Unit
  BY <1>2, <1>3 DEF Unit
<1>5. QED
  BY <1>3, <1>4, ConstantsOK

-----------------------------------------------------------------------------
(* Types *)

\* What a run is doing, and what it has made, apart.
RunTyped ==
  /\ pc \in {"idle", "check", "make", "see_quadlets", "see_units", "dirs", "quadlets", "units",
             "podman", "clean", "print", "done"}
  /\ dry \in BOOLEAN /\ podman \in {"ok", "missing", "unusable"}
  /\ dirs \in {DirOrder, <<>>} /\ at \in 1..(Len(DirOrder) + 1) /\ list \subseteq Paths
  /\ rc \in {None, 0, 1} /\ failed \in BOOLEAN

SourceTyped ==
  /\ src \in [Paths -> Contents \cup {Garbage, None}] /\ moved \subseteq Paths
  /\ used \in [moves : 0..MaxMoves, runs : 0..MaxRuns, faults : 0..MaxFaults]

TargetTyped ==
  /\ quadlet \in [QuadletNames -> Unit \cup {None}]
  /\ normal \in [SystemdNames -> Unit \cup {None}]
  /\ links \subseteq SystemdNames \X UNION Range(Installs) /\ dropins \subseteq Dropins

ResultTyped ==
  /\ previewed \subseteq Paths /\ shown \subseteq QuadletNames /\ printed \subseteq SystemdNames
  /\ seen \subseteq Names /\ generated \in [SystemdNames -> QuadletNames \cup {None}]
  /\ warned \subseteq Names \X Names /\ ran \in BOOLEAN

LEMMA TypeParts == TypeOK <=> RunTyped /\ SourceTyped /\ TargetTyped /\ ResultTyped
BY DEF TypeOK, RunTyped, SourceTyped, TargetTyped, ResultTyped

LEMMA TypePartsNext == (RunTyped /\ SourceTyped /\ TargetTyped /\ ResultTyped)' => TypeOK'
BY DEF TypeOK, RunTyped, SourceTyped, TargetTyped, ResultTyped

LEMMA LenFacts == Len(DirOrder) \in Nat /\ 1 \in 1..(Len(DirOrder) + 1)
<1>1. Len(DirOrder) \in Nat
  BY ConstantsOK
<1>2. QED
  BY <1>1

\* Every path is in one of the source directories.
LEMMA DirKnown ==
  ASSUME NEW p \in Paths
  PROVE  DirOf[p] \in Range(DirOrder)
<1>1. p \in DOMAIN DirOf
  BY ConstantsOK
<1>2. DirOf[p] \in Range(DirOf)
  BY <1>1 DEF Range
<1>3. QED
  BY <1>2, ConstantsOK

LEMMA DirsFacts ==
  ASSUME RunTyped
  PROVE  /\ Len(DirOrder) \in Nat /\ Len(dirs) \in Nat /\ DOMAIN dirs = 1..Len(dirs)
         /\ at \in Nat /\ at >= 1
         /\ at <= Len(dirs) => at \in DOMAIN dirs /\ dirs = DirOrder
         /\ dirs = <<>> => Len(dirs) = 0
BY ConstantsOK DEF RunTyped

LEMMA FaultTyped ==
  ASSUME SourceTyped, Fault
  PROVE  used' \in [moves : 0..MaxMoves, runs : 0..MaxRuns, faults : 0..MaxFaults]
<1>1. used.faults \in 0..MaxFaults /\ used.faults + 1 \in 0..MaxFaults
  BY ConstantsOK DEF Fault, SourceTyped
<1>2. QED
  BY <1>1 DEF Fault, SourceTyped

LEMMA TypeInit == Init => TypeOK
<1> SUFFICES ASSUME Init PROVE TypeOK
  OBVIOUS
<1>1. RunTyped
  BY LenFacts DEF Init, RunTyped
<1>2. src \in [Paths -> Contents \cup {Garbage, None}]
  BY ConstantsOK DEF Init
<1>3. SourceTyped
  BY <1>2, ConstantsOK DEF Init, SourceTyped
<1>4. TargetTyped /\ ResultTyped
  BY DEF Init, NoneMade, TargetTyped, ResultTyped
<1>5. QED
  BY <1>1, <1>3, <1>4, TypeParts

\* How a run goes on.
LEMMA RunTypedStep ==
  ASSUME TypeOK, StageOK, ListOK, [Next]_vars
  PROVE  RunTyped'
<1>0. RunTyped
  BY TypeParts
<1> USE <1>0 DEF RunTyped, result, target
<1>1. CASE Begin
  BY <1>1, LenFacts DEF Begin
<1>2. CASE NoSources \/ PodmanUnusable
  BY <1>2 DEF NoSources, PodmanUnusable, Exit
<1>3. CASE Preview \/ NoDirectory \/ MakeDirectory
  BY <1>3 DEF Preview, NoDirectory, MakeDirectory, Exit
<1>16. CASE SeeQuadlets \/ WarnCollisions
  BY <1>16, LenFacts DEF SeeQuadlets, WarnCollisions
<1>4. CASE ListQuadlets \/ ListUnits
  BY <1>4 DEF ListQuadlets, ListUnits, FindFiles
<1>5. CASE InstallQuadlet
  BY <1>5 DEF InstallQuadlet
<1>6. CASE InstallUnit
  BY <1>6 DEF InstallUnit
<1>7. CASE InstallFails
  BY <1>7 DEF InstallFails, Exit
<1>8. CASE LinkDropins
  BY <1>8 DEF LinkDropins
<1>9. CASE RunPodman
  BY <1>9 DEF RunPodman
<1>10. CASE ShowDryRun \/ PrintNormalDir
  BY <1>10 DEF ShowDryRun, PrintNormalDir, Exit
<1>11. CASE Clean
  BY <1>11 DEF Clean
<1>12. ASSUME NEW p \in Paths, NEW c \in Contents \cup {Garbage, None}, Move(p, c)
       PROVE  RunTyped'
  BY <1>12 DEF Move, machine
<1>13. CASE NextDir \/ SeeUnits
  <2>1. at' \in 1..(Len(DirOrder) + 1)
    BY <1>13, DirsFacts DEF NextDir, SeeUnits, ListOK, StageOK
  <2>2. QED
    BY <1>13, <2>1 DEF NextDir, SeeUnits
<1>14. CASE UNCHANGED vars
  BY <1>14 DEF vars, machine
<1>15. QED
  BY <1>1, <1>2, <1>3, <1>4, <1>5, <1>6, <1>7, <1>8, <1>9, <1>10, <1>11, <1>12, <1>13, <1>14,
     <1>16 DEF Next, Run

\* Only syncs touch the sources.
LEMMA SourceTypedStep ==
  ASSUME TypeOK, [Next]_vars
  PROVE  SourceTyped'
<1>0. SourceTyped
  BY TypeParts
<1>1. CASE Begin
  <2>1. used.runs \in 0..MaxRuns /\ used.runs + 1 \in 0..MaxRuns
    BY <1>0, <1>1, ConstantsOK DEF Begin, SourceTyped
  <2>2. QED
    BY <1>0, <1>1, <2>1 DEF Begin, SourceTyped
<1>2. CASE Run
  <2>1. UNCHANGED <<src, moved>> /\ (Fault \/ used' = used)
    BY <1>2 DEF Run, NoSources, PodmanUnusable, Preview, NoDirectory, MakeDirectory, SeeQuadlets,
       SeeUnits, WarnCollisions, ListQuadlets, InstallQuadlet, ListUnits, InstallUnit, InstallFails,
       NextDir, LinkDropins, RunPodman, ShowDryRun, Clean, PrintNormalDir
  <2>2. QED
    BY <1>0, <2>1, FaultTyped DEF SourceTyped
<1>3. ASSUME NEW p \in Paths, NEW c \in Contents \cup {Garbage, None}, Move(p, c)
      PROVE  SourceTyped'
  <2>1. used.moves \in 0..MaxMoves /\ used.moves + 1 \in 0..MaxMoves
    BY <1>0, <1>3, ConstantsOK DEF Move, SourceTyped
  <2>2. used' \in [moves : 0..MaxMoves, runs : 0..MaxRuns, faults : 0..MaxFaults]
    BY <1>0, <1>3, <2>1 DEF Move, SourceTyped
  <2>3. QED
    BY <1>0, <1>3, <2>2 DEF Move, SourceTyped
<1>4. CASE UNCHANGED vars
  BY <1>0, <1>4 DEF vars, SourceTyped
<1>5. QED
  BY <1>1, <1>2, <1>3, <1>4 DEF Next

\* The file that is installed next.
LEMMA NextFile ==
  ASSUME TypeOK, ListOK, pc \in {"quadlets", "units"}, list # {}
  PROVE  /\ First \in list /\ First \in Paths /\ at \in DOMAIN dirs /\ DirOf[First] = dirs[at]
         /\ pc = "quadlets" => NameOf[First] \in QuadletNames
         /\ pc = "units" => NameOf[First] \in SystemdNames
         /\ \A q \in list : Position(First) <= Position(q)
BY FirstFacts DEF ListOK, TypeOK

\* What podman's generator leaves of a unit.
LEMMA PodmanFacts ==
  ASSUME TypeOK, RunPodman, NEW u \in SystemdNames
  PROVE  \/ normal'[u] = normal[u] /\ (rc' = 0 => ~Made(u))
         \/ \E n \in QuadletNames :
              /\ Makes[n] = u /\ quadlet[n] \in Unit
              /\ normal'[u] = [quadlet[n] EXCEPT !.sources = Append(@, None)]
<1>1. PICK made \in {Services} \cup (IF used.faults < MaxFaults THEN SUBSET Services ELSE {}) :
        /\ \E owner \in Owners(made) :
              normal' = [v \in SystemdNames |->
                IF owner[v] = None THEN normal[v]
                ELSE [quadlet[owner[v]] EXCEPT !.sources = Append(@, None)]]
        /\ rc' = IF made = Services THEN 0 ELSE 1
  BY DEF RunPodman
<1>2. PICK owner \in Owners(made) :
        normal' = [v \in SystemdNames |->
          IF owner[v] = None THEN normal[v]
          ELSE [quadlet[owner[v]] EXCEPT !.sources = Append(@, None)]]
  BY <1>1
<1>3. made \subseteq Services
  BY <1>1
<1>4. /\ owner[u] \in made \cup {None}
      /\ owner[u] = None => \A n \in made : Makes[n] # u
      /\ owner[u] # None => Makes[owner[u]] = u
  BY <1>2 DEF Owners
<1>5. CASE owner[u] # None
  <2>1. owner[u] \in QuadletNames /\ quadlet[owner[u]] \in Unit
    BY <1>3, <1>4, <1>5 DEF Services, TypeOK
  <2>2. normal'[u] = [quadlet[owner[u]] EXCEPT !.sources = Append(@, None)]
    BY <1>2, <1>5
  <2>3. QED
    BY <1>4, <1>5, <2>1, <2>2
<1>6. CASE owner[u] = None
  <2>1. normal'[u] = normal[u]
    BY <1>2, <1>6
  <2>2. rc' = 0 => made = Services
    BY <1>1
  <2>3. rc' = 0 => ~Made(u)
    BY <1>4, <1>6, <2>2 DEF Made, Services
  <2>4. QED
    BY <2>1, <2>3
<1>7. QED
  BY <1>5, <1>6

\* What cleaning leaves of a unit.
LEMMA CleanFacts ==
  ASSUME TypeOK, Clean, NEW u \in SystemdNames
  PROVE  /\ normal'[u] = normal[u] \/ (normal[u] # None /\ normal'[u] = KeepFirst(normal[u]))
         /\ ~failed' /\ normal[u] # None => normal'[u] = KeepFirst(normal[u])
<1>1. PICK some \in {SystemdNames}
               \cup (IF used.faults < MaxFaults THEN SUBSET SystemdNames ELSE {}) :
        /\ normal' = [v \in SystemdNames |->
              IF v \in some /\ normal[v] # None THEN KeepFirst(normal[v]) ELSE normal[v]]
        /\ some = SystemdNames \/ failed' = TRUE
  BY DEF Clean
<1>2. QED
  BY <1>1

LEMMA SourcesThere ==
  ASSUME TypeOK, SourcesOK, NEW u \in SystemdNames, normal[u] # None
  PROVE  /\ normal[u] \in Unit /\ normal[u].sources # <<>>
         /\ normal[u].sources[1] = normal[u].from
BY DEF TypeOK, SourcesOK, SourceFirst

\* The actions that leave what is installed alone.
Leaves ==
  \/ NoSources \/ PodmanUnusable \/ Preview \/ NoDirectory \/ MakeDirectory
  \/ SeeQuadlets \/ SeeUnits \/ WarnCollisions
  \/ ListQuadlets \/ ListUnits \/ InstallFails \/ NextDir \/ ShowDryRun \/ PrintNormalDir
  \/ \E p \in Paths, c \in Contents \cup {Garbage, None} : Move(p, c)
  \/ UNCHANGED vars

LEMMA LeavesKeep == Leaves => UNCHANGED target
BY DEF Leaves, NoSources, PodmanUnusable, Preview, NoDirectory, MakeDirectory, SeeQuadlets,
   SeeUnits, WarnCollisions, ListQuadlets, ListUnits, InstallFails, NextDir, ShowDryRun,
   PrintNormalDir, Move, vars

LEMMA Steps ==
  [Next]_vars => \/ Begin \/ Leaves \/ InstallQuadlet \/ InstallUnit \/ LinkDropins \/ RunPodman
                 \/ Clean
BY DEF Next, Run, Leaves

LEMMA TargetTypedStep ==
  ASSUME TypeOK, ListOK, SourcesOK, [Next]_vars
  PROVE  TargetTyped'
<1>0. TargetTyped /\ SourceTyped /\ RunTyped
  BY TypeParts
<1>1. CASE Begin
  BY <1>0, <1>1 DEF Begin, TargetTyped
<1>2. CASE Leaves
  BY <1>0, <1>2, LeavesKeep DEF target, TargetTyped
<1>3. CASE InstallQuadlet
  <2>1. First \in Paths /\ NameOf[First] \in QuadletNames
    BY <1>3, NextFile DEF InstallQuadlet
  <2>2. src[First] \in Contents /\ quadlet' = [quadlet EXCEPT ![NameOf[First]] = Installed(First)]
    BY <1>3 DEF InstallQuadlet
  <2>3. quadlet' \in [QuadletNames -> Unit \cup {None}]
    BY <1>0, <2>1, <2>2, InstalledFacts DEF TargetTyped
  <2>4. QED
    BY <1>0, <1>3, <2>3 DEF InstallQuadlet, TargetTyped
<1>4. CASE InstallUnit
  <2>1. First \in Paths /\ NameOf[First] \in SystemdNames
    BY <1>4, NextFile DEF InstallUnit
  <2>2. src[First] \in Contents /\ normal' = [normal EXCEPT ![NameOf[First]] = Installed(First)]
    BY <1>4 DEF InstallUnit
  <2>3. normal' \in [SystemdNames -> Unit \cup {None}]
    BY <1>0, <2>1, <2>2, InstalledFacts DEF TargetTyped
  <2>4. Installs[src[First]] \subseteq UNION Range(Installs)
    BY <2>2, ConstantsOK DEF Range
  <2>5. PICK some \in SUBSET Installs[src[First]] : links' = links \cup ({NameOf[First]} \X some)
    BY <1>4 DEF InstallUnit
  <2>6. links' \subseteq SystemdNames \X UNION Range(Installs)
    BY <1>0, <2>1, <2>4, <2>5 DEF TargetTyped
  <2>7. QED
    BY <1>0, <1>4, <2>3, <2>6 DEF InstallUnit, TargetTyped
<1>5. CASE LinkDropins
  BY <1>0, <1>5 DEF LinkDropins, TargetTyped
<1>6. CASE RunPodman
  <2>1. ASSUME NEW u \in SystemdNames PROVE normal'[u] \in Unit \cup {None}
    <3>1. CASE normal'[u] = normal[u]
      BY <1>0, <3>1 DEF TargetTyped
    <3>2. ASSUME NEW n \in QuadletNames, quadlet[n] \in Unit,
                 normal'[u] = [quadlet[n] EXCEPT !.sources = Append(@, None)]
          PROVE  normal'[u] \in Unit
      BY <3>2, MadeFacts
    <3>3. QED
      BY <1>6, <3>1, <3>2, PodmanFacts
  <2>2. normal' \in [SystemdNames -> Unit \cup {None}]
    <3>1. PICK owner : normal' = [v \in SystemdNames |->
              IF owner[v] = None THEN normal[v]
              ELSE [quadlet[owner[v]] EXCEPT !.sources = Append(@, None)]]
      BY <1>6 DEF RunPodman
    <3>2. normal' = [v \in SystemdNames |-> normal'[v]]
      BY <3>1
    <3>3. QED
      BY <2>1, <3>2
  <2>3. QED
    BY <1>0, <1>6, <2>2 DEF RunPodman, TargetTyped
<1>7. CASE Clean
  <2>1. ASSUME NEW u \in SystemdNames PROVE normal'[u] \in Unit \cup {None}
    <3>1. CASE normal'[u] = normal[u]
      BY <1>0, <3>1 DEF TargetTyped
    <3>2. CASE normal[u] # None /\ normal'[u] = KeepFirst(normal[u])
      BY <3>2, SourcesThere, KeepFirstFacts
    <3>3. QED
      BY <1>7, <3>1, <3>2, CleanFacts
  <2>2. normal' \in [SystemdNames -> Unit \cup {None}]
    <3>1. PICK some : normal' = [v \in SystemdNames |->
              IF v \in some /\ normal[v] # None THEN KeepFirst(normal[v]) ELSE normal[v]]
      BY <1>7 DEF Clean
    <3>2. normal' = [v \in SystemdNames |-> normal'[v]]
      BY <3>1
    <3>3. QED
      BY <2>1, <3>2
  <2>3. QED
    BY <1>0, <1>7, <2>2 DEF Clean, TargetTyped
<1>8. QED
  BY <1>1, <1>2, <1>3, <1>4, <1>5, <1>6, <1>7, Steps

\* What a listing adds to the names and the warnings.
LEMMA FoundFacts ==
  ASSUME NEW found, found \subseteq Paths
  PROVE  NamesOf(found) \subseteq Names /\ Repeated(found) \subseteq NamesOf(found)
<1>1. \A p \in Paths : NameOf[p] \in Names
  BY ConstantsOK DEF Range
<1>2. QED
  BY <1>1 DEF NamesOf, Repeated

\* The Quadlet that is kept of a unit makes it.
LEMMA MakingFacts ==
  ASSUME TypeOK, NEW found, found \subseteq Paths, \A p \in found : NameOf[p] \in QuadletNames
  PROVE  /\ Making(found) \in [SystemdNames -> QuadletNames \cup {None}]
         /\ \A u \in SystemdNames :
              \/ /\ Making(found)[u] = generated[u]
                 /\ \A p \in found : Makes[NameOf[p]] # u
              \/ \E p \in found : Making(found)[u] = NameOf[p] /\ Makes[NameOf[p]] = u
<1>1. ASSUME NEW u \in SystemdNames
      PROVE  \/ /\ Making(found)[u] = generated[u]
                /\ \A p \in found : Makes[NameOf[p]] # u
             \/ \E p \in found : Making(found)[u] = NameOf[p] /\ Makes[NameOf[p]] = u
  <2> DEFINE makers == {p \in found : Makes[NameOf[p]] = u}
  <2>1. Making(found)[u] = IF makers = {} THEN generated[u] ELSE NameOf[Last(makers)]
    BY DEF Making
  <2>2. CASE makers = {}
    BY <2>1, <2>2
  <2>3. CASE makers # {}
    <3>1. makers \subseteq Paths
      OBVIOUS
    <3>2. Last(makers) \in makers
      <4> HIDE DEF makers
      <4> QED
        BY <2>3, <3>1, LastFacts
    <3>3. QED
      BY <2>1, <2>3, <3>2
  <2>4. QED
    BY <2>2, <2>3
<1>2. \A u \in SystemdNames : Making(found)[u] \in QuadletNames \cup {None}
  BY <1>1 DEF TypeOK
<1>3. Making(found) = [u \in SystemdNames |-> Making(found)[u]]
  BY DEF Making
<1>4. QED
  BY <1>1, <1>2, <1>3

\* What warn_duplicate_units keeps, and what is printed.
LEMMA ResultTypedStep ==
  ASSUME TypeOK, [Next]_vars
  PROVE  ResultTyped'
<1>0. ResultTyped /\ TypeOK
  BY TypeParts
<1>1. Services \subseteq QuadletNames
  BY DEF Services
<1>2. CASE Begin
  BY <1>2 DEF Begin, NoneMade, ResultTyped
<1>3. CASE Preview \/ RunPodman \/ ShowDryRun \/ PrintNormalDir
  BY <1>0, <1>1, <1>3 DEF Preview, RunPodman, ShowDryRun, PrintNormalDir, Exit, search, ResultTyped
<1>4. CASE SeeQuadlets \/ SeeUnits
  <2>1. PICK found \in SUBSET Paths :
          /\ seen' = seen \cup NamesOf(found) /\ WarnOf(Repeated(found))
          /\ generated' = generated \/ (generated' = Making(found)
                                          /\ \A p \in found : NameOf[p] \in QuadletNames)
    <3>1. \A d, names : /\ FindFiles(d, names) \in SUBSET Paths
                        /\ \A p \in FindFiles(d, names) : NameOf[p] \in names
      BY DEF FindFiles
    <3>2. QED
      BY <1>4, <3>1 DEF SeeQuadlets, SeeUnits
  <2>2. UNCHANGED result
    BY <1>4 DEF SeeQuadlets, SeeUnits
  <2>3. seen' \subseteq Names /\ warned' \subseteq Names \X Names
    BY <1>0, <2>1, FoundFacts DEF WarnOf, ResultTyped
  <2>4. generated' \in [SystemdNames -> QuadletNames \cup {None}]
    BY <1>0, <2>1, MakingFacts DEF ResultTyped
  <2>5. QED
    BY <1>0, <2>2, <2>3, <2>4 DEF result, ResultTyped
<1>5. CASE WarnCollisions
  <2>1. /\ warned' = warned \cup
             {<<generated[u], u>> : u \in {v \in SystemdNames : generated[v] # None /\ v \in seen}}
        /\ UNCHANGED <<seen, generated, result>>
    BY <1>5 DEF WarnCollisions
  <2>2. \A u \in SystemdNames : generated[u] # None => <<generated[u], u>> \in Names \X Names
    BY <1>0 DEF ResultTyped, Names
  <2>3. warned' \subseteq Names \X Names
    BY <1>0, <2>1, <2>2 DEF ResultTyped
  <2>4. QED
    BY <1>0, <2>1, <2>3 DEF result, ResultTyped
<1>6. ASSUME UNCHANGED <<previewed, shown, printed, search, ran>> PROVE ResultTyped'
  BY <1>0, <1>6 DEF search, ResultTyped
<1>7. CASE \/ NoSources \/ PodmanUnusable \/ NoDirectory \/ MakeDirectory \/ ListQuadlets
           \/ InstallQuadlet \/ ListUnits \/ InstallUnit \/ InstallFails \/ NextDir \/ LinkDropins
           \/ Clean \/ \E p \in Paths, c \in Contents \cup {Garbage, None} : Move(p, c)
           \/ UNCHANGED vars
  BY <1>6, <1>7 DEF NoSources, PodmanUnusable, NoDirectory, MakeDirectory, ListQuadlets,
     InstallQuadlet, ListUnits, InstallUnit, InstallFails, NextDir, LinkDropins, Clean, Move, vars,
     result
<1>8. QED
  BY <1>2, <1>3, <1>4, <1>5, <1>7 DEF Next, Run

LEMMA TypeStep ==
  ASSUME TypeOK, StageOK, ListOK, SourcesOK, [Next]_vars
  PROVE  TypeOK'
BY RunTypedStep, SourceTypedStep, TargetTypedStep, ResultTypedStep, TypePartsNext

-----------------------------------------------------------------------------
(* Installing *)

\* The paths of a name that no sync has touched are as they were.
LEMMA SteadyFacts ==
  ASSUME TypeOK, [Next]_vars, ~Begin
  PROVE  \A n : Steady(n)' =>
           Steady(n) /\ \A p \in Paths : NameOf[p] = n => (Present(p)' <=> Present(p)) /\ src'[p] = src[p]
<1>1. CASE UNCHANGED <<src, moved>>
  BY <1>1 DEF Steady, Present
<1>2. ASSUME NEW p \in Paths, NEW c \in Contents \cup {Garbage, None}, Move(p, c)
      PROVE  \A n : Steady(n)' =>
               Steady(n) /\ \A q \in Paths : NameOf[q] = n => (Present(q)' <=> Present(q)) /\ src'[q] = src[q]
  <2>1. moved' = moved \cup {p} /\ \A q \in Paths \ {p} : src'[q] = src[q]
    BY <1>2 DEF Move, TypeOK
  <2>2. QED
    BY <2>1 DEF Steady, Present
<1>3. Run => UNCHANGED <<src, moved>>
  BY DEF Run, NoSources, PodmanUnusable, Preview, NoDirectory, MakeDirectory, SeeQuadlets,
     SeeUnits, WarnCollisions, ListQuadlets, InstallQuadlet, ListUnits, InstallUnit, InstallFails,
     NextDir, LinkDropins, RunPodman, ShowDryRun, Clean, PrintNormalDir
<1>4. UNCHANGED vars => UNCHANGED <<src, moved>>
  BY DEF vars
<1>5. QED
  BY <1>1, <1>2, <1>3, <1>4 DEF Next

\* How a run gets from stage to stage.
LEMMA StageStep ==
  ASSUME TypeOK, StageOK, [Next]_vars
  PROVE  StageOK'
<1>1. CASE Begin
  BY <1>1 DEF Begin, StageOK
<1>2. CASE Preview \/ MakeDirectory \/ SeeUnits \/ WarnCollisions
  BY <1>2 DEF Preview, MakeDirectory, SeeUnits, WarnCollisions, search, StageOK
<1>3. CASE SeeQuadlets
  BY <1>3, DirsFacts, TypeParts DEF SeeQuadlets, StageOK
<1>4. CASE NoSources \/ PodmanUnusable \/ NoDirectory \/ PrintNormalDir
  BY <1>4 DEF NoSources, PodmanUnusable, NoDirectory, PrintNormalDir, Exit, StageOK
<1>5. CASE ListQuadlets \/ InstallQuadlet \/ ListUnits \/ InstallUnit \/ InstallFails \/ NextDir
  BY <1>5 DEF ListQuadlets, InstallQuadlet, ListUnits, InstallUnit, InstallFails, NextDir, Exit,
     StageOK
<1>6. CASE LinkDropins \/ RunPodman \/ ShowDryRun \/ Clean
  BY <1>6 DEF LinkDropins, RunPodman, ShowDryRun, Clean, StageOK
<1>7. CASE \/ \E p \in Paths, c \in Contents \cup {Garbage, None} : Move(p, c)
           \/ UNCHANGED vars
  BY <1>7 DEF Move, vars, machine, search, StageOK
<1>8. QED
  BY <1>1, <1>2, <1>3, <1>4, <1>5, <1>6, <1>7 DEF Next, Run

LEMMA ListStep ==
  ASSUME TypeOK, ListOK, [Next]_vars
  PROVE  ListOK'
<1>1. CASE pc' \notin {"quadlets", "units"}
  BY <1>1 DEF ListOK
<1>2. CASE ListQuadlets
  <2>1. /\ pc' = "quadlets" /\ at' = at /\ dirs' = dirs /\ src' = src /\ at \in DOMAIN dirs
        /\ list' = FindFiles(dirs[at], QuadletNames)
    BY <1>2, DirsFacts, TypeParts DEF ListQuadlets
  <2>2. QED
    BY <2>1 DEF ListOK, FindFiles, Present
<1>3. CASE ListUnits
  <2>1. /\ pc = "quadlets" /\ pc' = "units" /\ at' = at /\ dirs' = dirs /\ src' = src
        /\ list' = FindFiles(dirs[at], SystemdNames)
    BY <1>3 DEF ListUnits
  <2>2. at \in DOMAIN dirs
    BY <2>1 DEF ListOK
  <2>3. QED
    BY <2>1, <2>2 DEF ListOK, FindFiles, Present
<1>4. CASE InstallQuadlet \/ InstallUnit
  <2>1. /\ pc \in {"quadlets", "units"} /\ list # {} /\ list' = list \ {First} /\ ~Begin
        /\ UNCHANGED <<pc, at, dirs, src, moved>>
    BY <1>4 DEF InstallQuadlet, InstallUnit, Begin
  <2>2. ASSUME NEW p \in list', NEW q \in Paths \ list', DirOf[q] = dirs[at],
               NameOf[q] = NameOf[p], Steady(NameOf[q]), Present(q)
        PROVE  Position(q) <= Position(p)
    <3>1. CASE q = First
      BY <2>1, <3>1, NextFile
    <3>2. CASE q # First
      BY <2>1, <2>2, <3>2 DEF ListOK
    <3>3. QED
      BY <3>1, <3>2
  <2>3. QED
    BY <2>1, <2>2 DEF ListOK, Steady, Present
<1>5. CASE InstallFails
  BY <1>5 DEF InstallFails, Exit, ListOK
<1>6. ASSUME NEW p \in Paths, NEW c \in Contents \cup {Garbage, None}, Move(p, c)
      PROVE  ListOK'
  <2>1. UNCHANGED <<pc, at, dirs, list>> /\ used' # used
    BY <1>6, ConstantsOK DEF Move, machine, TypeOK
  <2>2. ~Begin \/ pc' = "check"
    BY DEF Begin
  <2>3. CASE ~Begin
    BY <2>1, <2>3, SteadyFacts DEF ListOK
  <2>4. QED
    BY <2>2, <2>3 DEF ListOK
<1>7. CASE UNCHANGED vars
  BY <1>7 DEF vars, machine, ListOK, Steady, Present
<1>8. QED
  BY <1>1, <1>2, <1>3, <1>4, <1>5, <1>6, <1>7 DEF Next, Run, Begin, NoSources, PodmanUnusable,
     Preview, NoDirectory, MakeDirectory, SeeQuadlets, SeeUnits, WarnCollisions, NextDir,
     LinkDropins, RunPodman, ShowDryRun, Clean, PrintNormalDir, Exit

LEMMA EndStep ==
  ASSUME TypeOK, EndOK, [Next]_vars
  PROVE  EndOK'
<1>1. CASE Begin \/ NoSources \/ PodmanUnusable \/ NoDirectory \/ InstallFails
  BY <1>1, ConstantsOK DEF Begin, NoSources, PodmanUnusable, NoDirectory, InstallFails, Exit, EndOK,
     Installing
<1>2. CASE \/ Preview \/ MakeDirectory \/ SeeQuadlets \/ SeeUnits \/ WarnCollisions \/ ListQuadlets
           \/ InstallQuadlet \/ ListUnits \/ InstallUnit \/ NextDir
  BY <1>2 DEF Preview, MakeDirectory, SeeQuadlets, SeeUnits, WarnCollisions, ListQuadlets,
     InstallQuadlet, ListUnits, InstallUnit, NextDir, EndOK
<1>3. CASE LinkDropins \/ RunPodman \/ ShowDryRun \/ Clean \/ PrintNormalDir
  BY <1>3 DEF LinkDropins, RunPodman, ShowDryRun, Clean, PrintNormalDir, EndOK, Installing
<1>4. CASE \/ \E p \in Paths, c \in Contents \cup {Garbage, None} : Move(p, c)
           \/ UNCHANGED vars
  BY <1>4 DEF Move, vars, machine, result, EndOK, Installing
<1>5. QED
  BY <1>1, <1>2, <1>3, <1>4 DEF Next, Run

LEMMA NewQuadlet ==
  ASSUME TypeOK, ListOK, InstallQuadlet
  PROVE  /\ First \in list /\ First \in Paths /\ NameOf[First] \in QuadletNames
         /\ src[First] \in Contents /\ Installed(First) \in Unit /\ Installed(First) # None
         /\ quadlet'[NameOf[First]] = Installed(First)
         /\ \A n \in QuadletNames : n # NameOf[First] => quadlet'[n] = quadlet[n]
         /\ UNCHANGED <<normal, links, failed>>
<1>1. First \in list /\ First \in Paths /\ NameOf[First] \in QuadletNames
  BY NextFile DEF InstallQuadlet
<1>2. /\ src[First] \in Contents
      /\ quadlet' = [quadlet EXCEPT ![NameOf[First]] = Installed(First)]
      /\ UNCHANGED <<normal, links, failed>>
  BY DEF InstallQuadlet
<1>3. QED
  BY <1>1, <1>2, InstalledFacts DEF TypeOK

LEMMA NewUnit ==
  ASSUME TypeOK, ListOK, InstallUnit
  PROVE  /\ First \in list /\ First \in Paths /\ NameOf[First] \in SystemdNames
         /\ src[First] \in Contents /\ Installed(First) \in Unit /\ Installed(First) # None
         /\ normal'[NameOf[First]] = Installed(First)
         /\ \A u \in SystemdNames : u # NameOf[First] => normal'[u] = normal[u]
         /\ quadlet' = quadlet
         /\ failed => failed'
         /\ links \subseteq links' /\ \A l \in links' \ links : l[1] = NameOf[First]
         /\ ~failed' => {NameOf[First]} \X Installs[src[First]] \subseteq links'
<1>1. First \in list /\ First \in Paths /\ NameOf[First] \in SystemdNames
  BY NextFile DEF InstallUnit
<1>2. /\ src[First] \in Contents
      /\ normal' = [normal EXCEPT ![NameOf[First]] = Installed(First)]
      /\ quadlet' = quadlet
  BY DEF InstallUnit
<1>3. /\ failed => failed'
      /\ \E some \in SUBSET Installs[src[First]] : links' = links \cup ({NameOf[First]} \X some)
      /\ ~failed' => links' = links \cup ({NameOf[First]} \X Installs[src[First]])
  BY DEF InstallUnit
<1>4. QED
  BY <1>1, <1>2, <1>3, InstalledFacts DEF TypeOK

LEMMA SourcesStep ==
  ASSUME TypeOK, ListOK, SourcesOK, [Next]_vars
  PROVE  SourcesOK'
<1>1. CASE Begin
  <2>1. /\ \A u \in SystemdNames : normal'[u] = None
        /\ quadlet' = quadlet \/ \A n \in QuadletNames : quadlet'[n] = None
    BY <1>1 DEF Begin
  <2>2. QED
    BY <2>1 DEF SourcesOK
<1>2. CASE Leaves \/ LinkDropins
  BY <1>2, LeavesKeep DEF target, LinkDropins, SourcesOK
<1>3. InstallQuadlet \/ InstallUnit => SourceFirst(Installed(First))
  BY NewQuadlet, NewUnit, InstalledFacts DEF SourceFirst
<1>4. CASE InstallQuadlet
  BY <1>3, <1>4, NewQuadlet DEF SourcesOK
<1>5. CASE InstallUnit
  BY <1>3, <1>5, NewUnit DEF SourcesOK
<1>6. CASE RunPodman
  <2>1. quadlet' = quadlet
    BY <1>6 DEF RunPodman
  <2>2. ASSUME NEW u \in SystemdNames, normal'[u] # None
        PROVE  SourceFirst(normal'[u])
    <3>1. CASE normal'[u] = normal[u]
      BY <2>2, <3>1 DEF SourcesOK
    <3>2. ASSUME NEW n \in QuadletNames, quadlet[n] \in Unit,
                 normal'[u] = [quadlet[n] EXCEPT !.sources = Append(@, None)]
          PROVE  SourceFirst(normal'[u])
      <4>1. /\ normal'[u].from = quadlet[n].from
            /\ normal'[u].sources = Append(quadlet[n].sources, None)
        BY <3>2, MadeFacts
      <4>2. SourceFirst(quadlet[n]) /\ quadlet[n].sources \in Seq(Paths \cup {None})
        BY <3>2, ConstantsOK DEF SourcesOK, Unit
      <4>3. QED
        BY <4>1, <4>2 DEF SourceFirst
    <3>3. QED
      BY <1>6, <3>1, <3>2, PodmanFacts
  <2>3. QED
    BY <2>1, <2>2 DEF SourcesOK
<1>7. CASE Clean
  <2>1. quadlet' = quadlet
    BY <1>7 DEF Clean
  <2>2. ASSUME NEW u \in SystemdNames, normal'[u] # None
        PROVE  SourceFirst(normal'[u])
    <3>1. CASE normal'[u] = normal[u]
      BY <2>2, <3>1 DEF SourcesOK
    <3>2. CASE normal[u] # None /\ normal'[u] = KeepFirst(normal[u])
      BY <3>2, SourcesThere, KeepFirstFacts DEF SourceFirst
    <3>3. QED
      BY <1>7, <3>1, <3>2, CleanFacts
  <2>3. QED
    BY <2>1, <2>2 DEF SourcesOK
<1>8. QED
  BY <1>1, <1>2, <1>4, <1>5, <1>6, <1>7, Steps

\* Success comes from cleaning.
LEMMA SourceStep ==
  ASSUME TypeOK, StageOK, ListOK, SourcesOK, OneRealSource, [Next]_vars
  PROVE  OneRealSource'
<1>1. CASE Clean
  BY <1>1, CleanFacts, SourcesThere, KeepFirstFacts DEF OneRealSource
<1>2. CASE \/ Begin \/ NoSources \/ PodmanUnusable \/ NoDirectory \/ InstallFails
           \/ PrintNormalDir
  BY <1>2, ConstantsOK DEF Begin, NoSources, PodmanUnusable, NoDirectory, InstallFails,
     PrintNormalDir, Exit, StageOK, OneRealSource, Installing
<1>3. CASE \/ Preview \/ MakeDirectory \/ SeeQuadlets \/ SeeUnits \/ WarnCollisions \/ ListQuadlets
           \/ InstallQuadlet \/ ListUnits \/ InstallUnit \/ NextDir \/ LinkDropins \/ RunPodman
           \/ ShowDryRun
  BY <1>3 DEF Preview, MakeDirectory, SeeQuadlets, SeeUnits, WarnCollisions, ListQuadlets,
     InstallQuadlet, ListUnits, InstallUnit, NextDir, LinkDropins, RunPodman, ShowDryRun,
     OneRealSource
<1>4. CASE \/ \E p \in Paths, c \in Contents \cup {Garbage, None} : Move(p, c)
           \/ UNCHANGED vars
  BY <1>4 DEF Move, vars, machine, target, result, OneRealSource, Installing
<1>5. QED
  BY <1>1, <1>2, <1>3, <1>4 DEF Next, Run

LEMMA LinksStep ==
  ASSUME TypeOK, StageOK, ListOK, SourcesOK, LinksOK, [Next]_vars
  PROVE  LinksOK'
<1>1. CASE Begin
  BY <1>1 DEF Begin, LinksOK
<1>2. CASE Leaves \/ LinkDropins
  <2>1. UNCHANGED <<quadlet, normal, links>>
    BY <1>2, LeavesKeep DEF target, LinkDropins
  <2>2. failed => failed'
    BY <1>2 DEF Leaves, LinkDropins, NoSources, PodmanUnusable, Preview, StageOK, NoDirectory,
       MakeDirectory, SeeQuadlets, SeeUnits, WarnCollisions, ListQuadlets, ListUnits, InstallFails,
       NextDir, ShowDryRun, PrintNormalDir, Move, vars
  <2>3. QED
    BY <2>1, <2>2 DEF LinksOK, Made
<1>3. CASE InstallQuadlet
  <2>1. \A u : Made(u) => Made(u)'
    BY <1>3, NewQuadlet DEF Made
  <2>2. QED
    BY <1>3, <2>1, NewQuadlet DEF LinksOK
<1>4. CASE InstallUnit
  <2>1. \A u : Made(u)' = Made(u)
    BY <1>4, NewUnit DEF Made
  <2>2. \A l \in links' : normal'[l[1]] # None
    <3> SUFFICES ASSUME NEW l \in links' PROVE normal'[l[1]] # None
      OBVIOUS
    <3>1. CASE l[1] = NameOf[First]
      BY <1>4, <3>1, NewUnit
    <3>2. CASE l[1] # NameOf[First]
      <4>1. l \in links /\ l[1] \in SystemdNames
        BY <1>4, <3>2, NewUnit DEF TypeOK
      <4>2. QED
        BY <1>4, <3>2, <4>1, NewUnit DEF LinksOK
    <3>3. QED
      BY <3>1, <3>2
  <2>3. ASSUME ~failed', NEW u \in SystemdNames, normal'[u] # None, ~Made(u)'
        PROVE  {u} \X Installs[normal'[u].text] \subseteq links'
    <3>1. CASE u = NameOf[First]
      BY <1>4, <2>3, <3>1, NewUnit, InstalledFacts
    <3>2. CASE u # NameOf[First]
      BY <1>4, <2>1, <2>3, <3>2, NewUnit DEF LinksOK
    <3>3. QED
      BY <3>1, <3>2
  <2>4. QED
    BY <2>2, <2>3 DEF LinksOK
<1>5. CASE RunPodman \/ Clean
  <2>1. UNCHANGED <<quadlet, links>> /\ (failed => failed')
    BY <1>5 DEF RunPodman, Clean
  <2>2. ASSUME NEW u \in SystemdNames
        PROVE  /\ normal[u] # None => normal'[u] # None
               /\ ~Made(u) /\ normal'[u] # None =>
                    normal[u] # None /\ normal'[u].text = normal[u].text
    <3>1. CASE normal'[u] = normal[u]
      BY <3>1
    <3>2. CASE normal[u] # None /\ normal'[u] = KeepFirst(normal[u])
      BY <3>2, SourcesThere, KeepFirstFacts
    <3>3. ASSUME NEW n \in QuadletNames, Makes[n] = u, quadlet[n] \in Unit,
                 normal'[u] = [quadlet[n] EXCEPT !.sources = Append(@, None)]
          PROVE  Made(u) /\ normal'[u] # None
      BY <3>3, MadeFacts, ConstantsOK DEF Made
    <3>4. QED
      BY <1>5, <3>1, <3>2, <3>3, PodmanFacts, CleanFacts
  <2>3. \A l \in links : l[1] \in SystemdNames
    BY DEF TypeOK
  <2>4. QED
    BY <2>1, <2>2, <2>3 DEF LinksOK, Made
<1>6. QED
  BY <1>1, <1>2, <1>3, <1>4, <1>5, Steps

-----------------------------------------------------------------------------
(* Warnings and the preview *)

LEMMA SeenThere ==
  ASSUME NEW p \in SeenFiles
  PROVE  p \in Paths /\ Present(p) /\ p \in Providers(NameOf[p])
BY DEF SeenFiles, Providers

\* What a listing finds has not been found before.
LEMMA Found ==
  ASSUME TypeOK, StageOK, SeeQuadlets \/ SeeUnits,
         NEW names, names = IF pc = "see_quadlets" THEN QuadletNames ELSE SystemdNames,
         NEW found, found = FindFiles(dirs[at], names)
  PROVE  /\ SeenFiles' = SeenFiles \cup found /\ found \cap SeenFiles = {}
         /\ found \subseteq Paths
         /\ \A p \in found : Present(p) /\ NameOf[p] \in names /\ p \in Providers(NameOf[p])
<1>1. /\ found = {p \in Paths : DirOf[p] = dirs[at] /\ NameOf[p] \in names /\ Present(p)}
      /\ UNCHANGED <<dirs, src>>
  BY DEF FindFiles, SeeQuadlets, SeeUnits
<1>2. at \in DOMAIN dirs /\ at \in Nat /\ DOMAIN dirs \subseteq Nat /\ dirs = DirOrder
  BY DirsFacts, TypeParts DEF SeeQuadlets, SeeUnits, StageOK
<1>3. \A j \in DOMAIN dirs : dirs[j] = dirs[at] => j = at
  BY <1>2, ConstantsOK DEF IsInjective
<1>4. \A p \in Paths : Present(p)' <=> Present(p)
  BY <1>1 DEF Present
<1>5. \A p \in Paths : NameOf[p] \in QuadletNames <=> NameOf[p] \notin SystemdNames
  BY ConstantsOK DEF Names, Range
<1>6. CASE SeeQuadlets
  <2>1. pc = "see_quadlets" /\ pc' = "see_units" /\ at' = at /\ names = QuadletNames
    BY <1>6 DEF SeeQuadlets
  <2>2. SeenFiles = {p \in Paths : Present(p) /\ \E j \in DOMAIN dirs : DirOf[p] = dirs[j] /\ j < at}
    BY <2>1 DEF SeenFiles
  <2>3. SeenFiles' = {p \in Paths : Present(p) /\ \E j \in DOMAIN dirs : DirOf[p] = dirs[j]
                         /\ (j < at \/ (j = at /\ NameOf[p] \in QuadletNames))}
    BY <1>1, <1>4, <2>1 DEF SeenFiles
  <2>4. QED
    BY <1>1, <1>2, <1>3, <2>1, <2>2, <2>3 DEF Providers
<1>7. CASE SeeUnits
  <2>1. pc = "see_units" /\ pc' = "see_quadlets" /\ at' = at + 1 /\ names = SystemdNames
    BY <1>7 DEF SeeUnits
  <2>2. SeenFiles = {p \in Paths : Present(p) /\ \E j \in DOMAIN dirs : DirOf[p] = dirs[j]
                        /\ (j < at \/ (j = at /\ NameOf[p] \in QuadletNames))}
    BY <2>1 DEF SeenFiles
  <2>3. SeenFiles' = {p \in Paths : Present(p) /\ \E j \in DOMAIN dirs : DirOf[p] = dirs[j] /\ j < at + 1}
    BY <1>1, <1>4, <2>1 DEF SeenFiles
  <2>4. \A j \in DOMAIN dirs : j < at + 1 <=> (j < at \/ j = at)
    BY <1>2
  <2>5. QED
    BY <1>1, <1>2, <1>3, <1>5, <2>1, <2>2, <2>3, <2>4 DEF Providers
<1>8. QED
  BY <1>6, <1>7

\* A name of which a listing warns has another file.
LEMMA RepeatedFacts ==
  ASSUME SeenOK, NEW found, found \cap SeenFiles = {},
         \A p \in found : p \in Providers(NameOf[p]),
         NEW n \in Repeated(found), Steady(n)
  PROVE  \E p, q \in Providers(n) : p # q
<1>1. PICK p \in found : /\ n = NameOf[p]
                         /\ \/ NameOf[p] \in seen
                            \/ \E o \in found : o # p /\ NameOf[o] = NameOf[p]
  BY DEF Repeated
<1>2. CASE NameOf[p] \in seen
  <2>1. PICK q \in SeenFiles : NameOf[q] = n
    BY <1>1, <1>2 DEF SeenOK
  <2>2. q \in Providers(n) /\ p \in Providers(n) /\ p # q
    BY <1>1, <2>1, SeenThere
  <2>3. QED
    BY <2>2
<1>3. CASE \E o \in found : o # p /\ NameOf[o] = NameOf[p]
  BY <1>1, <1>3
<1>4. QED
  BY <1>1, <1>2, <1>3

\* A listing: the new names and warnings.
LEMMA SeeStep ==
  ASSUME TypeOK, SeenOK, \A w \in warned : TrueWarning(w), UNCHANGED <<src, moved>>,
         NEW found, found \cap SeenFiles = {}, SeenFiles' = SeenFiles \cup found,
         \A p \in found : p \in Providers(NameOf[p]),
         seen' = seen \cup NamesOf(found), WarnOf(Repeated(found))
  PROVE  SeenOK' /\ \A w \in warned' : TrueWarning(w)'
<1>1. \A n : /\ Steady(n)' <=> Steady(n)
             /\ Providers(n)' = Providers(n)
  BY DEF Steady, Providers, Present
<1>2. warned' = warned \cup {<<n, n>> : n \in Repeated(found)}
  BY DEF WarnOf
<1>3. \A p \in found : NameOf[p] \in NamesOf(found)
  BY DEF NamesOf
<1>4. \A n \in NamesOf(found) : \E p \in found : NameOf[p] = n
  BY DEF NamesOf
<1>5. ASSUME NEW p \in found, NEW q \in SeenFiles', p # q, NameOf[p] = NameOf[q], Steady(NameOf[p])
      PROVE  NameOf[p] \in Repeated(found)
  <2>1. CASE q \in found
    BY <1>5, <2>1 DEF Repeated
  <2>2. CASE q \in SeenFiles
    <3>1. NameOf[p] \in seen
      BY <1>5, <2>2 DEF SeenOK
    <3>2. QED
      BY <3>1 DEF Repeated
  <2>3. QED
    BY <2>1, <2>2
<1>6. ASSUME NEW p \in SeenFiles', NEW q \in SeenFiles', p # q, NameOf[p] = NameOf[q],
             Steady(NameOf[p])
      PROVE  <<NameOf[p], NameOf[p]>> \in warned'
  <2>1. CASE p \in found
    BY <1>2, <1>5, <1>6, <2>1
  <2>2. CASE q \in found
    BY <1>2, <1>5, <1>6, <2>2
  <2>3. CASE p \in SeenFiles /\ q \in SeenFiles
    BY <1>2, <1>6, <2>3 DEF SeenOK
  <2>4. QED
    BY <2>1, <2>2, <2>3
<1>7. ASSUME NEW n \in seen', Steady(n) PROVE \E p \in SeenFiles' : NameOf[p] = n
  BY <1>4, <1>7 DEF SeenOK
<1>8. \A p \in SeenFiles' : Steady(NameOf[p]) => NameOf[p] \in seen'
  BY <1>3 DEF SeenOK
<1>9. SeenOK'
  BY <1>1, <1>6, <1>7, <1>8 DEF SeenOK
<1>10. ASSUME NEW n \in Repeated(found) PROVE TrueWarning(<<n, n>>)
  BY <1>10, RepeatedFacts DEF TrueWarning
<1>11. \A w \in warned' : TrueWarning(w)
  BY <1>2, <1>10
<1>12. \A w : TrueWarning(w) => TrueWarning(w)'
  BY <1>1 DEF TrueWarning
<1>13. QED
  BY <1>9, <1>11, <1>12

\* A listing of Quadlets: the units they make.
LEMMA GeneratedStep ==
  ASSUME TypeOK, GeneratedOK, UNCHANGED moved,
         NEW found, found \subseteq Paths, SeenFiles' = SeenFiles \cup found,
         \A p \in found : NameOf[p] \in QuadletNames, generated' = Making(found)
  PROVE  GeneratedOK'
<1>1. \A n : Steady(n)' <=> Steady(n)
  BY DEF Steady
<1>2. \A u \in SystemdNames :
        \/ generated'[u] = generated[u] /\ \A p \in found : Makes[NameOf[p]] # u
        \/ \E p \in found : generated'[u] = NameOf[p] /\ Makes[NameOf[p]] = u
  BY MakingFacts
<1>3. None \notin QuadletNames /\ \A n \in QuadletNames : Makes[n] \in SystemdNames
  BY ConstantsOK DEF Names
<1>4. ASSUME NEW p \in SeenFiles', NameOf[p] \in QuadletNames, Steady(NameOf[p])
      PROVE  generated'[Makes[NameOf[p]]] # None
  <2>1. CASE p \in found
    BY <1>2, <1>3, <1>4, <2>1
  <2>2. CASE p \in SeenFiles
    <3>1. generated[Makes[NameOf[p]]] # None
      BY <1>4, <2>2 DEF GeneratedOK
    <3>2. QED
      BY <1>2, <1>3, <1>4, <3>1
  <2>3. QED
    BY <2>1, <2>2
<1>5. ASSUME NEW u \in SystemdNames, generated'[u] # None
      PROVE  /\ Makes[generated'[u]] = u
             /\ Steady(generated'[u]) => \E p \in SeenFiles' : NameOf[p] = generated'[u]
  BY <1>2, <1>5 DEF GeneratedOK
<1>6. QED
  BY <1>1, <1>4, <1>5 DEF GeneratedOK

\* Files, names and warnings are the same where a step leaves the search alone.
LEMMA SearchKept ==
  ASSUME TypeOK, WarnedOK, [Next]_vars, ~Begin, pc \notin {"idle", "check", "make"},
         UNCHANGED <<dirs, dry, podman, search>>, failed => failed',
         \/ UNCHANGED <<pc, at>>
         \/ pc \notin {"see_quadlets", "see_units"} /\ pc' \notin {"see_quadlets", "see_units"}
  PROVE  WarnedOK'
<1> SUFFICES ASSUME Looked' PROVE WarnedOK'
  BY DEF WarnedOK
<1>1. UNCHANGED <<seen, generated, warned>>
  BY DEF search
<1>2. Looked
  BY DEF Looked, Installing
<1>3. SeenOK /\ GeneratedOK /\ CollisionsOK /\ \A w \in warned : TrueWarning(w)
  BY <1>2 DEF WarnedOK
<1>4. \A n : Steady(n)' => Steady(n) /\ \A p \in Paths : NameOf[p] = n => (Present(p)' <=> Present(p))
  BY SteadyFacts
<1>5. \A n : Steady(n)' => Steady(n) /\ Providers(n)' = Providers(n)
  BY <1>4 DEF Providers
<1>6. \A p : Steady(NameOf[p])' => (p \in SeenFiles' <=> p \in SeenFiles)
  BY <1>4 DEF SeenFiles
<1>7. SeenOK'
  BY <1>1, <1>3, <1>5, <1>6 DEF SeenOK
<1>8. GeneratedOK'
  BY <1>1, <1>3, <1>5, <1>6 DEF GeneratedOK
<1>9. CollisionsOK'
  BY <1>1, <1>3, <1>5, <1>6 DEF CollisionsOK
<1>10. \A w \in warned' : TrueWarning(w)'
  BY <1>1, <1>3, <1>5 DEF TrueWarning
<1>11. QED
  BY <1>7, <1>8, <1>9, <1>10 DEF WarnedOK

LEMMA WarnedStep ==
  ASSUME TypeOK, StageOK, WarnedOK, [Next]_vars
  PROVE  WarnedOK'
<1> SUFFICES ASSUME Looked' PROVE WarnedOK'
  BY DEF WarnedOK
<1>1. CASE Begin \/ Preview
  BY <1>1 DEF Begin, Preview, Looked
<1>2. CASE NoSources \/ PodmanUnusable \/ NoDirectory
  BY <1>2 DEF NoSources, PodmanUnusable, NoDirectory, Exit, Looked, Installing
<1>3. CASE MakeDirectory
  <2>1. /\ pc' = "see_quadlets" /\ at' = 1 /\ dirs' = dirs /\ seen' = {} /\ generated' = NoneMade
        /\ warned' = {}
    BY <1>3 DEF MakeDirectory, Ready, search, StageOK
  <2>2. \A j \in DOMAIN dirs : ~(j < 1)
    BY DirsFacts, TypeParts
  <2>3. SeenFiles' = {}
    BY <2>1, <2>2 DEF SeenFiles
  <2>4. \A u \in SystemdNames : generated'[u] = None
    BY <2>1 DEF NoneMade
  <2>5. QED
    BY <2>1, <2>3, <2>4 DEF WarnedOK, SeenOK, GeneratedOK, CollisionsOK
<1>4. CASE SeeQuadlets \/ SeeUnits
  <2>1. PICK names : names = IF pc = "see_quadlets" THEN QuadletNames ELSE SystemdNames
    OBVIOUS
  <2>2. PICK found : found = FindFiles(dirs[at], names)
    OBVIOUS
  <2>3. /\ SeenFiles' = SeenFiles \cup found /\ found \cap SeenFiles = {}
        /\ found \subseteq Paths
        /\ \A p \in found : Present(p) /\ NameOf[p] \in names /\ p \in Providers(NameOf[p])
    BY <1>4, <2>1, <2>2, Found
  <2>4. /\ seen' = seen \cup NamesOf(found) /\ WarnOf(Repeated(found))
        /\ UNCHANGED <<src, moved, dirs, dry, podman, failed>>
        /\ pc \in {"see_quadlets", "see_units"} /\ pc' \in {"see_quadlets", "see_units"}
        /\ IF pc = "see_quadlets" THEN generated' = Making(found) ELSE generated' = generated
    BY <1>4, <2>1, <2>2 DEF SeeQuadlets, SeeUnits
  <2>5. SeenOK /\ GeneratedOK /\ \A w \in warned : TrueWarning(w)
    BY <2>4 DEF WarnedOK, Looked, Installing
  <2>6. SeenOK' /\ \A w \in warned' : TrueWarning(w)'
    BY <2>3, <2>4, <2>5, SeeStep
  <2>7. CASE pc = "see_quadlets"
    <3>1. GeneratedOK'
      BY <2>1, <2>3, <2>4, <2>5, <2>7, GeneratedStep
    <3>2. QED
      BY <2>4, <2>6, <3>1 DEF WarnedOK, CollisionsOK
  <2>8. CASE pc # "see_quadlets"
    <3>1. \A p \in found : NameOf[p] \notin QuadletNames
      BY <2>1, <2>3, <2>8, ConstantsOK
    <3>2. \A n : Steady(n)' <=> Steady(n)
      BY <2>4 DEF Steady
    <3>3. GeneratedOK'
      BY <2>3, <2>4, <2>5, <2>8, <3>1, <3>2 DEF GeneratedOK
    <3>4. QED
      BY <2>4, <2>6, <3>3 DEF WarnedOK, CollisionsOK
  <2>9. QED
    BY <2>7, <2>8
<1>5. CASE WarnCollisions
  <2>1. /\ pc = "see_quadlets" /\ at > Len(dirs) /\ pc' = "dirs"
        /\ UNCHANGED <<src, moved, dirs, dry, podman, failed, seen, generated>>
        /\ warned' = warned \cup
             {<<generated[u], u>> : u \in {v \in SystemdNames : generated[v] # None /\ v \in seen}}
    BY <1>5 DEF WarnCollisions
  <2>2. SeenOK /\ GeneratedOK /\ \A w \in warned : TrueWarning(w)
    BY <2>1 DEF WarnedOK, Looked, Installing
  <2>3. \A j \in DOMAIN dirs : j < at
    BY <2>1, DirsFacts, TypeParts
  <2>4. SeenFiles' = SeenFiles
    BY <2>1, <2>3 DEF SeenFiles, Present
  <2>5. \A n : (Steady(n)' <=> Steady(n)) /\ Providers(n)' = Providers(n)
    BY <2>1 DEF Steady, Providers, Present
  <2>6. SeenOK'
    BY <2>1, <2>2, <2>4, <2>5 DEF SeenOK
  <2>7. GeneratedOK'
    BY <2>1, <2>2, <2>4, <2>5 DEF GeneratedOK
  <2>8. ASSUME NEW p \in SeenFiles, NEW q \in SeenFiles, NameOf[p] \in QuadletNames,
               NameOf[q] = Makes[NameOf[p]], Steady(NameOf[p]), Steady(NameOf[q])
        PROVE  \E n \in QuadletNames : Makes[n] = NameOf[q] /\ <<n, NameOf[q]>> \in warned'
    <3>1. NameOf[q] \in SystemdNames
      BY <2>8, ConstantsOK
    <3>2. NameOf[q] \in seen /\ generated[NameOf[q]] # None
      BY <2>2, <2>8 DEF SeenOK, GeneratedOK
    <3>3. Makes[generated[NameOf[q]]] = NameOf[q] /\ generated[NameOf[q]] \in QuadletNames
      BY <2>2, <3>1, <3>2 DEF GeneratedOK, TypeOK
    <3>4. QED
      BY <2>1, <3>1, <3>2, <3>3
  <2>9. CollisionsOK'
    BY <2>4, <2>5, <2>8 DEF CollisionsOK
  <2>10. ASSUME NEW u \in SystemdNames, generated[u] # None, u \in seen
         PROVE  TrueWarning(<<generated[u], u>>)
    <3>1. generated[u] \in QuadletNames /\ Makes[generated[u]] = u /\ generated[u] # u
      BY <2>2, <2>10, ConstantsOK DEF GeneratedOK, TypeOK
    <3>2. Steady(generated[u]) => Providers(generated[u]) # {}
      BY <2>2, <2>10, SeenThere DEF GeneratedOK
    <3>3. Steady(u) => Providers(u) # {}
      BY <2>2, <2>10, SeenThere DEF SeenOK
    <3>4. QED
      BY <3>1, <3>2, <3>3 DEF TrueWarning
  <2>11. \A w \in warned' : TrueWarning(w)
    BY <2>1, <2>2, <2>10
  <2>12. \A w : TrueWarning(w) => TrueWarning(w)'
    BY <2>5 DEF TrueWarning
  <2>13. QED
    BY <2>6, <2>7, <2>9, <2>11, <2>12 DEF WarnedOK
<1>6. CASE ListQuadlets \/ InstallQuadlet \/ ListUnits \/ InstallUnit \/ InstallFails \/ NextDir
  <2>1. /\ pc \in {"dirs", "quadlets", "units"} /\ pc' \in {"dirs", "quadlets", "units", "done"}
        /\ UNCHANGED <<dirs, dry, podman, search>> /\ (failed => failed')
    BY <1>6 DEF ListQuadlets, InstallQuadlet, ListUnits, InstallUnit, InstallFails, NextDir, Exit
  <2>2. QED
    BY <2>1, SearchKept DEF Begin
<1>7. CASE LinkDropins \/ RunPodman \/ ShowDryRun \/ Clean \/ PrintNormalDir
  <2>1. /\ pc \in {"dirs", "podman", "clean", "print"} /\ pc' \in {"podman", "clean", "print", "done"}
        /\ UNCHANGED <<dirs, dry, podman, search>> /\ (failed => failed')
    BY <1>7 DEF LinkDropins, RunPodman, ShowDryRun, Clean, PrintNormalDir, Exit
  <2>2. QED
    BY <2>1, SearchKept DEF Begin
<1>8. ASSUME \/ \E p \in Paths, c \in Contents \cup {Garbage, None} : Move(p, c)
             \/ UNCHANGED vars
      PROVE  WarnedOK'
  <2>1. UNCHANGED <<pc, at, dirs, dry, podman, search, failed>>
    BY <1>8 DEF Move, vars, machine
  <2>2. pc \notin {"idle", "check", "make"}
    BY <2>1 DEF Looked
  <2>3. Begin => pc' = "check"
    BY DEF Begin
  <2>4. QED
    BY <2>1, <2>2, <2>3, SearchKept
<1>9. QED
  BY <1>1, <1>2, <1>3, <1>4, <1>5, <1>6, <1>7, <1>8 DEF Next, Run

\* A dry run stays one.
LEMMA DryKept ==
  ASSUME [Next]_vars
  PROVE  dry' = dry
BY DEF Next, Run, Begin, NoSources, PodmanUnusable, Preview, NoDirectory, MakeDirectory, SeeQuadlets,
   SeeUnits, WarnCollisions, ListQuadlets, InstallQuadlet, ListUnits, InstallUnit, InstallFails,
   NextDir, LinkDropins, RunPodman, ShowDryRun, Clean, PrintNormalDir, Move, vars, machine

LEMMA PreviewStep ==
  ASSUME TypeOK, StageOK, ListOK, PreviewOK, [Next]_vars
  PROVE  PreviewOK'
<1> SUFFICES ASSUME dry' PROVE PreviewOK'
  BY DEF PreviewOK
<1>0. dry
  BY DryKept
<1>1. CASE Begin
  BY <1>0, <1>1, ConstantsOK DEF Begin, PreviewOK
<1>2. CASE NoSources \/ PodmanUnusable \/ RunPodman
  BY <1>0, <1>2 DEF NoSources, PodmanUnusable, RunPodman
<1>3. CASE Preview
  <2>1. /\ pc = "check" /\ pc' = "make" /\ UNCHANGED <<dirs, src, ran>>
        /\ ~failed' => \A p \in Paths : DirOf[p] \in Range(dirs) /\ Present(p) => p \in previewed'
    BY <1>3 DEF Preview, TypeOK, Present
  <2>2. ~ran
    BY <1>0, <2>1 DEF PreviewOK
  <2>3. QED
    BY <2>1, <2>2 DEF PreviewOK, Present, TypeOK
<1>4. CASE NoDirectory
  <2>1. pc = "make" /\ pc' = "done" /\ rc' = 1 /\ failed' /\ ran' = ran
    BY <1>0, <1>4 DEF NoDirectory, Ready, Exit
  <2>2. QED
    BY <1>0, <2>1 DEF PreviewOK
<1>5. CASE \/ MakeDirectory \/ SeeQuadlets \/ SeeUnits \/ WarnCollisions \/ ListQuadlets \/ ListUnits
           \/ InstallQuadlet \/ InstallUnit \/ InstallFails \/ NextDir \/ LinkDropins
  <2>1. /\ pc \notin {"idle", "check", "clean", "print", "done"}
        /\ pc' \notin {"idle", "check", "clean", "print", "done"}
        /\ UNCHANGED <<previewed, moved, dirs, src, ran>> /\ (failed => failed')
    BY <1>0, <1>5 DEF MakeDirectory, Ready, SeeQuadlets, SeeUnits, WarnCollisions, ListQuadlets,
       ListUnits, InstallQuadlet, InstallUnit, InstallFails, NextDir, LinkDropins, result
  <2>2. QED
    BY <1>0, <2>1 DEF PreviewOK, Present
<1>6. CASE ShowDryRun
  <2>1. /\ pc = "podman" /\ pc' \in {"clean", "print"}
        /\ UNCHANGED <<previewed, moved, dirs, src, quadlet>> /\ (failed => failed')
        /\ ran' = ran \/ shown' = Services
    BY <1>6 DEF ShowDryRun, target
  <2>2. ~ran /\ Services' = Services
    BY <1>0, <2>1 DEF PreviewOK, Services
  <2>3. QED
    BY <1>0, <2>1, <2>2 DEF PreviewOK, Present
<1>7. CASE Clean
  <2>1. /\ pc = "clean" /\ pc' = "print"
        /\ UNCHANGED <<previewed, shown, ran, moved, dirs, src, quadlet>> /\ (failed => failed')
    BY <1>0, <1>7 DEF Clean, result
  <2>2. QED
    BY <1>0, <2>1 DEF PreviewOK, Present, Services
<1>8. CASE PrintNormalDir
  <2>1. /\ pc = "print" /\ pc' = "done"
        /\ UNCHANGED <<previewed, shown, ran, moved, dirs, src, quadlet, normal>> /\ (failed => failed')
        /\ printed' = {u \in SystemdNames : normal[u] # None} \/ failed'
    BY <1>8 DEF PrintNormalDir, Exit, target
  <2>2. QED
    BY <1>0, <2>1 DEF PreviewOK, Present, Services
<1>9. CASE \/ \E p \in Paths, c \in Contents \cup {Garbage, None} : Move(p, c)
           \/ UNCHANGED vars
  <2>1. /\ UNCHANGED <<pc, dry, podman, dirs, quadlet, normal, previewed, shown, printed, ran, rc, failed>>
        /\ moved \subseteq moved'
    BY <1>9 DEF Move, vars, machine, target, result
  <2>2. \A p \in Paths : p \in moved' \/ src'[p] = src[p]
    BY <1>9 DEF Move, vars, TypeOK
  <2>3. QED
    BY <1>0, <2>1, <2>2 DEF PreviewOK, Present, Services, Installing
<1>10. QED
  BY <1>1, <1>2, <1>3, <1>4, <1>5, <1>6, <1>7, <1>8, <1>9 DEF Next, Run

-----------------------------------------------------------------------------
(* Success means installed *)

\* A path handled is handled for good, and a path is handled without being installed only
\* if it was not there when its directory was listed.
LEMMA HandledStep ==
  ASSUME TypeOK, StageOK, ListOK, Sound', [Next]_vars, ~Begin, ~InstallQuadlet, ~InstallUnit
  PROVE  \A p \in Paths : /\ Handled(p) => Handled(p)'
                          /\ Handled(p)' /\ Steady(NameOf[p])' /\ Present(p)' => Handled(p)
<1>0. \A p \in Paths : Steady(NameOf[p])' => (Present(p)' <=> Present(p))
  BY SteadyFacts
<1>1. CASE \/ NoSources \/ PodmanUnusable \/ Preview \/ MakeDirectory \/ SeeQuadlets \/ SeeUnits
           \/ WarnCollisions
  <2>1. /\ pc \in {"check", "make", "see_quadlets", "see_units"} /\ dirs' = dirs
        /\ \/ pc' \in {"check", "make", "see_quadlets", "see_units"}
           \/ at' = 1 /\ pc' \in {"dirs", "done"}
    BY <1>1 DEF NoSources, PodmanUnusable, Preview, MakeDirectory, SeeQuadlets, SeeUnits,
       WarnCollisions, Ready, Exit, StageOK
  <2>2. \A j \in DOMAIN dirs : ~(j < 1)
    BY DirsFacts, TypeParts
  <2>3. \A p : ~Handled(p) /\ ~Handled(p)'
    BY <2>1, <2>2 DEF Handled
  <2>4. QED
    BY <2>3
<1>2. CASE NoDirectory
  BY <1>2 DEF NoDirectory, Exit, Sound
<1>3. CASE ListQuadlets
  <2>1. /\ pc = "dirs" /\ pc' = "quadlets" /\ at' = at /\ dirs' = dirs
        /\ list' = FindFiles(dirs[at], QuadletNames)
    BY <1>3 DEF ListQuadlets
  <2>2. QED
    BY <1>0, <2>1 DEF Handled, FindFiles
<1>4. CASE ListUnits
  <2>1. /\ pc = "quadlets" /\ pc' = "units" /\ at' = at /\ dirs' = dirs /\ list = {}
        /\ list' = FindFiles(dirs[at], SystemdNames)
    BY <1>4 DEF ListUnits
  <2>2. \A p \in Paths : NameOf[p] \in QuadletNames \/ NameOf[p] \in SystemdNames
    BY ConstantsOK DEF Names, Range
  <2>3. ASSUME NEW p \in Paths, Handled(p) PROVE Handled(p)'
    BY <2>1, <2>3 DEF Handled
  <2>4. ASSUME NEW p \in Paths, Handled(p)', Present(p) PROVE Handled(p)
    BY <2>1, <2>2, <2>4 DEF Handled, FindFiles
  <2>5. QED
    BY <1>0, <2>3, <2>4
<1>5. CASE InstallFails
  <2>1. (pc' = "done" /\ rc' = 1) \/ (dry' /\ failed')
    BY <1>5 DEF InstallFails, Exit, TypeOK
  <2>2. QED
    BY <2>1 DEF Sound
<1>6. CASE NextDir
  <2>1. /\ pc = "units" /\ pc' = "dirs" /\ at' = at + 1 /\ dirs' = dirs /\ list = {}
        /\ at \in Nat /\ DOMAIN dirs \subseteq Nat
    BY <1>6, DirsFacts, TypeParts DEF NextDir
  <2>2. \A j \in DOMAIN dirs : j < at + 1 <=> (j < at \/ j = at)
    BY <2>1
  <2>3. QED
    BY <2>1, <2>2 DEF Handled
<1>7. CASE LinkDropins \/ RunPodman \/ ShowDryRun \/ Clean \/ PrintNormalDir
  BY <1>7 DEF LinkDropins, RunPodman, ShowDryRun, Clean, PrintNormalDir, Exit, Handled
<1>8. CASE \/ \E p \in Paths, c \in Contents \cup {Garbage, None} : Move(p, c)
           \/ UNCHANGED vars
  <2>1. UNCHANGED <<pc, dirs, at, list>>
    BY <1>8 DEF Move, vars, machine
  <2>2. QED
    BY <2>1 DEF Handled
<1>9. QED
  BY <1>1, <1>2, <1>3, <1>4, <1>5, <1>6, <1>7, <1>8 DEF Next, Run

\* The file being installed is the last of its name, so far.
LEMMA InstallHandles ==
  ASSUME TypeOK, ListOK, InstallQuadlet \/ InstallUnit, NEW f, f = First
  PROVE  /\ Handled(f)'
         /\ \A p \in Paths \ {f} : Handled(p)' <=> Handled(p)
         /\ \A q \in Paths : NameOf[q] = NameOf[f] /\ Handled(q)' /\ Steady(NameOf[q]) /\ Present(q) =>
              Position(q) <= Position(f)
<1>1. /\ pc \in {"quadlets", "units"} /\ list # {} /\ list' = list \ {f}
      /\ UNCHANGED <<pc, at, dirs, src, moved>>
  BY DEF InstallQuadlet, InstallUnit
<1>2. /\ f \in list /\ f \in Paths /\ at \in DOMAIN dirs /\ DirOf[f] = dirs[at]
      /\ pc = "quadlets" => NameOf[f] \in QuadletNames
  BY <1>1, NextFile
<1>3. Handled(f)'
  BY <1>1, <1>2 DEF Handled
<1>4. \A p \in Paths \ {f} : Handled(p)' <=> Handled(p)
  BY <1>1 DEF Handled
<1>5. ASSUME NEW q \in Paths \ {f}, NameOf[q] = NameOf[f], Handled(q), Steady(NameOf[q]), Present(q)
      PROVE  Position(q) <= Position(f)
  <2>1. PICK j \in DOMAIN dirs :
          /\ DirOf[q] = dirs[j]
          /\ j < at \/ (j = at /\ (q \notin list \/ (pc = "units" /\ NameOf[q] \in QuadletNames)))
    BY <1>5 DEF Handled
  <2>2. CASE j < at
    <3>1. dirs = DirOrder /\ DOMAIN dirs = DOMAIN DirOrder
      BY <1>2, ConstantsOK DEF TypeOK
    <3>2. Position(q) < Position(f)
      BY <1>2, <2>1, <2>2, <3>1, ConstantsOK
    <3>3. Position(q) \in Nat /\ Position(f) \in Nat
      BY <1>2, PositionFacts
    <3>4. QED
      BY <3>2, <3>3
  <2>3. CASE j = at /\ q \notin list
    BY <1>1, <1>2, <1>5, <2>1, <2>3 DEF ListOK
  <2>4. CASE pc = "units" /\ NameOf[q] \in QuadletNames
    <3>1. NameOf[f] \in SystemdNames
      BY <1>1, <2>4, NextFile
    <3>2. QED
      BY <1>5, <2>4, <3>1, ConstantsOK
  <2>5. QED
    BY <2>1, <2>2, <2>3, <2>4
<1>6. \A q \in Paths : q = f => Position(q) <= Position(f)
  BY <1>2, PositionFacts
<1>7. QED
  BY <1>3, <1>4, <1>5, <1>6

LEMMA SoundBefore ==
  ASSUME TypeOK, StageOK, [Next]_vars, ~Begin, Sound'
  PROVE  Sound
<1>0. dry' = dry
  BY DryKept
<1>1. ASSUME pc \notin {"clean", "done"}, failed => failed' PROVE Sound
  BY <1>0, <1>1 DEF Sound
<1>2. CASE Preview
  BY <1>2, <1>1 DEF Preview, StageOK
<1>3. CASE NoSources \/ PodmanUnusable \/ NoDirectory \/ MakeDirectory
  BY <1>1, <1>3 DEF NoSources, PodmanUnusable, NoDirectory, MakeDirectory, Ready
<1>4. CASE \/ SeeQuadlets \/ SeeUnits \/ WarnCollisions \/ ListQuadlets \/ InstallQuadlet
           \/ ListUnits \/ InstallUnit \/ InstallFails \/ NextDir
  BY <1>1, <1>4 DEF SeeQuadlets, SeeUnits, WarnCollisions, ListQuadlets, InstallQuadlet, ListUnits,
     InstallUnit, InstallFails, NextDir
<1>5. CASE LinkDropins \/ RunPodman \/ ShowDryRun \/ PrintNormalDir
  BY <1>1, <1>5 DEF LinkDropins, RunPodman, ShowDryRun, PrintNormalDir
<1>6. CASE Clean
  BY <1>0, <1>6 DEF Clean, result, Sound
<1>7. CASE \/ \E p \in Paths, c \in Contents \cup {Garbage, None} : Move(p, c)
           \/ UNCHANGED vars
  BY <1>7 DEF Move, vars, machine, result, Sound
<1>8. QED
  BY <1>2, <1>3, <1>4, <1>5, <1>6, <1>7 DEF Next, Run

\* A choice stays right while the paths of the name are handled as before.
LEMMA ChosenKept ==
  ASSUME TypeOK, [Next]_vars, ~Begin, NEW n, Steady(n)', NEW old \in Unit \cup {None}, NEW new,
         Chosen(n, old), old = None <=> new = None,
         old # None => new.from = old.from /\ new.text = old.text,
         \A p \in Paths : NameOf[p] = n => /\ Handled(p) => Handled(p)'
                                           /\ Handled(p)' /\ Present(p)' => Handled(p)
  PROVE  Chosen(n, new)'
<1>1. \A p \in Paths : NameOf[p] = n => (Present(p)' <=> Present(p)) /\ src'[p] = src[p]
  BY SteadyFacts
<1>2. CASE old = None
  BY <1>1, <1>2 DEF Chosen
<1>3. CASE old # None
  <2>1. old.from \in Paths
    BY <1>3 DEF Unit
  <2>2. QED
    BY <1>1, <1>3, <2>1 DEF Chosen
<1>4. QED
  BY <1>2, <1>3

\* The file just installed is the right one.
LEMMA ChosenNew ==
  ASSUME TypeOK, ListOK, InstallQuadlet \/ InstallUnit, NEW f, f = First,
         NEW new, new = Installed(First), Steady(NameOf[f])
  PROVE  Chosen(NameOf[f], new)'
<1>1. /\ f \in Paths /\ src[f] \in Contents /\ new # None /\ new.from = f /\ new.text = src[f]
  BY NewQuadlet, NewUnit, InstalledFacts
<1>2. src' = src
  BY DEF InstallQuadlet, InstallUnit
<1>3. /\ Handled(f)'
      /\ \A q \in Paths : NameOf[q] = NameOf[f] /\ Handled(q)' /\ Present(q) => Position(q) <= Position(f)
  BY InstallHandles
<1>4. QED
  BY <1>1, <1>2, <1>3 DEF Chosen, Present

\* Files of other names are handled as before.
LEMMA OthersKept ==
  ASSUME TypeOK, ListOK, InstallQuadlet \/ InstallUnit, NEW n, n # NameOf[First]
  PROVE  \A p \in Paths : NameOf[p] = n => (Handled(p)' <=> Handled(p))
<1>1. PICK f : f = First
  OBVIOUS
<1>2. \A p \in Paths \ {f} : Handled(p)' <=> Handled(p)
  BY <1>1, InstallHandles
<1>3. QED
  BY <1>1, <1>2

LEMMA InstalledStep ==
  ASSUME TypeOK, StageOK, ListOK, SourcesOK, InstalledOK, [Next]_vars
  PROVE  InstalledOK'
<1> SUFFICES ASSUME Sound' PROVE InstalledOK'
  BY DEF InstalledOK
<1>1. CASE Begin
  <2>1. at' = 1 /\ pc' = "check" /\ dirs' \in {DirOrder, <<>>}
    BY <1>1 DEF Begin
  <2>2. DOMAIN DirOrder = 1..Len(DirOrder) /\ Len(DirOrder) \in Nat /\ DOMAIN <<>> = {}
    BY ConstantsOK
  <2>3. \A p : ~Handled(p)'
    BY <2>1, <2>2 DEF Handled
  <2>4. \A n : Chosen(n, None)'
    BY <2>3 DEF Chosen
  <2>5. /\ \A u \in SystemdNames : normal'[u] = None
        /\ dry' = dry
        /\ dry \/ ~Override => \A n \in QuadletNames : quadlet'[n] = None
    BY <1>1 DEF Begin
  <2>6. \A n \in QuadletNames : quadlet'[n] = None => Chosen(n, quadlet[n])'
    BY <2>4 DEF Chosen
  <2>7. \A u \in SystemdNames : Chosen(u, normal[u])'
    BY <2>4, <2>5 DEF Chosen
  <2>8. QED
    BY <2>5, <2>6, <2>7 DEF InstalledOK
<1>2. ASSUME ~Begin PROVE Sound /\ dry' = dry /\ \A n : Steady(n)' => Steady(n)
  <2>1. Sound
    BY <1>2, SoundBefore
  <2>2. dry' = dry
    BY DryKept
  <2>3. QED
    BY <1>2, <2>1, <2>2, SteadyFacts
<1>3. ASSUME ~Begin, NEW n \in QuadletNames, dry' \/ ~Override, Steady(n)',
             quadlet'[n] = quadlet[n],
             \A p \in Paths : NameOf[p] = n => /\ Handled(p) => Handled(p)'
                                               /\ Handled(p)' /\ Present(p)' => Handled(p)
      PROVE  Chosen(n, quadlet[n])'
  <2>1. PICK old : old = quadlet[n]
    OBVIOUS
  <2>2. old \in Unit \cup {None} /\ Chosen(n, old)
    BY <1>2, <1>3, <2>1 DEF InstalledOK, TypeOK
  <2>3. Chosen(n, old)'
    BY <1>3, <2>2, ChosenKept
  <2>4. QED
    BY <1>3, <2>1, <2>3 DEF Chosen
<1>4. ASSUME ~Begin, NEW u \in SystemdNames, Steady(u)', Chosen(u, normal[u]),
             normal[u] = None <=> normal'[u] = None,
             normal[u] # None => normal'[u].from = normal[u].from /\ normal'[u].text = normal[u].text,
             \A p \in Paths : NameOf[p] = u => /\ Handled(p) => Handled(p)'
                                               /\ Handled(p)' /\ Present(p)' => Handled(p)
      PROVE  Chosen(u, normal[u])'
  <2>1. PICK old : old = normal[u]
    OBVIOUS
  <2>2. PICK new : new = normal'[u]
    OBVIOUS
  <2>3. old \in Unit \cup {None} /\ Chosen(u, old)
    BY <1>4, <2>1 DEF TypeOK
  <2>4. Chosen(u, new)'
    BY <1>4, <2>1, <2>2, <2>3, ChosenKept
  <2>5. QED
    BY <2>2, <2>4 DEF Chosen
<1>5. CASE ~Begin /\ ~InstallQuadlet /\ ~InstallUnit
  <2>1. \A p \in Paths : Steady(NameOf[p])' => /\ Handled(p) => Handled(p)'
                                               /\ Handled(p)' /\ Present(p)' => Handled(p)
    BY <1>5, HandledStep
  <2>2. quadlet' = quadlet
    BY <1>5, Steps, LeavesKeep DEF target, LinkDropins, RunPodman, Clean
  <2>3. ASSUME dry' \/ ~Override, NEW n \in QuadletNames, Steady(n)' PROVE Chosen(n, quadlet[n])'
    BY <1>3, <1>5, <2>1, <2>2, <2>3
  <2>4. ASSUME NEW u \in SystemdNames, Steady(u)' PROVE Chosen(u, normal[u])' \/ Replaced(u)'
    <3>1. Chosen(u, normal[u]) \/ Replaced(u)
      BY <1>2, <1>5, <2>4 DEF InstalledOK
    <3>2. CASE Replaced(u)
      BY <1>2, <1>5, <2>2, <3>2 DEF Replaced, Made
    <3>3. CASE Chosen(u, normal[u]) /\ normal'[u] = normal[u]
      BY <1>4, <1>5, <2>1, <2>4, <3>3
    <3>4. CASE Chosen(u, normal[u]) /\ normal[u] # None /\ normal'[u] = KeepFirst(normal[u])
      <4>1. /\ normal'[u] # None
            /\ normal'[u].from = normal[u].from /\ normal'[u].text = normal[u].text
        BY <3>4, SourcesThere, KeepFirstFacts
      <4>2. QED
        BY <1>4, <1>5, <2>1, <2>4, <3>4, <4>1
    <3>5. CASE RunPodman
      <4>1. ASSUME NEW n \in QuadletNames, Makes[n] = u, quadlet[n] \in Unit PROVE Replaced(u)
        BY <3>5, <4>1, ConstantsOK DEF RunPodman, Replaced, Made
      <4>2. Replaced(u) \/ normal'[u] = normal[u]
        BY <3>5, <4>1, PodmanFacts
      <4>3. QED
        BY <3>1, <3>2, <3>3, <4>2
    <3>6. CASE Clean
      BY <3>1, <3>2, <3>3, <3>4, <3>6, CleanFacts
    <3>7. CASE Leaves \/ LinkDropins
      <4>1. normal' = normal
        BY <3>7, LeavesKeep DEF target, LinkDropins
      <4>2. QED
        BY <3>1, <3>2, <3>3, <4>1
    <3>8. QED
      BY <1>5, <3>5, <3>6, <3>7, Steps
  <2>5. QED
    BY <2>3, <2>4 DEF InstalledOK
<1>6. CASE InstallQuadlet
  <2>1. ~Begin /\ normal' = normal
    BY <1>6, NewQuadlet DEF InstallQuadlet, Begin
  <2>2. ASSUME dry' \/ ~Override, NEW n \in QuadletNames, Steady(n)' PROVE Chosen(n, quadlet[n])'
    <3>1. CASE n = NameOf[First]
      <4>1. PICK f, new : f = First /\ new = Installed(First)
        OBVIOUS
      <4>2. Chosen(NameOf[f], new)' /\ quadlet'[n] = new /\ n = NameOf[f]
        BY <1>2, <1>6, <2>1, <2>2, <3>1, <4>1, ChosenNew, NewQuadlet
      <4>3. QED
        BY <4>2 DEF Chosen
    <3>2. CASE n # NameOf[First]
      BY <1>3, <1>6, <2>1, <2>2, <3>2, OthersKept, NewQuadlet
    <3>3. QED
      BY <3>1, <3>2
  <2>3. ASSUME NEW u \in SystemdNames, Steady(u)' PROVE Chosen(u, normal[u])' \/ Replaced(u)'
    <3>1. u # NameOf[First]
      BY <1>6, NewQuadlet, ConstantsOK
    <3>2. Replaced(u) => Replaced(u)'
      BY <1>2, <1>6, <2>1, NewQuadlet DEF Replaced, Made
    <3>3. Chosen(u, normal[u]) \/ Replaced(u)
      BY <1>2, <2>1, <2>3 DEF InstalledOK
    <3>4. CASE Chosen(u, normal[u])
      BY <1>4, <1>6, <2>1, <2>3, <3>1, <3>4, OthersKept
    <3>5. QED
      BY <3>2, <3>3, <3>4
  <2>4. QED
    BY <2>2, <2>3 DEF InstalledOK
<1>7. CASE InstallUnit
  <2>1. ~Begin /\ quadlet' = quadlet
    BY <1>7, NewUnit DEF InstallUnit, Begin
  <2>2. ASSUME dry' \/ ~Override, NEW n \in QuadletNames, Steady(n)' PROVE Chosen(n, quadlet[n])'
    <3>1. n # NameOf[First]
      BY <1>7, NewUnit, ConstantsOK
    <3>2. QED
      BY <1>3, <1>7, <2>1, <2>2, <3>1, OthersKept
  <2>3. ASSUME NEW u \in SystemdNames, Steady(u)' PROVE Chosen(u, normal[u])' \/ Replaced(u)'
    <3>1. CASE u = NameOf[First]
      <4>1. PICK f, new : f = First /\ new = Installed(First)
        OBVIOUS
      <4>2. Chosen(NameOf[f], new)' /\ normal'[u] = new /\ u = NameOf[f]
        BY <1>2, <1>7, <2>1, <2>3, <3>1, <4>1, ChosenNew, NewUnit
      <4>3. QED
        BY <4>2 DEF Chosen
    <3>2. CASE u # NameOf[First]
      <4>1. Chosen(u, normal[u]) \/ Replaced(u)
        BY <1>2, <2>1, <2>3 DEF InstalledOK
      <4>2. CASE Replaced(u)
        BY <1>2, <2>1, <4>2 DEF Replaced, Made
      <4>3. CASE Chosen(u, normal[u])
        BY <1>4, <1>7, <2>1, <2>3, <3>2, <4>3, OthersKept, NewUnit
      <4>4. QED
        BY <4>1, <4>2, <4>3
    <3>3. QED
      BY <3>1, <3>2
  <2>4. QED
    BY <2>2, <2>3 DEF InstalledOK
<1>8. QED
  BY <1>1, <1>5, <1>6, <1>7

-----------------------------------------------------------------------------
(* The theorems *)

LEMMA IInit == Init => IInv
<1> SUFFICES ASSUME Init PROVE IInv
  OBVIOUS
<1>1. TypeOK
  BY TypeInit
<1>2. /\ pc = "idle" /\ at = 1 /\ links = {} /\ previewed = {} /\ dirs = DirOrder
      /\ \A n \in QuadletNames : quadlet[n] = None
      /\ \A u \in SystemdNames : normal[u] = None
  BY DEF Init
<1>3. \A p : ~Handled(p)
  BY <1>2, ConstantsOK DEF Handled
<1>4. InstalledOK
  BY <1>2, <1>3 DEF InstalledOK, Chosen
<1>5. StageOK /\ ListOK /\ EndOK /\ SourcesOK /\ LinksOK /\ OneRealSource
  BY <1>2 DEF Init, StageOK, ListOK, EndOK, SourcesOK, LinksOK, OneRealSource
<1>7. WarnedOK /\ PreviewOK
  BY <1>2 DEF Init, WarnedOK, Looked, PreviewOK
<1>6. QED
  BY <1>1, <1>4, <1>5, <1>7 DEF IInv

LEMMA IStep == IInv /\ [Next]_vars => IInv'
BY TypeStep, StageStep, ListStep, InstalledStep, EndStep, SourcesStep, LinksStep, WarnedStep, PreviewStep,
   SourceStep DEF IInv

LEMMA IAlways == Spec => []IInv
BY IInit, IStep, PTL DEF Spec

\* Every variable keeps its type: what is installed is a unit from a path, with a text
\* that could be read (install/mod.rs:67-113).
THEOREM TypeCorrect == Spec => []TypeOK
<1>1. IInv => TypeOK
  BY DEF IInv
<1>2. QED
  BY <1>1, IAlways, PTL

\* At the end of a run that succeeds every path has been handled.
LEMMA AllHandled ==
  ASSUME IInv, pc = "done", rc = 0, Installing
  PROVE  \A p \in Paths : Handled(p)
<1>1. at > Len(dirs) /\ dirs = DirOrder
  BY DEF IInv, EndOK, Installing, TypeOK
<1>2. ASSUME NEW p \in Paths PROVE Handled(p)
  <2>1. PICK j \in DOMAIN DirOrder : DirOf[p] = DirOrder[j]
    BY DirKnown DEF Range
  <2>2. j \in 1..Len(dirs) /\ Len(dirs) \in Nat /\ at \in Nat
    BY <1>1, <2>1, ConstantsOK, DirsFacts, TypeParts DEF IInv
  <2>3. QED
    BY <1>1, <2>1, <2>2 DEF Handled
<1>3. QED
  BY <1>2

\* What has been chosen when all paths have been handled is what the last one provides.
LEMMA ChosenProvided ==
  ASSUME IInv, pc = "done", rc = 0, Installing, NEW n, NEW unit \in Unit \cup {None}, Chosen(n, unit)
  PROVE  AsProvided(n, unit)
<1>1. \A p \in Paths : Handled(p)
  BY AllHandled
<1>2. CASE unit = None
  BY <1>1, <1>2 DEF Chosen, AsProvided, Providers
<1>3. CASE unit # None
  <2>1. /\ unit.from \in Paths /\ unit.text # None /\ NameOf[unit.from] = n
        /\ src[unit.from] = unit.text
    BY <1>3, ConstantsOK DEF Chosen, Unit
  <2>2. unit.from \in Providers(n)
    BY <2>1 DEF Providers, Present
  <2>3. Wins(unit.from)
    BY <1>1, <1>3, <2>1 DEF Chosen, Wins, Providers
  <2>4. QED
    BY <1>3, <2>1, <2>2, <2>3 DEF AsProvided
<1>4. QED
  BY <1>2, <1>3

\* A run that ends with success has installed the right file of every name, for any
\* directories, files, failures and concurrent syncs, where the Quadlet directory is
\* quadcd's own (App::run_generate).
THEOREM SuccessMeansInstalledAlways ==
  ASSUME ~Override
  PROVE  Spec => []SuccessMeansInstalled
<1>1. ASSUME IInv, pc = "done", rc = 0, ~dry, Installing PROVE SuccessMeansInstalled
  <2>1. Sound
    BY <1>1 DEF Sound
  <2>2. ASSUME NEW n \in QuadletNames, Steady(n) PROVE AsProvided(n, quadlet[n])
    <3>1. Chosen(n, quadlet[n]) /\ quadlet[n] \in Unit \cup {None}
      BY <1>1, <2>1, <2>2 DEF IInv, InstalledOK, TypeOK
    <3>2. QED
      BY <1>1, <3>1, ChosenProvided
  <2>3. ASSUME NEW n \in SystemdNames, Steady(n), ~Made(n) PROVE AsProvided(n, normal[n])
    <3>1. Chosen(n, normal[n]) /\ normal[n] \in Unit \cup {None}
      BY <1>1, <2>1, <2>3 DEF IInv, InstalledOK, Replaced, TypeOK
    <3>2. QED
      BY <1>1, <3>1, ChosenProvided
  <2>4. QED
    BY <2>2, <2>3 DEF SuccessMeansInstalled, Made, Names
<1>2. IInv => SuccessMeansInstalled
  BY <1>1 DEF SuccessMeansInstalled
<1>3. QED
  BY <1>2, IAlways, PTL

\* After a successful run every unit points at exactly one source, the file in the
\* checkout, whatever podman's generator adds (clean_generated_source_paths).
THEOREM OneRealSourceAlways == Spec => []OneRealSource
<1>1. IInv => OneRealSource
  BY DEF IInv
<1>2. QED
  BY <1>1, IAlways, PTL

\* After a successful run links lead to installed units, and units are linked as their
\* own text asks (link_install_dependencies).
THEOREM LinksAreMadeAlways == Spec => []LinksAreMade
<1>1. IInv => LinksAreMade
  BY DEF IInv, LinksOK, LinksAreMade, Made, Services
<1>2. QED
  BY <1>1, IAlways, PTL

\* At the end all files have been found.
LEMMA AllSeen ==
  ASSUME IInv, pc = "done", Installing, NEW p \in Paths, Present(p)
  PROVE  p \in SeenFiles
<1>1. dirs = DirOrder
  BY DEF IInv, TypeOK, Installing
<1>2. PICK j \in DOMAIN dirs : DirOf[p] = dirs[j]
  BY <1>1, DirKnown DEF Range
<1>3. QED
  BY <1>2 DEF SeenFiles

\* Nobody is overridden in silence, and no warning is false, whatever the files and
\* their names, the order of the directories and the syncs that change them meanwhile
\* (warn_duplicate_units).
THEOREM OverridesAreWarnedOfAlways == Spec => []OverridesAreWarnedOf
<1>1. ASSUME IInv, pc = "done", Installing, ~failed PROVE OverridesAreWarnedOf
  <2>1. SeenOK /\ CollisionsOK /\ \A w \in warned : TrueWarning(w)
    BY <1>1 DEF IInv, WarnedOK, Looked
  <2>2. \A n : \A p \in Providers(n) : p \in SeenFiles /\ NameOf[p] = n
    BY <1>1, AllSeen DEF Providers
  <2>3. ASSUME NEW n \in Names, Steady(n), NEW p \in Providers(n), NEW q \in Providers(n), p # q
        PROVE  <<n, n>> \in warned
    BY <2>1, <2>2, <2>3 DEF SeenOK
  <2>4. ASSUME NEW n \in QuadletNames, Steady(n), Steady(Makes[n]),
               NEW p \in Providers(n), NEW q \in Providers(Makes[n])
        PROVE  \E m \in QuadletNames : Makes[m] = Makes[n] /\ <<m, Makes[n]>> \in warned
    BY <1>1, <2>1, <2>2, <2>4 DEF CollisionsOK
  <2>5. QED
    BY <2>1, <2>3, <2>4 DEF OverridesAreWarnedOf, TrueWarning
<1>2. IInv => OverridesAreWarnedOf
  BY <1>1 DEF OverridesAreWarnedOf
<1>3. QED
  BY <1>2, IAlways, PTL

\* A dry run in which nothing fails prints what a real run installs, for any
\* directories, files and concurrent syncs (DryRunner::run).
THEOREM DryRunShowsTheRunAlways == Spec => []DryRunShowsTheRun
<1>1. ASSUME IInv, pc = "done", dry, rc = 0, Installing, ~failed PROVE DryRunShowsTheRun
  <2>1. /\ Sound /\ dirs = DirOrder
        /\ printed = {u \in SystemdNames : normal[u] # None}
        /\ ran => shown = Services
        /\ \A p \in Paths : DirOf[p] \in Range(dirs) /\ Present(p) => p \in previewed \cup moved
    BY <1>1 DEF IInv, Sound, PreviewOK, Installing, TypeOK
  <2>2. ASSUME NEW n, Steady(n) PROVE Providers(n) \subseteq previewed
    BY <2>1, <2>2, DirKnown DEF Providers, Steady
  <2>3. ASSUME NEW n \in QuadletNames, Steady(n)
        PROVE  AsProvided(n, quadlet[n]) /\ (ran => (n \in shown <=> Providers(n) # {}))
    <3>1. Chosen(n, quadlet[n]) /\ quadlet[n] \in Unit \cup {None}
      BY <1>1, <2>1, <2>3 DEF IInv, InstalledOK, TypeOK
    <3>2. AsProvided(n, quadlet[n])
      BY <1>1, <3>1, ChosenProvided
    <3>3. QED
      BY <2>1, <3>2 DEF AsProvided, Services
  <2>4. ASSUME NEW n \in SystemdNames, Steady(n)
        PROVE  AsProvided(n, normal[n]) /\ (n \in printed <=> Providers(n) # {})
    <3>1. Chosen(n, normal[n]) /\ normal[n] \in Unit \cup {None}
      BY <1>1, <2>1, <2>4 DEF IInv, InstalledOK, Replaced, TypeOK
    <3>2. AsProvided(n, normal[n])
      BY <1>1, <3>1, ChosenProvided
    <3>3. QED
      BY <2>1, <3>2 DEF AsProvided
  <2>5. QED
    BY <2>2, <2>3, <2>4, ConstantsOK DEF DryRunShowsTheRun, Names
<1>2. IInv => DryRunShowsTheRun
  BY <1>1 DEF DryRunShowsTheRun
<1>3. QED
  BY <1>2, IAlways, PTL
=============================================================================
