-------------------------------- MODULE Watch -------------------------------
(***************************************************************************)
(* mark_watched (sync/watch.rs): the unit files of a repository whose      *)
(* Watch= globs match something the diff touched count as changed.  Paths  *)
(* and globs are sequences of segments; how one segment is matched is      *)
(* modelled in Glob, and how the globs are read in UnitSettings.           *)
(***************************************************************************)
EXTENDS Integers, Sequences, FiniteSets, SequencesExt

CONSTANTS Segments,    \* names, wildcards, and what else may stand between slashes
          UnitFiles,   \* the unit files of the new tree, in the order they are walked
          GlobsOf,     \* their Watch= globs
          Unreadable,  \* those that cannot be read as text
          ChangedAlready, \* what changes.changed may hold
          Others       \* what changes.other may hold

VARIABLES changed,     \* changes.changed
          other,       \* changes.other
          queue,       \* files to come
          unit,        \* the file being looked at, or <<>>
          globs,       \* its globs to come
          warned       \* globs ignored with a warning
\* what the diff had listed
VARIABLE listed

watchVars == <<changed, other, queue, unit, globs, warned, listed>>

Void == "void"    \* a segment without a character
Bad == <<"..">>   \* what no resolved glob can be

\* One segment: * any name, a name itself (Glob has the rest).
SegmentMatches(p, s) == p \in {"*", s}

\* find_files lists a file once, and so does a diff.  An empty Watch= is no glob (UnitSettings).
ASSUME WatchConstantsOK ==
  /\ UnitFiles \in Seq(Seq(Segments) \ {<<>>}) /\ IsInjective(UnitFiles)
  /\ GlobsOf \in [ToSet(UnitFiles) -> Seq(Seq(Segments) \ {<<>>})]
  /\ \A files \in ChangedAlready : files \in Seq(Seq(Segments)) /\ IsInjective(files)
  /\ \A paths \in Others : \A path \in paths : path \in Seq(Segments)

WatchInit ==
  /\ listed \in ChangedAlready /\ changed = listed
  /\ other \in Others
  /\ queue = IF other = {} THEN <<>> ELSE UnitFiles
  /\ unit = <<>> /\ globs = <<>> /\ warned = {}

-----------------------------------------------------------------------------
\* Mutant: ".." at the root stays there.
EnterFromRoot(stack, segment) ==
  CASE segment \in {Void, "."} -> stack
    [] segment = ".."          -> IF stack = <<>> THEN <<>> ELSE Front(stack)
    [] OTHER                   -> Append(stack, segment)

\* resolve: join the glob to the unit's directory, and go through the segments with a stack
Enter(stack, segment) ==
  IF stack = Bad THEN Bad
  ELSE CASE segment \in {Void, "."} -> stack
         [] segment = ".."          -> IF stack = <<>> THEN Bad ELSE Front(stack)
         [] OTHER                   -> Append(stack, segment)

Stacks(s) ==
  LET stack[n \in 0..Len(s)] == IF n = 0 THEN <<>> ELSE Enter(stack[n - 1], s[n])
  IN stack

Resolve(dir, glob) ==
  LET s == dir \o glob IN IF glob[1] = Void THEN Bad ELSE Stacks(s)[Len(s)]

(***************************************************************************)
(* match_segments, from the end of the pattern: the places of s from which *)
(* what is left of the pattern matches.  ** takes any number of segments.  *)
(***************************************************************************)
PlacesBefore(segment, s, places) ==
  IF segment = "**" THEN {j \in 1..(Len(s) + 1) : \E k \in places : j <= k}
  ELSE {j \in 1..Len(s) : SegmentMatches(segment, s[j]) /\ j + 1 \in places}

MatchingFrom(p, s) ==
  LET from[i \in 1..(Len(p) + 1)] ==
        IF i > Len(p) THEN {Len(s) + 1} ELSE PlacesBefore(p[i], s, from[i + 1])
  IN from

MatchSegments(p, s) == 1 \in MatchingFrom(p, s)[1]

-----------------------------------------------------------------------------
PassUnit ==
  /\ unit = <<>> /\ queue # <<>>
  /\ Head(queue) \in ToSet(changed) \cup Unreadable
  /\ queue' = Tail(queue)
  /\ UNCHANGED <<changed, other, unit, globs, warned, listed>>

OpenUnit ==
  /\ unit = <<>> /\ queue # <<>>
  /\ Head(queue) \notin ToSet(changed) \cup Unreadable
  /\ unit' = Head(queue) /\ globs' = GlobsOf[Head(queue)] /\ queue' = Tail(queue)
  /\ UNCHANGED <<changed, other, warned, listed>>

Pattern == Resolve(Front(unit), Head(globs))

IgnoreGlob ==
  /\ globs # <<>> /\ Pattern = Bad
  /\ warned' = warned \cup {<<unit, Head(globs)>>}
  /\ globs' = Tail(globs)
  /\ UNCHANGED <<changed, other, queue, unit, listed>>

TryGlob ==
  /\ globs # <<>> /\ Pattern # Bad
  /\ ~\E path \in other : MatchSegments(Pattern, path)
  /\ globs' = Tail(globs)
  /\ UNCHANGED <<changed, other, queue, unit, warned, listed>>

\* One hit is enough: the unit's other globs are not tried.
Hit ==
  /\ globs # <<>> /\ Pattern # Bad
  /\ \E path \in other : MatchSegments(Pattern, path)
  /\ changed' = Append(changed, unit)
  /\ unit' = <<>> /\ globs' = <<>>
  /\ UNCHANGED <<other, queue, warned, listed>>

CloseUnit ==
  /\ unit # <<>> /\ globs = <<>>
  /\ unit' = <<>>
  /\ UNCHANGED <<changed, other, queue, globs, warned, listed>>

WatchNext == PassUnit \/ OpenUnit \/ IgnoreGlob \/ TryGlob \/ Hit \/ CloseUnit

-----------------------------------------------------------------------------
(***************************************************************************)
(* What a glob means, without a stack: over any stretch of segments, names *)
(* lead down and ".." up.  It leaves the repository if some beginning of   *)
(* it leads above the root; a name counts unless some ".." takes it back.  *)
(***************************************************************************)
Depth(s, a, b) ==
  Cardinality({k \in a..b : s[k] \notin {Void, ".", ".."}})
    - Cardinality({k \in a..b : s[k] = ".."})

Counts(s) ==
  {a \in 1..Len(s) : s[a] \notin {Void, ".", ".."} /\ \A b \in a..Len(s) : Depth(s, a, b) >= 1}

\* The path lies along the segments of s that count, a ** being any stretch of it.
Covers(s, path) ==
  \E f \in [0..Len(s) -> 0..Len(path)] :
    /\ f[0] = 0 /\ f[Len(s)] = Len(path)
    /\ \A k \in 1..Len(s) :
         \/ k \notin Counts(s) /\ f[k] = f[k - 1]
         \/ k \in Counts(s) /\ s[k] = "**" /\ f[k] >= f[k - 1]
         \/ k \in Counts(s) /\ f[k] = f[k - 1] + 1 /\ SegmentMatches(s[k], path[f[k]])

Watches(u, path) ==
  \E i \in DOMAIN GlobsOf[u] :
    LET glob == GlobsOf[u][i]
        s == Front(u) \o glob
    IN glob[1] # Void /\ ~(\E b \in 1..Len(s) : Depth(s, 1, b) < 0) /\ Covers(s, path)

Marked == unit = <<>> /\ queue = <<>>

(***************************************************************************)
(* In the end the changed units are those the diff listed and those that   *)
(* watch something it touched, each once; a readable unit file is left out *)
(* only if none of its globs reaches a touched file inside the repository. *)
(***************************************************************************)
WatchersAreMarked ==
  Marked =>
    /\ IsInjective(changed)
    /\ ToSet(changed) =
         ToSet(listed) \cup
         {u \in ToSet(UnitFiles) \ Unreadable : \E path \in other : Watches(u, path)}
=============================================================================
