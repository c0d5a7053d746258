---------------------------- MODULE UnitSettings ----------------------------
(***************************************************************************)
(* parse_settings (sync/settings.rs): the [X-QuadCD] section of one unit   *)
(* file, read line by line.  `seen` is the file up to here; what is parsed *)
(* must always be what systemd would make of those lines.                  *)
(***************************************************************************)
EXTENDS Integers, Sequences, FiniteSets, SequencesExt

CONSTANTS Globs,      \* values of Watch=
          MaxLines    \* length of the files read

VARIABLES seen,        \* the lines read
          inSection,   \* in_section
          startOnSync, watch, warnings

settingsVars == <<seen, inSection, startOnSync, watch, warnings>>

(***************************************************************************)
(* Lines as the parser tells them apart: blank lines and comments, section *)
(* headers, lines without "=", and keys with their values.                 *)
(***************************************************************************)
Empty == "empty"
Header(name) == [is |-> "header", key |-> name, value |-> Empty]
Assign(k, v) == [is |-> "assignment", key |-> k, value |-> v]
Lines ==
  {Header("X-QuadCD"), Header("Unit"),
   [is |-> "comment", key |-> Empty, value |-> Empty],
   [is |-> "malformed", key |-> Empty, value |-> Empty]}
    \cup {Assign("StartOnSync", v) : v \in {"yes", "off", "perhaps"}}
    \cup {Assign("Watch", g) : g \in Globs \cup {Empty}}
    \cup {Assign("Wach", Empty)}

\* Booleans as systemd spells them; one spelling of each will do.
Truth(v) == CASE v = "yes" -> {TRUE} [] v = "off" -> {FALSE} [] OTHER -> {}

-----------------------------------------------------------------------------
SettingsInit ==
  /\ seen = <<>>
  /\ inSection = FALSE
  /\ startOnSync = FALSE /\ watch = <<>> /\ warnings = 0

NextLine(line) == Len(seen) < MaxLines /\ seen' = Append(seen, line)

Pass(line) ==
  /\ NextLine(line)
  /\ line.is = "comment" \/ (~inSection /\ line.is # "header")
  /\ UNCHANGED <<inSection, startOnSync, watch, warnings>>

EnterSection(line) ==
  /\ NextLine(line) /\ line.is = "header"
  /\ inSection' = (line.key = "X-QuadCD")
  /\ UNCHANGED <<startOnSync, watch, warnings>>

\* A line without "=", an unknown key, or a boolean that is none.
Complain(line) ==
  /\ NextLine(line) /\ inSection
  /\ \/ line.is = "malformed"
     \/ line.is = "assignment" /\ line.key \notin {"StartOnSync", "Watch"}
     \/ line.is = "assignment" /\ line.key = "StartOnSync" /\ Truth(line.value) = {}
  /\ warnings' = warnings + 1
  /\ UNCHANGED <<inSection, startOnSync, watch>>

SetStartOnSync(line) ==
  /\ NextLine(line) /\ inSection
  /\ line.is = "assignment" /\ line.key = "StartOnSync"
  /\ startOnSync' \in Truth(line.value)
  /\ UNCHANGED <<inSection, watch, warnings>>

\* Mutant: an empty Watch= adds nothing and forgets nothing.
AddWatch(line) ==
  /\ NextLine(line) /\ inSection
  /\ line.is = "assignment" /\ line.key = "Watch"
  /\ watch' = IF line.value = Empty THEN watch ELSE Append(watch, line.value)
  /\ UNCHANGED <<inSection, startOnSync, warnings>>

\* An empty Watch= forgets the globs before it.
SetWatch(line) ==
  /\ NextLine(line) /\ inSection
  /\ line.is = "assignment" /\ line.key = "Watch"
  /\ watch' = IF line.value = Empty THEN <<>> ELSE Append(watch, line.value)
  /\ UNCHANGED <<inSection, startOnSync, warnings>>

SettingsNext ==
  \E line \in Lines :
    Pass(line) \/ EnterSection(line) \/ Complain(line) \/ SetStartOnSync(line) \/ SetWatch(line)

-----------------------------------------------------------------------------
\* The section a line is in is that of the last header before it.
Inside(i) ==
  \E h \in 1..(i - 1) :
    /\ seen[h] = Header("X-QuadCD")
    /\ \A j \in (h + 1)..(i - 1) : seen[j].is # "header"
Set(key) == {i \in 1..Len(seen) : Inside(i) /\ seen[i].is = "assignment" /\ seen[i].key = key}

LastOf(places) == {i \in places : \A j \in places : j <= i}
NthOf(places, n) == CHOOSE i \in places : Cardinality({j \in places : j <= i}) = n

\* Where a StartOnSync= is valid, where a Watch= is empty, and where the globs are that count.
Valid == {i \in Set("StartOnSync") : Truth(seen[i].value) # {}}
Resets == {i \in Set("Watch") : seen[i].value = Empty}
Counting == {i \in Set("Watch") \ Resets : \A r \in Resets : r < i}

(***************************************************************************)
(* systemd's rules for repeated keys, across sections that are left and    *)
(* entered again: for StartOnSync= the last valid value counts, for Watch= *)
(* the values after the last empty one, in order (settings.rs says so).    *)
(***************************************************************************)
RepeatedKeysAsSystemd ==
  /\ startOnSync = (\E i \in LastOf(Valid) : seen[i].value = "yes")
  /\ watch = [n \in 1..Cardinality(Counting) |-> seen[NthOf(Counting, n)].value]

Mistakes ==
  {i \in 1..Len(seen) :
     /\ Inside(i) /\ seen[i].is \notin {"header", "comment"}
     /\ i \notin Valid \cup Set("Watch")}

(***************************************************************************)
(* Nothing in the section is passed over in silence: every line of it has  *)
(* an effect, is a comment, or is warned of.                               *)
(***************************************************************************)
MistakesAreWarnedOf == warnings = Cardinality(Mistakes)

(***************************************************************************)
(* A section means what its lines say, and says so where they mean nothing *)
(* (settings.rs:38-72).                                                    *)
(***************************************************************************)
SettingsAsWritten == RepeatedKeysAsSystemd /\ MistakesAreWarnedOf
=============================================================================
