------------------------------ MODULE ImageFile -----------------------------
(***************************************************************************)
(* extract_images (sync/image.rs) for one .container or .image file: which *)
(* image it names, and how podman is to pull it.  The file is read line by *)
(* line; `lines` is what has been read.  Then the podman arguments of a    *)
(* .container file are filtered, one flag after the other.                 *)
(***************************************************************************)
EXTENDS Integers, Sequences, FiniteSets, SequencesExt

CONSTANTS Images,     \* images a file may name
          UnitRefs,   \* names of .image and .build units, which are no images
          LongestFile

VARIABLES kind,       \* "container" or "image"
          lines,       \* the lines read
          section,    \* current_section
          imageVal, policy, authFile, tlsVerify, podmanArgs,
          argAt,      \* filter_pull_args: place of the next argument
          filtered,   \* and what it lets through
          result      \* what the file adds to the images, once it has been read

settingVars == <<imageVal, policy, authFile, tlsVerify, podmanArgs>>
filterVars == <<argAt, filtered>>
imageVars == <<kind, lines, section, settingVars, filterVars, result>>

None == "none"
Blank == "blank"
Reading == [is |-> "reading"]
Filtering == [is |-> "filtering"]
NoneAsked == [is |-> "no_image"]
Own == IF kind = "container" THEN "Container" ELSE "Image"
PolicyKey == IF kind = "container" THEN "Pull" ELSE "Policy"
DefaultPolicy == IF kind = "container" THEN "missing" ELSE "always"
PullPolicies == {"never", "missing", "newer", "always"}

(***************************************************************************)
(* Arguments of PodmanArgs=, after split_args: flags podman pull knows, and *)
(* others, each with its value attached, or bare with the value following. *)
(***************************************************************************)
Arguments == {"--arch=", "--arch", "--publish", "value"}
Passed == {"--arch=", "--arch"}
Bare == {"--arch"}
ArgLists == {<<"--arch=">>, <<"--arch", "value">>, <<"--publish", "value">>, <<"--arch">>}

Line(k, v) == [key |-> k, value |-> v]
FileLines ==
  {Line("header", s) : s \in {"Container", "Image", "Unit"}}
    \cup {Line("Image", v) : v \in Images \cup UnitRefs \cup {Blank}}
    \cup {Line(PolicyKey, v) : v \in {"never", "newer", "bogus"}}
    \cup {Line("AuthFile", v) : v \in {"auth", Blank}}
    \cup {Line("TLSVerify", v) : v \in {"true", "bogus"}}
    \cup {Line("PodmanArgs", a) : a \in ArgLists}

\* A unit is no image, and no name is none.
ASSUME ImageFileConstantsOK ==
  /\ Images \cap UnitRefs = {}
  /\ {None, Blank} \cap (Images \cup UnitRefs) = {}

ImageInit ==
  /\ kind \in {"container", "image"}
  /\ lines = <<>> /\ section = None
  /\ imageVal = None /\ policy = DefaultPolicy
  /\ authFile = None /\ tlsVerify = None /\ podmanArgs = <<>>
  /\ argAt = 1 /\ filtered = <<>>
  /\ result = Reading

-----------------------------------------------------------------------------
ReadLine(line) ==
  /\ result = Reading /\ Len(lines) < LongestFile
  /\ lines' = Append(lines, line)
  /\ UNCHANGED <<kind, filterVars, result>>

OpenSection(line) ==
  /\ ReadLine(line) /\ line.key = "header"
  /\ section' = line.value
  /\ UNCHANGED <<imageVal, policy, authFile, tlsVerify, podmanArgs>>

\* A key of another section, or one that this kind of file does not have.
PassLine(line) ==
  /\ ReadLine(line) /\ line.key # "header"
  /\ section # Own \/ (kind = "container" /\ line.key \in {"AuthFile", "TLSVerify"})
  /\ UNCHANGED <<section, imageVal, policy, authFile, tlsVerify, podmanArgs>>

Value(line, key) == ReadLine(line) /\ line.key = key /\ section = Own

NameImage(line) ==
  /\ Value(line, "Image")
  /\ imageVal' = IF line.value = Blank THEN imageVal ELSE line.value
  /\ UNCHANGED <<section, policy, authFile, tlsVerify, podmanArgs>>

SetPolicy(line) ==
  /\ Value(line, PolicyKey)
  /\ policy' = IF line.value \in PullPolicies THEN line.value ELSE policy
  /\ UNCHANGED <<section, imageVal, authFile, tlsVerify, podmanArgs>>

AddArgs(line) ==
  /\ Value(line, "PodmanArgs")
  /\ podmanArgs' = podmanArgs \o line.value
  /\ UNCHANGED <<section, imageVal, policy, authFile, tlsVerify>>

SetAuthFile(line) ==
  /\ Value(line, "AuthFile") /\ kind = "image"
  /\ authFile' = IF line.value = Blank THEN authFile ELSE line.value
  /\ UNCHANGED <<section, imageVal, policy, tlsVerify, podmanArgs>>

\* Unlike the others, a value that is none takes back the one before.
SetTLSVerify(line) ==
  /\ Value(line, "TLSVerify") /\ kind = "image"
  /\ tlsVerify' = IF line.value \in {"true", "false"} THEN line.value ELSE None
  /\ UNCHANGED <<section, imageVal, policy, authFile, podmanArgs>>

-----------------------------------------------------------------------------
\* What is known of the file makes it ask for no image, or for one with these arguments.
Asked(arguments) ==
  IF policy = "never" \/ imageVal \in {None} \cup UnitRefs THEN NoneAsked
  ELSE [is |-> "pulled", image |-> imageVal, policy |-> policy,
        auth |-> authFile, tls |-> tlsVerify, args |-> arguments]

EndOfFile ==
  /\ result = Reading
  /\ result' = IF kind = "container" /\ Asked(podmanArgs) # NoneAsked THEN Filtering
               ELSE Asked(podmanArgs)
  /\ UNCHANGED <<kind, lines, section, settingVars, filterVars>>

FilterArg(place, list) ==
  /\ result = Filtering /\ argAt <= Len(podmanArgs)
  /\ argAt' = place /\ filtered' = list
  /\ UNCHANGED <<kind, lines, section, settingVars, result>>

Token == podmanArgs[argAt]

SkipArg ==
  /\ FilterArg(argAt + 1, filtered)
  /\ Token \notin Passed

\* The value is attached, or there is none.
PassFlag ==
  /\ FilterArg(argAt + 1, Append(filtered, Token))
  /\ Token \in Passed /\ (Token \in Bare => argAt = Len(podmanArgs))

\* Mutant: a bare flag leaves its value behind.
PassFlagAlone ==
  /\ argAt < Len(podmanArgs)
  /\ FilterArg(argAt + 1, Append(filtered, Token))
  /\ Token \in Bare

\* A bare flag takes the next argument with it, whatever that is.
PassFlagAndValue ==
  /\ argAt < Len(podmanArgs)
  /\ FilterArg(argAt + 2, Append(Append(filtered, Token), podmanArgs[argAt + 1]))
  /\ Token \in Bare

Filtered ==
  /\ result = Filtering /\ argAt > Len(podmanArgs)
  /\ result' = Asked(filtered)
  /\ UNCHANGED <<kind, lines, section, settingVars, filterVars>>

ImageNext ==
  \/ \E line \in FileLines :
       \/ OpenSection(line) \/ PassLine(line) \/ NameImage(line) \/ SetPolicy(line)
       \/ AddArgs(line) \/ SetAuthFile(line) \/ SetTLSVerify(line)
  \/ EndOfFile
  \/ SkipArg \/ PassFlag \/ PassFlagAndValue
  \/ Filtered

-----------------------------------------------------------------------------
\* A line is in the file's own section if the last header before it opens that.
InOwn(i) ==
  \E h \in 1..(i - 1) :
    /\ lines[h] = Line("header", Own)
    /\ \A j \in (h + 1)..(i - 1) : lines[j].key # "header"

\* The places where a key of the file's own section has one of these values.
At(key, values) ==
  {i \in DOMAIN lines : lines[i].key = key /\ lines[i].value \in values /\ InOwn(i)}

LastValue(places, default) ==
  IF places = {} THEN default ELSE lines[CHOOSE i \in places : \A j \in places : j <= i].value

Written(key, values, default) == LastValue(At(key, values), default)

ForImage(v) == IF kind = "image" THEN v ELSE None

ImageWritten == Written("Image", Images \cup UnitRefs, None)
PolicyWritten == Written(PolicyKey, PullPolicies, DefaultPolicy)
AuthWritten == ForImage(Written("AuthFile", {"auth"}, None))
TLSWritten ==
  ForImage(IF Written("TLSVerify", {"true", "false", "bogus"}, None) = "true" THEN "true" ELSE None)

Decided == result \notin {Reading, Filtering}

(***************************************************************************)
(* A file asks for the image its section names last, under the last valid  *)
(* policy and with the last login settings; one that names a unit, or no   *)
(* image, or says never, asks for none (README: "following the unit's      *)
(* pull policy").  No setting of one section counts for another.           *)
(***************************************************************************)
ImageAsWritten ==
  Decided =>
    IF ImageWritten \notin Images \/ PolicyWritten = "never" THEN result = NoneAsked
    ELSE /\ result # NoneAsked
         /\ result.image = ImageWritten /\ result.policy = PolicyWritten
         /\ result.auth = AuthWritten /\ result.tls = TLSWritten

\* How many bare flags that are passed stand in a row just before argument i.
BareBefore(args, i) ==
  Cardinality({k \in 1..(i - 1) : \A j \in k..(i - 1) : args[j] \in Bare})

IsValue(args, i) == BareBefore(args, i) % 2 = 1
Given(args, n) == {i \in 1..n : IsValue(args, i) \/ args[i] \in Passed}

(***************************************************************************)
(* What podman pull is given from a .container file: the flags it knows,   *)
(* each with its value, whichever lines they came from, and no other flag  *)
(* (an argument is a value if an odd number of bare flags stands before    *)
(* it): filter_pull_args.                                                  *)
(***************************************************************************)
PulledWithItsFlags ==
  result.is = "pulled" =>
    IF kind = "image" THEN result.args = podmanArgs
    ELSE LET given == Given(podmanArgs, Len(podmanArgs))
         IN /\ Len(result.args) = Cardinality(given)
            /\ \A i \in given :
                 result.args[Cardinality({j \in given : j <= i})] = podmanArgs[i]

(***************************************************************************)
(* podman pull is called as the file is written: for its image, or not at  *)
(* all, under its policy and with its own flags (image.rs:136-245).        *)
(***************************************************************************)
PulledAsWritten == ImageAsWritten /\ PulledWithItsFlags
=============================================================================
