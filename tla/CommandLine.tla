---------------------------- MODULE CommandLine -----------------------------
(***************************************************************************)
(* parse_cli (cli.rs): what quadcd is asked to do.  systemd calls it as a  *)
(* generator, with one directory or three and no subcommand; people and    *)
(* units call it with one.  The arguments are gone through one by one.     *)
(***************************************************************************)
EXTENDS Integers, Sequences, FiniteSets, SequencesExt

CONSTANTS Words,      \* arguments tried
          MaxWords,
          Dirs        \* those that are existing directories

VARIABLES args,       \* the arguments after the program's name
          scoped,     \* whether SYSTEMD_SCOPE is set
          command,    \* the subcommand being parsed, or "start"
          at,         \* place of the next argument
          flags, positional,
          outcome     \* what parse_cli returned

cliVars == <<args, scoped, command, at, flags, positional, outcome>>

NotYet == [is |-> "not_yet"]
Plain(w) == w \in Dirs \cup {"generate", "sync", "status", "version", "help", "bogus"}
Help == {"-h", "-help", "--help"}

\* The flags a subcommand knows, and the fields of the invocation that one sets.
Known(c) ==
  CASE c = "generate" -> {"-v", "-user", "-dryrun", "-no-kmsg-log"}
    [] c = "sync"     -> {"-v", "--user", "--force", "--service", "--sync-only", "-i",
                          "--interactive", "--accept-new-host-keys"}
    [] c = "status"   -> {"-v", "--user", "--no-fetch", "--json"}

FieldsOf(w) ==
  CASE w = "-v"                        -> {"verbose"}
    [] w \in {"-user", "--user"}       -> {"force_user"}
    [] w = "-dryrun"                   -> {"dryrun", "verbose"}
    [] w = "-no-kmsg-log"              -> {}
    [] w \in {"-i", "--interactive"}   -> {"interactive"}
    [] w = "--force"                   -> {"force"}
    [] w = "--service"                 -> {"service"}
    [] w = "--sync-only"               -> {"sync_only"}
    [] w = "--accept-new-host-keys"    -> {"accept_new_host_keys"}
    [] w = "--no-fetch"                -> {"no_fetch"}
    [] w = "--json"                    -> {"json"}

\* No directory is called like a flag: a generator's directories have absolute paths.
ASSUME CommandLineConstantsOK ==
  /\ MaxWords \in Nat
  /\ Dirs \cap (Help \cup {"-version"} \cup Known("generate")) = {}

\* Mutant: only a call with all three directories is systemd's.
FromSystemdInFull == scoped /\ Len(args) = 3 /\ args[1] \in Dirs

\* is_systemd_generator_invocation
FromSystemd == scoped /\ Len(args) \in {1, 3} /\ args[1] \in Dirs

First == IF args = <<>> THEN "none" ELSE args[1]

CliInit ==
  /\ args \in BoundedSeq(Words, MaxWords)
  /\ scoped \in BOOLEAN
  /\ command = "start" /\ at = 1
  /\ flags = {} /\ positional = <<>>
  /\ outcome = NotYet

-----------------------------------------------------------------------------
Return(what) ==
  /\ outcome' = what
  /\ UNCHANGED <<args, scoped, command, at, flags, positional>>

Version ==
  /\ command = "start" /\ outcome = NotYet
  /\ "-version" \in ToSet(args)
  /\ Return([is |-> "version"])

ParseAs(c, place) ==
  /\ command' = c /\ at' = place
  /\ UNCHANGED <<args, scoped, flags, positional, outcome>>

AsGenerator ==
  /\ command = "start" /\ outcome = NotYet /\ "-version" \notin ToSet(args)
  /\ FromSystemd
  /\ ParseAs("generate", 1)

Choosing == command = "start" /\ outcome = NotYet /\ "-version" \notin ToSet(args) /\ ~FromSystemd

Subcommand ==
  /\ Choosing /\ First \in {"generate", "sync", "status"}
  /\ ParseAs(First, 2)

OtherCommand ==
  /\ Choosing /\ First \notin {"generate", "sync", "status"}
  /\ Return([is |-> CASE First = "version"             -> "version"
                      [] First \in Help \cup {"help"} -> "help"
                      [] OTHER                         -> "error"])

-----------------------------------------------------------------------------
Parsing == command # "start" /\ outcome = NotYet
Word == args[at]
Invocation(help) ==
  [is |-> command, flags |-> flags, positional |-> positional, show_help |-> help]

SetFlag ==
  /\ Parsing /\ at <= Len(args) /\ Word \in Known(command)
  /\ flags' = flags \cup FieldsOf(Word)
  /\ at' = at + 1
  /\ UNCHANGED <<args, scoped, command, positional, outcome>>

\* The rest of the arguments is not looked at.
ShowHelp ==
  /\ Parsing /\ at <= Len(args) /\ Word \in Help
  /\ Return(Invocation(TRUE))

Positional ==
  /\ Parsing /\ at <= Len(args) /\ command = "generate" /\ Plain(Word)
  /\ positional' = Append(positional, Word)
  /\ at' = at + 1
  /\ UNCHANGED <<args, scoped, command, flags, outcome>>

Refuse ==
  /\ Parsing /\ at <= Len(args)
  /\ Word \notin Known(command) \cup Help
  /\ ~(command = "generate" /\ Plain(Word))
  /\ Return([is |-> "error"])

EndOfArgs ==
  /\ Parsing /\ at > Len(args)
  /\ Return(IF command = "generate" /\ "dryrun" \notin flags /\ positional = <<>>
            THEN [is |-> "error"] ELSE Invocation(FALSE))

CliNext ==
  \/ Version \/ AsGenerator \/ Subcommand \/ OtherCommand
  \/ SetFlag \/ ShowHelp \/ Positional \/ Refuse \/ EndOfArgs

-----------------------------------------------------------------------------
(***************************************************************************)
(* systemd is always served: whatever its directories are called, its call *)
(* is taken for the generator's, with all of them in order (and "-version" *)
(* is never one of them).  A unit that runs quadcd with SYSTEMD_SCOPE set  *)
(* and one argument is, too, if a directory of that name exists.           *)
(***************************************************************************)
SystemdIsServed ==
  outcome # NotYet /\ scoped /\ Len(args) \in {1, 3} /\ ToSet(args) \subseteq Dirs =>
    outcome = [is |-> "generate", flags |-> {}, positional |-> args, show_help |-> FALSE]

(***************************************************************************)
(* What is run is what was written: if a command is run, every argument up *)
(* to a call for help was understood, each flag counts wherever it stands, *)
(* and no flag counts that is not there.                                   *)
(***************************************************************************)
RunsWhatIsWritten ==
  outcome.is \in {"generate", "sync", "status"} =>
    LET first == IF FromSystemd THEN 1 ELSE 2
        helps == {i \in first..Len(args) : args[i] \in Help}
        end == IF helps = {} THEN Len(args) ELSE (CHOOSE i \in helps : \A j \in helps : i <= j) - 1
        words == {args[i] : i \in first..end}
        known == Known(outcome.is)
    IN /\ FromSystemd \/ args[1] = outcome.is
       /\ \A w \in words : w \in known \/ (outcome.is = "generate" /\ Plain(w))
       /\ outcome.flags = UNION {FieldsOf(w) : w \in words \cap known}
       /\ ToSet(outcome.positional) = words \ known
       /\ outcome.show_help = (helps # {})

(***************************************************************************)
(* systemd is served, and people get what they wrote (cli.rs:138-286).     *)
(***************************************************************************)
CallIsUnderstood == SystemdIsServed /\ RunsWhatIsWritten
=============================================================================
