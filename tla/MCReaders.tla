------------------------------ MODULE MCReaders -----------------------------
(***************************************************************************)
(* The sequential parts of quadcd, each a machine of its own, checked in   *)
(* one run: `reader` says which of them runs, the others stay idle.        *)
(***************************************************************************)
EXTENDS Glob, UnitSettings, Watch, ImageFile, Prepull, CommandLine, ManualSync

CONSTANTS x, y        \* characters of globs and names

VARIABLE reader

StringsOver(chars, n) == BoundedSeq(chars, n)
MCChars == {x, y, Star, One}
MCPatterns == StringsOver(MCChars, 4)
MCNames == StringsOver({x, y}, 4)

MCGlobs == {"g1", "g2"}

MCSegments ==
  {"app.container", "sub", "db.container", "web.service", "bin.kube", "conf", "a", "b", "x",
   "*", "**", ".", "..", Void}
MCUnitFiles == <<<<"app.container">>, <<"sub", "db.container">>, <<"web.service">>, <<"bin.kube">>>>
MCGlobsOf ==
  (<<"app.container">> :> <<<<"..", "a">>, <<"conf", "*">>, <<"conf", "**", "a">>>>)
    @@ (<<"sub", "db.container">> :> <<<<".", "..", "**">>>>)
    @@ (<<"web.service">> :> <<<<"sub", "..", "..", "conf", "a">>, <<Void, "conf">>,
                               <<"**", "sub", "..", "a">>>>)
    @@ (<<"bin.kube">> :> <<<<"**">>>>)
MCUnreadable == {<<"bin.kube">>}
MCChangedAlready == {<<>>, <<<<"app.container">>>>, <<<<"web.service">>>>}
MCOthers == SUBSET {<<"a">>, <<"conf", "a">>, <<"conf", "b", "a">>, <<"sub", "x">>}

MCSources == <<"d1", "d2">>
MCLists == {<<>>, <<"f1">>, <<"f1", "f2">>}
MCAsk == {NoImage, Ask("i1", "missing", "a"), Ask("i1", "newer", "none"), Ask("i2", "always", "none")}
MCAsks == [{"d1", "d2"} -> [{"f1", "f2"} -> MCAsk]]

MCWords == {"generate", "sync", "dir", "-v", "--force", "-dryrun", "-h", "-version", "bogus"}

MCDirsInOrder == <<"local", "r1", "r2">>
MCGivens == {{}, {"config"}, {"source", "generator", "dropins"}}
MCConfigFiles ==
  {Absent, [there |-> TRUE, valid |-> FALSE, repos |-> {}],
   [there |-> TRUE, valid |-> TRUE, repos |-> {"r1", "r2"}]}
MCEnvKeys ==
  ("user" :> {"A", "B"}) @@ ("system" :> {"A"}) @@ ("given" :> {"A"})
    @@ ("local" :> {"B", "C"}) @@ ("r1" :> {"A", RootKey}) @@ ("r2" :> {})

-----------------------------------------------------------------------------
GlobIdle == pattern = <<>> /\ text = <<>> /\ pi = 0 /\ ti = 0 /\ sp = -1 /\ st = -1 /\ answer = "idle"
SettingsIdle == seen = <<>> /\ inSection = FALSE /\ startOnSync = FALSE /\ watch = <<>> /\ warnings = 0
WatchIdle ==
  /\ changed = <<>> /\ other = {} /\ queue = <<>> /\ unit = <<>> /\ globs = <<>>
  /\ warned = {} /\ listed = <<>>
ImageIdle ==
  /\ kind = "image" /\ lines = <<>> /\ section = None /\ imageVal = None /\ policy = "always"
  /\ authFile = None /\ tlsVerify = None /\ podmanArgs = <<>>
  /\ argAt = 1 /\ filtered = <<>> /\ result = Reading
PullIdle ==
  /\ asks = <<>> /\ files = <<>> /\ stage = "idle" /\ dir = 1 /\ next = 1
  /\ refs = <<>> /\ policies = <<>> /\ kept = <<>>
  /\ podman = {} /\ stderr = FALSE /\ broken = {}
CliIdle ==
  /\ args = <<>> /\ scoped = FALSE /\ command = "start" /\ at = 1
  /\ flags = {} /\ positional = <<>> /\ outcome = NotYet
ManualIdle ==
  /\ environ = <<>> /\ disk = <<>> /\ cfg = <<>> /\ doing = "start" /\ todo = {}
  /\ outcome_of = NoVars /\ dirs = <<>> /\ effective = NoVars /\ exit = -1

Init ==
  /\ reader \in {"glob", "settings", "watch", "image", "pull", "cli", "manual"}
  /\ IF reader = "glob" THEN GlobInit ELSE GlobIdle
  /\ IF reader = "settings" THEN SettingsInit ELSE SettingsIdle
  /\ IF reader = "watch" THEN WatchInit ELSE WatchIdle
  /\ IF reader = "image" THEN ImageInit ELSE ImageIdle
  /\ IF reader = "pull" THEN PullInit ELSE PullIdle
  /\ IF reader = "cli" THEN CliInit ELSE CliIdle
  /\ IF reader = "manual" THEN ManualInit ELSE ManualIdle

vars == <<reader, globVars, settingsVars, watchVars, imageVars, pullVars, cliVars, manualVars>>

Glob_ ==
  /\ reader = "glob" /\ GlobNext
  /\ UNCHANGED <<reader, settingsVars, watchVars, imageVars, pullVars, cliVars, manualVars>>
Settings_ ==
  /\ reader = "settings" /\ SettingsNext
  /\ UNCHANGED <<reader, globVars, watchVars, imageVars, pullVars, cliVars, manualVars>>
Watch_ ==
  /\ reader = "watch" /\ WatchNext
  /\ UNCHANGED <<reader, globVars, settingsVars, imageVars, pullVars, cliVars, manualVars>>
Image_ ==
  /\ reader = "image" /\ ImageNext
  /\ UNCHANGED <<reader, globVars, settingsVars, watchVars, pullVars, cliVars, manualVars>>
Pull_ ==
  /\ reader = "pull" /\ PullNext
  /\ UNCHANGED <<reader, globVars, settingsVars, watchVars, imageVars, cliVars, manualVars>>
Cli_ ==
  /\ reader = "cli" /\ CliNext
  /\ UNCHANGED <<reader, globVars, settingsVars, watchVars, imageVars, pullVars, manualVars>>
Manual_ ==
  /\ reader = "manual" /\ ManualNext
  /\ UNCHANGED <<reader, globVars, settingsVars, watchVars, imageVars, pullVars, cliVars>>

Next == Glob_ \/ Settings_ \/ Watch_ \/ Image_ \/ Pull_ \/ Cli_ \/ Manual_

FairSpec == Init /\ [][Next]_vars /\ WF_vars(Glob_) /\ PullFairness
=============================================================================
