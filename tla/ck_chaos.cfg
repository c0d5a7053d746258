SPECIFICATION Spec
CONSTANTS
  c1 = c1  c2 = c2  x2 = x2  d1 = d1  app = app  old = old  src = src
  v1 = v1  v2 = v2  home = home  fork = fork  main = main  trunk = trunk
  NoCommit = NoCommit  Absent = Absent  NoBranch = NoBranch
  Commits = {c1, c2, x2, d1}  Paths = {app, old, src}  UnitFiles = {app, old}
  Contents = {v1, v2, Absent}  History <- MCHistory  Tree <- MCTree  Watches <- MCWatches
  Urls = {home, fork}  Branches = {main, trunk}  InitBranch = main
  Remotes <- WithForkAndTrunk  Pushable <- HomeAndFork  Moves = {"rewrite", "delete", "default"}
  Configs <- Anything  ForceChoices = {FALSE, TRUE}
  Fails = {"clone", "head", "url", "branch", "fetch", "reset", "pull", "diff"}  Leftovers = {"unborn", "unchecked", "refs", "head"}  Dies = {"clone", "head", "url", "branch", "fetch", "reset", "pull", "post", "handle"}
  MaxFaults = 2  MaxPushes = 1
INVARIANTS
  ReportsAreTrue
PROPERTIES
  UnforcedKeepsHistory
