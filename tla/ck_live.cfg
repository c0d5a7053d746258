SPECIFICATION FairSpec
CONSTANTS
  c1 = c1  c2 = c2  x2 = x2  d1 = d1  app = app  old = old  src = src
  v1 = v1  v2 = v2  home = home  fork = fork  main = main  trunk = trunk
  NoCommit = NoCommit  Absent = Absent  NoBranch = NoBranch
  Commits = {c1, c2, x2, d1}  Paths = {app, old, src}  UnitFiles = {app, old}
  Contents = {v1, v2, Absent}  History <- MCHistory  Tree <- MCTree  Watches <- MCWatches
  Urls = {home}  Branches = {main, trunk}  InitBranch = main
  Remotes <- OneBranch  Pushable <- HomeOnly  Moves = {}
  Configs <- DefaultOnly  ForceChoices = {FALSE, TRUE}
  Fails = {"clone", "url", "fetch", "reset", "pull"}  Leftovers = {"refs", "unborn"}  Dies = {"clone", "head", "url", "branch", "fetch", "reset", "pull"}
  MaxFaults = 2  MaxPushes = 1
PROPERTIES
  Converges
