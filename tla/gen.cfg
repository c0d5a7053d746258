SPECIFICATION Spec
CONSTANTS
  AppA = AppA
  SvcA = SvcA
  WebA = WebA
  AppB = AppB
  KubeB = KubeB
  WebB = WebB
  RepoA = RepoA
  RepoB = RepoB
  App = App
  Kube = Kube
  AppService = AppService
  Web = Web
  Old = Old
  New = New
  PathOrder <- MCPathOrder
  DirOrder <- MCDirOrder
  DirOf <- MCDirOf
  NameOf <- MCNameOf
  QuadletNames = {App, Kube}
  SystemdNames = {AppService, Web}
  Makes <- MCMakes
  Contents = {Old, New}
  Installs <- MCInstalls
  Garbage = Garbage
  AtFirst = {Old, None}
  None = None
  Dropins = {containerd}
  Override = FALSE
  MaxMoves = 1
  MaxRuns = 1
  MaxFaults = 1
INVARIANTS
  TypeOK SuccessMeansInstalled OneRealSource LinksAreMade OverridesAreWarnedOf DryRunShowsTheRun
CHECK_DEADLOCK FALSE
