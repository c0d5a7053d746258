SPECIFICATION Spec
CONSTANTS
  A = A
  B = B
  app = app
  RepoOrder <- MCRepoOrder
  UnitsOf <- MCUnitsOf
  Units = {app}
  Odd = {B}
  None = None
  MinRestarts = 1
  MaxUptime = 2
  MaxEvents = 2
  MaxFaults = 0
INVARIANTS
  CalmIsQuiet
CHECK_DEADLOCK FALSE
