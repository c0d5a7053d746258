SPECIFICATION Spec
CONSTANTS
  A = A
  B = B
  app = app
  RepoOrder <- MCRepoOrder
  UnitsOf <- MCUnitsOf
  Units = {app}
  Odd = {B}
  None = None
  MinRestarts = 1
  MaxUptime = 2
  MaxEvents = 3
  MaxFaults = 1
INVARIANTS
  TroubleIsReported
  AlarmsHaveAReason
  ReportExplainsExit
CHECK_DEADLOCK FALSE
