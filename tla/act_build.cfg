SPECIFICATION FairSpec
CONSTANTS
  tgt = tgt  app = app  img = img  bld = bld  w1 = w1  tpl = tpl
  fApp = fApp  fImg = fImg  fBld = fBld  fTpl = fTpl
  NoUnit = NoUnit
  Units = {w1, app, bld}
  Templates = {}
  Files = {fApp, fBld}
  UnitOf <- BuildUnitOf
  Instances <- NoInstances
  WantedBy <- BuildWantedBy
  StartOnSync = {bld}
  ImageFiles = {fApp}
  Carries = {fApp}
  Inputs <- BuildInputs
  AtFirst <- BuildAtFirst
  Faulty = TRUE
  MaxEvents = 1
INVARIANTS
  BuildsGoFirst
PROPERTIES
  Terminates
CHECK_DEADLOCK FALSE
