SPECIFICATION Spec
CONSTANTS
  tgt = tgt  app = app  img = img  bld = bld  w1 = w1  tpl = tpl
  fApp = fApp  fImg = fImg  fBld = fBld  fTpl = fTpl
  NoUnit = NoUnit
  Units = {tgt, app, img, w1}
  Templates = {tpl}
  Files = {fApp, fImg, fTpl}
  UnitOf <- ChainUnitOf
  Instances <- ChainInstances
  WantedBy <- ChainWantedBy
  StartOnSync = {}
  ImageFiles = {fApp, fImg, fTpl}
  Carries = {fApp, fImg, fTpl}
  Inputs <- ChainInputs
  AtFirst <- ChainAtFirst
  Faulty = FALSE
  MaxEvents = 2
INVARIANTS
  StartsAreWanted
  RestartsWereRunning
  StartUnderwayLeftAlone
  SteadyWanterHonoured
  ImagesPulledBeforeUse
  DeletedAreStopped
CHECK_DEADLOCK FALSE
