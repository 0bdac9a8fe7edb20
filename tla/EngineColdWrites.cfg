SPECIFICATION Spec
CONSTANTS
  p1 = p1
  p2 = p2
  t1 = t1
  none = none
  null = null
  None = none
  Null = null
  Keys <- EngineKeys
  Kinds <- EngineKinds
  KindOf <- EngineKindOf
  Bodies <- EngineBodies
  Tails <- EngineTails
  IndexNames <- MCIndexNames
  FigureNames <- MCFigureNames
  Libraries <- RosterLibraries
  Deploys <- RosterDeploys
  Batches <- RosterBatches
  MaxDay = 1
  MaxDeaths = 0
  MaxRequests = 3
  Numbers <- MCNumbers
  Cut <- MCCut
  Calc <- MCCalc
INVARIANTS
  ColdPassKeepsWrites
CHECK_DEADLOCK FALSE
