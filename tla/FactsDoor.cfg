SPECIFICATION FairSpec
CONSTANTS
  k1 = k1
  None = None
  Keys = {k1}
  Requests = {"r1", "r2"}
  BodyOf <- Distinct
  FiguresOf <- FiguresTaught
  GroupingsOf <- GroupingsTaught
  Asks <- EveryAsk
  RunKeep = 1
  MaxRequests = 3
  MaxFaults = 1
INVARIANTS
  OwedOrFiled
  NextPassPays
  NewestBodyHeld
  LogFaithful
PROPERTIES
  DeployedStaysComputed
  Answered
CHECK_DEADLOCK FALSE
