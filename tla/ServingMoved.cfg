SPECIFICATION Spec
CONSTANTS
  issue = issue
  person = person
  assigned = assigned
  active = active
  target = target
  wip = wip
  goal = goal
  total = total
  load = load
  flow = flow
  live = live
  watch = watch
  head = head
  foot = foot
  tile = tile
  dead = dead
  None = None
  Kinds <- MCKinds
  IndexNames <- MCIndexNames
  Names <- MCNames
  Versions <- MCVersions
  Libraries <- MCLibraries
  Deploys <- MCDeploys
  MaxHeld = 1
  MaxRow = 2
  MaxDay = 1
  MaxPasses = 3
  MaxRaises = 0
INVARIANT MovedIsComplete
CHECK_DEADLOCK FALSE
