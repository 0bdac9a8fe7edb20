SPECIFICATION FairSpec
CONSTANTS
  c1 = c1
  t1 = t1
  t2 = t2
  n1 = n1
  n2 = n2
  Clients <- MCClients
  Tenants <- MCTenants
  Names <- MCNames
  LibraryOf <- MCTeaches
  Unfetchable <- MCUnfetchable
  Asks <- MCAsks
  MaxPasses = 2
  MaxFrames = 2
  MaxFaults = 1
  None = None
  Pass = Pass
INVARIANT TypeOK
INVARIANT FollowedIsFresh
INVARIANT EntriesKeepToBoard
INVARIANT NoneSilentInTime
PROPERTY NeverGoesBack
PROPERTY SubscribersAnswered
CHECK_DEADLOCK FALSE
