SPECIFICATION Spec
CONSTANTS
  a1 = a1
  a2 = a2
  kinds = kinds
  bare = bare
  over = over
  facts = facts
  empty = empty
  b1 = b1
  b2 = b2
  Authors <- MCAuthors
  Schemas <- MCSchemas
  Sources <- MCSources
  Builds <- MCBuilds
  Empty = empty
  Declares <- MCDeclares
  Teaches <- MCTeaches
  Accepted <- MCAccepted
  Strip <- MCStrip
  MaxAsks = 4
  MaxCrashes = 1
  None = None
INVARIANT TypeOK
INVARIANT RestartsAlike
PROPERTY EditorsReplaceWhatTheySaw
PROPERTY Durable
PROPERTY EveryoneAnswered
CHECK_DEADLOCK FALSE
