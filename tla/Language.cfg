SPECIFICATION Spec
CONSTANTS
  SchemaKinds = {}
  SchemaNameFields = {}
  Calendars = {"UTC"}
  FactSources <- MCFacts
  IndexSources <- MCIndexes
  MeasureSources <- MCMeasures
  FigureDecls <- MCAbove
  MaxFigures = 2
  None = None
  MaxBuckets = 3660
  MaxReachDays = 3660
  MaxWindows = 366
  ReadingDecls <- MCReadings
  ProjectDecls <- MCProjections
  SummariseDecls <- MCSummaries
  BundleDecls <- MCBundles
  Ids <- MCIds
  Tails = {june, july}
  Samples = {0, 60, 3600}
  DefaultTrailing <- MCDefault
  Rewrites <- MCRewrites
INVARIANTS
  ReadersMeet
  AnswersMeet
  VersionsTell
CHECK_DEADLOCK FALSE
