SPECIFICATION Spec
CONSTANTS
  SchemaKinds = {}
  SchemaNameFields = {}
  Calendars = {"UTC"}
  FactSources <- MCFacts
  IndexSources <- MCIndexes
  MeasureSources <- MCMeasures
  FigureDecls <- MCFigures
  MaxFigures = 2
  None = None
  MaxBuckets = 3660
  MaxReachDays = 3660
  MaxWindows = 366
  ReadingDecls = {}
  ProjectDecls = {}
  SummariseDecls = {}
  BundleDecls = {}
  Ids <- MCIds
  Tails = {june, july}
  Samples = {0, 60, 3600}
  DefaultTrailing <- MCDefault
  Rewrites = {}
INVARIANT NoPassAborts
CHECK_DEADLOCK FALSE
