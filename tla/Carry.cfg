SPECIFICATION Spec
CONSTANTS
  x1 = x1
  Subjects <- MCSubjects
  Records <- MCRecords
  LastLabel = 4
  Values <- MCValues
  Cap = 3
  Readers <- MCReaders
  Pass = Pass
  MaxPosts = 2
  MaxReads = 2
  None = None
INVARIANT RowsInForce
INVARIANT ReadFindsFilled
INVARIANT ReportsKeepUp
CHECK_DEADLOCK FALSE
