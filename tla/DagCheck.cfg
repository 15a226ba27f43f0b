CONSTANTS
  Ids <- FourIds
  Requests <- AllRequests
  Undefined = Undefined
SPECIFICATION FairSpec
INVARIANTS TypeOK VerdictCorrect SortCorrect
PROPERTY Terminates
CHECK_DEADLOCK FALSE
