SPECIFICATION FairSpec
CONSTANTS
  NumWorkers = 2
  MaxIntervals = 2
INVARIANTS
  TypeOK
  ReplyNeverGoesBack
PROPERTIES
  LagsByOne
  RequestAnswered
\* A process that reads element 0 of an empty vector may die.
CHECK_DEADLOCK FALSE
