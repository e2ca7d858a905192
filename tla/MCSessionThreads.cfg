SPECIFICATION SessionSpec
CONSTANTS
  Plans <- OnePlan
  MaxExecutions = 0
  MaxEdits = 0
  UntracedThreads = TRUE
  Unkillable = FALSE
CHECK_DEADLOCK FALSE
INVARIANTS UncorrelatedIncomplete
