SPECIFICATION SessionSpec
CONSTANTS
  Plans <- OnePlan
  MaxExecutions = 0
  MaxEdits = 0
  UntracedThreads = FALSE
  Unkillable = FALSE
CHECK_DEADLOCK FALSE
INVARIANTS ScratchRemoved
