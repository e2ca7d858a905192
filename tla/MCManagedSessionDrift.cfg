SPECIFICATION SessionFairSpec
CONSTANTS
  Plans <- RetryPlan
  MaxExecutions = 0
  MaxEdits = 1
  UntracedThreads = FALSE
  Unkillable = TRUE
CHECK_DEADLOCK FALSE
INVARIANTS CompleteServedIndexed
 
