SPECIFICATION SessionSpec
CONSTANTS
  Plans <- RetryPlan
  MaxExecutions = 1
  MaxEdits = 0
  UntracedThreads = FALSE
  Unkillable = FALSE
CHECK_DEADLOCK FALSE
INVARIANTS TypeOK CompleteTellsExecutions  
  OwnedResourcesReleased
