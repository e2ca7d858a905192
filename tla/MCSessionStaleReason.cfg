SPECIFICATION SessionSpec
CONSTANTS
  Plans <- OnePlan
  MaxExecutions = 0
  MaxEdits = 1
  UntracedThreads = FALSE
  Unkillable = FALSE
CHECK_DEADLOCK FALSE
PROPERTIES StaleReasonRaised
