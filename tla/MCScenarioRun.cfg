SPECIFICATION ScenarioSpec
CONSTANTS
  Plans <- ScenarioPlans
  MaxExecutions = 2
  MaxEdits = 0
  UntracedThreads = FALSE
  Unkillable = FALSE
CHECK_DEADLOCK FALSE
INVARIANTS PassIsTrue FailIsTrue ExecutionIsNotExcused WellBehavedIsDecided
