SPECIFICATION MCSpec
CONSTANTS
  Instances <- MCInstances
  Catalogs <- MCCatalogs
  Programs <- MCPrograms
  RunFlaws = {"diagnostics", "foreign_mutation"}
  MaxEdits = 3
CHECK_DEADLOCK FALSE
INVARIANTS VerdictIsEarned EverySessionIsClosed EveryAssertionIsAnswered AssertionsAreIndependent PublishedRunIsOfOneSource   
