SPECIFICATION MCSpec
CONSTANTS
  Instances <- MCInstances
  Catalogs <- MCCatalogs
  Programs <- MCPrograms
  RunFlaws = {}
  MaxEdits = 2
CHECK_DEADLOCK FALSE
INVARIANTS RunConfigIsExecuted
