SPECIFICATION MCSpec
CONSTANTS
  Sources <- MCSources
  MaxEdits = 1
CHECK_DEADLOCK FALSE
INVARIANTS ApplicableIsBacked PolicyBasisIsCurrent ArtifactIsValid LostCoverageNeverConfirms PolicyMatrixAgrees PlanAcceptsAnalysis CheckKeysAreUnique LostCoverageOpensNoGate
