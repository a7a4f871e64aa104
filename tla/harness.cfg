CONSTANTS
  MaxRuns = 2
  MaxMishaps = 2
SPECIFICATION Spec
CHECK_DEADLOCK FALSE
INVARIANT PassIsEarned
INVARIANT ExitTellsEvidence
INVARIANT NothingLeftBehind
INVARIANT SeedCounts
PROPERTY BootBehindAcceptance
