CONSTANTS
  MaxSent = 2
  MaxSaid = 1
  MaxPipe = 2
SPECIFICATION Spec
INVARIANT FinishWatched
CHECK_DEADLOCK FALSE
