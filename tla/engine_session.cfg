CONSTANTS
  MaxSent = 2
  MaxSaid = 1
  MaxPipe = 2
SPECIFICATION FairSpec
INVARIANT NothingUnowned
INVARIANT WatchesSilence
PROPERTY ClosedIsLast
PROPERTY TurnEnds
PROPERTY CloseSettles
CHECK_DEADLOCK FALSE
