CONSTANTS
  f1 = f1  f2 = f2
  Fetches <- MCFetches
  NoView = NoView
  MaxRevision = 2
  MaxDrops = 1
SPECIFICATION FairSpec
INVARIANT FeedComplete
INVARIANT ControlsWait
INVARIANT SettledIsFresh
PROPERTY NeverBack
PROPERTY EventuallyShown
