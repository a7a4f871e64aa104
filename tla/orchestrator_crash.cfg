CONSTANTS
  a = a  b = b
  Attempts <- MCAttempts
  NoAttempt = NoAttempt
  NoMarker = NoMarker
  Required = 1
  FreshIds = TRUE
  MaxRevision = 8
  MaxMishaps = 2
  MaxFaults = 1
SPECIFICATION FairSpec
INVARIANT AttributableWork
INVARIANT ReapableWork
INVARIANT OneActiveFixture
INVARIANT NoFixtureBesideResult
INVARIANT ChainIntact
PROPERTY RecoveryFreezes
PROPERTY IsLifecycle
PROPERTY CompletionSurvives
