CONSTANTS
  a = a  b = b
  Attempts <- MCAttempts
  NoAttempt = NoAttempt
  NoMarker = NoMarker
  Required = 1
  FreshIds = TRUE
  MaxRevision = 8
  MaxMishaps = 0
  MaxFaults = 0
SPECIFICATION Spec
INVARIANT LatchedUnpublished
