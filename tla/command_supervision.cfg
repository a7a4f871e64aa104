CONSTANT MaxFaults = 1
SPECIFICATION FairSpec
CHECK_DEADLOCK FALSE
INVARIANT NobodyLeft
INVARIANT SuccessIsEarned
INVARIANT ReapedIsFinal
PROPERTY LeaseBoundsGroup
PROPERTY CallsReturn
