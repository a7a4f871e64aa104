CONSTANTS
  Required = 7
SPECIFICATION FairSpec
INVARIANT ResultAtRest
PROPERTY RetryResumes
