CONSTANTS
  Procs = {p1, p2}
  NoFile = NoFile
  Probes = 2
  Verdicts = {"pass", "fail"}
  MaxCalls = 1
SPECIFICATION Spec
CONSTRAINT Apart
CHECK_DEADLOCK FALSE
INVARIANT OneUnlessRobbed
INVARIANT CleanExit
PROPERTY NoVerdictFromSilence
PROPERTY GreenIsMeasured
PROPERTY SuiteEnds
