CONSTANTS
  Procs = {p1, p2}
  NoFile = NoFile
  Probes = 1
  Verdicts = {"pass"}
  MaxCalls = 1
SPECIFICATION Spec
CHECK_DEADLOCK FALSE
INVARIANT OneSuite
