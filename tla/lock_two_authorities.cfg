CONSTANTS
  a = a  b = b  d = d  e = e  s = s
  p = p  q = q  r = r  x = x  y = y
  NoFile = NoFile
  Claims <- MCClaims
  Procs <- MCProcs
  HostOf <- MCHost
  Ghosts <- MCGhosts
  Unobservable <- MCUnobservable
SPECIFICATION Spec
CHECK_DEADLOCK FALSE
INVARIANT OneAuthority
