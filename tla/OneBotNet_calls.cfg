\* One caller, two calls, no events.  The behaviour may end.
CONSTANTS
  n1 = n1  n2 = n2  n3 = n3  a1 = a1  noNet = noNet  none = none
  Nets = {n1, n2}
  First = n1
  Callers = {a1}
  MaxCalls = 2
  MaxEvents = 0
  BufSize = 1
  NoNet = noNet
  NoCall = none
SPECIFICATION FairSpec
PROPERTIES IsRemoteCall CallReturns
CHECK_DEADLOCK FALSE
