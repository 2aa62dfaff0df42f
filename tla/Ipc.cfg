\* Calls run out, so the behaviour ends.
CONSTANTS
  a1 = a1  a2 = a2  h1 = h1  h2 = h2  none = none
  Callers = {a1, a2}
  Handlers = {h1, h2}
  MaxCalls = 2
  MaxList = 1
  MaxTask = 0
  NoCall = none
SPECIFICATION FairSpec
INVARIANT OnePlace
PROPERTIES IsRemoteCall ReachedIsRun
CHECK_DEADLOCK FALSE
