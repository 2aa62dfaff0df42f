\* No calls, three events.  The behaviour may end.
CONSTANTS
  n1 = n1  n2 = n2  n3 = n3  a1 = a1  noNet = noNet  none = none
  Nets = {n1, n2, n3}
  First = n1
  Callers = {a1}
  MaxCalls = 0
  MaxEvents = 3
  BufSize = 1
  NoNet = noNet
  NoCall = none
SPECIFICATION FairSpec
INVARIANTS EventsOnceInOrder NewestKept
PROPERTY Reconnects
CHECK_DEADLOCK FALSE
