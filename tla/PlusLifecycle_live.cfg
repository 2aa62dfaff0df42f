\* A plugin that is enabled twice, gets events and may crash at any time.  The
\* process ends.
CONSTANTS
  p1 = p1  p2 = p2  d1 = d1  none = none
  Plus = {p1}
  Dll = {p1}
  Deliverers = {d1}
  MaxLife = 2
  MaxMail = 1
  NoPlus = none
SPECIFICATION FairSpec
PROPERTIES CrashNoticed WindowReturns
CHECK_DEADLOCK FALSE
