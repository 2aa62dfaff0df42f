\* A dll and a py plugin, three incarnations in all.  The process ends.
CONSTANTS
  p1 = p1  p2 = p2  d1 = d1  none = none
  Plus = {p1, p2}
  Dll = {p1}
  Deliverers = {}
  MaxLife = 3
  MaxMail = 1
  NoPlus = none
SPECIFICATION Spec
INVARIANTS OneProcess KnownWhileEnabled DisabledIsGone PointerLostToRival
PROPERTY UnknownIsWithdrawn
CHECK_DEADLOCK FALSE
