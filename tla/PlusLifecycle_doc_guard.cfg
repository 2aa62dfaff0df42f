\* What the code and its documents say, see DocGuardOnCrash.
CONSTANTS
  p1 = p1  p2 = p2  d1 = d1  none = none
  Plus = {p1}
  Dll = {p1}
  Deliverers = {d1}
  MaxLife = 1
  MaxMail = 1
  NoPlus = none
SPECIFICATION Spec
INVARIANT DocGuardOnCrash
CHECK_DEADLOCK FALSE
