\* The ids start again at 1 within the bound, which ends the behaviour.
CONSTANTS
  m1 = m1  m2 = m2
  WebIds = {m1, m2}
  INT_MAX = 6
  maxidnum = 3
  MaxCalls = 12
SPECIFICATION SpecIds
INVARIANTS RecentResolves StaleNeverMisleads
CHECK_DEADLOCK FALSE
