\* One thread at most (so the pool is at its limit most of the time), and one
\* of three tasks throws.  The process may end, so deadlock is not checked.
CONSTANTS
  w1 = w1  w2 = w2  w3 = w3
  s1 = s1  s2 = s2
  daemon = daemon
  t1 = t1  t2 = t2  t3 = t3
  none = none
  Workers = {w1, w2, w3}
  Submitters = {s1, s2}
  Daemon = daemon
  Tasks = {t1, t2, t3}
  Throwing = {t3}
  MaxThread = 1
  MaxTask = 0
  NoTask = none
SPECIFICATION FairSpec
INVARIANTS CountersExact QueueBound ThreadBound WakeupMatched FifoDispatch
PROPERTIES AcceptedStarts PoolShrinks
CHECK_DEADLOCK FALSE
