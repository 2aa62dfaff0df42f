\* One plugin, an event of two parts and one of one part, two threads in each
\* pool; lists that overflow.
CONSTANTS
  p1 = p1  t1 = t1  t2 = t2  none = none
  Plus = {p1}
  WantsEx = {p1}
  WantsPoke = {}
  Events <- MCEvents
  Threads = {t1, t2}
  MaxTasks = 0
  MaxList = 0
  MaxQueue = 0
  Callers = 2
  NoPlus = none
SPECIFICATION FairSpec
INVARIANTS PartsInOrder OvertakenOnlyMeanwhile NothingAfterExit
PROPERTIES IsLossyFifo DeliveredIfRoom
CHECK_DEADLOCK FALSE
