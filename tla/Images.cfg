\* Three threads and two images; nothing bounds the number of calls.
CONSTANTS
  t1 = t1  t2 = t2  t3 = t3  i1 = i1  i2 = i2
  Threads = {t1, t2, t3}
  Images = {i1, i2}
SPECIFICATION FairSpec
INVARIANTS MarkHasOwner GivenIsWhole
PROPERTIES WaiterReturns
