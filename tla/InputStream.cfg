\* Two readers and a pool of two threads, all kinds of streams, a group and a
\* private message.  All reads may end.
CONSTANTS
  r1 = r1  r2 = r2  a1 = a1  a2 = a2
  Readers = {r1, r2}
  Dealers = {a1, a2}
  PoolSize = 2
  Streams <- MCStreams
  Arrivals <- MCMixed
  MaxReads = 2
SPECIFICATION FairSpec
INVARIANTS NoStaleKey ConfusedByNumberOnly GivenOnce UndisturbedNotMissed
PROPERTY PoolComesFree
CHECK_DEADLOCK FALSE
