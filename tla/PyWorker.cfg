\* Three places in the pool, threads that cannot be started, results that fail.
SPECIFICATION FairSpec
CONSTANTS
  Threads = {t1, t2, t3}
  StartsMayFail = TRUE
  None = None
  NumRequests = 4
INVARIANTS
  QueueNeedsBusyThreads
PROPERTIES
  ImplementsAtMostOnce
  EveryRequestSettles
  ShutdownEnds
CHECK_DEADLOCK FALSE
