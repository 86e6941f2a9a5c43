\* Progress in both submission modes, with one pool thread.
SPECIFICATION FairSpec
CONSTANTS
  People = {p1, p2}
  Chores = {c1}
  Availability = {a1}
  MaxPeople = 2
  NumWorkerThreads = 1
  GatherWindow = 1
  HistoryTTL = 1
  JobsMayFail = TRUE
  ChannelCapacity = 1
  None = None
  MaxTime = 4
  MaxSeq = 3
PROPERTIES
  EveryWindowFlushed
  EveryBatchCompletes
CHECK_DEADLOCK FALSE
