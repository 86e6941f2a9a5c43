\* Two cycles of the producer.
SPECIFICATION FairPipeline
CONSTANTS
  People = {p1, p2}
  Chores = {1, 2}
  Availability = {1, 2}
  MaxCycles = 2
  MaxActive = 1
  GatherWindow = 1
  HistoryTTL = 1
  Mode = "per_person"
  JobsMayFail = TRUE
  StartsMayFail = FALSE
  None = None
  MaxTime = 5
  MaxSeq = 4
PROPERTIES
  CyclesInOrder
  MessageUsedOnce
  LastMessageCounts
  EveryWindowFlushed
  EveryBatchCompletes
CHECK_DEADLOCK FALSE
