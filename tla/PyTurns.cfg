\* One job per window, the turns people take.
SPECIFICATION SpecRotation
CONSTANTS
  People = {p1, p2, p3}
  Chores = {c1}
  Availability = {a1}
  MaxActive = 2
  GatherWindow = 1
  HistoryTTL = 2
  Mode = "window_batch"
  JobsMayFail = TRUE
  StartsMayFail = TRUE
  None = None
  MaxTime = 5
  MaxSeq = 4
PROPERTIES
  SummariesInBatchOrder
  NoSecondOvertake
CHECK_DEADLOCK FALSE
