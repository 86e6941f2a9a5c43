\* A timer that cannot be started leaves the window it was made for.
SPECIFICATION Spec
CONSTANTS
  People = {p1, p2}
  Chores = {c1}
  Availability = {a1}
  MaxActive = 2
  GatherWindow = 1
  HistoryTTL = 1
  Mode = "per_person"
  JobsMayFail = FALSE
  StartsMayFail = TRUE
  None = None
  MaxTime = 4
  MaxSeq = 3
INVARIANT
  OpenWindowHasTimer
CHECK_DEADLOCK FALSE
