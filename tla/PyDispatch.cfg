\* Per-person jobs that may fail, threads that cannot be started: the gate, the
\* history, the timers, the refinement of the abstract orchestrator, progress.
SPECIFICATION Spec
CONSTANTS
  People = {p1, p2, p3}
  Chores = {c1, c2}
  Availability = {a1}
  MaxActive = 2
  GatherWindow = 1
  HistoryTTL = 1
  Mode = "per_person"
  JobsMayFail = TRUE
  StartsMayFail = TRUE
  None = None
  MaxTime = 4
  MaxSeq = 3
INVARIANTS
  TypeOK
  ActiveCountsTickets
  OneBatch
  StampOfTicket
  TimerOwnsWindow
PROPERTIES
  ImplementsDispatch
  StartFailureIsPermanent
CHECK_DEADLOCK FALSE
