\* Both submission modes; one pool thread for two people; the gate, the
\* completion channel, the history, the refinement of the abstract orchestrator.
SPECIFICATION Spec
CONSTANTS
  People = {p1, p2, p3}
  Chores = {c1, c2}
  Availability = {a1}
  MaxPeople = 2
  NumWorkerThreads = 1
  GatherWindow = 1
  HistoryTTL = 1
  JobsMayFail = TRUE
  ChannelCapacity = 1
  None = None
  MaxTime = 3
  MaxSeq = 3
INVARIANTS
  TypeOK
  ActiveCountsTickets
  CompletionsMatchTickets
  OneBatch
  StampOfTicket
PROPERTIES
  ImplementsDispatch
  SummariesInBatchOrder
CHECK_DEADLOCK FALSE
