\* Every request of up to three workers and three jobs.
SPECIFICATION Spec
CONSTANTS
  Scores = {0, 1, 3}
  Impossible = 4
  MaxTotal = 7
  None = None
  MaxWorkers = 3
  MaxJobs = 3
INVARIANTS
  IsMatching
  BestMatching
CHECK_DEADLOCK FALSE
