\* What assignment.proto says of the cost field.
SPECIFICATION Spec
CONSTANTS
  Scores = {0, 1, 3}
  Impossible = 8
  MaxTotal = 9
  None = None
  MaxWorkers = 2
  MaxJobs = 2
INVARIANT
  LowerIsBetter
CHECK_DEADLOCK FALSE
