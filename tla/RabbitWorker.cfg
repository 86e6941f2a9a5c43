\* Three workers, two stops, a job that cannot be decoded before the last one.
SPECIFICATION FairSpec
CONSTANTS
  Workers = {w1, w2, w3}
  NumJobs = 4
  BadJobs = {3}
  None = None
  MaxStops = 2
INVARIANTS
  TypeOK
  NothingLost
  DuplicatesNeedStop
PROPERTIES
  ImplementsAtLeastOnce
  EveryJobHasResult
CHECK_DEADLOCK FALSE
