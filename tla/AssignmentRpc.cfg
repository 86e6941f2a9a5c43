\* A publisher among others whose results come without an end; two replicas that
\* may stop.
SPECIFICATION FairSpec
CONSTANTS
  Publishers = {a}
  Services = {s1, s2}
  Timeout = 2
  Interval = 1
  None = None
  Other = Other
  MaxRequests = 2
  MaxBacklog = 2
  MaxSkips = 2
INVARIANTS
  WaitExplained
PROPERTIES
  ImplementsRequestReply
  DeliveredIsReported
  SettlesUnlessDisturbed
CHECK_DEADLOCK FALSE
