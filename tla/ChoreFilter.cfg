\* Every request of up to 3 chores over 3-bit minutes.
SPECIFICATION Spec
CONSTANTS
  Modulus = 8
  MaxChores = 3
INVARIANTS
  PyFillsTime
  SameUnlessOverflow
CHECK_DEADLOCK FALSE
