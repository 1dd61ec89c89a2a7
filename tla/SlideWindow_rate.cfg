\* Two callers, over more than two windows.
SPECIFICATION Spec
CONSTANTS
  c1 = c1
  c2 = c2
  c3 = c3
  Calls = {c1, c2}
  Rate = 2
  Window = 4
  MaxLag = 1
  MaxNow = 9
INVARIANTS
  TypeOK
  RateKept
PROPERTIES
  LimitedWhenFull
CHECK_DEADLOCK FALSE
