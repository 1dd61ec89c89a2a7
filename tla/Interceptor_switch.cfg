\* Two pods and two businesses.
SPECIFICATION FairSpec
CONSTANTS
  p1 = p1
  p2 = p2
  b1 = b1
  b2 = b2
  Pods = {p1, p2}
  Biz = {b1, b2}
  MaxRequests = 3
  MaxFaults = 1
INVARIANTS
  TypeOK
  LastPutWins
  OnUnlessPut
PROPERTIES
  PodsAgree
CHECK_DEADLOCK FALSE
