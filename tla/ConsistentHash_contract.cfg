\* Two pods, both followed, whose registry reports departures; one crash and restart.
SPECIFICATION FairSpec
CONSTANTS
  p1 = p1
  p2 = p2
  p3 = p3
  t1 = t1
  t2 = t2
  t3 = t3
  NoPod = NoPod
  Pods = {p1, p2}
  Types = {t1, t2}
  Owner <- MCOwner
  Observed = {p1, p2}
  DeleteHasValue = TRUE
  MaxCrashes = 1
  MaxLeaseLosses = 0
  MaxCancels = 0
  MaxListErrors = 0
INVARIANTS
  ForgetsDeparted
  OneProducerPerType
PROPERTIES
  Converges
\* Faults are bounded and every pod comes to rest.
CHECK_DEADLOCK FALSE
