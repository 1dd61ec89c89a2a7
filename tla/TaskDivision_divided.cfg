\* On etcd: two pods, a third that may join, and a crash and restart of any.
SPECIFICATION StartedSpec
CONSTANTS
  p1 = p1
  p2 = p2
  p3 = p3
  t1 = t1
  t2 = t2
  t3 = t3
  NoPod = NoPod
  Pods = {p1, p2, p3}
  Types = {t2, t3}
  Owner <- MCOwner
  Observed = {p1, p2}
  DeleteHasValue = FALSE
  MaxCrashes = 1
  MaxLeaseLosses = 0
  MaxCancels = 0
  MaxListErrors = 0
INVARIANTS
  TaskTypeOK
  
  AtMostOneProducer
\* One task; every pod comes to rest.
CHECK_DEADLOCK FALSE
