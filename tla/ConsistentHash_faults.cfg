\* On etcd: one pod followed, one peer, and every kind of fault once.
SPECIFICATION Spec
CONSTANTS
  p1 = p1
  p2 = p2
  p3 = p3
  t1 = t1
  t2 = t2
  t3 = t3
  NoPod = NoPod
  Pods = {p1, p2}
  Types = {t1, t2}
  Owner <- MCOwner
  Observed = {p1}
  DeleteHasValue = FALSE
  MaxCrashes = 1
  MaxLeaseLosses = 1
  MaxCancels = 1
  MaxListErrors = 1
INVARIANTS
  TypeOK
  SelfInRing
  KnowsRegistered
  StaleOnlyByDropOrOverlap
\* Faults are bounded and every pod comes to rest.
CHECK_DEADLOCK FALSE
