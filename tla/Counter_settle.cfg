\* Two pods: what is counted, a reset, a crash and restart, a failed upload
\* or a cancelled watch.
SPECIFICATION FairSpec
CONSTANTS
  p1 = p1
  p2 = p2
  NoPod = NoPod
  Pods = {p1, p2}
  Deltas = {1}
  MaxCounts = 1
  MaxResets = 1
  MaxCrashes = 1
  MaxEtcdErrors = 1
INVARIANTS
  TypeOK
  ClearedByResets
PROPERTIES
  CountsSettle
  ResetClears
