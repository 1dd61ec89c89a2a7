\* Two pods. Six seconds, five seconds and 300 ms are scaled down, so that the
\* attempts of a tick go on after the key has expired, as they do there.
SPECIFICATION FairSpec
CONSTANTS
  p1 = p1
  p2 = p2
  NoPod = NoPod
  Pods = {p1, p2}
  Expiration = 7
  RefreshInterval = 4
  Timeout = 1
  RetryLimit = 1
  MaxDelay = 1
INVARIANTS
  TypeOK
  BoundedOverlap
  NeverBlocked
PROPERTIES
  OneLeads
