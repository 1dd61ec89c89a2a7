\* Finding: a pod whose session ended consumes no more.
SPECIFICATION FairSpec
CONSTANTS
  p1 = p1
  p2 = p2
  k1 = k1
  k2 = k2
  NoOffset = NoOffset
  Pods = {p1}
  Partitions = {k1}
  BatchSize = 2
  MaxMessages = 3
  MaxCrashes = 0
  MaxExpulsions = 1
  MaxErrors = 0
PROPERTIES
  EveryMessagePushed
\* Messages and faults are bounded, and consumers that returned do not come back.
CHECK_DEADLOCK FALSE
