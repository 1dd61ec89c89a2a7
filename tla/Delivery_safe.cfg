\* Two pods and one partition, a crash, an expulsion and an error.
SPECIFICATION FairSpec
CONSTANTS
  p1 = p1
  p2 = p2
  k1 = k1
  k2 = k2
  NoOffset = NoOffset
  Pods = {p1, p2}
  Partitions = {k1}
  BatchSize = 2
  MaxMessages = 3
  MaxCrashes = 1
  MaxExpulsions = 1
  MaxErrors = 1
INVARIANTS
  TypeOK
  CommittedArePushed
  PushedAgainOnlyByFault
PROPERTIES
  PromiseKept
  ServedToTheEnd
\* Messages and faults are bounded, and consumers that returned do not come back.
CHECK_DEADLOCK FALSE
