\* Two callers, two services, three messages.
SPECIFICATION FairSpec
CONSTANTS
  c1 = c1
  c2 = c2
  Calls = {c1, c2}
  NumSvcs = 2
  Attempts = 2
  Threshold = 0
  PingLimit = 2
  MaxPushes = 3
  MaxFailures = 2
INVARIANTS
  TypeOK
  RecoveryUnderWay
  TakenAgainByOthers
PROPERTIES
  RecoversByPings
  AllComeBack
CHECK_DEADLOCK FALSE
