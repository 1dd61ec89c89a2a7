\* Two tasks at once, of the cron or of operators, a new share meanwhile, and a fault.
SPECIFICATION FairSpec
CONSTANTS
  t1 = t1
  t2 = t2
  NoConfig = NoConfig
  Types = {t1, t2}
  Table <- MCTable
  BatchSize = 2
  CronConfigs <- MCCron
  ManualConfigs <- MCManual
  MaxTasks = 2
  MaxRebalances = 1
  MaxFaults = 1
INVARIANTS
  TypeOK
  NoRowTwice
  CompleteWhenDone
  HopeIsSent
PROPERTIES
  TasksEnd
\* Inputs and faults are bounded: the pod comes to rest.
CHECK_DEADLOCK FALSE
