SPECIFICATION FairSpec
CONSTANTS
  Producers = {p1}
  HostTasks = {t1, t2, t3}
  DeviceOps = {d1}
  MayThrow = {t3}
  None = None
INVARIANTS RunsInItsTurn CompletedMeansRan DataOutlivesHostFunc DestroyedMeansDone
PROPERTIES EveryTaskRuns
CHECK_DEADLOCK FALSE
