SPECIFICATION FairSpec
CONSTANTS
  Producers = {p1, p2}
  HostTasks = {t1, t2}
  DeviceOps = {}
  MayThrow = {}
  None = None
PROPERTIES EveryTaskRuns
CHECK_DEADLOCK FALSE
