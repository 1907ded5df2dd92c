SPECIFICATION FairSpec
CONSTANTS
  Producers = {p1}
  HostTasks = {t1}
  DeviceOps = {}
  MayThrow = {}
  None = None
PROPERTIES DestructorReturns
CHECK_DEADLOCK FALSE
