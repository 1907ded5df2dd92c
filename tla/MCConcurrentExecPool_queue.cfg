SPECIFICATION FairSpec
CONSTANTS
  Workers = {w1}
  Producers = {p1, p2}
  Cleaner = cleaner
  Tasks = {t1, t2, t3}
  MayThrow = {t1}
  NoTask = NoTask
  NoThread = NoThread
  Queue = Queue
  Self = Self
INVARIANTS TypeOK IdleMeansNothingLeft FinishedMeansIdle BrokenOnlyAtExit NothingRunsPastExit AliveWhileUsed
PROPERTIES EveryTaskFinishes ReleasedPoolDies ImplementsTaskPool
