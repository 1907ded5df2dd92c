SPECIFICATION Spec
CONSTANTS
  Workers = {w1}
  Producers = {p1, p2}
  Cleaner = cleaner
  Tasks = {t1, t2, t3}
  MayThrow = {}
  NoTask = NoTask
  NoThread = NoThread
  Queue = Queue
  Self = Self
INVARIANT IdleWhenDeleted
SYMMETRY Symmetry
