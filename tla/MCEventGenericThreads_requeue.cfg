SPECIFICATION FairSpec
CONSTANTS
  NonBlocking = {q1, q2}
  Blocking = {}
  Events = {e1}
  Hosts = {h1}
  Tasks = {t1, t2}
  Devs = {d1}
  Ops = {"task", "event", "queueWait", "waitEvent"}
  Usage = "behind"
  DeviceUse = "any"
  Existing = {q1, q2}
  MaxOps = 5
  MaxEnqueue = 3
  None = None
INVARIANTS WaitMeansCompleted StartsInOrder
PROPERTIES QueuesDrain
