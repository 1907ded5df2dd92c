SPECIFICATION Spec
CONSTANTS
  NonBlocking = {q1, q2}
  Blocking = {}
  Events = {e1}
  Hosts = {h1, h2}
  Tasks = {t1}
  Devs = {d1}
  Ops = {"task", "event", "queueWait", "waitEvent"}
  Usage = "any"
  DeviceUse = "any"
  Existing = {q1, q2}
  MaxOps = 3
  MaxEnqueue = 2
  None = None
INVARIANTS WaitMeansCompleted
CHECK_DEADLOCK FALSE
SYMMETRY Symmetry
