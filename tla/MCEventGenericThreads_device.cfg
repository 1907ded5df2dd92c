SPECIFICATION Spec
CONSTANTS
  NonBlocking = {q1}
  Blocking = {b1}
  Events = {e1}
  Hosts = {h1, h2}
  Tasks = {t1}
  Devs = {d1, d2}
  Ops = {"create", "destroy", "task", "waitDev"}
  Usage = "complete"
  DeviceUse = "any"
  Existing = {q1}
  MaxOps = 2
  MaxEnqueue = 2
  None = None
INVARIANTS WaitCoversQueues
