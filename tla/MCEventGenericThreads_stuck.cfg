SPECIFICATION FairSpec
CONSTANTS
  NonBlocking = {q1, q2}
  Blocking = {}
  Events = {e1, e2}
  Hosts = {h1}
  Tasks = {t1}
  Devs = {d1}
  Ops = {"event", "queueWait"}
  Usage = "sameQueue"
  DeviceUse = "any"
  Existing = {q1, q2}
  MaxOps = 5
  MaxEnqueue = 2
  None = None
PROPERTIES QueuesDrain
CHECK_DEADLOCK FALSE
