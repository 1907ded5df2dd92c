SPECIFICATION Spec
CONSTANTS
  Hosts = {h1, h2}
  Queues = {q1, q2, b1}
  Blocking = {b1}
  Events = {e1}
  Existing = {q1, q2}
  Transitive = FALSE
  MaxCommands = 3
  MaxOps = 5
  None = None
INVARIANT StartsAfterDependencies
PROPERTIES WaitsCover CallsReturn
CHECK_DEADLOCK FALSE
