SPECIFICATION Spec
CONSTANTS
  Threads = {t1, t2}
  Addresses = {68}
  Bits = 2
  Impls = {"OmpBuiltIn"}
  Trusted = {"OmpBuiltIn"}
  Careful = FALSE
  Arguments = {2}
  THashTableSize = 16
  Tickets = 4
PROPERTY ImplementsAtomicOps
