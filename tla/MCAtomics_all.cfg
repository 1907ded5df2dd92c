SPECIFICATION FairSpec
CONSTANTS
  Threads = {t1, t2}
  Addresses = {68}
  Bits = 2
  Impls = {"StdLibLock", "AtomicRef", "Native", "OmpBuiltIn", "OaccExtended", "CudaHip", "Sycl"}
  Trusted = {"StdLibLock", "AtomicRef", "Native", "OmpBuiltIn", "OaccExtended", "CudaHip"}
  Careful = TRUE
  Arguments = {2}
  THashTableSize = 16
  Tickets = 4
PROPERTIES ImplementsAtomicOps EveryTicketIsServed
