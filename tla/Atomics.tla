------------------------------- MODULE Atomics -------------------------------
(***************************************************************************)
(* How the back-ends make an operation atomic (atomic/*.hpp).  There are   *)
(* three ways, and an implementation may use several side by side:         *)
(*   capture  the compiler or the hardware does it in one step;            *)
(*   loop     load, compute, compare and exchange until nobody interfered; *)
(*   lock     compute under a mutex, a named critical region or a ticket   *)
(*            lock, where reading and writing are two steps.               *)
(* The implementation is chosen once, as the accelerator of a kernel is.   *)
(* SYCL's versions of Inc, Dec and Cas follow patterns of their own.       *)
(***************************************************************************)
EXTENDS Integers, FiniteSets

CONSTANTS Threads, Addresses, Bits,
          Impls,          \* the implementations to look at,
          Trusted,        \* those of them that atomicity is claimed of
          Careful,        \* does the kernel keep to what all implementations can do
          Arguments,      \* the operands it passes
          THashTableSize, \* of AtomicStdLibLock
          Tickets         \* 2^w for the width w of the ticket counters

\* OmpBuiltIn is what OpenMP 3.1 up to 5.0 make of it; Native stands for later
\* versions and for AtomicNoOp, which is used where nobody runs at the same time.
\* AtomicCpu.hpp always disables atomic_ref and takes AtomicStdLibLock<16>.
AllImpls == {"StdLibLock", "AtomicRef", "Native", "OmpBuiltIn", "OaccExtended", "CudaHip", "Sycl"}

ASSUME AtomicsAssumption ==
  /\ Impls \subseteq AllImpls /\ Trusted \subseteq Impls /\ Careful \in BOOLEAN
  /\ Arguments \subseteq 0..(2^Bits - 1) /\ THashTableSize \in Nat
  /\ IsFiniteSet(Threads) /\ Tickets \in Nat /\ Tickets > Cardinality(Threads)

VARIABLES mem,    \* the values at the addresses
          impl,   \* the implementation of this accelerator
          call,   \* what a thread called,
          pc,     \* where it is inside the operation
          old,    \* and its local variable
          mtx,    \* the mutexes and critical regions that are taken
          ticket, \* AtomicOaccExtended: the ticket a thread holds,
          mutex   \* the next ticket and the one that is served

vars == <<mem, impl, call, pc, old, mtx, ticket, mutex>>
locks == <<mtx, ticket, mutex>>

A == INSTANCE AtomicOps WITH
       at <- [t \in Threads |-> IF pc[t] = "idle" THEN "idle"
                                ELSE IF pc[t] \in {"unlock", "serve", "return"} THEN "done" ELSE "called"],
       ret <- [t \in Threads |-> IF pc[t] \in {"unlock", "serve", "return"} THEN old[t] ELSE 0]

-----------------------------------------------------------------------------
(* Seeded faults: wrong versions of definitions below, each of which makes *)
(* one of the properties fail.  No specification uses them.                *)

MutexOfOp(c) == <<c.op, 0>>      \* every operation has a mutex of its own

Barging(t) ==                    \* whoever sees the lock free takes it
  /\ pc[t] = "queue" /\ \A u \in Threads : pc[u] \notin {"read", "write", "serve"}
  /\ pc' = [pc EXCEPT ![t] = "read"]
  /\ UNCHANGED <<mem, impl, call, old, locks>>

-----------------------------------------------------------------------------
(* Which way an implementation takes                                       *)

Arithmetic == {"Add", "Sub", "Exch", "And", "Or", "Xor"}

\* CUDA and HIP have built-in functions for some types and emulate the others
\* with a loop around the built-in compare and swap.
Ways(o) ==
  CASE impl = "StdLibLock"   -> {"lock"}
    [] impl = "AtomicRef"    -> IF o \in Arithmetic \ {"Exch"} THEN {"capture"} ELSE {"loop"}
    [] impl = "OmpBuiltIn"   -> IF o \in Arithmetic THEN {"capture"} ELSE {"lock"}
    [] impl = "OaccExtended" -> IF o \in Arithmetic THEN {"capture"} ELSE {"ticket"}
    [] impl = "CudaHip"      -> IF o = "Cas" THEN {"capture"} ELSE {"capture", "loop"}
    [] impl = "Sycl"         -> IF o \in {"Inc", "Dec"} THEN {"casWithCondition"}
                                ELSE IF o = "Cas" THEN {"loadAndCas"} ELSE {"capture"}
    [] OTHER                 -> {"capture"}

SizeOfT == 4

nextPowerOf2(value) ==
  LET powers == {2^i : i \in 0..value}
  IN CHOOSE p \in powers : p >= value /\ \A q \in powers : q >= value => p <= q

\* Without the stride between neighbours.
hash(addr) == addr \div nextPowerOf2(SizeOfT)

\* The mutex of an operation, chosen by address, or the critical region it names.
getMutex(c) ==
  IF impl = "StdLibLock"
    THEN <<"m_mtxAtomic", hash(c.addr) % nextPowerOf2(IF THashTableSize = 0 THEN 1 ELSE THashTableSize)>>
    ELSE <<IF c.op = "Cas" THEN "AlpakaOmpAtomicOp2" ELSE "AlpakaOmpAtomicOp", 0>>

\* The function objects of Op.hpp, except that AtomicAtomicRef has a Dec of its own.
Result(c, v) ==
  IF impl = "AtomicRef" /\ c.op = "Dec"
    THEN IF v >= c.value THEN 0 ELSE (v - 1) % 2^Bits
    ELSE A!Apply(c.op, v, c.compare, c.value)

\* With OpenMP before 5.1 and OpenACC only operations of one group respect each
\* other: a lock does not keep the hardware out, nor one lock another.
Group(o) ==
  CASE impl \notin {"OmpBuiltIn", "OaccExtended"} -> "all"
    [] o \in Arithmetic                           -> "capture"
    [] o = "Cas" /\ impl = "OmpBuiltIn"           -> "Cas"
    [] OTHER                                      -> "other"

\* A careful kernel does not have operations of two groups on one address in
\* progress together, and does not use the Dec of AtomicAtomicRef.
Respects(c) ==
  /\ ~(impl = "AtomicRef" /\ c.op = "Dec")
  /\ \A u \in Threads : pc[u] # "idle" /\ call[u].addr = c.addr => Group(call[u].op) = Group(c.op)

-----------------------------------------------------------------------------
Init ==
  /\ mem \in [Addresses -> A!Values]
  /\ impl \in Impls
  /\ call = [t \in Threads |-> A!NoCall]
  /\ pc = [t \in Threads |-> "idle"]
  /\ old = [t \in Threads |-> 0]
  /\ mtx = {}
  /\ ticket = [t \in Threads |-> 0]
  /\ mutex = <<0, 0>>

Goto(t, label) == pc' = [pc EXCEPT ![t] = label]
Found(t, v) == old' = [old EXCEPT ![t] = v]
Store(a, v) == mem' = [mem EXCEPT ![a] = v]
At(t) == mem[call[t].addr]

AtomicOp(t, c, way) ==
  /\ pc[t] = "idle"
  /\ way \in Ways(c.op)
  /\ Careful => Respects(c)
  /\ call' = [call EXCEPT ![t] = c]
  /\ Goto(t, way)
  /\ UNCHANGED <<mem, impl, old, locks>>

\* fetch_add and its like, an atomic construct with capture, a built-in function.
Capture(t) ==
  /\ pc[t] = "capture"
  /\ Found(t, At(t))
  /\ Store(call[t].addr, Result(call[t], At(t)))
  /\ Goto(t, "return")
  /\ UNCHANGED <<impl, call, locks>>

\* T old = ref
Load(t) ==
  /\ pc[t] \in {"loop", "loadAndCas", "casWithCondition"}
  /\ Found(t, At(t))
  /\ Goto(t, CASE pc[t] = "loop" -> "exchange" [] pc[t] = "loadAndCas" -> "cas" [] OTHER -> "condition")
  /\ UNCHANGED <<mem, impl, call, locks>>

\* compare_exchange_weak and the emulation with atomicCAS: a failure leaves the
\* value found in old and the loop starts over.  (A spurious failure finds old.)
CompareExchange(t) ==
  /\ pc[t] = "exchange"
  /\ IF At(t) = old[t]
       THEN /\ Store(call[t].addr, Result(call[t], old[t]))
            /\ Goto(t, "return") /\ UNCHANGED old
       ELSE Found(t, At(t)) /\ UNCHANGED <<mem, pc>>
  /\ UNCHANGED <<impl, call, locks>>

\* SYCL: the exchange is a second access; the value returned is that of the first.
Cas(t) ==
  /\ pc[t] = "cas"
  /\ Store(call[t].addr, Result(call[t], At(t)))
  /\ Goto(t, "return")
  /\ UNCHANGED <<impl, call, old, locks>>

\* SYCL: compare_exchange_strong returns whether it succeeded, and that is
\* assigned to old_val; the loop ends when old_val equals the value found.
CasWithCondition(t) ==
  /\ pc[t] = "condition"
  /\ LET succeeds == At(t) = old[t]
         old_val == IF succeeds THEN 1 ELSE 0
     IN /\ Store(call[t].addr, IF succeeds THEN Result(call[t], old[t]) ELSE At(t))
        /\ Found(t, old_val)
        /\ IF At(t) = old_val THEN Goto(t, "return") ELSE UNCHANGED pc
  /\ UNCHANGED <<impl, call, locks>>

\* std::lock_guard, omp critical
Lock(t) ==
  /\ pc[t] = "lock" /\ getMutex(call[t]) \notin mtx
  /\ mtx' = mtx \cup {getMutex(call[t])}
  /\ Goto(t, "read")
  /\ UNCHANGED <<mem, impl, call, old, ticket, mutex>>

TakeTicket(t) ==
  /\ pc[t] = "ticket"
  /\ ticket' = [ticket EXCEPT ![t] = mutex[1]]
  /\ mutex' = <<(mutex[1] + 1) % Tickets, mutex[2]>>
  /\ Goto(t, "queue")
  /\ UNCHANGED <<mem, impl, call, old, mtx>>

\* while(queue != ticket)
Served(t) ==
  /\ pc[t] = "queue" /\ mutex[2] = ticket[t]
  /\ Goto(t, "read")
  /\ UNCHANGED <<mem, impl, call, old, locks>>

Read(t) ==
  /\ pc[t] = "read"
  /\ Found(t, At(t))
  /\ Goto(t, "write")
  /\ UNCHANGED <<mem, impl, call, locks>>

Write(t) ==
  /\ pc[t] = "write"
  /\ Store(call[t].addr, Result(call[t], old[t]))
  /\ Goto(t, IF impl = "OaccExtended" THEN "serve" ELSE "unlock")
  /\ UNCHANGED <<impl, call, old, locks>>

Unlock(t) ==
  /\ pc[t] = "unlock"
  /\ mtx' = mtx \ {getMutex(call[t])}
  /\ Goto(t, "return")
  /\ UNCHANGED <<mem, impl, call, old, ticket, mutex>>

Serve(t) ==
  /\ pc[t] = "serve"
  /\ mutex' = <<mutex[1], (mutex[2] + 1) % Tickets>>
  /\ ticket' = [ticket EXCEPT ![t] = 0]
  /\ Goto(t, "return")
  /\ UNCHANGED <<mem, impl, call, old, mtx>>

Return(t) ==
  /\ pc[t] = "return"
  /\ call' = [call EXCEPT ![t] = A!NoCall]
  /\ Found(t, 0)
  /\ Goto(t, "idle")
  /\ UNCHANGED <<mem, impl, locks>>

Step(t) == \/ Capture(t) \/ Load(t) \/ CompareExchange(t) \/ Cas(t) \/ CasWithCondition(t)
           \/ Lock(t) \/ TakeTicket(t) \/ Served(t) \/ Read(t) \/ Write(t)
           \/ Unlock(t) \/ Serve(t) \/ Return(t)

\* What a kernel may call: only Cas has a value to compare with.
KernelCalls == {c \in [op : A!Ops, addr : Addresses, compare : A!Values, value : Arguments] :
                  c.op = "Cas" \/ c.compare = 0}

Next == \E t \in Threads :
          \/ \E c \in KernelCalls : \E way \in Ways(c.op) : AtomicOp(t, c, way)
          \/ Step(t)

Spec == Init /\ [][Next]_vars
FairSpec == Spec /\ \A t \in Threads : WF_vars(Step(t))

-----------------------------------------------------------------------------
(* Properties                                                              *)

Labels == {"idle", "capture", "loop", "exchange", "loadAndCas", "cas", "casWithCondition",
           "condition", "lock", "ticket", "queue", "read", "write", "unlock", "serve", "return"}

\* Values stay within the width of T, tickets within theirs.
TypeOK ==
  /\ mem \in [Addresses -> A!Values]
  /\ impl \in Impls
  /\ call \in [Threads -> A!Calls]
  /\ pc \in [Threads -> Labels]
  /\ old \in [Threads -> A!Values]
  /\ mtx \subseteq {getMutex(call[t]) : t \in Threads}
  /\ ticket \in [Threads -> 0..(Tickets - 1)]
  /\ mutex \in (0..(Tickets - 1)) \X (0..(Tickets - 1))

\* atomicOp of a trusted implementation takes effect in one step, on the value
\* it returns, although it reads and writes in several: whatever the others do
\* between two of its accesses, no update is lost and no value returned that
\* the update was not computed from.
ImplementsAtomicOps == A!Init /\ [][(impl \in Trusted) => [A!Next]_(A!vars)]_vars

\* criticalOp of AtomicOaccExtended serves every thread in the order of its
\* ticket, across the wrap around of the counters: it always gets its turn.
EveryTicketIsServed == \A t \in Threads : pc[t] = "queue" ~> pc[t] = "return"
=============================================================================
