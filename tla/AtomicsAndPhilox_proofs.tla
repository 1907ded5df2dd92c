----------------------- MODULE AtomicsAndPhilox_proofs -----------------------
(***************************************************************************)
(* Proofs about two things that an accelerator offers to kernels: atomic   *)
(* operations and random numbers.                                          *)
(*                                                                         *)
(* Atomics implements AtomicOps, for any number of threads, addresses and  *)
(* bits, any size of the table of mutexes and any width of the tickets     *)
(* that has one more than there are threads.  An operation that writes in  *)
(* a step of its own (ReadInv) finds the value it has read, because        *)
(* whoever else may write to that address is kept out: by the mutex of the *)
(* address or the critical region of the group (LockInv), by the ticket    *)
(* that is being served (TicketInv), or by the care of the kernel          *)
(* (RespectInv).                                                           *)
(*                                                                         *)
(* The engines of Philox are treated with limbs of any size, 32 bits       *)
(* included, and any number of draws.  A counter is a number of four       *)
(* digits to the base Base, and advanceCounter adds one to it              *)
(* (CarriesAddOne).  Hence every number that an engine gives out, and the  *)
(* one that it will give out next, has the place that follows from where   *)
(* the engine began (PhiloxInv).  Two subsequences begin in places that    *)
(* differ by a multiple of the length of a subsequence, though the carries *)
(* of skip4 are computed from the wrong limbs (SkipKeepsApart).            *)
(***************************************************************************)
EXTENDS Atomics, Philox, FiniteSetTheorems, SequenceTheorems, TLAPS

-----------------------------------------------------------------------------
(* Atomic operations: the invariant                                        *)

\* The implementations that need no care, and the others with it.
Sound == Careful \/ impl \notin {"AtomicRef", "OmpBuiltIn", "OaccExtended"}

\* Operations of one group.
Alike(o, q) ==
  /\ impl \in {"OmpBuiltIn", "OaccExtended"} => (o \in Arithmetic <=> q \in Arithmetic)
  /\ impl = "OmpBuiltIn" => (o = "Cas" <=> q = "Cas")

\* Labels inside a lock, and the threads that hold a ticket.
Locked == {"read", "write", "unlock", "serve"}
Queued == {t \in Threads : impl = "OaccExtended" /\ pc[t] \in {"queue", "read", "write", "serve"}}

\* The types, as far as they do not depend on what the operations compute.
Shape ==
  /\ mem = [a \in Addresses |-> mem[a]]
  /\ impl \in Impls
  /\ pc \in [Threads -> Labels]
  /\ call = [t \in Threads |-> call[t]]
  /\ old = [t \in Threads |-> old[t]]
  /\ \A t \in Threads : pc[t] # "idle" => call[t] \in KernelCalls
  /\ ticket \in [Threads -> 0..(Tickets - 1)]
  /\ mutex \in (0..(Tickets - 1)) \X (0..(Tickets - 1))

\* A thread is on a way that its implementation takes.
OnItsWay(t) ==
  /\ pc[t] = "capture" =>
       /\ impl # "StdLibLock"
       /\ impl \in {"OmpBuiltIn", "OaccExtended"} => call[t].op \in Arithmetic
  /\ pc[t] \in {"loop", "exchange"} => impl \in {"AtomicRef", "CudaHip"}
  /\ pc[t] \in {"loadAndCas", "cas", "casWithCondition", "condition"} => impl = "Sycl"
  /\ pc[t] \in {"lock", "unlock"} => impl \in {"StdLibLock", "OmpBuiltIn"}
  /\ pc[t] \in {"ticket", "queue", "serve"} => impl = "OaccExtended"
  /\ pc[t] \in {"read", "write"} => impl \in {"StdLibLock", "OmpBuiltIn", "OaccExtended"}
  /\ /\ pc[t] \in {"lock", "ticket", "queue"} \cup Locked
     /\ impl \in {"OmpBuiltIn", "OaccExtended"}
     => call[t].op \notin Arithmetic
WayInv == \A t \in Threads : OnItsWay(t)

\* What a careful kernel keeps to.
RespectInv ==
  Careful =>
    \A t \in Threads : pc[t] # "idle" =>
      /\ ~(impl = "AtomicRef" /\ call[t].op = "Dec")
      /\ \A u \in Threads : pc[u] # "idle" /\ call[t].addr = call[u].addr =>
           Alike(call[t].op, call[u].op)

\* The mutex of an operation is taken while it reads and writes, by nobody else.
LockInv ==
  impl # "OaccExtended" =>
    \A t \in Threads : pc[t] \in Locked =>
      /\ getMutex(call[t]) \in mtx
      /\ \A u \in Threads : pc[u] \in Locked /\ getMutex(call[u]) = getMutex(call[t]) => u = t

\* The tickets that are out are the ones from the served to the next, around the
\* end of the counters, each held by one thread; the served one may go on.
NextTicket ==
  mutex[1] = IF mutex[2] + Cardinality(Queued) < Tickets
               THEN mutex[2] + Cardinality(Queued)
               ELSE mutex[2] + Cardinality(Queued) - Tickets
InWindow(x, first, number) ==
  \/ first <= x /\ x < first + number
  \/ first <= x + Tickets /\ x + Tickets < first + number
TicketInv ==
  /\ NextTicket
  /\ \A t \in Queued :
       /\ InWindow(ticket[t], mutex[2], Cardinality(Queued))
       /\ \A u \in Queued : ticket[u] = ticket[t] => u = t
       /\ pc[t] # "queue" => ticket[t] = mutex[2]

\* Between reading and writing the value stays.
ReadInv == Sound => \A t \in Threads : pc[t] = "write" => old[t] = At(t)

IInv == Shape /\ WayInv /\ RespectInv /\ LockInv /\ TicketInv /\ ReadInv

-----------------------------------------------------------------------------
(* Constants and operators                                                 *)

\* The calls of a kernel are calls of the abstract specification.
LEMMA CallsAreCalls ==
  \A c \in KernelCalls : c \in A!Calls /\ c.addr \in Addresses
BY AtomicsAssumption DEF KernelCalls, A!Calls, A!Values

\* Operations of one group are alike.
LEMMA GroupsAreAlike ==
  ASSUME NEW o, NEW q, Group(o) = Group(q)
  PROVE  Alike(o, q)
<1>1. CASE impl \notin {"OmpBuiltIn", "OaccExtended"}
  BY <1>1 DEF Alike
<1>2. CASE impl = "OaccExtended"
  BY <1>2 DEF Alike, Group, Arithmetic
<1>3. CASE impl = "OmpBuiltIn"
  BY <1>3 DEF Alike, Group, Arithmetic
<1>4. QED
  BY <1>1, <1>2, <1>3

\* Fewer threads hold a ticket than there are tickets.
LEMMA QueuedFacts ==
  /\ Tickets \in Nat /\ IsFiniteSet(Queued) /\ Cardinality(Queued) \in Nat
  /\ Cardinality(Queued) < Tickets
<1>1. /\ IsFiniteSet(Threads) /\ Queued \subseteq Threads /\ Tickets \in Nat
      /\ Tickets > Cardinality(Threads)
  BY AtomicsAssumption DEF Queued
<1>2. /\ IsFiniteSet(Queued) /\ Cardinality(Queued) <= Cardinality(Threads)
      /\ Cardinality(Queued) \in Nat /\ Cardinality(Threads) \in Nat
  BY <1>1, FS_Subset, FS_CardinalityType
<1>3. QED
  BY <1>1, <1>2

-----------------------------------------------------------------------------
(* The steps                                                               *)

\* The types are kept.
LEMMA ShapeStep ==
  ASSUME IInv, [Next]_vars
  PROVE  Shape'
<1> USE AtomicsAssumption, QueuedFacts DEF IInv, Shape, Labels, locks
<1>1. ASSUME NEW t \in Threads, NEW c \in KernelCalls, NEW way \in Ways(c.op), AtomicOp(t, c, way) PROVE Shape'
  <2>1. way \in Labels
    BY DEF Ways
  <2>2. QED
    BY <1>1, <2>1 DEF AtomicOp, Goto
<1>2. ASSUME NEW t \in Threads, Capture(t) PROVE Shape'
  BY <1>2 DEF Capture, Goto, Found, Store, At
<1>3. ASSUME NEW t \in Threads, Load(t) PROVE Shape'
  BY <1>3 DEF Load, Goto, Found, Store, At
<1>4. ASSUME NEW t \in Threads, CompareExchange(t) PROVE Shape'
  BY <1>4 DEF CompareExchange, Goto, Found, Store, At
<1>5. ASSUME NEW t \in Threads, Cas(t) PROVE Shape'
  BY <1>5 DEF Cas, Goto, Found, Store, At
<1>6. ASSUME NEW t \in Threads, CasWithCondition(t) PROVE Shape'
  BY <1>6 DEF CasWithCondition, Goto, Found, Store, At
<1>7. ASSUME NEW t \in Threads, Lock(t) PROVE Shape'
  BY <1>7 DEF Lock, Goto, Found, Store, At
<1>8. ASSUME NEW t \in Threads, TakeTicket(t) PROVE Shape'
  <2>1. mutex' \in (0..(Tickets - 1)) \X (0..(Tickets - 1)) /\ mutex[1] \in 0..(Tickets - 1)
    BY <1>8 DEF TakeTicket
  <2>2. ticket' \in [Threads -> 0..(Tickets - 1)]
    BY <1>8, <2>1 DEF TakeTicket
  <2>3. QED
    BY <1>8, <2>1, <2>2 DEF TakeTicket, Goto
<1>9. ASSUME NEW t \in Threads, Served(t) PROVE Shape'
  BY <1>9 DEF Served, Goto, Found, Store, At
<1>10. ASSUME NEW t \in Threads, Read(t) PROVE Shape'
  BY <1>10 DEF Read, Goto, Found, Store, At
<1>11. ASSUME NEW t \in Threads, Write(t) PROVE Shape'
  BY <1>11 DEF Write, Goto, Found, Store, At
<1>12. ASSUME NEW t \in Threads, Unlock(t) PROVE Shape'
  BY <1>12 DEF Unlock, Goto, Found, Store, At
<1>13. ASSUME NEW t \in Threads, Serve(t) PROVE Shape'
  <2>1. mutex' \in (0..(Tickets - 1)) \X (0..(Tickets - 1)) /\ 0 \in 0..(Tickets - 1)
    BY <1>13 DEF Serve
  <2>2. ticket' \in [Threads -> 0..(Tickets - 1)]
    BY <1>13, <2>1 DEF Serve
  <2>3. QED
    BY <1>13, <2>1, <2>2 DEF Serve, Goto
<1>14. ASSUME NEW t \in Threads, Return(t) PROVE Shape'
  BY <1>14 DEF Return, Goto, Found, Store, At
<1>15. ASSUME UNCHANGED vars PROVE Shape'
  BY <1>15 DEF vars
<1>16. QED
  BY <1>1, <1>2, <1>3, <1>4, <1>5, <1>6, <1>7, <1>8, <1>9, <1>10, <1>11, <1>12, <1>13,
     <1>14, <1>15
     DEF Next, Step

\* A thread stays on its way.
LEMMA WayStep ==
  ASSUME IInv, [Next]_vars
  PROVE  WayInv'
<1> USE DEF IInv, Shape, WayInv, OnItsWay, Labels, Locked, locks
<1>1. ASSUME NEW t \in Threads, NEW c \in KernelCalls, NEW way \in Ways(c.op), AtomicOp(t, c, way) PROVE WayInv'
  <2>1. /\ way = "capture" => impl # "StdLibLock"
        /\ way = "capture" /\ impl \in {"OmpBuiltIn", "OaccExtended"} => c.op \in Arithmetic
        /\ way = "loop" => impl \in {"AtomicRef", "CudaHip"}
        /\ way \in {"loadAndCas", "casWithCondition"} => impl = "Sycl"
        /\ way = "lock" => impl \in {"StdLibLock", "OmpBuiltIn"}
        /\ way = "ticket" => impl = "OaccExtended"
        /\ way \in {"lock", "ticket"} /\ impl \in {"OmpBuiltIn", "OaccExtended"} => c.op \notin Arithmetic
        /\ way \in {"capture", "loop", "loadAndCas", "casWithCondition", "lock", "ticket"}
    BY DEF Ways
  <2>2. /\ call' = [call EXCEPT ![t] = c] /\ pc' = [pc EXCEPT ![t] = way] /\ UNCHANGED impl
    BY <1>1 DEF AtomicOp, Goto
  <2>3. /\ \A u \in Threads \ {t} : pc'[u] = pc[u] /\ call'[u] = call[u]
        /\ pc'[t] = way /\ call'[t] = c /\ impl' = impl
    BY <2>2
  <2>4. ASSUME NEW u \in Threads \ {t} PROVE OnItsWay(u)'
    BY <2>3
  <2>5. OnItsWay(t)'
    <3>1. CASE way = "capture"
      BY <2>1, <2>3, <3>1
    <3>2. CASE way \in {"loop", "loadAndCas", "casWithCondition"}
      BY <2>1, <2>3, <3>2
    <3>3. CASE way \in {"lock", "ticket"}
      BY <2>1, <2>3, <3>3
    <3>4. QED
      BY <2>1, <3>1, <3>2, <3>3
  <2>6. QED
    BY <2>4, <2>5
<1>2. ASSUME NEW t \in Threads, Capture(t) PROVE WayInv'
  BY <1>2 DEF Capture, Goto, Found, Store, At
<1>3. ASSUME NEW t \in Threads, Load(t) PROVE WayInv'
  BY <1>3 DEF Load, Goto, Found, Store, At
<1>4. ASSUME NEW t \in Threads, CompareExchange(t) PROVE WayInv'
  BY <1>4 DEF CompareExchange, Goto, Found, Store, At
<1>5. ASSUME NEW t \in Threads, Cas(t) PROVE WayInv'
  BY <1>5 DEF Cas, Goto, Found, Store, At
<1>6. ASSUME NEW t \in Threads, CasWithCondition(t) PROVE WayInv'
  BY <1>6 DEF CasWithCondition, Goto, Found, Store, At
<1>7. ASSUME NEW t \in Threads, Lock(t) PROVE WayInv'
  BY <1>7 DEF Lock, Goto, Found, Store, At
<1>8. ASSUME NEW t \in Threads, TakeTicket(t) PROVE WayInv'
  BY <1>8 DEF TakeTicket, Goto, Found, Store, At
<1>9. ASSUME NEW t \in Threads, Served(t) PROVE WayInv'
  BY <1>9 DEF Served, Goto, Found, Store, At
<1>10. ASSUME NEW t \in Threads, Read(t) PROVE WayInv'
  BY <1>10 DEF Read, Goto, Found, Store, At
<1>11. ASSUME NEW t \in Threads, Write(t) PROVE WayInv'
  BY <1>11 DEF Write, Goto, Found, Store, At
<1>12. ASSUME NEW t \in Threads, Unlock(t) PROVE WayInv'
  BY <1>12 DEF Unlock, Goto, Found, Store, At
<1>13. ASSUME NEW t \in Threads, Serve(t) PROVE WayInv'
  BY <1>13 DEF Serve, Goto, Found, Store, At
<1>14. ASSUME NEW t \in Threads, Return(t) PROVE WayInv'
  BY <1>14 DEF Return, Goto, Found, Store, At
<1>15. ASSUME UNCHANGED vars PROVE WayInv'
  BY <1>15 DEF vars
<1>16. QED
  BY <1>1, <1>2, <1>3, <1>4, <1>5, <1>6, <1>7, <1>8, <1>9, <1>10, <1>11, <1>12, <1>13,
     <1>14, <1>15
     DEF Next, Step

\* Care is kept.
LEMMA RespectStep ==
  ASSUME IInv, [Next]_vars
  PROVE  RespectInv'
<1> USE DEF IInv, Shape, RespectInv, Labels, locks
<1>1. ASSUME NEW t \in Threads, NEW c \in KernelCalls, NEW way \in Ways(c.op), AtomicOp(t, c, way) PROVE RespectInv'
  <2>1. /\ call' = [call EXCEPT ![t] = c] /\ pc' = [pc EXCEPT ![t] = way] /\ UNCHANGED <<impl, mtx>>
        /\ pc[t] = "idle" /\ way \in {"capture", "loop", "loadAndCas", "casWithCondition", "lock", "ticket"}
    BY <1>1 DEF AtomicOp, Goto, Ways
  <2>2. /\ \A u \in Threads \ {t} : pc'[u] = pc[u] /\ call'[u] = call[u]
        /\ pc'[t] = way /\ call'[t] = c /\ impl' = impl
    BY <2>1
  <2>3. ASSUME Careful, NEW u \in Threads \ {t}, pc[u] # "idle", call[u].addr = c.addr
        PROVE  Alike(c.op, call[u].op) /\ Alike(call[u].op, c.op)
    <3>1. Group(call[u].op) = Group(c.op)
      BY <1>1, <2>3 DEF AtomicOp, Respects
    <3>2. QED
      BY <3>1, GroupsAreAlike
  <2>4. Careful => ~(impl = "AtomicRef" /\ c.op = "Dec")
    BY <1>1 DEF AtomicOp, Respects
  <2>5. QED
    BY <2>1, <2>2, <2>3, <2>4 DEF Alike
<1>2. ASSUME NEW t \in Threads, Capture(t) PROVE RespectInv'
  BY <1>2 DEF Capture, Alike, Goto, Found, Store, At
<1>3. ASSUME NEW t \in Threads, Load(t) PROVE RespectInv'
  BY <1>3 DEF Load, Alike, Goto, Found, Store, At
<1>4. ASSUME NEW t \in Threads, CompareExchange(t) PROVE RespectInv'
  BY <1>4 DEF CompareExchange, Alike, Goto, Found, Store, At
<1>5. ASSUME NEW t \in Threads, Cas(t) PROVE RespectInv'
  BY <1>5 DEF Cas, Alike, Goto, Found, Store, At
<1>6. ASSUME NEW t \in Threads, CasWithCondition(t) PROVE RespectInv'
  BY <1>6 DEF CasWithCondition, Alike, Goto, Found, Store, At
<1>7. ASSUME NEW t \in Threads, Lock(t) PROVE RespectInv'
  BY <1>7 DEF Lock, Alike, Goto, Found, Store, At
<1>8. ASSUME NEW t \in Threads, TakeTicket(t) PROVE RespectInv'
  BY <1>8 DEF TakeTicket, Alike, Goto, Found, Store, At
<1>9. ASSUME NEW t \in Threads, Served(t) PROVE RespectInv'
  BY <1>9 DEF Served, Alike, Goto, Found, Store, At
<1>10. ASSUME NEW t \in Threads, Read(t) PROVE RespectInv'
  BY <1>10 DEF Read, Alike, Goto, Found, Store, At
<1>11. ASSUME NEW t \in Threads, Write(t) PROVE RespectInv'
  BY <1>11 DEF Write, Alike, Goto, Found, Store, At
<1>12. ASSUME NEW t \in Threads, Unlock(t) PROVE RespectInv'
  BY <1>12 DEF Unlock, Alike, Goto, Found, Store, At
<1>13. ASSUME NEW t \in Threads, Serve(t) PROVE RespectInv'
  BY <1>13 DEF Serve, Alike, Goto, Found, Store, At
<1>14. ASSUME NEW t \in Threads, Return(t) PROVE RespectInv'
  BY <1>14 DEF Return, Alike, Goto, Found, Store, At
<1>15. ASSUME UNCHANGED vars PROVE RespectInv'
  BY <1>15 DEF vars, Alike
<1>16. QED
  BY <1>1, <1>2, <1>3, <1>4, <1>5, <1>6, <1>7, <1>8, <1>9, <1>10, <1>11, <1>12, <1>13,
     <1>14, <1>15
     DEF Next, Step

\* A step that leaves the lock labels, the calls there and the mutexes alone.
LEMMA LockFrame ==
  ASSUME LockInv, UNCHANGED <<impl, mtx>>,
         \A u \in Threads : pc'[u] \in Locked => pc[u] \in Locked /\ call'[u] = call[u]
  PROVE  LockInv'
BY DEF LockInv, getMutex

\* The mutex of an operation stays its own.
LEMMA LockStep ==
  ASSUME IInv, [Next]_vars
  PROVE  LockInv'
<1> USE DEF IInv, Shape, WayInv, OnItsWay, Locked, locks
<1>1. ASSUME NEW t \in Threads, NEW c \in KernelCalls, NEW way \in Ways(c.op), AtomicOp(t, c, way) PROVE LockInv'
  <2>1. /\ UNCHANGED <<impl, mtx>>
        /\ \A u \in Threads : pc'[u] \in Locked => pc[u] \in Locked /\ call'[u] = call[u]
    BY <1>1 DEF AtomicOp, Goto, Ways
  <2>2. QED
    BY <2>1, LockFrame
<1>2. ASSUME NEW t \in Threads, Capture(t) PROVE LockInv'
  <2>1. /\ UNCHANGED <<impl, mtx>>
        /\ \A u \in Threads : pc'[u] \in Locked => pc[u] \in Locked /\ call'[u] = call[u]
    BY <1>2 DEF Capture, Goto
  <2>2. QED
    BY <2>1, LockFrame
<1>3. ASSUME NEW t \in Threads, Load(t) PROVE LockInv'
  <2>1. /\ UNCHANGED <<impl, mtx>>
        /\ \A u \in Threads : pc'[u] \in Locked => pc[u] \in Locked /\ call'[u] = call[u]
    BY <1>3 DEF Load, Goto
  <2>2. QED
    BY <2>1, LockFrame
<1>4. ASSUME NEW t \in Threads, CompareExchange(t) PROVE LockInv'
  <2>1. /\ UNCHANGED <<impl, mtx>>
        /\ \A u \in Threads : pc'[u] \in Locked => pc[u] \in Locked /\ call'[u] = call[u]
    BY <1>4 DEF CompareExchange, Goto
  <2>2. QED
    BY <2>1, LockFrame
<1>5. ASSUME NEW t \in Threads, Cas(t) PROVE LockInv'
  <2>1. /\ UNCHANGED <<impl, mtx>>
        /\ \A u \in Threads : pc'[u] \in Locked => pc[u] \in Locked /\ call'[u] = call[u]
    BY <1>5 DEF Cas, Goto
  <2>2. QED
    BY <2>1, LockFrame
<1>6. ASSUME NEW t \in Threads, CasWithCondition(t) PROVE LockInv'
  <2>1. /\ UNCHANGED <<impl, mtx>>
        /\ \A u \in Threads : pc'[u] \in Locked => pc[u] \in Locked /\ call'[u] = call[u]
    BY <1>6 DEF CasWithCondition, Goto
  <2>2. QED
    BY <2>1, LockFrame
<1>7. ASSUME NEW t \in Threads, Lock(t) PROVE LockInv'
  <2>1. /\ mtx' = mtx \cup {getMutex(call[t])} /\ getMutex(call[t]) \notin mtx /\ UNCHANGED <<impl, call>>
        /\ \A u \in Threads : pc'[u] \in Locked => u = t \/ pc[u] \in Locked
    BY <1>7 DEF Lock, Goto
  <2>2. \A u \in Threads : getMutex(call[u])' = getMutex(call[u])
    BY <2>1 DEF getMutex
  <2>3. QED
    BY <2>1, <2>2 DEF LockInv
<1>8. ASSUME NEW t \in Threads, TakeTicket(t) PROVE LockInv'
  <2>1. /\ UNCHANGED <<impl, mtx>>
        /\ \A u \in Threads : pc'[u] \in Locked => pc[u] \in Locked /\ call'[u] = call[u]
    BY <1>8 DEF TakeTicket, Goto
  <2>2. QED
    BY <2>1, LockFrame
<1>9. ASSUME NEW t \in Threads, Served(t) PROVE LockInv'
  <2>1. impl' = "OaccExtended"
    BY <1>9 DEF Served
  <2>2. QED
    BY <2>1 DEF LockInv
<1>10. ASSUME NEW t \in Threads, Read(t) PROVE LockInv'
  <2>1. /\ UNCHANGED <<impl, mtx>>
        /\ \A u \in Threads : pc'[u] \in Locked => pc[u] \in Locked /\ call'[u] = call[u]
    BY <1>10 DEF Read, Goto
  <2>2. QED
    BY <2>1, LockFrame
<1>11. ASSUME NEW t \in Threads, Write(t) PROVE LockInv'
  <2>1. /\ UNCHANGED <<impl, mtx>>
        /\ \A u \in Threads : pc'[u] \in Locked => pc[u] \in Locked /\ call'[u] = call[u]
    BY <1>11 DEF Write, Goto
  <2>2. QED
    BY <2>1, LockFrame
<1>12. ASSUME NEW t \in Threads, Unlock(t) PROVE LockInv'
  <2>1. /\ mtx' = mtx \ {getMutex(call[t])} /\ UNCHANGED <<impl, call>>
        /\ \A u \in Threads : pc'[u] \in Locked => u # t /\ pc[u] \in Locked
        /\ pc[t] \in Locked
    BY <1>12 DEF Unlock, Goto
  <2>2. \A u \in Threads : getMutex(call[u])' = getMutex(call[u])
    BY <2>1 DEF getMutex
  <2>3. QED
    BY <2>1, <2>2 DEF LockInv
<1>13. ASSUME NEW t \in Threads, Serve(t) PROVE LockInv'
  <2>1. /\ UNCHANGED <<impl, mtx>>
        /\ \A u \in Threads : pc'[u] \in Locked => pc[u] \in Locked /\ call'[u] = call[u]
    BY <1>13 DEF Serve, Goto
  <2>2. QED
    BY <2>1, LockFrame
<1>14. ASSUME NEW t \in Threads, Return(t) PROVE LockInv'
  <2>1. /\ UNCHANGED <<impl, mtx>>
        /\ \A u \in Threads : pc'[u] \in Locked => pc[u] \in Locked /\ call'[u] = call[u]
    BY <1>14 DEF Return, Goto
  <2>2. QED
    BY <2>1, LockFrame
<1>15. ASSUME UNCHANGED vars PROVE LockInv'
  <2>1. /\ UNCHANGED <<impl, mtx>>
        /\ \A u \in Threads : pc'[u] \in Locked => pc[u] \in Locked /\ call'[u] = call[u]
    BY <1>15 DEF vars
  <2>2. QED
    BY <2>1, LockFrame
<1>16. QED
  BY <1>1, <1>2, <1>3, <1>4, <1>5, <1>6, <1>7, <1>8, <1>9, <1>10, <1>11, <1>12, <1>13,
     <1>14, <1>15
     DEF Next, Step

\* The tickets stay in their window.
LEMMA TicketStep ==
  ASSUME IInv, [Next]_vars
  PROVE  TicketInv'
<1> USE QueuedFacts DEF IInv, Shape, WayInv, OnItsWay, Labels, locks
<1>1. ASSUME NEW t \in Threads, NEW c \in KernelCalls, NEW way \in Ways(c.op), AtomicOp(t, c, way) PROVE TicketInv'
  <2>1. Queued' = Queued /\ UNCHANGED <<mutex, ticket>>
    BY <1>1 DEF AtomicOp, Goto, Queued, Ways
  <2>2. \A u \in Queued : pc'[u] # "queue" => pc[u] # "queue"
    BY <1>1 DEF AtomicOp, Goto, Queued, Ways
  <2>3. QED
    BY <2>1, <2>2 DEF TicketInv, NextTicket
<1>2. ASSUME NEW t \in Threads, Capture(t) PROVE TicketInv'
  <2>1. Queued' = Queued /\ UNCHANGED <<mutex, ticket>>
    BY <1>2 DEF Capture, Goto, Queued
  <2>2. \A u \in Queued : pc'[u] # "queue" => pc[u] # "queue"
    BY <1>2 DEF Capture, Goto, Queued
  <2>3. QED
    BY <2>1, <2>2 DEF TicketInv, NextTicket
<1>3. ASSUME NEW t \in Threads, Load(t) PROVE TicketInv'
  <2>1. Queued' = Queued /\ UNCHANGED <<mutex, ticket>>
    BY <1>3 DEF Load, Goto, Queued
  <2>2. \A u \in Queued : pc'[u] # "queue" => pc[u] # "queue"
    BY <1>3 DEF Load, Goto, Queued
  <2>3. QED
    BY <2>1, <2>2 DEF TicketInv, NextTicket
<1>4. ASSUME NEW t \in Threads, CompareExchange(t) PROVE TicketInv'
  <2>1. Queued' = Queued /\ UNCHANGED <<mutex, ticket>>
    BY <1>4 DEF CompareExchange, Goto, Queued
  <2>2. \A u \in Queued : pc'[u] # "queue" => pc[u] # "queue"
    BY <1>4 DEF CompareExchange, Goto, Queued
  <2>3. QED
    BY <2>1, <2>2 DEF TicketInv, NextTicket
<1>5. ASSUME NEW t \in Threads, Cas(t) PROVE TicketInv'
  <2>1. Queued' = Queued /\ UNCHANGED <<mutex, ticket>>
    BY <1>5 DEF Cas, Goto, Queued
  <2>2. \A u \in Queued : pc'[u] # "queue" => pc[u] # "queue"
    BY <1>5 DEF Cas, Goto, Queued
  <2>3. QED
    BY <2>1, <2>2 DEF TicketInv, NextTicket
<1>6. ASSUME NEW t \in Threads, CasWithCondition(t) PROVE TicketInv'
  <2>1. Queued' = Queued /\ UNCHANGED <<mutex, ticket>>
    BY <1>6 DEF CasWithCondition, Goto, Queued
  <2>2. \A u \in Queued : pc'[u] # "queue" => pc[u] # "queue"
    BY <1>6 DEF CasWithCondition, Goto, Queued
  <2>3. QED
    BY <2>1, <2>2 DEF TicketInv, NextTicket
<1>7. ASSUME NEW t \in Threads, Lock(t) PROVE TicketInv'
  <2>1. Queued' = Queued /\ UNCHANGED <<mutex, ticket>>
    BY <1>7 DEF Lock, Goto, Queued
  <2>2. \A u \in Queued : pc'[u] # "queue" => pc[u] # "queue"
    BY <1>7 DEF Lock, Goto, Queued
  <2>3. QED
    BY <2>1, <2>2 DEF TicketInv, NextTicket
<1>8. ASSUME NEW t \in Threads, TakeTicket(t) PROVE TicketInv'
  <2> DEFINE n == mutex[1]
             s == mutex[2]
             k == Cardinality(Queued)
  <2>1. t \notin Queued /\ Queued' = Queued \cup {t} /\ impl = "OaccExtended"
    BY <1>8 DEF TakeTicket, Goto, Queued
  <2>2. Cardinality(Queued') = k + 1 /\ k + 1 < Tickets
    <3>1. Cardinality(Queued \cup {t}) = k + 1
      BY <2>1, FS_AddElement
    <3>2. Queued' \subseteq Threads
      BY <2>1 DEF Queued
    <3>3. Cardinality(Queued') <= Cardinality(Threads)
      BY <3>2, AtomicsAssumption, FS_Subset
    <3>4. Cardinality(Threads) \in Nat /\ Cardinality(Threads) < Tickets
      BY AtomicsAssumption, FS_CardinalityType
    <3>5. QED
      BY <2>1, <3>1, <3>3, <3>4
  <2>3. n \in 0..(Tickets - 1) /\ s \in 0..(Tickets - 1) /\ k \in Nat
    OBVIOUS
  <2>4. n = IF s + k < Tickets THEN s + k ELSE s + k - Tickets
    BY DEF TicketInv, NextTicket
  <2>5. mutex'[1] = (IF n + 1 < Tickets THEN n + 1 ELSE 0) /\ mutex'[2] = s
    <3>1. (n + 1) % Tickets = IF n + 1 < Tickets THEN n + 1 ELSE 0
      BY <2>3
    <3>2. QED
      BY <1>8, <3>1 DEF TakeTicket
  <2>6. NextTicket'
    BY <2>2, <2>3, <2>4, <2>5 DEF NextTicket
  <2>7. /\ ticket'[t] = n /\ pc'[t] = "queue"
        /\ \A u \in Queued : ticket'[u] = ticket[u] /\ pc'[u] = pc[u] /\ ticket[u] \in 0..(Tickets - 1)
    BY <1>8, <2>1 DEF TakeTicket, Goto, Queued
  <2>8. InWindow(n, s, k + 1) /\ ~InWindow(n, s, k)
    BY <2>2, <2>3, <2>4 DEF InWindow
  <2>9. \A u \in Queued : InWindow(ticket[u], s, k) /\ InWindow(ticket[u], s, k + 1)
    BY <2>3, <2>7 DEF TicketInv, InWindow
  <2>10. ASSUME NEW u \in Queued' PROVE InWindow(ticket'[u], mutex'[2], Cardinality(Queued'))
    BY <2>1, <2>2, <2>5, <2>7, <2>8, <2>9
  <2>11. ASSUME NEW u \in Queued', NEW v \in Queued', ticket'[v] = ticket'[u] PROVE u = v
    <3>1. CASE u \in Queued /\ v \in Queued
      BY <2>7, <2>11, <3>1 DEF TicketInv
    <3>2. CASE u = t \/ v = t
      BY <2>1, <2>7, <2>8, <2>9, <2>11, <3>2
    <3>3. QED
      BY <2>1, <3>1, <3>2
  <2>12. ASSUME NEW u \in Queued', pc'[u] # "queue" PROVE ticket'[u] = mutex'[2]
    BY <2>1, <2>5, <2>7, <2>12 DEF TicketInv
  <2>13. QED
    BY <2>6, <2>10, <2>11, <2>12 DEF TicketInv
<1>9. ASSUME NEW t \in Threads, Served(t) PROVE TicketInv'
  <2>1. Queued' = Queued /\ UNCHANGED <<mutex, ticket>>
    BY <1>9 DEF Served, Goto, Queued
  <2>2. ticket[t] = mutex[2] /\ \A u \in Queued : u # t => pc'[u] = pc[u]
    BY <1>9 DEF Served, Goto, Queued
  <2>3. QED
    BY <2>1, <2>2 DEF TicketInv, NextTicket
<1>10. ASSUME NEW t \in Threads, Read(t) PROVE TicketInv'
  <2>1. Queued' = Queued /\ UNCHANGED <<mutex, ticket>>
    BY <1>10 DEF Read, Goto, Queued
  <2>2. \A u \in Queued : pc'[u] # "queue" => pc[u] # "queue"
    BY <1>10 DEF Read, Goto, Queued
  <2>3. QED
    BY <2>1, <2>2 DEF TicketInv, NextTicket
<1>11. ASSUME NEW t \in Threads, Write(t) PROVE TicketInv'
  <2>1. Queued' = Queued /\ UNCHANGED <<mutex, ticket>>
    BY <1>11 DEF Write, Goto, Queued
  <2>2. \A u \in Queued : pc'[u] # "queue" => pc[u] # "queue"
    BY <1>11 DEF Write, Goto, Queued
  <2>3. QED
    BY <2>1, <2>2 DEF TicketInv, NextTicket
<1>12. ASSUME NEW t \in Threads, Unlock(t) PROVE TicketInv'
  <2>1. Queued' = Queued /\ UNCHANGED <<mutex, ticket>>
    BY <1>12 DEF Unlock, Goto, Queued
  <2>2. \A u \in Queued : pc'[u] # "queue" => pc[u] # "queue"
    BY <1>12 DEF Unlock, Goto, Queued
  <2>3. QED
    BY <2>1, <2>2 DEF TicketInv, NextTicket
<1>13. ASSUME NEW t \in Threads, Serve(t) PROVE TicketInv'
  <2> DEFINE s == mutex[2]
             k == Cardinality(Queued)
  <2>1. t \in Queued /\ Queued' = Queued \ {t} /\ ticket[t] = s
    BY <1>13 DEF Serve, Goto, Queued, TicketInv
  <2>2. Cardinality(Queued') = k - 1 /\ k > 0
    <3>1. Cardinality(Queued \ {t}) = k - 1
      BY <2>1, FS_RemoveElement
    <3>2. k # 0
      BY <2>1, FS_EmptySet
    <3>3. QED
      BY <2>1, <3>1, <3>2
  <2>3. mutex[1] \in 0..(Tickets - 1) /\ s \in 0..(Tickets - 1) /\ k \in Nat
    OBVIOUS
  <2>4. mutex[1] = IF s + k < Tickets THEN s + k ELSE s + k - Tickets
    BY DEF TicketInv, NextTicket
  <2>5. mutex'[2] = (IF s + 1 < Tickets THEN s + 1 ELSE 0) /\ mutex'[1] = mutex[1]
    <3>1. (s + 1) % Tickets = IF s + 1 < Tickets THEN s + 1 ELSE 0
      BY <2>3
    <3>2. QED
      BY <1>13, <3>1 DEF Serve
  <2>6. NextTicket'
    BY <2>2, <2>3, <2>4, <2>5 DEF NextTicket
  <2>7. \A u \in Queued' : /\ u \in Queued /\ ticket'[u] = ticket[u] /\ pc'[u] = pc[u]
                            /\ ticket[u] \in 0..(Tickets - 1) /\ ticket[u] # s
    BY <1>13, <2>1 DEF Serve, Goto, Queued, TicketInv
  <2>8. ASSUME NEW u \in Queued' PROVE InWindow(ticket'[u], mutex'[2], Cardinality(Queued'))
    <3>1. InWindow(ticket[u], s, k)
      BY <2>7 DEF TicketInv
    <3>2. InWindow(ticket[u], mutex'[2], k - 1)
      BY <2>2, <2>3, <2>5, <2>7, <3>1 DEF InWindow
    <3>3. QED
      BY <2>2, <2>7, <3>2
  <2>9. ASSUME NEW u \in Queued', NEW v \in Queued', ticket'[v] = ticket'[u] PROVE u = v
    BY <2>7, <2>9 DEF TicketInv
  <2>10. ASSUME NEW u \in Queued', pc'[u] # "queue" PROVE ticket'[u] = mutex'[2]
    BY <2>1, <2>7, <2>10 DEF TicketInv
  <2>11. QED
    BY <2>6, <2>8, <2>9, <2>10 DEF TicketInv
<1>14. ASSUME NEW t \in Threads, Return(t) PROVE TicketInv'
  <2>1. Queued' = Queued /\ UNCHANGED <<mutex, ticket>>
    BY <1>14 DEF Return, Goto, Queued
  <2>2. \A u \in Queued : pc'[u] # "queue" => pc[u] # "queue"
    BY <1>14 DEF Return, Goto, Queued
  <2>3. QED
    BY <2>1, <2>2 DEF TicketInv, NextTicket
<1>15. ASSUME UNCHANGED vars PROVE TicketInv'
  <2>1. Queued' = Queued /\ UNCHANGED <<mutex, ticket, pc>>
    BY <1>15 DEF vars, Queued
  <2>2. QED
    BY <2>1 DEF TicketInv, NextTicket
<1>16. QED
  BY <1>1, <1>2, <1>3, <1>4, <1>5, <1>6, <1>7, <1>8, <1>9, <1>10, <1>11, <1>12, <1>13,
     <1>14, <1>15
     DEF Next, Step

\* Two threads are never at once where they may write to the same address,
\* one of them inside a lock.
LEMMA Exclusion ==
  ASSUME IInv, Sound,
         NEW t \in Threads, pc[t] = "write",
         NEW u \in Threads, u # t,
         pc[u] \in {"capture", "exchange", "cas", "condition", "write"},
         call[u].addr = call[t].addr
  PROVE  FALSE
<1>1. impl \in {"StdLibLock", "OmpBuiltIn", "OaccExtended"} /\ pc[u] \in {"capture", "write"}
  BY DEF IInv, WayInv, OnItsWay
<1>2. impl # "StdLibLock" => Alike(call[t].op, call[u].op)
  BY <1>1 DEF IInv, RespectInv, Sound
<1>3. pc[u] = "write"
  BY <1>1, <1>2 DEF IInv, WayInv, OnItsWay, Alike, Locked
<1>4. CASE impl = "OaccExtended"
  BY <1>3, <1>4 DEF IInv, TicketInv, Queued
<1>5. CASE impl # "OaccExtended"
  <2>1. getMutex(call[t]) = getMutex(call[u])
    BY <1>1, <1>2, <1>5 DEF getMutex, Alike
  <2>2. QED
    BY <1>3, <1>5, <2>1 DEF IInv, LockInv, Locked
<1>6. QED
  BY <1>4, <1>5

\* A value that has been read stays until the thread writes.
LEMMA ReadStep ==
  ASSUME IInv, [Next]_vars
  PROVE  ReadInv'
<1> USE DEF IInv, Shape, Labels, locks
<1>1. ASSUME NEW t \in Threads, NEW c \in KernelCalls, NEW way \in Ways(c.op), AtomicOp(t, c, way) PROVE ReadInv'
  <2>1. /\ call' = [call EXCEPT ![t] = c] /\ pc' = [pc EXCEPT ![t] = way] /\ UNCHANGED <<impl, mtx>>
        /\ pc[t] = "idle" /\ way \in {"capture", "loop", "loadAndCas", "casWithCondition", "lock", "ticket"}
    BY <1>1 DEF AtomicOp, Goto, Ways
  <2>2. UNCHANGED <<mem, old, impl>>
    BY <1>1 DEF AtomicOp
  <2>3. \A u \in Threads : pc'[u] = "write" => u # t /\ pc[u] = "write" /\ call'[u] = call[u]
    BY <2>1
  <2>4. QED
    BY <2>2, <2>3 DEF ReadInv, Sound, At
<1>2. ASSUME NEW t \in Threads, Capture(t) PROVE ReadInv'
  <2>1. SUFFICES ASSUME Sound, NEW u \in Threads, pc'[u] = "write" PROVE old'[u] = At(u)'
    BY <1>2 DEF Capture, ReadInv, Sound
  <2>2. u # t /\ pc[u] = "write" /\ old'[u] = old[u] /\ call'[u] = call[u]
    BY <1>2, <2>1 DEF Capture, Goto, Found
  <2>3. call[u].addr # call[t].addr /\ call[u].addr \in Addresses
    BY <1>2, <2>1, <2>2, Exclusion, CallsAreCalls DEF Capture
  <2>4. mem'[call[u].addr] = mem[call[u].addr]
    BY <1>2, <2>3 DEF Capture, Store
  <2>5. QED
    BY <2>1, <2>2, <2>4 DEF ReadInv, At
<1>3. ASSUME NEW t \in Threads, Load(t) PROVE ReadInv'
  BY <1>3 DEF Load, ReadInv, Sound, Goto, Found, Store, At
<1>4. ASSUME NEW t \in Threads, CompareExchange(t) PROVE ReadInv'
  <2>1. SUFFICES ASSUME Sound, NEW u \in Threads, pc'[u] = "write" PROVE old'[u] = At(u)'
    BY <1>4 DEF CompareExchange, ReadInv, Sound
  <2>2. u # t /\ pc[u] = "write" /\ old'[u] = old[u] /\ call'[u] = call[u]
    BY <1>4, <2>1 DEF CompareExchange, Goto, Found
  <2>3. call[u].addr # call[t].addr /\ call[u].addr \in Addresses
    BY <1>4, <2>1, <2>2, Exclusion, CallsAreCalls DEF CompareExchange
  <2>4. mem'[call[u].addr] = mem[call[u].addr]
    BY <1>4, <2>3 DEF CompareExchange, Store
  <2>5. QED
    BY <2>1, <2>2, <2>4 DEF ReadInv, At
<1>5. ASSUME NEW t \in Threads, Cas(t) PROVE ReadInv'
  <2>1. SUFFICES ASSUME Sound, NEW u \in Threads, pc'[u] = "write" PROVE old'[u] = At(u)'
    BY <1>5 DEF Cas, ReadInv, Sound
  <2>2. u # t /\ pc[u] = "write" /\ old'[u] = old[u] /\ call'[u] = call[u]
    BY <1>5, <2>1 DEF Cas, Goto, Found
  <2>3. call[u].addr # call[t].addr /\ call[u].addr \in Addresses
    BY <1>5, <2>1, <2>2, Exclusion, CallsAreCalls DEF Cas
  <2>4. mem'[call[u].addr] = mem[call[u].addr]
    BY <1>5, <2>3 DEF Cas, Store
  <2>5. QED
    BY <2>1, <2>2, <2>4 DEF ReadInv, At
<1>6. ASSUME NEW t \in Threads, CasWithCondition(t) PROVE ReadInv'
  <2>1. SUFFICES ASSUME Sound, NEW u \in Threads, pc'[u] = "write" PROVE old'[u] = At(u)'
    BY <1>6 DEF CasWithCondition, ReadInv, Sound
  <2>2. u # t /\ pc[u] = "write" /\ old'[u] = old[u] /\ call'[u] = call[u]
    BY <1>6, <2>1 DEF CasWithCondition, Goto, Found
  <2>3. call[u].addr # call[t].addr /\ call[u].addr \in Addresses
    BY <1>6, <2>1, <2>2, Exclusion, CallsAreCalls DEF CasWithCondition
  <2>4. mem'[call[u].addr] = mem[call[u].addr]
    BY <1>6, <2>3 DEF CasWithCondition, Store
  <2>5. QED
    BY <2>1, <2>2, <2>4 DEF ReadInv, At
<1>7. ASSUME NEW t \in Threads, Lock(t) PROVE ReadInv'
  BY <1>7 DEF Lock, ReadInv, Sound, Goto, Found, Store, At
<1>8. ASSUME NEW t \in Threads, TakeTicket(t) PROVE ReadInv'
  BY <1>8 DEF TakeTicket, ReadInv, Sound, Goto, Found, Store, At
<1>9. ASSUME NEW t \in Threads, Served(t) PROVE ReadInv'
  BY <1>9 DEF Served, ReadInv, Sound, Goto, Found, Store, At
<1>10. ASSUME NEW t \in Threads, Read(t) PROVE ReadInv'
  BY <1>10 DEF Read, ReadInv, Sound, Goto, Found, Store, At
<1>11. ASSUME NEW t \in Threads, Write(t) PROVE ReadInv'
  <2>1. SUFFICES ASSUME Sound, NEW u \in Threads, pc'[u] = "write" PROVE old'[u] = At(u)'
    BY <1>11 DEF Write, ReadInv, Sound
  <2>2. u # t /\ pc[u] = "write" /\ old'[u] = old[u] /\ call'[u] = call[u]
    BY <1>11, <2>1 DEF Write, Goto, Found
  <2>3. call[u].addr # call[t].addr /\ call[u].addr \in Addresses
    BY <1>11, <2>1, <2>2, Exclusion, CallsAreCalls DEF Write
  <2>4. mem'[call[u].addr] = mem[call[u].addr]
    BY <1>11, <2>3 DEF Write, Store
  <2>5. QED
    BY <2>1, <2>2, <2>4 DEF ReadInv, At
<1>12. ASSUME NEW t \in Threads, Unlock(t) PROVE ReadInv'
  BY <1>12 DEF Unlock, ReadInv, Sound, Goto, Found, Store, At
<1>13. ASSUME NEW t \in Threads, Serve(t) PROVE ReadInv'
  BY <1>13 DEF Serve, ReadInv, Sound, Goto, Found, Store, At
<1>14. ASSUME NEW t \in Threads, Return(t) PROVE ReadInv'
  BY <1>14 DEF Return, ReadInv, Sound, Goto, Found, Store, At
<1>15. ASSUME UNCHANGED vars PROVE ReadInv'
  BY <1>15 DEF vars, ReadInv, Sound, At
<1>16. QED
  BY <1>1, <1>2, <1>3, <1>4, <1>5, <1>6, <1>7, <1>8, <1>9, <1>10, <1>11, <1>12, <1>13,
     <1>14, <1>15
     DEF Next, Step

-----------------------------------------------------------------------------
(* The theorems                                                            *)

\* The invariant holds in every state, whatever the implementation.
THEOREM Invariance == Spec => []IInv
<1>1. Init => IInv
  <2>1. SUFFICES ASSUME Init PROVE IInv
    OBVIOUS
  <2>2. Shape
    <3>1. Tickets \in Nat /\ 0 \in 0..(Tickets - 1)
      BY QueuedFacts
    <3>2. QED
      BY <2>1, <3>1 DEF Init, Shape, Labels
  <2>3. \A t \in Threads : pc[t] = "idle"
    BY <2>1 DEF Init
  <2>4. TicketInv
    <3>1. Queued = {}
      BY <2>3 DEF Queued
    <3>2. Cardinality(Queued) = 0 /\ Tickets \in Nat /\ 0 < Tickets
      BY <3>1, FS_EmptySet, QueuedFacts
    <3>3. QED
      BY <2>1, <3>1, <3>2 DEF Init, TicketInv, NextTicket
  <2>5. WayInv /\ RespectInv /\ LockInv /\ ReadInv
    BY <2>3 DEF WayInv, OnItsWay, Locked, RespectInv, LockInv, ReadInv
  <2>6. QED
    BY <2>2, <2>4, <2>5 DEF IInv
<1>2. IInv /\ [Next]_vars => IInv'
  BY ShapeStep, WayStep, RespectStep, LockStep, TicketStep, ReadStep DEF IInv
<1>3. QED
  BY <1>1, <1>2, PTL DEF Spec

Done == {"unlock", "serve", "return"}
at == [t \in Threads |-> IF pc[t] = "idle" THEN "idle" ELSE IF pc[t] \in Done THEN "done" ELSE "called"]
ret == [t \in Threads |-> IF pc[t] \in Done THEN old[t] ELSE 0]

\* A step inside an operation that neither takes effect nor returns.
LEMMA Invisible ==
  ASSUME NEW t \in Threads, pc \in [Threads -> Labels], UNCHANGED <<mem, call>>,
         \A u \in Threads \ {t} : pc'[u] = pc[u] /\ old'[u] = old[u],
         \/ pc[t] \notin Done \cup {"idle"} /\ pc'[t] \notin Done \cup {"idle"}
         \/ pc[t] \in Done /\ pc'[t] \in Done /\ old'[t] = old[t]
  PROVE  UNCHANGED A!vars
<1>1. \A u \in Threads : /\ pc'[u] = "idle" <=> pc[u] = "idle"
                         /\ pc'[u] \in Done <=> pc[u] \in Done
                         /\ pc[u] \in Done => old'[u] = old[u]
  BY DEF Done
<1>2. at' = at /\ ret' = ret
  BY <1>1 DEF at, ret
<1>3. QED
  BY <1>2 DEF A!vars, at, ret, Done

\* A step that writes what the operation computes from the value it returns.
LEMMA TakesEffect ==
  ASSUME IInv, Sound, impl # "Sycl", NEW t \in Threads,
         pc[t] \notin Done \cup {"idle"}, pc'[t] \in Done,
         \A u \in Threads \ {t} : pc'[u] = pc[u] /\ old'[u] = old[u],
         old'[t] = At(t), Store(call[t].addr, Result(call[t], At(t))), UNCHANGED call
  PROVE  A!Execute(t)
<1> DEFINE c == call[t]
<1>1. Result(c, At(t)) = A!Apply(c.op, mem[c.addr], c.compare, c.value)
  <2>1. ~(impl = "AtomicRef" /\ c.op = "Dec")
    BY DEF IInv, RespectInv, Sound
  <2>2. QED
    BY <2>1 DEF Result, At
<1>2. mem' = [mem EXCEPT ![c.addr] = A!Apply(c.op, mem[c.addr], c.compare, c.value)]
  BY <1>1 DEF Store
<1>3. at[t] = "called" /\ at' = [at EXCEPT ![t] = "done"]
  BY DEF at, Done
<1>4. ret' = [ret EXCEPT ![t] = mem[c.addr]]
  BY DEF ret, At
<1>5. QED
  BY <1>2, <1>3, <1>4 DEF A!Execute, at, ret, Done

\* Every step of a trusted implementation is a step of AtomicOps or invisible.
LEMMA StepSimulation ==
  ASSUME IInv, [Next]_vars, Sound, impl # "Sycl"
  PROVE  [A!Next]_(A!vars)
<1> USE DEF IInv, Shape, locks
<1>1. ASSUME NEW t \in Threads, NEW c \in KernelCalls, NEW way \in Ways(c.op), AtomicOp(t, c, way) PROVE [A!Next]_(A!vars)
  <2>1. way \notin Done \cup {"idle"}
    BY DEF Ways, Done
  <2>2. /\ pc[t] = "idle" /\ pc' = [pc EXCEPT ![t] = way] /\ call' = [call EXCEPT ![t] = c]
        /\ UNCHANGED <<mem, old>> /\ c \in A!Calls
    BY <1>1, CallsAreCalls DEF AtomicOp, Goto
  <2>3. at[t] = "idle" /\ at' = [at EXCEPT ![t] = "called"] /\ ret' = ret
    BY <2>1, <2>2 DEF at, ret, Done
  <2>4. A!Call(t)
    BY <2>2, <2>3 DEF A!Call, at, ret, Done
  <2>5. QED
    BY <2>4 DEF A!Next
<1>2. ASSUME NEW t \in Threads, Capture(t) PROVE [A!Next]_(A!vars)
  <2>1. A!Execute(t)
    <3>1. /\ pc[t] = "capture" /\ pc'[t] = "return" /\ old'[t] = At(t)
          /\ Store(call[t].addr, Result(call[t], At(t))) /\ UNCHANGED call
          /\ \A u \in Threads \ {t} : pc'[u] = pc[u] /\ old'[u] = old[u]
      BY <1>2 DEF Capture, Goto, Found
    <3>2. QED
      BY <3>1, TakesEffect DEF Done
  <2>2. QED
    BY <2>1 DEF A!Next
<1>3. ASSUME NEW t \in Threads, CompareExchange(t) PROVE [A!Next]_(A!vars)
  <2>1. CASE At(t) = old[t]
    <3>1. /\ pc[t] = "exchange" /\ pc'[t] = "return" /\ old'[t] = At(t)
          /\ Store(call[t].addr, Result(call[t], At(t))) /\ UNCHANGED call
          /\ \A u \in Threads \ {t} : pc'[u] = pc[u] /\ old'[u] = old[u]
      BY <1>3, <2>1 DEF CompareExchange, Goto
    <3>2. A!Execute(t)
      BY <3>1, TakesEffect DEF Done
    <3>3. QED
      BY <3>2 DEF A!Next
  <2>2. CASE At(t) # old[t]
    <3>1. /\ pc[t] = "exchange" /\ pc'[t] = "exchange" /\ UNCHANGED <<mem, call>>
          /\ \A u \in Threads \ {t} : pc'[u] = pc[u] /\ old'[u] = old[u]
      BY <1>3, <2>2 DEF CompareExchange, Found
    <3>2. QED
      BY <3>1, Invisible DEF Done
  <2>3. QED
    BY <2>1, <2>2
<1>4. ASSUME NEW t \in Threads, Cas(t) \/ CasWithCondition(t) PROVE [A!Next]_(A!vars)
  BY <1>4 DEF Cas, CasWithCondition, WayInv, OnItsWay
<1>5. ASSUME NEW t \in Threads, Load(t) PROVE [A!Next]_(A!vars)
  <2>1. /\ UNCHANGED <<mem, call>>
        /\ \A u \in Threads \ {t} : pc'[u] = pc[u] /\ old'[u] = old[u]
        /\ \/ pc[t] \notin Done \cup {"idle"} /\ pc'[t] \notin Done \cup {"idle"}
           \/ pc[t] \in Done /\ pc'[t] \in Done /\ old'[t] = old[t]
    BY <1>5 DEF Load, Goto, Found, Done
  <2>2. QED
    BY <2>1, Invisible
<1>6. ASSUME NEW t \in Threads, Lock(t) PROVE [A!Next]_(A!vars)
  <2>1. /\ UNCHANGED <<mem, call>>
        /\ \A u \in Threads \ {t} : pc'[u] = pc[u] /\ old'[u] = old[u]
        /\ \/ pc[t] \notin Done \cup {"idle"} /\ pc'[t] \notin Done \cup {"idle"}
           \/ pc[t] \in Done /\ pc'[t] \in Done /\ old'[t] = old[t]
    BY <1>6 DEF Lock, Goto, Found, Done
  <2>2. QED
    BY <2>1, Invisible
<1>7. ASSUME NEW t \in Threads, TakeTicket(t) PROVE [A!Next]_(A!vars)
  <2>1. /\ UNCHANGED <<mem, call>>
        /\ \A u \in Threads \ {t} : pc'[u] = pc[u] /\ old'[u] = old[u]
        /\ \/ pc[t] \notin Done \cup {"idle"} /\ pc'[t] \notin Done \cup {"idle"}
           \/ pc[t] \in Done /\ pc'[t] \in Done /\ old'[t] = old[t]
    BY <1>7 DEF TakeTicket, Goto, Found, Done
  <2>2. QED
    BY <2>1, Invisible
<1>8. ASSUME NEW t \in Threads, Served(t) PROVE [A!Next]_(A!vars)
  <2>1. /\ UNCHANGED <<mem, call>>
        /\ \A u \in Threads \ {t} : pc'[u] = pc[u] /\ old'[u] = old[u]
        /\ \/ pc[t] \notin Done \cup {"idle"} /\ pc'[t] \notin Done \cup {"idle"}
           \/ pc[t] \in Done /\ pc'[t] \in Done /\ old'[t] = old[t]
    BY <1>8 DEF Served, Goto, Found, Done
  <2>2. QED
    BY <2>1, Invisible
<1>9. ASSUME NEW t \in Threads, Read(t) PROVE [A!Next]_(A!vars)
  <2>1. /\ UNCHANGED <<mem, call>>
        /\ \A u \in Threads \ {t} : pc'[u] = pc[u] /\ old'[u] = old[u]
        /\ \/ pc[t] \notin Done \cup {"idle"} /\ pc'[t] \notin Done \cup {"idle"}
           \/ pc[t] \in Done /\ pc'[t] \in Done /\ old'[t] = old[t]
    BY <1>9 DEF Read, Goto, Found, Done
  <2>2. QED
    BY <2>1, Invisible
<1>10. ASSUME NEW t \in Threads, Unlock(t) PROVE [A!Next]_(A!vars)
  <2>1. /\ UNCHANGED <<mem, call>>
        /\ \A u \in Threads \ {t} : pc'[u] = pc[u] /\ old'[u] = old[u]
        /\ \/ pc[t] \notin Done \cup {"idle"} /\ pc'[t] \notin Done \cup {"idle"}
           \/ pc[t] \in Done /\ pc'[t] \in Done /\ old'[t] = old[t]
    BY <1>10 DEF Unlock, Goto, Found, Done
  <2>2. QED
    BY <2>1, Invisible
<1>11. ASSUME NEW t \in Threads, Serve(t) PROVE [A!Next]_(A!vars)
  <2>1. /\ UNCHANGED <<mem, call>>
        /\ \A u \in Threads \ {t} : pc'[u] = pc[u] /\ old'[u] = old[u]
        /\ \/ pc[t] \notin Done \cup {"idle"} /\ pc'[t] \notin Done \cup {"idle"}
           \/ pc[t] \in Done /\ pc'[t] \in Done /\ old'[t] = old[t]
    BY <1>11 DEF Serve, Goto, Found, Done
  <2>2. QED
    BY <2>1, Invisible
<1>12. ASSUME NEW t \in Threads, Write(t) PROVE [A!Next]_(A!vars)
  <2>1. /\ pc[t] = "write" /\ pc'[t] \in Done /\ old'[t] = old[t] /\ old[t] = At(t)
        /\ Store(call[t].addr, Result(call[t], At(t))) /\ UNCHANGED call
        /\ \A u \in Threads \ {t} : pc'[u] = pc[u] /\ old'[u] = old[u]
    BY <1>12 DEF Write, Goto, ReadInv, Done
  <2>2. A!Execute(t)
    BY <2>1, TakesEffect DEF Done
  <2>3. QED
    BY <2>2 DEF A!Next
<1>13. ASSUME NEW t \in Threads, Return(t) PROVE [A!Next]_(A!vars)
  <2>1. /\ pc[t] = "return" /\ pc' = [pc EXCEPT ![t] = "idle"] /\ UNCHANGED mem
        /\ call' = [call EXCEPT ![t] = A!NoCall] /\ \A u \in Threads \ {t} : old'[u] = old[u]
    BY <1>13 DEF Return, Goto, Found
  <2>2. at[t] = "done" /\ at' = [at EXCEPT ![t] = "idle"] /\ ret' = [ret EXCEPT ![t] = 0]
    BY <2>1 DEF at, ret, Done
  <2>3. A!Return(t)
    BY <2>1, <2>2 DEF A!Return, at, ret, Done
  <2>4. QED
    BY <2>3 DEF A!Next
<1>14. ASSUME UNCHANGED vars PROVE [A!Next]_(A!vars)
  BY <1>14 DEF vars, A!vars
<1>15. QED
  BY <1>1, <1>2, <1>3, <1>4, <1>5, <1>6, <1>7, <1>8, <1>9, <1>10, <1>11, <1>12, <1>13, <1>14 DEF Next, Step

\* atomicOp is atomic in every implementation but SYCL's, for careless kernels
\* too where atomics of the CPU, of CUDA and HIP or of the compiler are used.
THEOREM OperationsAreAtomic ==
  ASSUME "Sycl" \notin Trusted,
         Careful \/ Trusted \cap {"AtomicRef", "OmpBuiltIn", "OaccExtended"} = {}
  PROVE  Spec => ImplementsAtomicOps
<1>1. Init => A!Init
  <2>1. SUFFICES ASSUME Init PROVE A!Init
    OBVIOUS
  <2>2. at = [t \in Threads |-> "idle"] /\ ret = [t \in Threads |-> 0]
    BY <2>1 DEF Init, at, ret, Done
  <2>3. QED
    BY <2>1, <2>2 DEF Init, A!Init, at, ret, Done
<1>2. IInv /\ [Next]_vars => [(impl \in Trusted) => [A!Next]_(A!vars)]_vars
  <2>1. impl \in Trusted => Sound /\ impl # "Sycl"
    BY DEF Sound
  <2>2. QED
    BY <2>1, StepSimulation
<1>3. QED
  BY <1>1, <1>2, Invariance, PTL DEF Spec, ImplementsAtomicOps

-----------------------------------------------------------------------------
(* Random numbers: counters and numbers                                    *)

Counters == [1..4 -> 0..(Base - 1)]
Numbers == Counters \X (0..3)

-----------------------------------------------------------------------------
(* Arithmetic                                                              *)

\* The remainder of a multiple and a small number is the small number.
LEMMA RemainderOf ==
  \A n \in Nat \ {0} : \A x \in Nat, q \in Nat, r \in 0..(n - 1) : x = n * q + r => x % n = r
  OBVIOUS

\* Division with remainder.
LEMMA DivMod ==
  ASSUME NEW n \in Nat, n > 0, NEW x \in Nat
  PROVE  /\ x = n * (x \div n) + (x % n) /\ x % n \in 0..(n - 1)
         /\ x \div n \in Nat /\ x % n \in Nat
  OBVIOUS

\* The quotient and the remainder are the only ones.
LEMMA DivModUnique ==
  ASSUME NEW n \in Nat, n > 0, NEW a \in Int, NEW b \in Int, NEW r \in 0..(n - 1), NEW s \in 0..(n - 1),
         n * a + r = n * b + s
  PROVE  a = b /\ r = s
<1>1. CASE a = b
  BY <1>1
<1>2. CASE a < b
  <2>1. b - a >= 1 /\ b - a \in Int
    BY <1>2
  <2>2. n * (b - a) >= n
    BY <2>1
  <2>3. n * (b - a) = n * b - n * a
    OBVIOUS
  <2>4. n * a \in Int /\ n * b \in Int
    OBVIOUS
  <2>5. QED
    BY <2>2, <2>3, <2>4
<1>3. CASE b < a
  <2>1. a - b >= 1 /\ a - b \in Int
    BY <1>3
  <2>2. n * (a - b) >= n
    BY <2>1
  <2>3. n * (a - b) = n * a - n * b
    OBVIOUS
  <2>4. n * a \in Int /\ n * b \in Int
    OBVIOUS
  <2>5. QED
    BY <2>2, <2>3, <2>4
<1>4. QED
  BY <1>1, <1>2, <1>3

\* A number that is small, and the sum of a multiple and a small number.
LEMMA ModOf ==
  ASSUME NEW n \in Nat, n > 0, NEW q \in Nat, NEW r \in 0..(n - 1), NEW x \in Nat, x = n * q + r
  PROVE  x % n = r /\ x \div n = q
<1>1. x = n * (x \div n) + (x % n) /\ x % n \in 0..(n - 1) /\ x \div n \in Nat
  BY DivMod
<1>2. QED
  BY <1>1, DivModUnique

\* Numbers with one remainder differ by a multiple.
LEMMA SameRemainder ==
  \A n \in Nat \ {0} : \A x, y \in Nat : x % n = y % n => \E m \in Int : x - y = n * m
<1> TAKE n \in Nat \ {0}
<1> TAKE x, y \in Nat
<1>0. HAVE x % n = y % n
<1>1. /\ x = n * (x \div n) + (x % n) /\ x \div n \in Nat /\ x % n \in Nat
      /\ y = n * (y \div n) + (y % n) /\ y \div n \in Nat /\ y % n \in Nat
  BY DivMod
<1>2. PICK a \in Nat, b \in Nat, r \in Nat : x = n * a + r /\ y = n * b + r
  BY <1>0, <1>1
<1>3. x - y = n * (a - b) /\ a - b \in Int
  BY <1>2
<1>4. QED
  BY <1>3

\* A multiple does not change the remainder.
LEMMA ModMultiple ==
  \A n \in Nat \ {0} : \A x \in Nat, m \in Nat, y \in Nat : y = n * m + x => y % n = x % n
<1> TAKE n \in Nat \ {0}
<1> TAKE x \in Nat, m \in Nat, y \in Nat
<1>0. HAVE y = n * m + x
<1>1. PICK q \in Nat, r \in 0..(n - 1) : r = x % n /\ x = n * q + r
  OBVIOUS
<1>2. PICK k \in Nat : k = m + q
  OBVIOUS
<1>3. y = n * k + r
  BY <1>0, <1>1, <1>2
<1>4. y % n = r
  BY <1>3, RemainderOf
<1>5. QED
  BY <1>1, <1>4

\* Adding to a remainder.
LEMMA ModAdd ==
  \A n \in Nat \ {0} : \A x \in Nat, k \in Nat : ((x % n) + k) % n = (x + k) % n
<1> TAKE n \in Nat \ {0}
<1> TAKE x \in Nat, k \in Nat
<1>1. PICK q \in Nat, r \in Nat : r = x % n /\ x = n * q + r
  BY DivMod
<1>2. PICK y \in Nat, z \in Nat : y = x + k /\ z = r + k
  BY <1>1
<1>3. y = n * q + z
  BY <1>1, <1>2
<1>4. y % n = z % n
  BY <1>3, ModMultiple, Zenon
<1>5. QED
  BY <1>1, <1>2, <1>4

\* The bound of a number of two digits.
LEMMA TwoDigits ==
  ASSUME NEW b \in Nat, b > 0, NEW K \in Nat, NEW lo \in 0..(b - 1), NEW hi \in 0..(K - 1)
  PROVE  lo + b * hi \in 0..(b * K - 1) /\ b * K \in Nat /\ b * K > 0
<1>1. hi \in Nat /\ hi + 1 <= K /\ b * hi \in Nat /\ b * K \in Nat
  OBVIOUS
<1>2. b * (hi + 1) <= b * K
  BY <1>1
<1>3. b * (hi + 1) = b * hi + b
  BY <1>1
<1>4. QED
  BY <1>1, <1>2, <1>3

\* One is added to a number of two digits: with a carry if the low one is full.
LEMMA AddOne ==
  ASSUME NEW b \in Nat, b > 0, NEW K \in Nat, NEW lo \in 0..(b - 1), NEW hi \in 0..(K - 1)
  PROVE  /\ lo = b - 1 => b * ((hi + 1) % K) = (lo + b * hi + 1) % (b * K)
         /\ lo # b - 1 => lo + 1 + b * hi = (lo + b * hi + 1) % (b * K)
<1>1. hi \in Nat /\ b * hi \in Nat /\ b * K \in Nat /\ b * K > 0 /\ K > 0
  BY TwoDigits
<1>2. CASE lo # b - 1
  <2>1. lo + 1 \in 0..(b - 1)
    BY <1>2
  <2>2. lo + 1 + b * hi \in 0..(b * K - 1)
    BY <2>1, TwoDigits
  <2>3. lo + b * hi + 1 = (b * K) * 0 + (lo + 1 + b * hi) /\ lo + b * hi + 1 \in Nat
    BY <1>1
  <2>4. QED
    BY <1>1, <1>2, <2>2, <2>3, ModOf
<1>3. CASE lo = b - 1
  <2>1. b * (hi + 1) = b * hi + b /\ lo + b * hi + 1 = b * (hi + 1)
    BY <1>1, <1>3
  <2>2. CASE hi + 1 = K
    <3>1. (hi + 1) % K = 0
      <4>1. hi + 1 = K * 1 + 0 /\ 0 \in 0..(K - 1)
        BY <1>1, <2>2
      <4>2. QED
        BY <1>1, <4>1, ModOf
    <3>2. lo + b * hi + 1 = (b * K) * 1 + 0 /\ 0 \in 0..(b * K - 1) /\ lo + b * hi + 1 \in Nat
      BY <1>1, <2>1, <2>2
    <3>3. (lo + b * hi + 1) % (b * K) = 0
      BY <1>1, <3>2, ModOf
    <3>4. QED
      BY <1>3, <3>1, <3>3
  <2>3. CASE hi + 1 # K
    <3>1. (hi + 1) % K = hi + 1
      <4>1. hi + 1 = K * 0 + (hi + 1) /\ hi + 1 \in 0..(K - 1)
        BY <1>1, <2>3
      <4>2. QED
        BY <1>1, <4>1, ModOf
    <3>2. 0 + b * (hi + 1) \in 0..(b * K - 1)
      <4>1. hi + 1 \in 0..(K - 1) /\ 0 \in 0..(b - 1)
        BY <1>1, <2>3
      <4>2. QED
        BY <4>1, TwoDigits
    <3>3. b * (hi + 1) = (b * K) * 0 + b * (hi + 1) /\ b * (hi + 1) \in 0..(b * K - 1)
      BY <1>1, <3>2
    <3>4. b * (hi + 1) % (b * K) = b * (hi + 1)
      BY <1>1, <3>3, ModOf
    <3>5. QED
      BY <1>3, <2>1, <3>1, <3>4
  <2>4. QED
    BY <2>2, <2>3
<1>4. QED
  BY <1>2, <1>3

-----------------------------------------------------------------------------
(* Counters as numbers                                                     *)

\* The number of counters.
AllCounters == Base * (Base * (Base * Base))

\* The sizes that occur are numbers and not zero.
LEMMA Sizes ==
  /\ Base \in Nat /\ Base > 0 /\ Base * Base \in Nat /\ Base * Base > 0
  /\ Base * (Base * Base) \in Nat /\ Base * (Base * Base) > 0
  /\ AllCounters \in Nat /\ AllCounters > 0 /\ Period = 4 * AllCounters
  /\ Period \in Nat /\ Period > 0 /\ Period \in Nat \ {0} /\ 0 \in 0..3 /\ 3 \in 0..3
<1>1. Base \in Nat /\ Base > 0
  BY PhiloxAssumption
<1>2. \A a, b \in Nat : a > 0 /\ b > 0 => a * b \in Nat /\ a * b > 0
  OBVIOUS
<1>3. Base * Base \in Nat /\ Base * Base > 0
  BY <1>1, <1>2
<1>4. Base * (Base * Base) \in Nat /\ Base * (Base * Base) > 0
  BY <1>1, <1>2, <1>3
<1>5. AllCounters \in Nat /\ AllCounters > 0
  BY <1>1, <1>2, <1>4 DEF AllCounters
<1>6. Period = 4 * AllCounters
  BY DEF AllCounters, Period
<1>7. QED
  BY <1>1, <1>3, <1>4, <1>5, <1>6

\* What advanceCounter does to the limbs, by the number of full ones.
LEMMA AdvancedLimbs ==
  ASSUME NEW c \in Counters
  PROVE  /\ advanceCounter(c) \in Counters
         /\ c[1] # Base - 1 => advanceCounter(c) = <<c[1] + 1, c[2], c[3], c[4]>>
         /\ c[1] = Base - 1 /\ c[2] # Base - 1 => advanceCounter(c) = <<0, c[2] + 1, c[3], c[4]>>
         /\ c[1] = Base - 1 /\ c[2] = Base - 1 /\ c[3] # Base - 1 =>
              advanceCounter(c) = <<0, 0, c[3] + 1, c[4]>>
         /\ c[1] = Base - 1 /\ c[2] = Base - 1 /\ c[3] = Base - 1 =>
              advanceCounter(c) = <<0, 0, 0, (c[4] + 1) % Base>>
<1>1. Base \in Nat /\ Base > 0
  BY Sizes
<1>2. c[1] \in 0..(Base - 1) /\ c[2] \in 0..(Base - 1) /\ c[3] \in 0..(Base - 1) /\ c[4] \in 0..(Base - 1)
  BY DEF Counters
<1>3. \A x \in 0..(Base - 1) : /\ (x + 1) % Base \in 0..(Base - 1)
                               /\ x # Base - 1 => (x + 1) % Base = x + 1
                               /\ x = Base - 1 => (x + 1) % Base = 0
  <2>1. TAKE x \in 0..(Base - 1)
  <2>2. x + 1 \in Nat
    BY <1>1
  <2>3. (x + 1) % Base \in 0..(Base - 1)
    BY <1>1, <2>2
  <2>4. ASSUME x # Base - 1 PROVE (x + 1) % Base = x + 1
    <3>1. x + 1 = Base * 0 + (x + 1) /\ x + 1 \in 0..(Base - 1)
      BY <1>1, <2>4
    <3>2. QED
      BY <1>1, <2>2, <3>1, RemainderOf
  <2>5. ASSUME x = Base - 1 PROVE (x + 1) % Base = 0
    <3>1. x + 1 = Base * 1 + 0 /\ 0 \in 0..(Base - 1)
      BY <1>1, <2>5
    <3>2. QED
      BY <1>1, <2>2, <3>1, RemainderOf
  <2>6. QED
    BY <2>3, <2>4, <2>5
<1>4. PICK d : d = advanceCounter(c)
  OBVIOUS
<1>5. /\ d = [i \in 1..4 |-> d[i]]
      /\ d[1] = (c[1] + 1) % Base
      /\ d[2] = IF c[1] = Base - 1 THEN (c[2] + 1) % Base ELSE c[2]
      /\ d[3] = IF c[1] = Base - 1 /\ c[2] = Base - 1 THEN (c[3] + 1) % Base ELSE c[3]
      /\ d[4] = IF c[1] = Base - 1 /\ c[2] = Base - 1 /\ c[3] = Base - 1 THEN (c[4] + 1) % Base ELSE c[4]
  BY <1>4 DEF advanceCounter
<1>6. /\ d[1] \in 0..(Base - 1) /\ d[2] \in 0..(Base - 1)
      /\ d[3] \in 0..(Base - 1) /\ d[4] \in 0..(Base - 1)
  BY <1>2, <1>3, <1>5
<1>7. d \in Counters
  BY <1>5, <1>6 DEF Counters
<1>8. d = <<d[1], d[2], d[3], d[4]>>
  BY <1>5
<1>9. QED
  BY <1>2, <1>3, <1>4, <1>5, <1>7, <1>8

\* The places of counters: the carries make advanceCounter an addition of one.
LEMMA CarriesAddOne ==
  ASSUME NEW c \in Counters
  PROVE  /\ CounterPlace(c) \in 0..(AllCounters - 1)
         /\ CounterPlace(advanceCounter(c)) = (CounterPlace(c) + 1) % AllCounters
<1>1. /\ Base \in Nat /\ Base > 0 /\ Base * Base \in Nat /\ Base * (Base * Base) \in Nat
      /\ AllCounters = Base * (Base * (Base * Base))
  BY Sizes DEF AllCounters
<1>2. PICK c1 \in 0..(Base - 1), c2 \in 0..(Base - 1), c3 \in 0..(Base - 1), c4 \in 0..(Base - 1) :
        c1 = c[1] /\ c2 = c[2] /\ c3 = c[3] /\ c4 = c[4]
  BY DEF Counters
<1>3. PICK p3 : p3 = c3 + Base * c4
  OBVIOUS
<1>4. PICK p2 : p2 = c2 + Base * p3
  OBVIOUS
<1>5. PICK p1 : p1 = c1 + Base * p2
  OBVIOUS
<1>6. p3 \in 0..((Base * Base) - 1)
  BY <1>1, <1>3, TwoDigits
<1>7. p2 \in 0..((Base * (Base * Base)) - 1)
  BY <1>1, <1>4, <1>6, TwoDigits
<1>8. p1 \in 0..(AllCounters - 1)
  BY <1>1, <1>5, <1>7, TwoDigits
<1>9. CounterPlace(c) = p1
  BY <1>2, <1>3, <1>4, <1>5 DEF CounterPlace
<1>10. /\ c3 = Base - 1 => Base * ((c4 + 1) % Base) = (p3 + 1) % (Base * Base)
       /\ c3 # Base - 1 => c3 + 1 + Base * c4 = (p3 + 1) % (Base * Base)
  BY <1>1, <1>3, AddOne
<1>11. /\ c2 = Base - 1 => Base * ((p3 + 1) % (Base * Base)) = (p2 + 1) % (Base * (Base * Base))
       /\ c2 # Base - 1 => c2 + 1 + Base * p3 = (p2 + 1) % (Base * (Base * Base))
  BY <1>1, <1>4, <1>6, AddOne
<1>12. /\ c1 = Base - 1 => Base * ((p2 + 1) % (Base * (Base * Base))) = (p1 + 1) % AllCounters
       /\ c1 # Base - 1 => c1 + 1 + Base * p2 = (p1 + 1) % AllCounters
  BY <1>1, <1>5, <1>7, AddOne
<1>13. CounterPlace(advanceCounter(c)) = (p1 + 1) % AllCounters
  <2>1. CASE c1 # Base - 1
    <3>1. advanceCounter(c) = <<c1 + 1, c2, c3, c4>>
      BY <1>2, <2>1, AdvancedLimbs
    <3>2. CounterPlace(advanceCounter(c)) = c1 + 1 + Base * p2
      BY <1>3, <1>4, <3>1 DEF CounterPlace
    <3>3. QED
      BY <1>12, <2>1, <3>2
  <2>2. CASE c1 = Base - 1 /\ c2 # Base - 1
    <3>1. advanceCounter(c) = <<0, c2 + 1, c3, c4>>
      BY <1>2, <2>2, AdvancedLimbs
    <3>2. CounterPlace(advanceCounter(c)) = 0 + Base * (c2 + 1 + Base * p3)
      BY <1>3, <3>1 DEF CounterPlace
    <3>3. QED
      BY <1>1, <1>6, <1>7, <1>11, <1>12, <2>2, <3>2
  <2>3. CASE c1 = Base - 1 /\ c2 = Base - 1 /\ c3 # Base - 1
    <3>1. advanceCounter(c) = <<0, 0, c3 + 1, c4>>
      BY <1>2, <2>3, AdvancedLimbs
    <3>2. CounterPlace(advanceCounter(c)) = 0 + Base * (0 + Base * (c3 + 1 + Base * c4))
      BY <3>1 DEF CounterPlace
    <3>3. QED
      BY <1>1, <1>6, <1>7, <1>10, <1>11, <1>12, <2>3, <3>2
  <2>4. CASE c1 = Base - 1 /\ c2 = Base - 1 /\ c3 = Base - 1
    <3>1. advanceCounter(c) = <<0, 0, 0, (c4 + 1) % Base>>
      BY <1>2, <2>4, AdvancedLimbs
    <3>2. CounterPlace(advanceCounter(c)) = 0 + Base * (0 + Base * (0 + Base * ((c4 + 1) % Base)))
      BY <3>1 DEF CounterPlace
    <3>3. QED
      BY <1>1, <1>6, <1>7, <1>10, <1>11, <1>12, <2>4, <3>2
  <2>5. QED
    BY <2>1, <2>2, <2>3, <2>4
<1>14. QED
  BY <1>8, <1>9, <1>13

-----------------------------------------------------------------------------
(* Numbers and their places                                                *)

\* The place of a number is below Period, and tells the counter's numbers apart.
LEMMA PlaceType ==
  \A c \in Counters, i \in 0..3 :
    Place(<<c, i>>) = i + 4 * CounterPlace(c) /\ Place(<<c, i>>) \in 0..(Period - 1)
<1> TAKE c \in Counters, i \in 0..3
<1>1. CounterPlace(c) \in 0..(AllCounters - 1) /\ AllCounters \in Nat /\ Period = 4 * AllCounters
  BY CarriesAddOne, Sizes
<1>2. Place(<<c, i>>) = i + 4 * CounterPlace(c)
  BY DEF Place
<1>3. QED
  BY <1>1, <1>2

\* Within a counter the places are successive.
LEMMA WithinCounter ==
  \A c \in Counters, i \in 0..3, f \in Nat :
    Place(<<c, 0>>) = f % Period => Place(<<c, i>>) = (f + i) % Period
<1> TAKE c \in Counters, i \in 0..3, f \in Nat
<1>0. HAVE Place(<<c, 0>>) = f % Period
<1>1. PICK r \in 0..(Period - 1) : r = Place(<<c, 0>>)
  BY Sizes, PlaceType, Zenon
<1>2. Place(<<c, i>>) = r + i /\ r + i \in 0..(Period - 1)
  <2>1. PICK p : p = CounterPlace(c)
    OBVIOUS
  <2>2. Place(<<c, i>>) = i + 4 * p /\ Place(<<c, 0>>) = 0 + 4 * p /\ Place(<<c, i>>) \in 0..(Period - 1)
    BY <2>1, Sizes, PlaceType, Zenon
  <2>3. p \in Nat
    BY <2>1, CarriesAddOne, Sizes
  <2>4. QED
    BY <1>1, <2>2, <2>3
<1>3. ((f % Period) + i) % Period = (f + i) % Period
  <2>1. i \in Nat
    OBVIOUS
  <2>2. QED
    BY <2>1, Sizes, ModAdd, Zenon
<1>4. (r + i) % Period = r + i
  <2>1. r + i = Period * 0 + (r + i) /\ r + i \in Nat /\ Period \in Nat \ {0}
    BY <1>2, Sizes
  <2>2. QED
    BY <1>2, <2>1, RemainderOf
<1>5. QED
  BY <1>0, <1>1, <1>2, <1>3, <1>4

\* The number that follows is in the next place: it is the next one of the
\* counter or, after the last one, the first one of the next counter.
LEMMA NextNumber ==
  \A c \in Counters, p \in 0..3, f \in Nat :
    Place(<<c, p>>) = f % Period =>
      /\ p # 3 => Place(<<c, p + 1>>) = (f + 1) % Period
      /\ p = 3 => Place(<<advanceCounter(c), 0>>) = (f + 1) % Period
<1> TAKE c \in Counters, p \in 0..3, f \in Nat
<1>1. HAVE Place(<<c, p>>) = f % Period
<1>2. PICK v \in 0..(AllCounters - 1) : v = CounterPlace(c)
  BY CarriesAddOne
<1>3. Place(<<c, p>>) = p + 4 * v
  BY <1>2, PlaceType
<1>4. ((f % Period) + 1) % Period = (f + 1) % Period
  <2>1. 1 \in Nat
    OBVIOUS
  <2>2. QED
    BY <2>1, Sizes, ModAdd, Zenon
<1>5. (p + 4 * v + 1) % Period = (f + 1) % Period
  BY <1>1, <1>3, <1>4
<1>6. ASSUME p # 3 PROVE Place(<<c, p + 1>>) = (f + 1) % Period
  <2>1. p + 1 \in 0..3
    BY <1>6
  <2>2. Place(<<c, p + 1>>) = p + 1 + 4 * v /\ Place(<<c, p + 1>>) \in 0..(Period - 1)
    BY <1>2, <2>1, PlaceType
  <2>3. p + 1 + 4 * v = p + 4 * v + 1 /\ p + 4 * v + 1 \in Nat
    BY <1>2, Sizes
  <2>4. PICK z \in Nat : z = p + 4 * v + 1
    BY <2>3
  <2>5. z = Period * 0 + z /\ z \in 0..(Period - 1)
    BY <2>2, <2>3, <2>4, Sizes
  <2>6. z % Period = z
    BY <2>5, Sizes, RemainderOf
  <2>7. QED
    BY <1>5, <2>2, <2>3, <2>4, <2>6
<1>7. ASSUME p = 3 PROVE Place(<<advanceCounter(c), 0>>) = (f + 1) % Period
  <2>1. CounterPlace(advanceCounter(c)) = (v + 1) % AllCounters
    BY <1>2, CarriesAddOne
  <2>2. PICK q \in Nat : q = (v + 1) % AllCounters
    BY Sizes
  <2>3. Place(<<advanceCounter(c), 0>>) = 0 + 4 * CounterPlace(advanceCounter(c))
    BY Sizes, AdvancedLimbs, PlaceType, Zenon
  <2>4. Place(<<advanceCounter(c), 0>>) = 4 * ((v + 1) % AllCounters)
    BY <2>1, <2>2, <2>3
  <2>5. 4 * ((v + 1) % AllCounters) = (3 + 4 * v + 1) % (4 * AllCounters)
    BY Sizes, AddOne
  <2>6. QED
    BY <1>5, <1>7, <2>4, <2>5, Sizes
<1>8. QED
  BY <1>6, <1>7

\* The first number of the next counter is four places on.
LEMMA NextCounter ==
  \A c \in Counters, f \in Nat :
    Place(<<c, 0>>) = f % Period => Place(<<advanceCounter(c), 0>>) = (f + 4) % Period
<1> TAKE c \in Counters, f \in Nat
<1>1. HAVE Place(<<c, 0>>) = f % Period
<1>2. PICK g \in Nat : g = f + 3
  OBVIOUS
<1>3. Place(<<c, 3>>) = g % Period
  BY <1>1, <1>2, Sizes, WithinCounter, Zenon
<1>4. Place(<<advanceCounter(c), 0>>) = (g + 1) % Period
  BY <1>3, Sizes, NextNumber, Zenon
<1>5. g + 1 = f + 4
  BY <1>2
<1>6. QED
  BY <1>4, <1>5

-----------------------------------------------------------------------------
(* The counter before the first number                                     *)

\* What the constructors of engine e skip, in counters, and where they arrive.
Skipped(i, e) == IF i.kind = "Single" THEN (i.offset[e] % (Base * Base)) \div 4 ELSE i.offset[e]
Arrived(i, e) == skip4(skipSubsequence(<<0, 0, 0, 0>>, i.subsequence[e]), Skipped(i, e))
\* The place of the first number: that of the next counter or, since nextVector
\* advances once more, of the one after it.
FirstPlace(i, e) == 4 * (CounterPlace(Arrived(i, e)) + (IF i.kind = "Single" THEN 1 ELSE 2))

\* The limbs of a number that is skipped.
LEMMA Limbs ==
  \A x \in Nat : lowBits(x) \in 0..(Base - 1) /\ highBits(x) \in 0..(Base - 1)
<1> TAKE x \in Nat
<1>1. Base \in Nat /\ Base > 0
  BY Sizes
<1>2. \A y \in Nat : y % Base \in 0..(Base - 1) /\ y \div Base \in Nat
  BY <1>1
<1>3. x \div Base \in Nat
  BY <1>2
<1>4. QED
  BY <1>2, <1>3 DEF lowBits, highBits

\* The counter that the constructors arrive at, limb by limb.  The number of
\* the subsequence is in the upper half, except that a carry is added to it
\* that depends on the lower limbs of both numbers.
LEMMA ArrivedLimbs ==
  \A i \in Inputs, e \in Engines :
    /\ Skipped(i, e) \in Nat /\ i.subsequence[e] \in Nat /\ Arrived(i, e) \in Counters
    /\ Arrived(i, e) =
         <<lowBits(Skipped(i, e)), highBits(Skipped(i, e)), lowBits(i.subsequence[e]),
           (highBits(i.subsequence[e])
              + (IF lowBits(Skipped(i, e)) < lowBits(i.subsequence[e]) THEN 1 ELSE 0)) % Base>>
<1> TAKE i \in Inputs, e \in Engines
<1>1. Base \in Nat /\ Base > 0 /\ Base * Base \in Nat /\ Base * Base > 0
  BY Sizes
<1>2. PICK sub \in Nat : sub = i.subsequence[e]
  BY <1>1, PhiloxAssumption
<1>3. i.offset[e] \in Nat
  BY <1>1, PhiloxAssumption
<1>4. PICK o \in Nat : o = Skipped(i, e)
  <2>1. i.offset[e] % (Base * Base) \in Nat
    BY <1>1, <1>3
  <2>2. (i.offset[e] % (Base * Base)) \div 4 \in Nat
    BY <2>1
  <2>3. QED
    BY <1>3, <2>2 DEF Skipped
<1>5. PICK lo \in 0..(Base - 1), hi \in 0..(Base - 1), a \in 0..(Base - 1), b \in 0..(Base - 1) :
        lo = lowBits(sub) /\ hi = highBits(sub) /\ a = lowBits(o) /\ b = highBits(o)
  BY Limbs
<1>6. \A x \in 0..(Base - 1) : x % Base = x
  <2>1. TAKE x \in 0..(Base - 1)
  <2>2. x = Base * 0 + x /\ x \in Nat
    BY <1>1
  <2>3. QED
    BY <1>1, <2>2, RemainderOf
<1>7. skipSubsequence(<<0, 0, 0, 0>>, sub) = <<0, 0, lo, hi>>
  <2>1. (0 + lo) % Base = lo /\ (0 + hi + 0) % Base = hi /\ ~(lo < 0)
    BY <1>1, <1>6
  <2>2. QED
    BY <1>5, <2>1 DEF skipSubsequence
<1>8. skip4(<<0, 0, lo, hi>>, o) = <<a, b, lo, (hi + (IF a < lo THEN 1 ELSE 0)) % Base>>
  <2>1. (0 + a) % Base = a /\ (0 + b + 0) % Base = b /\ ~(a < 0) /\ (lo + 0) % Base = lo
    BY <1>1, <1>6
  <2>2. QED
    BY <1>5, <2>1 DEF skip4
<1>9. (hi + (IF a < lo THEN 1 ELSE 0)) % Base \in 0..(Base - 1)
  BY <1>1
<1>10. Arrived(i, e) = <<a, b, lo, (hi + (IF a < lo THEN 1 ELSE 0)) % Base>>
  BY <1>2, <1>4, <1>7, <1>8 DEF Arrived
<1>11. Arrived(i, e) \in Counters
  BY <1>9, <1>10 DEF Counters
<1>12. QED
  BY <1>2, <1>4, <1>5, <1>10, <1>11

\* A multiple that is small is zero.
LEMMA SmallMultiple ==
  \A n \in Nat \ {0} : \A u \in Int : -n < n * u /\ n * u < n => u = 0
<1> TAKE n \in Nat \ {0}
<1> TAKE u \in Int
<1>1. ASSUME u >= 1 PROVE n * u >= n
  BY <1>1
<1>2. ASSUME u <= -1 PROVE n * u <= -n
  BY <1>2
<1>3. n * u \in Int
  OBVIOUS
<1>4. QED
  BY <1>1, <1>2, <1>3

\* A number of two limbs is determined by them.
LEMMA TwoLimbs ==
  \A x, y \in 0..(Base * Base - 1) : lowBits(x) = lowBits(y) /\ highBits(x) = highBits(y) => x = y
<1>1. Base \in Nat /\ Base > 0 /\ Base * Base \in Nat
  BY Sizes
<1>2. \A x \in 0..(Base * Base - 1) : x = Base * highBits(x) + lowBits(x)
  <2>1. TAKE x \in 0..(Base * Base - 1)
  <2>2. PICK q \in Nat, r \in 0..(Base - 1) : q = x \div Base /\ r = x % Base /\ x = Base * q + r
    BY <1>1
  <2>3. q < Base
    <3>1. SUFFICES ASSUME q >= Base PROVE FALSE
      BY <1>1
    <3>2. Base * q >= Base * Base /\ Base * q \in Nat
      BY <1>1, <3>1
    <3>3. QED
      BY <1>1, <2>2, <3>2
  <2>4. q % Base = q
    <3>1. q = Base * 0 + q /\ q \in 0..(Base - 1)
      BY <1>1, <2>3
    <3>2. QED
      BY <1>1, <3>1, RemainderOf
  <2>5. highBits(x) = q /\ lowBits(x) = r
    BY <2>2, <2>4 DEF highBits, lowBits
  <2>6. QED
    BY <2>2, <2>5
<1>3. QED
  BY <1>2, Zenon

\* Limbs that agree after one and the same carry agree.
LEMMA CarryIsInjective ==
  \A x, y \in 0..(Base - 1), t \in 0..1 : (x + t) % Base = (y + t) % Base => x = y
<1> TAKE x, y \in 0..(Base - 1), t \in 0..1
<1>1. HAVE (x + t) % Base = (y + t) % Base
<1>2. Base \in Nat /\ Base > 0
  BY Sizes
<1>3. PICK v \in Nat, w \in Nat : v = x + t /\ w = y + t
  OBVIOUS
<1>4. v % Base = w % Base
  BY <1>1, <1>3
<1>5. PICK m \in Int : v - w = Base * m
  <2>1. Base \in Nat \ {0}
    BY <1>2
  <2>2. QED
    BY <1>4, <2>1, SameRemainder, Zenon
<1>6. -Base < Base * m /\ Base * m < Base
  BY <1>2, <1>3, <1>5
<1>7. m = 0
  <2>1. Base \in Nat \ {0}
    BY <1>2
  <2>2. QED
    BY <1>6, <2>1, SmallMultiple
<1>8. QED
  BY <1>2, <1>3, <1>5, <1>7

\* The constructors take different subsequences and one offset to counters that
\* agree in the lower half and differ in the upper one.
LEMMA SkipKeepsApart ==
  \A i \in Inputs :
    i.subsequence[1] # i.subsequence[2] /\ i.offset[1] = i.offset[2] =>
      \E l \in Nat, g, h \in 0..(Base * Base - 1) :
        /\ g # h
        /\ CounterPlace(Arrived(i, 1)) = l + (Base * Base) * g
        /\ CounterPlace(Arrived(i, 2)) = l + (Base * Base) * h
<1> TAKE i \in Inputs
<1>1. HAVE i.subsequence[1] # i.subsequence[2] /\ i.offset[1] = i.offset[2]
<1>2. Base \in Nat /\ Base > 0 /\ Base * Base \in Nat
  BY Sizes
<1>3. 1 \in Engines /\ 2 \in Engines
  BY DEF Engines
<1>4. Skipped(i, 1) = Skipped(i, 2)
  BY <1>1 DEF Skipped
<1>5. PICK a \in 0..(Base - 1), b \in 0..(Base - 1) :
        a = lowBits(Skipped(i, 1)) /\ b = highBits(Skipped(i, 1))
  BY <1>3, ArrivedLimbs, Limbs, Zenon
<1>6. PICK lo1 \in 0..(Base - 1), hi1 \in 0..(Base - 1), lo2 \in 0..(Base - 1), hi2 \in 0..(Base - 1) :
        /\ lo1 = lowBits(i.subsequence[1]) /\ hi1 = highBits(i.subsequence[1])
        /\ lo2 = lowBits(i.subsequence[2]) /\ hi2 = highBits(i.subsequence[2])
  BY <1>3, ArrivedLimbs, Limbs, Zenon
<1>7. PICK t1 \in 0..1, t2 \in 0..1 :
        t1 = (IF a < lo1 THEN 1 ELSE 0) /\ t2 = (IF a < lo2 THEN 1 ELSE 0)
  OBVIOUS
<1>8. PICK x1 \in 0..(Base - 1), x2 \in 0..(Base - 1) :
        x1 = (hi1 + t1) % Base /\ x2 = (hi2 + t2) % Base
  BY <1>2
<1>9. Arrived(i, 1) = <<a, b, lo1, x1>> /\ Arrived(i, 2) = <<a, b, lo2, x2>>
  <2>1. Arrived(i, 1) = <<a, b, lo1, x1>>
    BY <1>3, <1>5, <1>6, <1>7, <1>8, ArrivedLimbs, Zenon
  <2>2. Arrived(i, 2) = <<a, b, lo2, x2>>
    BY <1>3, <1>4, <1>5, <1>6, <1>7, <1>8, ArrivedLimbs, Zenon
  <2>3. QED
    BY <2>1, <2>2
<1>10. PICK g \in 0..(Base * Base - 1), h \in 0..(Base * Base - 1) :
         g = lo1 + Base * x1 /\ h = lo2 + Base * x2
  BY <1>2, TwoDigits
<1>11. g # h
  <2>1. SUFFICES ASSUME g = h PROVE FALSE
    OBVIOUS
  <2>2. Base * x1 + lo1 = Base * x2 + lo2
    BY <1>2, <1>10, <2>1
  <2>3. x1 = x2 /\ lo1 = lo2
    BY <1>2, <2>2, DivModUnique
  <2>4. t1 = t2
    BY <1>7, <2>3
  <2>5. hi1 = hi2
    BY <1>8, <2>3, <2>4, CarryIsInjective
  <2>6. i.subsequence[1] = i.subsequence[2]
    <3>1. i.subsequence[1] \in 0..(Base * Base - 1) /\ i.subsequence[2] \in 0..(Base * Base - 1)
      BY <1>3, PhiloxAssumption
    <3>2. QED
      BY <1>6, <2>3, <2>5, <3>1, TwoLimbs
  <2>7. QED
    BY <1>1, <2>6
<1>12. PICK l \in Nat : l = a + Base * b
  BY <1>2
<1>13. a + Base * (b + Base * g) = l + (Base * Base) * g /\ a + Base * (b + Base * h) = l + (Base * Base) * h
  <2>1. g \in Nat /\ h \in Nat /\ a \in Nat /\ b \in Nat
    BY <1>2
  <2>2. \A n, c, d, k \in Nat : c + n * (d + n * k) = (c + n * d) + (n * n) * k
    OBVIOUS
  <2>3. QED
    BY <1>2, <1>12, <2>1, <2>2
<1>14. /\ CounterPlace(Arrived(i, 1)) = a + Base * (b + Base * g)
       /\ CounterPlace(Arrived(i, 2)) = a + Base * (b + Base * h)
  BY <1>9, <1>10 DEF CounterPlace
<1>15. QED
  BY <1>11, <1>13, <1>14

-----------------------------------------------------------------------------
(* The invariant                                                           *)

\* The number that engine e gives out next.
Upcoming(e) ==
  IF in.kind = "Single" THEN <<state[e].counter, state[e].position>>
  ELSE <<advanceCounter(state[e].counter), 0>>

TypeInv ==
  /\ in \in Inputs
  /\ drawn \in [Engines -> Seq(Numbers)]
  /\ state \in [Engines -> [counter : Counters, result : [1..4 -> Numbers \cup {0}], position : 0..3]]

\* The numbers left of the counter are in front of the intermediate result.
FrontInv ==
  in.kind = "Single" =>
    \A e \in Engines : \A k \in 1..(4 - state[e].position) :
      state[e].result[k] = <<state[e].counter, state[e].position + (k - 1)>>

\* What was given out, and what comes next, follow from the first place.
PlaceInv ==
  \A e \in Engines :
    /\ \A k \in 1..Len(drawn[e]) : Place(drawn[e][k]) = (FirstPlace(in, e) + (k - 1)) % Period
    /\ Place(Upcoming(e)) = (FirstPlace(in, e) + Len(drawn[e])) % Period

PhiloxInv == TypeInv /\ FrontInv /\ PlaceInv

\* The results of one counter are numbers, and a sequence of four.
LEMMA Rounds ==
  \A c \in Counters :
    /\ nRounds(c) \in [1..4 -> Numbers \cup {0}] /\ nRounds(c) \in Seq(Numbers) /\ Len(nRounds(c)) = 4
    /\ \A k \in 1..4 : nRounds(c)[k] = <<c, k - 1>>
<1> TAKE c \in Counters
<1>1. \A k \in 1..4 : <<c, k - 1>> \in Numbers
  BY DEF Numbers
<1>2. nRounds(c) \in [1..4 -> Numbers]
  BY <1>1 DEF nRounds
<1>3. nRounds(c) \in Seq(Numbers) /\ Len(nRounds(c)) = 4
  <2>1. nRounds(c) = <<<<c, 0>>, <<c, 1>>, <<c, 2>>, <<c, 3>>>>
    BY DEF nRounds
  <2>2. <<c, 0>> \in Numbers /\ <<c, 1>> \in Numbers /\ <<c, 2>> \in Numbers /\ <<c, 3>> \in Numbers
    BY DEF Numbers
  <2>3. QED
    BY <2>1, <2>2
<1>4. QED
  BY <1>2, <1>3 DEF nRounds

\* The place of the first number.
LEMMA FirstPlaceType == \A i \in Inputs, e \in Engines : FirstPlace(i, e) \in Nat
<1> TAKE i \in Inputs, e \in Engines
<1>1. CounterPlace(Arrived(i, e)) \in Nat
  BY ArrivedLimbs, CarriesAddOne, Sizes
<1>2. QED
  BY <1>1 DEF FirstPlace

\* The number of the counter that follows the one arrived at.
LEMMA FirstCounter ==
  \A c \in Counters : /\ Place(<<advanceCounter(c), 0>>) = (4 * (CounterPlace(c) + 1)) % Period
                      /\ Place(<<advanceCounter(advanceCounter(c)), 0>>) = (4 * (CounterPlace(c) + 2)) % Period
<1> TAKE c \in Counters
<1>1. PICK p \in Nat : p = CounterPlace(c) /\ p \in 0..(AllCounters - 1)
  BY CarriesAddOne, Sizes
<1>2. PICK f \in Nat : f = 4 * p
  BY <1>1
<1>3. Place(<<c, 0>>) = f % Period
  <2>1. Place(<<c, 0>>) = 0 + 4 * CounterPlace(c) /\ Place(<<c, 0>>) \in 0..(Period - 1)
    BY Sizes, PlaceType, Zenon
  <2>2. f = Period * 0 + f /\ f \in 0..(Period - 1) /\ Place(<<c, 0>>) = f
    BY <1>1, <1>2, <2>1, Sizes
  <2>3. f % Period = f
    BY <2>2, Sizes, RemainderOf
  <2>4. QED
    BY <2>2, <2>3
<1>4. Place(<<advanceCounter(c), 0>>) = (f + 4) % Period
  BY <1>3, NextCounter
<1>5. PICK d \in Counters : d = advanceCounter(c)
  BY AdvancedLimbs
<1>6. PICK g \in Nat : g = f + 4
  OBVIOUS
<1>7. Place(<<d, 0>>) = g % Period
  BY <1>4, <1>5, <1>6
<1>8. Place(<<advanceCounter(d), 0>>) = (g + 4) % Period
  BY <1>7, NextCounter
<1>9. f + 4 = 4 * (CounterPlace(c) + 1) /\ g + 4 = 4 * (CounterPlace(c) + 2)
  BY <1>1, <1>2, <1>6
<1>10. QED
  BY <1>4, <1>5, <1>8, <1>9

\* The constructors: both engines are before the first counter.
LEMMA Constructed ==
  \A i \in Inputs, e \in Engines :
    /\ i.kind = "Single" =>
         PhiloxSingle(i.subsequence[e], i.offset[e]) =
           [counter |-> advanceCounter(Arrived(i, e)), result |-> nRounds(advanceCounter(Arrived(i, e))),
            position |-> 0]
    /\ i.kind # "Single" =>
         PhiloxVector(i.subsequence[e], i.offset[e]) =
           [counter |-> advanceCounter(Arrived(i, e)), result |-> <<0, 0, 0, 0>>, position |-> 0]
<1> TAKE i \in Inputs, e \in Engines
<1>1. PICK sub, off \in Nat : sub = i.subsequence[e] /\ off = i.offset[e]
  BY PhiloxAssumption, Sizes
<1>2. ASSUME i.kind = "Single"
      PROVE  PhiloxSingle(sub, off) =
               [counter |-> advanceCounter(Arrived(i, e)), result |-> nRounds(advanceCounter(Arrived(i, e))),
                position |-> 0]
  <2>1. PICK s : s = [Start EXCEPT !.counter = skipSubsequence(@, sub)]
    OBVIOUS
  <2>2. s.counter = skipSubsequence(<<0, 0, 0, 0>>, sub) /\ s.position = 0
    BY <2>1 DEF Start
  <2>3. s.position + (off % 4) < 4
    BY <2>2
  <2>4. skip(s, off).counter = skip4(s.counter, (off % (Base * Base)) \div 4)
    BY <2>3 DEF skip
  <2>5. skip(s, off).counter = Arrived(i, e)
    BY <1>1, <1>2, <2>2, <2>4 DEF Arrived, Skipped
  <2>6. PhiloxSingle(sub, off) = advanceState(skip(s, off))
    BY <2>1 DEF PhiloxSingle
  <2>7. QED
    BY <2>5, <2>6 DEF advanceState
<1>3. ASSUME i.kind # "Single"
      PROVE  PhiloxVector(sub, off) =
               [counter |-> advanceCounter(Arrived(i, e)), result |-> <<0, 0, 0, 0>>, position |-> 0]
  <2>1. Arrived(i, e) = skip4(skipSubsequence(<<0, 0, 0, 0>>, sub), off)
    BY <1>1, <1>3 DEF Arrived, Skipped
  <2>2. QED
    BY <2>1 DEF PhiloxVector, Start
<1>4. QED
  BY <1>1, <1>2, <1>3

\* The constructors establish the invariant.
LEMMA InitInv == PhiloxInit => PhiloxInv
<1>1. HAVE PhiloxInit
<1>2. in \in Inputs
  BY <1>1 DEF PhiloxInit
<1>3. \A e \in Engines : drawn[e] = <<>>
  BY <1>1 DEF PhiloxInit
<1>4. \A e \in Engines : Arrived(in, e) \in Counters /\ advanceCounter(Arrived(in, e)) \in Counters
  BY <1>2, ArrivedLimbs, AdvancedLimbs
<1>5. \A e \in Engines : /\ state[e].counter = advanceCounter(Arrived(in, e)) /\ state[e].position = 0
                         /\ in.kind = "Single" => state[e].result = nRounds(state[e].counter)
                         /\ state[e] \in [counter : Counters, result : [1..4 -> Numbers \cup {0}], position : 0..3]
  <2>1. TAKE e \in Engines
  <2>2. PICK c \in Counters : c = advanceCounter(Arrived(in, e))
    BY <1>4
  <2>3. CASE in.kind = "Single"
    <3>1. state[e] = [counter |-> c, result |-> nRounds(c), position |-> 0]
      BY <1>1, <1>2, <2>2, <2>3, Constructed DEF PhiloxInit
    <3>2. QED
      BY <2>2, <3>1, Rounds
  <2>4. CASE in.kind # "Single"
    <3>1. state[e] = [counter |-> c, result |-> <<0, 0, 0, 0>>, position |-> 0]
      BY <1>1, <1>2, <2>2, <2>4, Constructed DEF PhiloxInit
    <3>2. QED
      BY <2>2, <2>4, <3>1
  <2>5. QED
    BY <2>3, <2>4
<1>6. TypeInv
  BY <1>1, <1>5 DEF TypeInv, PhiloxInit
<1>7. FrontInv
  <2>1. SUFFICES ASSUME in.kind = "Single", NEW e \in Engines, NEW k \in 1..(4 - state[e].position)
                 PROVE  state[e].result[k] = <<state[e].counter, state[e].position + (k - 1)>>
    BY DEF FrontInv
  <2>2. PICK c \in Counters : c = state[e].counter /\ state[e].result = nRounds(c) /\ state[e].position = 0
    BY <1>5, <2>1
  <2>3. k \in 1..4 /\ 0 + (k - 1) = k - 1
    BY <2>1, <2>2
  <2>4. nRounds(c)[k] = <<c, k - 1>>
    BY <2>3, Rounds
  <2>5. QED
    BY <2>2, <2>3, <2>4
<1>8. PlaceInv
  <2>1. SUFFICES ASSUME NEW e \in Engines PROVE Place(Upcoming(e)) = FirstPlace(in, e) % Period
    <3>1. \A f \in Engines : Len(drawn[f]) = 0 /\ FirstPlace(in, f) + 0 = FirstPlace(in, f)
      BY <1>2, <1>3, FirstPlaceType
    <3>2. QED
      BY <2>1, <3>1 DEF PlaceInv
  <2>2. PICK a \in Counters : a = Arrived(in, e) /\ state[e].counter = advanceCounter(a) /\ state[e].position = 0
    BY <1>4, <1>5
  <2>3. CASE in.kind = "Single"
    BY <2>2, <2>3, FirstCounter DEF Upcoming, FirstPlace
  <2>4. CASE in.kind # "Single"
    BY <2>2, <2>4, FirstCounter DEF Upcoming, FirstPlace
  <2>5. QED
    BY <2>3, <2>4
<1>9. QED
  BY <1>6, <1>7, <1>8 DEF PhiloxInv

\* PhiloxSingle: a number in front is given out, and the next one follows it,
\* in the same counter or, after the fourth, in the next.
LEMMA DrawNumberInv == PhiloxInv /\ DrawNumber => PhiloxInv'
<1>1. HAVE PhiloxInv /\ DrawNumber
<1>2. TypeInv /\ FrontInv /\ PlaceInv
  BY <1>1 DEF PhiloxInv
<1>3. in.kind = "Single" /\ in' = in /\ in \in Inputs
  BY <1>1, <1>2 DEF DrawNumber, TypeInv
<1>4. ASSUME NEW e \in Engines
      PROVE  /\ drawn'[e] \in Seq(Numbers)
             /\ state'[e] \in [counter : Counters, result : [1..4 -> Numbers \cup {0}], position : 0..3]
             /\ \A k \in 1..(4 - state'[e].position) :
                  state'[e].result[k] = <<state'[e].counter, state'[e].position + (k - 1)>>
             /\ \A k \in 1..Len(drawn'[e]) : Place(drawn'[e][k]) = (FirstPlace(in, e) + (k - 1)) % Period
             /\ Place(<<state'[e].counter, state'[e].position>>) = (FirstPlace(in, e) + Len(drawn'[e])) % Period
  <2>1. PICK c \in Counters, r \in [1..4 -> Numbers \cup {0}], p \in 0..3 :
          state[e] = [counter |-> c, result |-> r, position |-> p]
    BY <1>2 DEF TypeInv
  <2>2. PICK d \in Seq(Numbers) : d = drawn[e]
    BY <1>2 DEF TypeInv
  <2>3. PICK f \in Nat : f = FirstPlace(in, e)
    BY <1>3, FirstPlaceType
  <2>4. \A k \in 1..(4 - p) : r[k] = <<c, p + (k - 1)>>
    BY <1>2, <1>3, <2>1 DEF FrontInv
  <2>5. \A k \in 1..Len(d) : Place(d[k]) = (f + (k - 1)) % Period
    BY <1>2, <2>2, <2>3 DEF PlaceInv
  <2>6. Place(<<c, p>>) = (f + Len(d)) % Period
    BY <1>2, <1>3, <2>1, <2>2, <2>3 DEF PlaceInv, Upcoming
  <2>7. r[1] = <<c, p>> /\ r[1] \in Numbers
    <3>1. 1 \in 1..(4 - p) /\ p + (1 - 1) = p
      OBVIOUS
    <3>2. r[1] = <<c, p>>
      BY <2>4, <3>1
    <3>3. QED
      BY <3>2 DEF Numbers
  <2>8. drawn'[e] = Append(d, r[1])
    BY <1>1, <2>1, <2>2 DEF DrawNumber
  <2>9. PICK n \in Nat : n = Len(d)
    BY <2>2
  <2>10. /\ drawn'[e] \in Seq(Numbers) /\ Len(drawn'[e]) = n + 1 /\ drawn'[e][n + 1] = <<c, p>>
         /\ \A k \in 1..n : drawn'[e][k] = d[k]
    BY <2>7, <2>8, <2>9, AppendProperties
  <2>11. ASSUME NEW k \in 1..Len(drawn'[e])
         PROVE  Place(drawn'[e][k]) = (f + (k - 1)) % Period
    <3>1. CASE k \in 1..n
      BY <2>5, <2>9, <2>10, <3>1
    <3>2. CASE k = n + 1
      <4>1. f + (k - 1) = f + n
        BY <3>2
      <4>2. QED
        BY <2>6, <2>9, <2>10, <3>2, <4>1
    <3>3. QED
      BY <2>10, <2>11, <3>1, <3>2
  <2>12. state'[e] = nextNumber(state[e])
    BY <1>1 DEF DrawNumber
  <2>13. (f + n) + 1 = f + Len(drawn'[e]) /\ f + n \in Nat
    BY <2>10
  <2>14. CASE p = 3
    <3>1. PICK a \in Counters : a = advanceCounter(c)
      BY AdvancedLimbs
    <3>2. state'[e] = [counter |-> a, result |-> nRounds(a), position |-> 0]
      BY <2>1, <2>12, <2>14, <3>1 DEF nextNumber, advanceState
    <3>3. Place(<<a, 0>>) = ((f + n) + 1) % Period
      BY <2>6, <2>9, <2>13, <2>14, <3>1, NextNumber
    <3>4. \A k \in 1..4 : nRounds(a)[k] = <<a, 0 + (k - 1)>>
      BY Rounds
    <3>5. state'[e].counter = a /\ state'[e].result = nRounds(a) /\ state'[e].position = 0
      BY <3>2
    <3>6. state'[e] \in [counter : Counters, result : [1..4 -> Numbers \cup {0}], position : 0..3]
      BY <3>2, Rounds
    <3>7. \A k \in 1..(4 - state'[e].position) :
            state'[e].result[k] = <<state'[e].counter, state'[e].position + (k - 1)>>
      BY <3>4, <3>5
    <3>8. QED
      BY <2>3, <2>10, <2>11, <2>13, <3>3, <3>5, <3>6, <3>7
  <2>15. CASE p # 3
    <3>1. p + 1 \in 0..3
      BY <2>15
    <3>2. PICK t \in [1..4 -> Numbers \cup {0}] :
            t = Shift(r) /\ \A k \in 1..3 : t[k] = r[k + 1]
      <4>1. PICK t : t = <<r[2], r[3], r[4], r[4]>>
        OBVIOUS
      <4>2. \A k \in 1..3 : t[k] = r[k + 1]
        BY <4>1
      <4>3. t \in [1..4 -> Numbers \cup {0}]
        BY <4>1
      <4>4. QED
        BY <4>1, <4>2, <4>3 DEF Shift
    <3>3. state'[e] = [counter |-> c, result |-> t, position |-> p + 1]
      <4>1. state[e].position + 1 # 4 /\ state[e].position = p /\ state[e].result = r /\ state[e].counter = c
        BY <2>1, <2>15
      <4>2. QED
        BY <2>12, <3>2, <4>1 DEF nextNumber
    <3>4. Place(<<c, p + 1>>) = ((f + n) + 1) % Period
      BY <2>6, <2>9, <2>13, <2>15, NextNumber
    <3>5. \A k \in 1..(4 - (p + 1)) : t[k] = <<c, (p + 1) + (k - 1)>>
      <4>1. TAKE k \in 1..(4 - (p + 1))
      <4>2. k \in 1..3 /\ k + 1 \in 1..(4 - p) /\ p + ((k + 1) - 1) = (p + 1) + (k - 1)
        OBVIOUS
      <4>3. QED
        BY <2>4, <3>2, <4>2
    <3>6. QED
      BY <2>3, <2>10, <2>11, <2>13, <3>1, <3>3, <3>4, <3>5
  <2>16. QED
    BY <2>14, <2>15
<1>5. TypeInv'
  <2>1. drawn' = [e \in Engines |-> drawn'[e]] /\ state' = [e \in Engines |-> state'[e]]
    BY <1>1 DEF DrawNumber
  <2>2. QED
    BY <1>3, <1>4, <2>1 DEF TypeInv
<1>6. FrontInv'
  BY <1>4 DEF FrontInv
<1>7. PlaceInv'
  BY <1>3, <1>4 DEF PlaceInv, Upcoming
<1>8. QED
  BY <1>5, <1>6, <1>7 DEF PhiloxInv

\* PhiloxVector: the four numbers of the next counter are given out.
LEMMA DrawVectorInv == PhiloxInv /\ DrawVector => PhiloxInv'
<1>1. HAVE PhiloxInv /\ DrawVector
<1>2. TypeInv /\ FrontInv /\ PlaceInv
  BY <1>1 DEF PhiloxInv
<1>3. in.kind # "Single" /\ in' = in /\ in \in Inputs
  BY <1>1, <1>2 DEF DrawVector, TypeInv
<1>4. ASSUME NEW e \in Engines
      PROVE  /\ drawn'[e] \in Seq(Numbers)
             /\ state'[e] \in [counter : Counters, result : [1..4 -> Numbers \cup {0}], position : 0..3]
             /\ \A k \in 1..Len(drawn'[e]) : Place(drawn'[e][k]) = (FirstPlace(in, e) + (k - 1)) % Period
             /\ Place(<<advanceCounter(state'[e].counter), 0>>) = (FirstPlace(in, e) + Len(drawn'[e])) % Period
  <2>1. PICK c \in Counters : c = advanceCounter(state[e].counter)
    BY <1>2, AdvancedLimbs DEF TypeInv
  <2>2. PICK d \in Seq(Numbers) : d = drawn[e]
    BY <1>2 DEF TypeInv
  <2>3. PICK f \in Nat : f = FirstPlace(in, e)
    BY <1>3, FirstPlaceType
  <2>4. \A k \in 1..Len(d) : Place(d[k]) = (f + (k - 1)) % Period
    BY <1>2, <2>2, <2>3 DEF PlaceInv
  <2>5. PICK n \in Nat : n = Len(d)
    BY <2>2
  <2>6. PICK g \in Nat : g = f + n
    OBVIOUS
  <2>7. Place(<<c, 0>>) = g % Period
    BY <1>2, <1>3, <2>1, <2>2, <2>3, <2>5, <2>6 DEF PlaceInv, Upcoming
  <2>8. drawn'[e] = d \o nRounds(c)
    BY <1>1, <2>1, <2>2 DEF DrawVector
  <2>9. PICK t \in Seq(Numbers) : t = nRounds(c) /\ Len(t) = 4 /\ \A k \in 1..4 : t[k] = <<c, k - 1>>
    BY Rounds
  <2>10. /\ drawn'[e] \in Seq(Numbers) /\ Len(drawn'[e]) = n + 4
         /\ \A k \in 1..n : drawn'[e][k] = d[k]
         /\ \A k \in (n + 1)..(n + 4) : drawn'[e][k] = t[k - n]
    <3>1. PICK z : z = d \o t
      OBVIOUS
    <3>2. /\ z \in Seq(Numbers) /\ Len(z) = Len(d) + Len(t)
          /\ \A k \in 1..(Len(d) + Len(t)) : z[k] = IF k <= Len(d) THEN d[k] ELSE t[k - Len(d)]
      BY <3>1, ConcatProperties, Zenon
    <3>3. QED
      BY <2>5, <2>8, <2>9, <3>1, <3>2
  <2>11. ASSUME NEW k \in 1..Len(drawn'[e])
         PROVE  Place(drawn'[e][k]) = (f + (k - 1)) % Period
    <3>1. CASE k \in 1..n
      BY <2>4, <2>5, <2>10, <3>1
    <3>2. CASE k \in (n + 1)..(n + 4)
      <4>1. PICK i \in 0..3 : i = (k - n) - 1
        BY <3>2
      <4>2. k - n \in 1..4 /\ g + i = f + (k - 1)
        BY <2>6, <3>2, <4>1
      <4>3. drawn'[e][k] = <<c, i>>
        BY <2>9, <2>10, <3>2, <4>1, <4>2
      <4>4. Place(<<c, i>>) = (g + i) % Period
        BY <2>7, WithinCounter
      <4>5. QED
        BY <4>2, <4>3, <4>4
    <3>3. QED
      BY <2>10, <2>11, <3>1, <3>2
  <2>12. state'[e] = [state[e] EXCEPT !.counter = c]
    BY <1>1, <2>1 DEF DrawVector
  <2>13. /\ state'[e] \in [counter : Counters, result : [1..4 -> Numbers \cup {0}], position : 0..3]
         /\ state'[e].counter = c
    BY <1>2, <2>12 DEF TypeInv
  <2>14. Place(<<advanceCounter(c), 0>>) = (g + 4) % Period
    BY <2>7, NextCounter
  <2>15. g + 4 = f + Len(drawn'[e])
    BY <2>6, <2>10
  <2>16. QED
    BY <2>3, <2>10, <2>11, <2>13, <2>14, <2>15
<1>5. TypeInv'
  <2>1. drawn' = [e \in Engines |-> drawn'[e]] /\ state' = [e \in Engines |-> state'[e]]
    BY <1>1 DEF DrawVector
  <2>2. QED
    BY <1>3, <1>4, <2>1 DEF TypeInv
<1>6. FrontInv'
  BY <1>3 DEF FrontInv
<1>7. PlaceInv'
  BY <1>3, <1>4 DEF PlaceInv, Upcoming
<1>8. QED
  BY <1>5, <1>6, <1>7 DEF PhiloxInv

\* Both constructors establish the invariant, and drawing keeps it.
THEOREM PhiloxInvariance == PhiloxSpec => []PhiloxInv
<1>1. PhiloxInv /\ [PhiloxNext]_philoxVars => PhiloxInv'
  <2>1. SUFFICES ASSUME PhiloxInv, [PhiloxNext]_philoxVars PROVE PhiloxInv'
    OBVIOUS
  <2>2. CASE PhiloxNext
    BY <2>1, <2>2, DrawNumberInv, DrawVectorInv DEF PhiloxNext
  <2>3. CASE UNCHANGED philoxVars
    BY <2>1, <2>3 DEF philoxVars, PhiloxInv, TypeInv, FrontInv, PlaceInv, Upcoming
  <2>4. QED
    BY <2>1, <2>2, <2>3
<1>2. QED
  BY <1>1, InitInv, PTL DEF PhiloxSpec

\* Every engine gives out successive numbers, for limbs of any size and however
\* long it is used: advanceCounter and the positions lose and repeat none.
THEOREM NumbersAreConsecutive == PhiloxSpec => []Consecutive
<1>1. PhiloxInv => Consecutive
  <2>1. SUFFICES ASSUME PhiloxInv, NEW e \in Engines, NEW k \in 2..Len(drawn[e])
                 PROVE  Place(drawn[e][k]) = (Place(drawn[e][k - 1]) + 1) % Period
    BY DEF Consecutive
  <2>2. PICK f \in Nat : f = FirstPlace(in, e)
    BY <2>1, FirstPlaceType DEF PhiloxInv, TypeInv
  <2>3. \A j \in 1..Len(drawn[e]) : Place(drawn[e][j]) = (f + (j - 1)) % Period
    BY <2>1, <2>2 DEF PhiloxInv, PlaceInv
  <2>4. Len(drawn[e]) \in Nat
    BY <2>1 DEF PhiloxInv, TypeInv
  <2>5. k \in 1..Len(drawn[e]) /\ k - 1 \in 1..Len(drawn[e])
    BY <2>1, <2>4
  <2>6. PICK g \in Nat : g = f + ((k - 1) - 1) /\ g + 1 = f + (k - 1)
    BY <2>4
  <2>7. ((g % Period) + 1) % Period = (g + 1) % Period
    <3>1. 1 \in Nat
      OBVIOUS
    <3>2. QED
      BY <3>1, Sizes, ModAdd, Zenon
  <2>8. QED
    BY <2>3, <2>5, <2>6, <2>7
<1>2. QED
  BY <1>1, PhiloxInvariance, PTL

\* Engines of different subsequences and one offset give out different numbers,
\* until one has used up its subsequence, however skip4 computes its carries.
THEOREM StreamsAreDisjoint == PhiloxSpec => []SubsequencesAreDisjoint
<1>1. PhiloxInv => SubsequencesAreDisjoint
  <2>1. SUFFICES ASSUME PhiloxInv, in.subsequence[1] # in.subsequence[2], in.offset[1] = in.offset[2],
                        NEW k \in 1..Len(drawn[1]), NEW m \in 1..Len(drawn[2]),
                        k <= SubsequenceLength, m <= SubsequenceLength, drawn[1][k] = drawn[2][m]
                 PROVE  FALSE
    BY DEF SubsequencesAreDisjoint
  <2>2. in \in Inputs /\ 1 \in Engines /\ 2 \in Engines
    BY <2>1 DEF PhiloxInv, TypeInv, Engines
  <2>3. PICK b \in Nat \ {0} : b = Base * Base
    BY Sizes
  <2>4. PICK l \in Nat, g \in 0..(b - 1), h \in 0..(b - 1) :
          /\ g # h
          /\ CounterPlace(Arrived(in, 1)) = l + b * g
          /\ CounterPlace(Arrived(in, 2)) = l + b * h
    BY <2>1, <2>2, <2>3, SkipKeepsApart
  <2>5. PICK s \in 1..2 : s = IF in.kind = "Single" THEN 1 ELSE 2
    OBVIOUS
  <2>6. PICK x \in Nat, y \in Nat : x = 4 * ((l + b * g) + s) + (k - 1) /\ y = 4 * ((l + b * h) + s) + (m - 1)
    <3>1. k - 1 \in Nat /\ m - 1 \in Nat
      BY <2>1, <2>2 DEF PhiloxInv, TypeInv
    <3>2. b * g \in Nat /\ b * h \in Nat
      OBVIOUS
    <3>3. QED
      BY <3>1, <3>2
  <2>7. x % Period = y % Period
    <3>1. Place(drawn[1][k]) = (FirstPlace(in, 1) + (k - 1)) % Period
      BY <2>1, <2>2 DEF PhiloxInv, PlaceInv
    <3>2. Place(drawn[2][m]) = (FirstPlace(in, 2) + (m - 1)) % Period
      BY <2>1, <2>2 DEF PhiloxInv, PlaceInv
    <3>3. FirstPlace(in, 1) + (k - 1) = x /\ FirstPlace(in, 2) + (m - 1) = y
      BY <2>4, <2>5, <2>6 DEF FirstPlace
    <3>4. QED
      BY <2>1, <3>1, <3>2, <3>3
  <2>8. PICK t \in Int : x - y = Period * t
    <3>1. Period \in Nat \ {0}
      BY Sizes
    <3>2. QED
      BY <2>7, <3>1, SameRemainder, Zenon
  <2>9. PICK i \in Int, j \in Int : i = g - h /\ j = k - m
    <3>1. k \in Int /\ m \in Int
      BY <2>1, <2>2 DEF PhiloxInv, TypeInv
    <3>2. QED
      BY <3>1
  <2>10. Period = 4 * (b * b)
    <3>1. \A n \in Nat : n * (n * (n * n)) = (n * n) * (n * n)
      OBVIOUS
    <3>2. QED
      BY <2>3, <3>1, Sizes DEF Period
  <2>11. (4 * b) * i + j = (4 * b) * (b * t)
    <3>1. x - y = (4 * b) * i + j
      <4>1. b * i = b * g - b * h
        BY <2>9
      <4>2. PICK bg \in Nat, bh \in Nat : bg = b * g /\ bh = b * h
        OBVIOUS
      <4>3. k \in Int /\ m \in Int
        BY <2>1, <2>2 DEF PhiloxInv, TypeInv
      <4>4. x - y = 4 * (bg - bh) + (k - m)
        BY <2>6, <4>2, <4>3
      <4>5. (4 * b) * i = 4 * (b * i)
        OBVIOUS
      <4>6. QED
        BY <2>9, <4>1, <4>2, <4>4, <4>5
    <3>2. Period * t = (4 * b) * (b * t)
      BY <2>10
    <3>3. QED
      BY <2>8, <3>1, <3>2
  <2>12. PICK u \in Int : u = b * t - i
    BY <2>9
  <2>13. PICK w \in Nat \ {0} : w = 4 * b /\ w * u = j
    <3>1. (4 * b) * u = (4 * b) * (b * t) - (4 * b) * i
      BY <2>12
    <3>2. (4 * b) * (b * t) \in Int /\ (4 * b) * i \in Int
      OBVIOUS
    <3>3. QED
      BY <2>9, <2>11, <3>1, <3>2
  <2>14. -w < j /\ j < w
    <3>1. k \in 1..w /\ m \in 1..w
      BY <2>1, <2>2, <2>3, <2>13 DEF PhiloxInv, TypeInv, SubsequenceLength
    <3>2. QED
      BY <2>9, <3>1
  <2>15. u = 0
    BY <2>13, <2>14, SmallMultiple
  <2>16. b * t = i
    BY <2>12, <2>15
  <2>17. t = 0
    <3>1. -b < b * t /\ b * t < b
      BY <2>9, <2>16
    <3>2. QED
      BY <3>1, SmallMultiple
  <2>18. QED
    BY <2>4, <2>9, <2>16, <2>17
<1>2. QED
  BY <1>1, PhiloxInvariance, PTL
=============================================================================
