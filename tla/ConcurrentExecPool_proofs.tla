---------------------- MODULE ConcurrentExecPool_proofs ----------------------
(***************************************************************************)
(* Proofs about ConcurrentExecPool for every set of workers, producers and *)
(* tasks.  The inductive invariant IInv says who holds a strong reference  *)
(* to the pool and which thread may therefore be in which part of the      *)
(* destructor (RefInv), where each unfinished task package is (PlaceInv),  *)
(* and what m_numActiveTasks counts (CountInv).  On top of it come when    *)
(* the flags of the pool are set (FlagInv), which futures are pending      *)
(* (PendingInv), who has the handle of the worker (HandleInv), what the    *)
(* end of the program finds for a pool of one worker (EndInv), and the     *)
(* refinement of TaskPool.                                                 *)
(***************************************************************************)
EXTENDS ConcurrentExecPool, FiniteSetTheorems, SequenceTheorems, TLAPS

Detaching == {"register", "detachSelf", "detachFlag", "detachNotify"}

\* The producers hold the queue until the last one detaches the pool.
OwnerInv ==
  /\ \A p \in Producers : p \in owners <=> pc[p] \in {"idle", "push", "notify"}
  /\ \A p \in Producers : pc[p] \in Detaching => owners = {}
  /\ \A p, q \in Producers : pc[p] \in Detaching /\ pc[q] \in Detaching => p = q

\* Which reference stands for which place in the code.
HolderInv ==
  /\ Queue \in refs => refs = {Queue}
  /\ owners # {} => Queue \in refs
  /\ \A p \in Producers : pc[p] \in {"register", "detachSelf"} => Queue \in refs
  /\ (\A p \in Producers : pc[p] \in {"detachFlag", "detachNotify", "gone"})
        => Queue \notin refs
  /\ \A p \in Producers : pc[p] = "detachFlag" => Self \in refs /\ ~m_bDetachedFlag
  /\ m_bDetachedFlag => Self \in refs
  /\ \A w \in Workers : w \in refs <=> pc[w] = "drop"
  /\ Cleaner \in refs <=> pc[Cleaner] \in {"take", "drop"}

\* The destructor runs once, in one thread, after the last reference is gone.
DtorInv ==
  /\ \A d \in Destroyers : pc[d] \in DtorLabels => refs = {} /\ ~destroyed
  /\ \A d, e \in Destroyers : pc[d] \in DtorLabels /\ pc[e] \in DtorLabels => d = e
  /\ destroyed => refs = {} /\ \A w \in Workers : pc[w] = "exit"
  /\ \A d \in Destroyers : pc[d] = "drain" => \A w \in Workers \ {d} : pc[w] = "exit"
  /\ \A w \in Workers : pc[w] \in DtorLabels \cup {"drop"} /\ pc[Cleaner] = "start"
                          => m_qTasks = <<>>

RefInv == OwnerInv /\ HolderInv /\ DtorInv /\ BrokenOnlyAtExit

\* An unfinished package is in the queue or in the hands of one thread.
PlaceInv ==
  /\ \A w \in Workers : task[w] # NoTask <=> pc[w] \in RunningLabels
  /\ \A p \in Producers : task[p] # NoTask <=> pc[p] = "push"
  /\ \A x \in Workers \cup Producers : task[x] # NoTask => future[task[x]] = "pending"
  /\ \A x, y \in Workers \cup Producers : task[x] # NoTask /\ task[x] = task[y] => x = y
  /\ \A i \in 1..Len(m_qTasks) :
        /\ future[m_qTasks[i]] = "pending"
        /\ \A x \in Workers \cup Producers : task[x] # m_qTasks[i]
  /\ \A i, j \in 1..Len(m_qTasks) : m_qTasks[i] = m_qTasks[j] => i = j

\* The tasks m_numActiveTasks counts: those that have a future and have not
\* been counted down, which a task that throws or is broken never is.
Active == {t \in Tasks : /\ future[t] \in {"pending", "exception", "broken"}
                        /\ \A w \in Workers : ~(pc[w] = "setValue" /\ task[w] = t)}

CountInv == m_numActiveTasks = Cardinality(Active)

-----------------------------------------------------------------------------
\* Every step keeps the discipline of the references.
LEMMA RefStep ==
  ASSUME TypeOK, RefInv, [Next]_vars
  PROVE  RefInv'
<1> USE ThreadsAssumption DEF TypeOK, RefInv, OwnerInv, HolderInv, DtorInv, BrokenOnlyAtExit, Detaching, DtorLabels,
           Destroyers, Threads, Goto, MutexFree
<1>1. ASSUME NEW p \in Producers, NEW t \in Tasks, EnqueueCount(p, t) PROVE RefInv'
  BY <1>1 DEF EnqueueCount
<1>2. ASSUME NEW p \in Producers, EnqueuePush(p) PROVE RefInv'
  BY <1>2 DEF EnqueuePush
<1>3. ASSUME NEW p \in Producers, EnqueueNotify(p) PROVE RefInv'
  BY <1>3 DEF EnqueueNotify, NotifyOne
<1>4. ASSUME NEW p \in Producers, ReleaseQueue(p) PROVE RefInv'
  BY <1>4 DEF ReleaseQueue
<1>5. ASSUME NEW p \in Producers, RegisterCleanup(p) PROVE RefInv'
  BY <1>5 DEF RegisterCleanup
<1>6. ASSUME NEW p \in Producers, DetachSelf(p) PROVE RefInv'
  BY <1>6 DEF DetachSelf
<1>7. ASSUME NEW p \in Producers, DetachFlag(p) PROVE RefInv'
  BY <1>7 DEF DetachFlag
<1>8. ASSUME NEW p \in Producers, DetachNotify(p) PROVE RefInv'
  BY <1>8 DEF DetachNotify, NotifyOne
<1>9. ASSUME NEW w \in Workers, WorkerLoop(w) PROVE RefInv'
  BY <1>9 DEF WorkerLoop
<1>10. ASSUME NEW w \in Workers, WorkerPop(w) PROVE RefInv'
  BY <1>10 DEF WorkerPop
<1>11. ASSUME NEW w \in Workers, WorkerRun(w) PROVE RefInv'
  BY <1>11 DEF WorkerRun
<1>12. ASSUME NEW w \in Workers, WorkerThrow(w) PROVE RefInv'
  BY <1>12 DEF WorkerThrow
<1>13. ASSUME NEW w \in Workers, WorkerDecrement(w) PROVE RefInv'
  BY <1>13 DEF WorkerDecrement
<1>14. ASSUME NEW w \in Workers, WorkerSetValue(w) PROVE RefInv'
  BY <1>14 DEF WorkerSetValue
<1>15. ASSUME NEW w \in Workers, WorkerCheck(w) PROVE RefInv'
  <2>1. CASE m_qTasks # <<>>
    BY <1>15, <2>1 DEF WorkerCheck
  <2>2. CASE m_qTasks = <<>> /\ m_bDetachedFlag /\ Self \in refs
    <3>1. OwnerInv'
      BY <1>15, <2>2 DEF WorkerCheck
    <3>2. HolderInv'
      BY <1>15, <2>2 DEF WorkerCheck
    <3>3. DtorInv'
      BY <1>15, <2>2 DEF WorkerCheck
    <3>4. BrokenOnlyAtExit'
      BY <1>15, <2>2 DEF WorkerCheck
    <3>5. QED
      BY <3>1, <3>2, <3>3, <3>4
  <2>3. CASE m_qTasks = <<>> /\ ~(m_bDetachedFlag /\ Self \in refs)
    BY <1>15, <2>3 DEF WorkerCheck
  <2>4. QED
    BY <2>1, <2>2, <2>3
<1>16. ASSUME NEW w \in Workers, WorkerBlock(w) PROVE RefInv'
  BY <1>16 DEF WorkerBlock
<1>17. ASSUME NEW w \in Workers, WorkerWake(w) PROVE RefInv'
  BY <1>17 DEF WorkerWake, WakeupCondition
<1>18. ASSUME NEW w \in Workers, SpuriousWakeup(w) PROVE RefInv'
  BY <1>18 DEF SpuriousWakeup
<1>19. ASSUME NEW d \in Destroyers, DropHandle(d) PROVE RefInv'
  BY <1>19 DEF DropHandle
<1>20. ASSUME NEW d \in Destroyers, DtorShutdown(d) PROVE RefInv'
  BY <1>20 DEF DtorShutdown
<1>21. ASSUME NEW d \in Destroyers, DtorNotifyAll(d) PROVE RefInv'
  BY <1>21 DEF DtorNotifyAll
<1>22. ASSUME NEW d \in Destroyers, DtorJoin(d) PROVE RefInv'
  BY <1>22 DEF DtorJoin
<1>23. ASSUME NEW d \in Destroyers, DtorDrain(d) PROVE RefInv'
  BY <1>23 DEF DtorDrain
<1>24. ASSUME CleanerLock PROVE RefInv'
  BY <1>24 DEF CleanerLock
<1>25. ASSUME CleanerTake PROVE RefInv'
  BY <1>25 DEF CleanerTake
<1>26. ASSUME UNCHANGED vars PROVE RefInv'
  BY <1>26 DEF vars
<1>27. QED
  BY <1>1, <1>2, <1>3, <1>4, <1>5, <1>6, <1>7, <1>8, <1>9, <1>10, <1>11, <1>12, <1>13,
     <1>14, <1>15, <1>16, <1>17, <1>18, <1>19, <1>20, <1>21, <1>22, <1>23, <1>24, <1>25, <1>26
     DEF Next, Enqueue, Detach, ConcurrentExecFn, Destructor, Terminated

\* What pop leaves of a non-empty queue.
LEMMA PopFacts ==
  ASSUME m_qTasks \in Seq(Tasks), m_qTasks # <<>>
  PROVE  /\ Len(m_qTasks) \in Nat /\ 1 \in 1..Len(m_qTasks)
         /\ Head(m_qTasks) = m_qTasks[1] /\ Head(m_qTasks) \in Tasks
         /\ Tail(m_qTasks) \in Seq(Tasks) /\ Len(Tail(m_qTasks)) = Len(m_qTasks) - 1
         /\ \A i \in 1..Len(Tail(m_qTasks)) :
              Tail(m_qTasks)[i] = m_qTasks[i + 1] /\ i + 1 \in 2..Len(m_qTasks)
<1>1. Len(m_qTasks) \in Nat /\ Len(m_qTasks) # 0
  BY EmptySeq, LenProperties
<1>2. QED
  BY <1>1, HeadTailProperties

\* The counted tasks are finitely many, and a zero counter counts none.
LEMMA CountNonZero ==
  /\ IsFiniteSet(Active)
  /\ Cardinality(Active) \in Nat
  /\ Cardinality(Active) = 0 => Active = {}
<1>1. Active \in SUBSET Tasks
  BY DEF Active
<1>2. IsFiniteSet(Active)
  BY <1>1, FS_Subset, ThreadsAssumption
<1>3. QED
  BY <1>2, FS_CardinalityType, FS_EmptySet

\* Every step keeps each unfinished package in one place.
LEMMA PlaceStep ==
  ASSUME TypeOK, PlaceInv, [Next]_vars
  PROVE  PlaceInv'
<1> USE ThreadsAssumption DEF TypeOK, PlaceInv, RunningLabels, WorkerLabels, ProducerLabels, CleanerLabels,
           Destroyers, Threads, Goto
<1>1. ASSUME NEW p \in Producers, NEW t \in Tasks, EnqueueCount(p, t) PROVE PlaceInv'
  BY <1>1 DEF EnqueueCount
<1>2. ASSUME NEW p \in Producers, EnqueuePush(p) PROVE PlaceInv'
  BY <1>2 DEF EnqueuePush
<1>3. ASSUME NEW p \in Producers, EnqueueNotify(p) PROVE PlaceInv'
  BY <1>3 DEF EnqueueNotify, NotifyOne
<1>4. ASSUME NEW p \in Producers, ReleaseQueue(p) PROVE PlaceInv'
  BY <1>4 DEF ReleaseQueue
<1>5. ASSUME NEW p \in Producers, RegisterCleanup(p) PROVE PlaceInv'
  BY <1>5 DEF RegisterCleanup
<1>6. ASSUME NEW p \in Producers, DetachSelf(p) PROVE PlaceInv'
  BY <1>6 DEF DetachSelf
<1>7. ASSUME NEW p \in Producers, DetachFlag(p) PROVE PlaceInv'
  BY <1>7 DEF DetachFlag
<1>8. ASSUME NEW p \in Producers, DetachNotify(p) PROVE PlaceInv'
  BY <1>8 DEF DetachNotify, NotifyOne
<1>9. ASSUME NEW w \in Workers, WorkerLoop(w) PROVE PlaceInv'
  BY <1>9 DEF WorkerLoop
<1>10. ASSUME NEW w \in Workers, WorkerPop(w) PROVE PlaceInv'
  <2>1. CASE m_qTasks = <<>>
    BY <1>10, <2>1 DEF WorkerPop
  <2>2. CASE m_qTasks # <<>>
    <3>0. m_qTasks' = Tail(m_qTasks) /\ m_qTasks \in Seq(Tasks)
      BY <1>10, <2>2 DEF WorkerPop
    <3>1. /\ 1 \in 1..Len(m_qTasks) /\ Head(m_qTasks) = m_qTasks[1]
          /\ Len(m_qTasks) \in Nat /\ Head(m_qTasks) \in Tasks
          /\ m_qTasks' \in Seq(Tasks) /\ Len(m_qTasks') = Len(m_qTasks) - 1
          /\ \A i \in 1..Len(m_qTasks') : m_qTasks'[i] = m_qTasks[i + 1] /\ i + 1 \in 2..Len(m_qTasks)
      BY <2>2, <3>0, PopFacts
    <3>2. pc' = [pc EXCEPT ![w] = "run"] /\ task' = [task EXCEPT ![w] = m_qTasks[1]] /\ UNCHANGED future
      BY <1>10, <2>2, <3>1 DEF WorkerPop
    <3>3. pc[w] = "pop" /\ task[w] = NoTask /\ m_qTasks[1] \in Tasks
      BY <1>10, <3>1 DEF WorkerPop
    <3>4. \A x \in Workers \cup Producers :
            /\ task'[x] # NoTask => future'[task'[x]] = "pending"
            /\ \A y \in Workers \cup Producers : task'[x] # NoTask /\ task'[x] = task'[y] => x = y
      BY <3>1, <3>2, <3>3
    <3>5. /\ \A v \in Workers : task'[v] # NoTask <=> pc'[v] \in RunningLabels
          /\ \A p \in Producers : task'[p] # NoTask <=> pc'[p] = "push"
      BY <3>1, <3>2, <3>3
    <3>6. \A i \in 1..Len(m_qTasks') :
            /\ future'[m_qTasks'[i]] = "pending"
            /\ \A x \in Workers \cup Producers : task'[x] # m_qTasks'[i]
      <4>1. TAKE i \in 1..Len(m_qTasks')
      <4>2. m_qTasks'[i] = m_qTasks[i + 1] /\ i + 1 \in 2..Len(m_qTasks)
        BY <3>1, SMTT(30)
      <4>3. m_qTasks[i + 1] # m_qTasks[1]
        BY <4>2, <3>1
      <4>4. QED
        BY <4>2, <4>3, <3>2, <3>3
    <3>7. \A i, j \in 1..Len(m_qTasks') : m_qTasks'[i] = m_qTasks'[j] => i = j
      BY <3>1
    <3>8. QED
      BY <3>4, <3>5, <3>6, <3>7
  <2>3. QED
    BY <2>1, <2>2
<1>11. ASSUME NEW w \in Workers, WorkerRun(w) PROVE PlaceInv'
  BY <1>11 DEF WorkerRun
<1>12. ASSUME NEW w \in Workers, WorkerThrow(w) PROVE PlaceInv'
  BY <1>12 DEF WorkerThrow
<1>13. ASSUME NEW w \in Workers, WorkerDecrement(w) PROVE PlaceInv'
  BY <1>13 DEF WorkerDecrement
<1>14. ASSUME NEW w \in Workers, WorkerSetValue(w) PROVE PlaceInv'
  BY <1>14 DEF WorkerSetValue
<1>15. ASSUME NEW w \in Workers, WorkerCheck(w) PROVE PlaceInv'
  BY <1>15 DEF WorkerCheck
<1>16. ASSUME NEW w \in Workers, WorkerBlock(w) PROVE PlaceInv'
  BY <1>16 DEF WorkerBlock
<1>17. ASSUME NEW w \in Workers, WorkerWake(w) PROVE PlaceInv'
  BY <1>17 DEF WorkerWake, WakeupCondition
<1>18. ASSUME NEW w \in Workers, SpuriousWakeup(w) PROVE PlaceInv'
  BY <1>18 DEF SpuriousWakeup
<1>19. ASSUME NEW d \in Destroyers, DropHandle(d) PROVE PlaceInv'
  BY <1>19 DEF DropHandle
<1>20. ASSUME NEW d \in Destroyers, DtorShutdown(d) PROVE PlaceInv'
  BY <1>20 DEF DtorShutdown
<1>21. ASSUME NEW d \in Destroyers, DtorNotifyAll(d) PROVE PlaceInv'
  BY <1>21 DEF DtorNotifyAll
<1>22. ASSUME NEW d \in Destroyers, DtorJoin(d) PROVE PlaceInv'
  BY <1>22 DEF DtorJoin
<1>23. ASSUME NEW d \in Destroyers, DtorDrain(d) PROVE PlaceInv'
  <2>1. CASE m_qTasks = <<>>
    BY <1>23, <2>1 DEF DtorDrain
  <2>2. CASE m_qTasks # <<>>
    <3>0. m_qTasks' = Tail(m_qTasks) /\ m_qTasks \in Seq(Tasks)
      BY <1>23, <2>2 DEF DtorDrain
    <3>1. /\ 1 \in 1..Len(m_qTasks) /\ Head(m_qTasks) = m_qTasks[1]
          /\ Len(m_qTasks) \in Nat /\ Head(m_qTasks) \in Tasks
          /\ m_qTasks' \in Seq(Tasks) /\ Len(m_qTasks') = Len(m_qTasks) - 1
          /\ \A i \in 1..Len(m_qTasks') : m_qTasks'[i] = m_qTasks[i + 1] /\ i + 1 \in 2..Len(m_qTasks)
      BY <2>2, <3>0, PopFacts
    <3>2. /\ future' = [future EXCEPT ![m_qTasks[1]] = "broken"]
          /\ UNCHANGED <<task, pc>> /\ 1 \in 1..Len(m_qTasks)
      BY <1>23, <2>2, <3>1 DEF DtorDrain
    <3>3. \A x \in Workers \cup Producers : task[x] # NoTask => future'[task[x]] = "pending"
      BY <3>1, <3>2
    <3>4. \A i \in 1..Len(m_qTasks') :
            /\ future'[m_qTasks'[i]] = "pending"
            /\ \A x \in Workers \cup Producers : task[x] # m_qTasks'[i]
      <4>1. TAKE i \in 1..Len(m_qTasks')
      <4>2. m_qTasks'[i] = m_qTasks[i + 1] /\ i + 1 \in 2..Len(m_qTasks)
        BY <3>1, SMTT(30)
      <4>3. m_qTasks[i + 1] # m_qTasks[1]
        BY <4>2, <3>2
      <4>4. QED
        BY <4>2, <4>3, <3>2, ElementOfSeq
    <3>5. \A i, j \in 1..Len(m_qTasks') : m_qTasks'[i] = m_qTasks'[j] => i = j
      BY <3>1
    <3>6. QED
      BY <3>2, <3>3, <3>4, <3>5
  <2>3. QED
    BY <2>1, <2>2
<1>24. ASSUME CleanerLock PROVE PlaceInv'
  BY <1>24 DEF CleanerLock
<1>25. ASSUME CleanerTake PROVE PlaceInv'
  BY <1>25 DEF CleanerTake
<1>26. ASSUME UNCHANGED vars PROVE PlaceInv'
  BY <1>26 DEF vars
<1>27. QED
  BY <1>1, <1>2, <1>3, <1>4, <1>5, <1>6, <1>7, <1>8, <1>9, <1>10, <1>11, <1>12, <1>13,
     <1>14, <1>15, <1>16, <1>17, <1>18, <1>19, <1>20, <1>21, <1>22, <1>23, <1>24, <1>25, <1>26
     DEF Next, Enqueue, Detach, ConcurrentExecFn, Destructor, Terminated

\* Every step keeps the types.
LEMMA TypeStep ==
  ASSUME TypeOK, PlaceInv, CountInv, [Next]_vars
  PROVE  TypeOK'
<1> USE ThreadsAssumption DEF TypeOK, PlaceInv, RunningLabels, WorkerLabels, ProducerLabels, CleanerLabels,
           Destroyers, Threads, Goto, MutexFree
<1>1. ASSUME NEW p \in Producers, NEW t \in Tasks, EnqueueCount(p, t) PROVE TypeOK'
  BY <1>1 DEF EnqueueCount
<1>2. ASSUME NEW p \in Producers, EnqueuePush(p) PROVE TypeOK'
  BY <1>2 DEF EnqueuePush
<1>3. ASSUME NEW p \in Producers, EnqueueNotify(p) PROVE TypeOK'
  BY <1>3 DEF EnqueueNotify, NotifyOne
<1>4. ASSUME NEW p \in Producers, ReleaseQueue(p) PROVE TypeOK'
  BY <1>4 DEF ReleaseQueue
<1>5. ASSUME NEW p \in Producers, RegisterCleanup(p) PROVE TypeOK'
  BY <1>5 DEF RegisterCleanup
<1>6. ASSUME NEW p \in Producers, DetachSelf(p) PROVE TypeOK'
  BY <1>6 DEF DetachSelf
<1>7. ASSUME NEW p \in Producers, DetachFlag(p) PROVE TypeOK'
  BY <1>7 DEF DetachFlag
<1>8. ASSUME NEW p \in Producers, DetachNotify(p) PROVE TypeOK'
  BY <1>8 DEF DetachNotify, NotifyOne
<1>9. ASSUME NEW w \in Workers, WorkerLoop(w) PROVE TypeOK'
  BY <1>9 DEF WorkerLoop
<1>10. ASSUME NEW w \in Workers, WorkerPop(w) PROVE TypeOK'
  <2>1. CASE m_qTasks = <<>>
    BY <1>10, <2>1 DEF WorkerPop
  <2>2. CASE m_qTasks # <<>>
    <3>1. Head(m_qTasks) \in Tasks /\ Tail(m_qTasks) \in Seq(Tasks)
      BY <2>2, PopFacts
    <3>2. /\ m_qTasks' = Tail(m_qTasks) /\ task' = [task EXCEPT ![w] = Head(m_qTasks)]
          /\ pc' = [pc EXCEPT ![w] = "run"]
          /\ UNCHANGED <<m_numActiveTasks, m_mtxWakeup, m_cvWakeup, m_bShutdownFlag,
                         m_bDetachedFlag, refs, destroyed, m_cleanup, owners, future>>
      BY <1>10, <2>2 DEF WorkerPop
    <3>3. QED
      BY <3>1, <3>2
  <2>3. QED
    BY <2>1, <2>2
<1>11. ASSUME NEW w \in Workers, WorkerRun(w) PROVE TypeOK'
  BY <1>11 DEF WorkerRun
<1>12. ASSUME NEW w \in Workers, WorkerThrow(w) PROVE TypeOK'
  BY <1>12 DEF WorkerThrow
<1>13. ASSUME NEW w \in Workers, WorkerDecrement(w) PROVE TypeOK'
  <2>1. task[w] \in Active
    BY <1>13 DEF WorkerDecrement, Active
  <2>2. m_numActiveTasks # 0
    BY <2>1, CountNonZero DEF CountInv
  <2>3. QED
    BY <1>13, <2>2 DEF WorkerDecrement
<1>14. ASSUME NEW w \in Workers, WorkerSetValue(w) PROVE TypeOK'
  BY <1>14 DEF WorkerSetValue
<1>15. ASSUME NEW w \in Workers, WorkerCheck(w) PROVE TypeOK'
  <2>1. /\ m_mtxWakeup' \in Workers \cup {NoThread}
        /\ refs' \subseteq Destroyers \cup {Queue, Self}
        /\ \E l \in {"loop", "drop", "exit", "block"} : pc' = [pc EXCEPT ![w] = l]
        /\ UNCHANGED <<m_qTasks, m_numActiveTasks, m_cvWakeup, m_bShutdownFlag,
                       destroyed, m_cleanup, owners, task, future>>
    BY <1>15 DEF WorkerCheck
  <2>2. m_bDetachedFlag' \in BOOLEAN
    BY <1>15, Zenon DEF WorkerCheck
  <2>3. QED
    BY <2>1, <2>2
<1>16. ASSUME NEW w \in Workers, WorkerBlock(w) PROVE TypeOK'
  BY <1>16 DEF WorkerBlock
<1>17. ASSUME NEW w \in Workers, WorkerWake(w) PROVE TypeOK'
  BY <1>17 DEF WorkerWake, WakeupCondition
<1>18. ASSUME NEW w \in Workers, SpuriousWakeup(w) PROVE TypeOK'
  BY <1>18 DEF SpuriousWakeup
<1>19. ASSUME NEW d \in Destroyers, DropHandle(d) PROVE TypeOK'
  BY <1>19 DEF DropHandle
<1>20. ASSUME NEW d \in Destroyers, DtorShutdown(d) PROVE TypeOK'
  BY <1>20 DEF DtorShutdown
<1>21. ASSUME NEW d \in Destroyers, DtorNotifyAll(d) PROVE TypeOK'
  BY <1>21 DEF DtorNotifyAll
<1>22. ASSUME NEW d \in Destroyers, DtorJoin(d) PROVE TypeOK'
  BY <1>22 DEF DtorJoin
<1>23. ASSUME NEW d \in Destroyers, DtorDrain(d) PROVE TypeOK'
  <2>1. CASE m_qTasks = <<>>
    BY <1>23, <2>1 DEF DtorDrain
  <2>2. CASE m_qTasks # <<>>
    <3>1. Head(m_qTasks) \in Tasks /\ Tail(m_qTasks) \in Seq(Tasks)
      BY <2>2, PopFacts
    <3>2. /\ m_qTasks' = Tail(m_qTasks) /\ future' = [future EXCEPT ![Head(m_qTasks)] = "broken"]
          /\ UNCHANGED <<m_numActiveTasks, m_mtxWakeup, m_cvWakeup, m_bShutdownFlag,
                         m_bDetachedFlag, refs, destroyed, m_cleanup, owners, task, pc>>
      BY <1>23, <2>2 DEF DtorDrain
    <3>3. QED
      BY <3>1, <3>2
  <2>3. QED
    BY <2>1, <2>2
<1>24. ASSUME CleanerLock PROVE TypeOK'
  BY <1>24 DEF CleanerLock
<1>25. ASSUME CleanerTake PROVE TypeOK'
  <2>1. /\ refs' \subseteq Destroyers \cup {Queue, Self}
        /\ \E l \in {"drop", "exit", "shutdown"} : pc' = [pc EXCEPT ![Cleaner] = l]
        /\ UNCHANGED <<m_qTasks, m_numActiveTasks, m_mtxWakeup, m_cvWakeup, m_bShutdownFlag,
                       destroyed, m_cleanup, owners, task, future>>
    BY <1>25 DEF CleanerTake
  <2>2. m_bDetachedFlag' \in BOOLEAN
    BY <1>25, Zenon DEF CleanerTake
  <2>3. QED
    BY <2>1, <2>2
<1>26. ASSUME UNCHANGED vars PROVE TypeOK'
  BY <1>26 DEF vars
<1>27. QED
  BY <1>1, <1>2, <1>3, <1>4, <1>5, <1>6, <1>7, <1>8, <1>9, <1>10, <1>11, <1>12, <1>13,
     <1>14, <1>15, <1>16, <1>17, <1>18, <1>19, <1>20, <1>21, <1>22, <1>23, <1>24, <1>25, <1>26
     DEF Next, Enqueue, Detach, ConcurrentExecFn, Destructor, Terminated

\* Every step keeps the counter equal to the number of counted tasks.
LEMMA CountStep ==
  ASSUME TypeOK, PlaceInv, CountInv, [Next]_vars
  PROVE  CountInv'
<1> USE ThreadsAssumption DEF TypeOK, PlaceInv, RunningLabels, WorkerLabels, ProducerLabels, CleanerLabels,
           Destroyers, Threads, Goto, CountInv
<1>1. ASSUME NEW p \in Producers, NEW t \in Tasks, EnqueueCount(p, t) PROVE CountInv'
  <2>1. Active' = Active \cup {t} /\ t \notin Active
    BY <1>1 DEF EnqueueCount, Active
  <2>2. Cardinality(Active') = Cardinality(Active) + 1
    BY <2>1, FS_AddElement, CountNonZero
  <2>3. QED
    BY <1>1, <2>2 DEF EnqueueCount
<1>2. ASSUME NEW p \in Producers, EnqueuePush(p) PROVE CountInv'
  <2>1. Active' = Active /\ UNCHANGED m_numActiveTasks
    BY <1>2 DEF EnqueuePush, Active
  <2>2. QED
    BY <2>1
<1>3. ASSUME NEW p \in Producers, EnqueueNotify(p) PROVE CountInv'
  <2>1. Active' = Active /\ UNCHANGED m_numActiveTasks
    BY <1>3 DEF EnqueueNotify, Active, NotifyOne
  <2>2. QED
    BY <2>1
<1>4. ASSUME NEW p \in Producers, ReleaseQueue(p) PROVE CountInv'
  <2>1. Active' = Active /\ UNCHANGED m_numActiveTasks
    BY <1>4 DEF ReleaseQueue, Active
  <2>2. QED
    BY <2>1
<1>5. ASSUME NEW p \in Producers, RegisterCleanup(p) PROVE CountInv'
  <2>1. Active' = Active /\ UNCHANGED m_numActiveTasks
    BY <1>5 DEF RegisterCleanup, Active
  <2>2. QED
    BY <2>1
<1>6. ASSUME NEW p \in Producers, DetachSelf(p) PROVE CountInv'
  <2>1. Active' = Active /\ UNCHANGED m_numActiveTasks
    BY <1>6 DEF DetachSelf, Active
  <2>2. QED
    BY <2>1
<1>7. ASSUME NEW p \in Producers, DetachFlag(p) PROVE CountInv'
  <2>1. Active' = Active /\ UNCHANGED m_numActiveTasks
    BY <1>7 DEF DetachFlag, Active
  <2>2. QED
    BY <2>1
<1>8. ASSUME NEW p \in Producers, DetachNotify(p) PROVE CountInv'
  <2>1. Active' = Active /\ UNCHANGED m_numActiveTasks
    BY <1>8 DEF DetachNotify, Active, NotifyOne
  <2>2. QED
    BY <2>1
<1>9. ASSUME NEW w \in Workers, WorkerLoop(w) PROVE CountInv'
  <2>1. Active' = Active /\ UNCHANGED m_numActiveTasks
    BY <1>9 DEF WorkerLoop, Active
  <2>2. QED
    BY <2>1
<1>10. ASSUME NEW w \in Workers, WorkerPop(w) PROVE CountInv'
  <2>1. m_qTasks # <<>> => Head(m_qTasks) \in Tasks /\ Head(m_qTasks) = m_qTasks[1] /\ 1 \in 1..Len(m_qTasks)
    BY PopFacts
  <2>2. Active' = Active /\ UNCHANGED m_numActiveTasks
    BY <1>10, <2>1 DEF WorkerPop, Active
  <2>3. QED
    BY <2>2
<1>11. ASSUME NEW w \in Workers, WorkerRun(w) PROVE CountInv'
  <2>1. Active' = Active /\ UNCHANGED m_numActiveTasks
    BY <1>11 DEF WorkerRun, Active
  <2>2. QED
    BY <2>1
<1>12. ASSUME NEW w \in Workers, WorkerThrow(w) PROVE CountInv'
  <2>1. Active' = Active /\ UNCHANGED m_numActiveTasks
    BY <1>12 DEF WorkerThrow, Active
  <2>2. QED
    BY <2>1
<1>13. ASSUME NEW w \in Workers, WorkerDecrement(w) PROVE CountInv'
  <2>1. Active' = Active \ {task[w]} /\ task[w] \in Active
    BY <1>13 DEF WorkerDecrement, Active
  <2>2. Cardinality(Active') = Cardinality(Active) - 1
    BY <2>1, FS_RemoveElement, CountNonZero
  <2>3. QED
    BY <1>13, <2>2 DEF WorkerDecrement
<1>14. ASSUME NEW w \in Workers, WorkerSetValue(w) PROVE CountInv'
  <2>1. Active' = Active /\ UNCHANGED m_numActiveTasks
    BY <1>14 DEF WorkerSetValue, Active
  <2>2. QED
    BY <2>1
<1>15. ASSUME NEW w \in Workers, WorkerCheck(w) PROVE CountInv'
  <2>1. Active' = Active /\ UNCHANGED m_numActiveTasks
    BY <1>15 DEF WorkerCheck, Active
  <2>2. QED
    BY <2>1
<1>16. ASSUME NEW w \in Workers, WorkerBlock(w) PROVE CountInv'
  <2>1. Active' = Active /\ UNCHANGED m_numActiveTasks
    BY <1>16 DEF WorkerBlock, Active
  <2>2. QED
    BY <2>1
<1>17. ASSUME NEW w \in Workers, WorkerWake(w) PROVE CountInv'
  <2>1. Active' = Active /\ UNCHANGED m_numActiveTasks
    BY <1>17 DEF WorkerWake, Active, WakeupCondition
  <2>2. QED
    BY <2>1
<1>18. ASSUME NEW w \in Workers, SpuriousWakeup(w) PROVE CountInv'
  <2>1. Active' = Active /\ UNCHANGED m_numActiveTasks
    BY <1>18 DEF SpuriousWakeup, Active
  <2>2. QED
    BY <2>1
<1>19. ASSUME NEW d \in Destroyers, DropHandle(d) PROVE CountInv'
  <2>1. Active' = Active /\ UNCHANGED m_numActiveTasks
    BY <1>19 DEF DropHandle, Active
  <2>2. QED
    BY <2>1
<1>20. ASSUME NEW d \in Destroyers, DtorShutdown(d) PROVE CountInv'
  <2>1. Active' = Active /\ UNCHANGED m_numActiveTasks
    BY <1>20 DEF DtorShutdown, Active
  <2>2. QED
    BY <2>1
<1>21. ASSUME NEW d \in Destroyers, DtorNotifyAll(d) PROVE CountInv'
  <2>1. Active' = Active /\ UNCHANGED m_numActiveTasks
    BY <1>21 DEF DtorNotifyAll, Active
  <2>2. QED
    BY <2>1
<1>22. ASSUME NEW d \in Destroyers, DtorJoin(d) PROVE CountInv'
  <2>1. Active' = Active /\ UNCHANGED m_numActiveTasks
    BY <1>22 DEF DtorJoin, Active
  <2>2. QED
    BY <2>1
<1>23. ASSUME NEW d \in Destroyers, DtorDrain(d) PROVE CountInv'
  <2>1. m_qTasks # <<>> => Head(m_qTasks) \in Tasks /\ Head(m_qTasks) = m_qTasks[1] /\ 1 \in 1..Len(m_qTasks)
    BY PopFacts
  <2>2. Active' = Active /\ UNCHANGED m_numActiveTasks
    BY <1>23, <2>1 DEF DtorDrain, Active
  <2>3. QED
    BY <2>2
<1>24. ASSUME CleanerLock PROVE CountInv'
  <2>1. Active' = Active /\ UNCHANGED m_numActiveTasks
    BY <1>24 DEF CleanerLock, Active
  <2>2. QED
    BY <2>1
<1>25. ASSUME CleanerTake PROVE CountInv'
  <2>1. Active' = Active /\ UNCHANGED m_numActiveTasks
    BY <1>25 DEF CleanerTake, Active
  <2>2. QED
    BY <2>1
<1>26. ASSUME UNCHANGED vars PROVE CountInv'
  <2>1. Active' = Active /\ UNCHANGED m_numActiveTasks
    BY <1>26 DEF vars, Active
  <2>2. QED
    BY <2>1
<1>27. QED
  BY <1>1, <1>2, <1>3, <1>4, <1>5, <1>6, <1>7, <1>8, <1>9, <1>10, <1>11, <1>12, <1>13,
     <1>14, <1>15, <1>16, <1>17, <1>18, <1>19, <1>20, <1>21, <1>22, <1>23, <1>24, <1>25, <1>26
     DEF Next, Enqueue, Detach, ConcurrentExecFn, Destructor, Terminated

-----------------------------------------------------------------------------
\* The inductive invariant.
IInv == TypeOK /\ PlaceInv /\ CountInv /\ RefInv

\* A new pool satisfies the invariant.
LEMMA InitIInv == Init => IInv
<1> SUFFICES ASSUME Init PROVE IInv
  OBVIOUS
<1> USE ThreadsAssumption DEF Init, Threads, Destroyers
<1>1. TypeOK
  <2>1. m_qTasks \in Seq(Tasks)
    BY EmptySeq
  <2>2. /\ m_bShutdownFlag \in BOOLEAN /\ m_bDetachedFlag \in BOOLEAN
        /\ destroyed \in BOOLEAN /\ m_cleanup \in BOOLEAN
    BY Zenon
  <2>3. QED
    BY <2>1, <2>2 DEF TypeOK, WorkerLabels, ProducerLabels, CleanerLabels
<1>2. PlaceInv
  BY DEF PlaceInv, RunningLabels
<1>3. CountInv
  <2>1. Active = {}
    BY DEF Active
  <2>2. QED
    BY <2>1, FS_EmptySet DEF CountInv
<1>4. RefInv
  BY DEF RefInv, OwnerInv, HolderInv, DtorInv, BrokenOnlyAtExit, Detaching, DtorLabels
<1>5. QED
  BY <1>1, <1>2, <1>3, <1>4 DEF IInv

\* Every step of every thread keeps the invariant.
LEMMA NextIInv == IInv /\ [Next]_vars => IInv'
  BY RefStep, PlaceStep, TypeStep, CountStep DEF IInv

\* The inductive invariant holds in every reachable state of every pool.
THEOREM Invariance == Spec => []IInv
  BY InitIInv, NextIInv, PTL DEF Spec

\* The members and the threads of the pool keep their types; in particular the
\* unsigned m_numActiveTasks never drops below zero.
THEOREM TypeCorrect == Spec => []TypeOK
<1>1. IInv => TypeOK
  BY DEF IInv
<1>2. QED
  BY <1>1, Invariance, PTL

\* Nobody but the notify_one of detach uses the pool after its destructor, and
\* the destructor runs in one thread, with no reference left.
THEOREM PoolOutlivesItsUsers == Spec => []AliveWhileUsed
<1>1. IInv => AliveWhileUsed
  BY ThreadsAssumption DEF IInv, TypeOK, RefInv, OwnerInv, HolderInv, DtorInv, AliveWhileUsed,
     UsesPool, DtorLabels, Detaching, Threads, Destroyers, ProducerLabels, CleanerLabels
<1>2. QED
  BY <1>1, Invariance, PTL

\* isIdle, read at any moment and without a lock, never calls a pool idle that
\* has a task waiting or running.
THEOREM IdleIsReliable == Spec => []IdleMeansNothingLeft
<1>1. IInv => IdleMeansNothingLeft
  <2> SUFFICES ASSUME IInv, isIdle
               PROVE  /\ m_qTasks = <<>>
                      /\ \A w \in Workers : pc[w] \notin {"run", "decrement"}
                      /\ \A p \in Producers : pc[p] # "push"
    BY DEF IdleMeansNothingLeft
  <2> USE DEF IInv
  <2>1. Active = {}
    BY CountNonZero DEF CountInv, isIdle
  <2>2. m_qTasks = <<>>
    <3> SUFFICES ASSUME m_qTasks # <<>> PROVE FALSE
      OBVIOUS
    <3>1. Head(m_qTasks) \in Tasks /\ Head(m_qTasks) = m_qTasks[1] /\ 1 \in 1..Len(m_qTasks)
      BY PopFacts DEF TypeOK
    <3>2. Head(m_qTasks) \in Active
      BY <3>1 DEF Active, PlaceInv, TypeOK
    <3>3. QED
      BY <3>2, <2>1
  <2>3. \A w \in Workers : pc[w] \notin {"run", "decrement"}
    BY <2>1, ThreadsAssumption DEF PlaceInv, TypeOK, Active, RunningLabels
  <2>4. \A p \in Producers : pc[p] # "push"
    BY <2>1, ThreadsAssumption DEF PlaceInv, TypeOK, Active
  <2>5. QED
    BY <2>2, <2>3, <2>4
<1>2. QED
  BY <1>1, Invariance, PTL

\* A detached pool works off its queue: futures are broken only by a
\* destructor that the exit of the program has started.
THEOREM DetachedPoolFinishesItsWork == Spec => []BrokenOnlyAtExit
<1>1. IInv => BrokenOnlyAtExit
  BY DEF IInv, RefInv
<1>2. QED
  BY <1>1, Invariance, PTL

-----------------------------------------------------------------------------
(* The flag of the destructor, and where a pending task is                 *)

\* The flag is set once no reference is left, and before anything is broken;
\* a task is broken when all workers have left.
FlagInv ==
  /\ m_bShutdownFlag => refs = {}
  /\ \A d \in Destroyers : pc[d] \in {"notifyAll", "join", "drain"} => m_bShutdownFlag
  /\ (\E t \in Tasks : future[t] = "broken") =>
       m_bShutdownFlag /\ \A w \in Workers : pc[w] \in {"drain", "exit"}

\* No task is lost: a pending one is in the queue or in the hands of a thread.
PendingInv ==
  \A t \in Tasks : future[t] = "pending" =>
    \/ \E i \in 1..Len(m_qTasks) : m_qTasks[i] = t
    \/ \E x \in Workers \cup Producers : task[x] = t

\* Every step keeps what the shutdown flag stands for.
LEMMA FlagStep ==
  ASSUME TypeOK, RefInv, PlaceInv, FlagInv, [Next]_vars
  PROVE  FlagInv'
<1> USE ThreadsAssumption DEF TypeOK, RefInv, OwnerInv, HolderInv, DtorInv, FlagInv,
           RunningLabels, DtorLabels, Detaching, Destroyers, Threads, Goto, MutexFree
<1>1. ASSUME NEW p \in Producers, NEW t \in Tasks, EnqueueCount(p, t) PROVE FlagInv'
  BY <1>1 DEF EnqueueCount
<1>2. ASSUME NEW p \in Producers, EnqueuePush(p) PROVE FlagInv'
  BY <1>2 DEF EnqueuePush
<1>3. ASSUME NEW p \in Producers, EnqueueNotify(p) PROVE FlagInv'
  BY <1>3 DEF EnqueueNotify, NotifyOne
<1>4. ASSUME NEW p \in Producers, ReleaseQueue(p) PROVE FlagInv'
  BY <1>4 DEF ReleaseQueue
<1>5. ASSUME NEW p \in Producers, RegisterCleanup(p) PROVE FlagInv'
  BY <1>5 DEF RegisterCleanup
<1>6. ASSUME NEW p \in Producers, DetachSelf(p) PROVE FlagInv'
  BY <1>6 DEF DetachSelf
<1>7. ASSUME NEW p \in Producers, DetachFlag(p) PROVE FlagInv'
  BY <1>7 DEF DetachFlag
<1>8. ASSUME NEW p \in Producers, DetachNotify(p) PROVE FlagInv'
  BY <1>8 DEF DetachNotify, NotifyOne
<1>9. ASSUME NEW w \in Workers, WorkerLoop(w) PROVE FlagInv'
  BY <1>9 DEF WorkerLoop
<1>10. ASSUME NEW w \in Workers, WorkerPop(w) PROVE FlagInv'
  BY <1>10 DEF WorkerPop
<1>11. ASSUME NEW w \in Workers, WorkerRun(w) PROVE FlagInv'
  BY <1>11 DEF WorkerRun
<1>12. ASSUME NEW w \in Workers, WorkerThrow(w) PROVE FlagInv'
  BY <1>12 DEF WorkerThrow
<1>13. ASSUME NEW w \in Workers, WorkerDecrement(w) PROVE FlagInv'
  BY <1>13 DEF WorkerDecrement
<1>14. ASSUME NEW w \in Workers, WorkerSetValue(w) PROVE FlagInv'
  BY <1>14 DEF WorkerSetValue
<1>15. ASSUME NEW w \in Workers, WorkerCheck(w) PROVE FlagInv'
  BY <1>15 DEF WorkerCheck
<1>16. ASSUME NEW w \in Workers, WorkerBlock(w) PROVE FlagInv'
  BY <1>16 DEF WorkerBlock
<1>17. ASSUME NEW w \in Workers, WorkerWake(w) PROVE FlagInv'
  BY <1>17 DEF WorkerWake, WakeupCondition
<1>18. ASSUME NEW w \in Workers, SpuriousWakeup(w) PROVE FlagInv'
  BY <1>18 DEF SpuriousWakeup
<1>19. ASSUME NEW d \in Destroyers, DropHandle(d) PROVE FlagInv'
  BY <1>19 DEF DropHandle
<1>20. ASSUME NEW d \in Destroyers, DtorShutdown(d) PROVE FlagInv'
  BY <1>20 DEF DtorShutdown
<1>21. ASSUME NEW d \in Destroyers, DtorNotifyAll(d) PROVE FlagInv'
  BY <1>21 DEF DtorNotifyAll
<1>22. ASSUME NEW d \in Destroyers, DtorJoin(d) PROVE FlagInv'
  BY <1>22 DEF DtorJoin
<1>23. ASSUME NEW d \in Destroyers, DtorDrain(d) PROVE FlagInv'
  BY <1>23 DEF DtorDrain
<1>24. ASSUME CleanerLock PROVE FlagInv'
  BY <1>24 DEF CleanerLock
<1>25. ASSUME CleanerTake PROVE FlagInv'
  BY <1>25 DEF CleanerTake
<1>26. ASSUME UNCHANGED vars PROVE FlagInv'
  BY <1>26 DEF vars
<1>27. QED
  BY <1>1, <1>2, <1>3, <1>4, <1>5, <1>6, <1>7, <1>8, <1>9, <1>10, <1>11, <1>12, <1>13,
     <1>14, <1>15, <1>16, <1>17, <1>18, <1>19, <1>20, <1>21, <1>22, <1>23, <1>24, <1>25, <1>26
     DEF Next, Enqueue, Detach, ConcurrentExecFn, Destructor, Terminated

\* Every step keeps pending tasks findable.
LEMMA PendingStep ==
  ASSUME TypeOK, PlaceInv, PendingInv, [Next]_vars
  PROVE  PendingInv'
<1> USE ThreadsAssumption DEF TypeOK, PlaceInv, PendingInv, RunningLabels, DtorLabels, Detaching, Destroyers, Threads, Goto, MutexFree
<1>1. ASSUME NEW p \in Producers, NEW t \in Tasks, EnqueueCount(p, t) PROVE PendingInv'
  BY <1>1 DEF EnqueueCount
<1>2. ASSUME NEW p \in Producers, EnqueuePush(p) PROVE PendingInv'
  <2>1. /\ m_qTasks' = Append(m_qTasks, task[p]) /\ task' = [task EXCEPT ![p] = NoTask]
        /\ UNCHANGED future /\ task[p] \in Tasks
    BY <1>2 DEF EnqueuePush, PlaceInv
  <2>2. /\ Len(m_qTasks') = Len(m_qTasks) + 1 /\ m_qTasks'[Len(m_qTasks) + 1] = task[p]
        /\ \A i \in 1..Len(m_qTasks) : m_qTasks'[i] = m_qTasks[i]
    BY <2>1, AppendProperties
  <2>3. Len(m_qTasks) \in Nat
    BY LenProperties
  <2>4. ASSUME NEW t \in Tasks, future'[t] = "pending"
        PROVE  \/ \E i \in 1..Len(m_qTasks') : m_qTasks'[i] = t
               \/ \E x \in Workers \cup Producers : task'[x] = t
    BY <2>1, <2>2, <2>3, <2>4
  <2>5. QED
    BY <2>4
<1>3. ASSUME NEW p \in Producers, EnqueueNotify(p) PROVE PendingInv'
  BY <1>3 DEF EnqueueNotify, NotifyOne
<1>4. ASSUME NEW p \in Producers, ReleaseQueue(p) PROVE PendingInv'
  BY <1>4 DEF ReleaseQueue
<1>5. ASSUME NEW p \in Producers, RegisterCleanup(p) PROVE PendingInv'
  BY <1>5 DEF RegisterCleanup
<1>6. ASSUME NEW p \in Producers, DetachSelf(p) PROVE PendingInv'
  BY <1>6 DEF DetachSelf
<1>7. ASSUME NEW p \in Producers, DetachFlag(p) PROVE PendingInv'
  BY <1>7 DEF DetachFlag
<1>8. ASSUME NEW p \in Producers, DetachNotify(p) PROVE PendingInv'
  BY <1>8 DEF DetachNotify, NotifyOne
<1>9. ASSUME NEW w \in Workers, WorkerLoop(w) PROVE PendingInv'
  BY <1>9 DEF WorkerLoop
<1>10. ASSUME NEW w \in Workers, WorkerPop(w) PROVE PendingInv'
  <2>1. CASE m_qTasks = <<>>
    BY <1>10, <2>1 DEF WorkerPop
  <2>2. CASE m_qTasks # <<>>
    <3>1. /\ m_qTasks' = Tail(m_qTasks) /\ task' = [task EXCEPT ![w] = m_qTasks[1]]
          /\ UNCHANGED future /\ task[w] = NoTask
      BY <1>10, <2>2, PopFacts DEF WorkerPop, PlaceInv
    <3>2. /\ Len(m_qTasks) \in Nat /\ Len(m_qTasks') = Len(m_qTasks) - 1
          /\ \A i \in 2..Len(m_qTasks) : m_qTasks'[i - 1] = m_qTasks[i]
      BY <2>2, <3>1, PopFacts
    <3>3. ASSUME NEW t \in Tasks, future'[t] = "pending"
          PROVE  \/ \E i \in 1..Len(m_qTasks') : m_qTasks'[i] = t
                 \/ \E x \in Workers \cup Producers : task'[x] = t
      <4>1. CASE \E i \in 1..Len(m_qTasks) : m_qTasks[i] = t
        <5>1. PICK i \in 1..Len(m_qTasks) : m_qTasks[i] = t
          BY <4>1
        <5>2. CASE i = 1
          BY <3>1, <5>1, <5>2
        <5>3. CASE i # 1
          <6>1. i - 1 \in 1..Len(m_qTasks') /\ i \in 2..Len(m_qTasks)
            BY <3>2, <5>1, <5>3
          <6>2. QED
            BY <3>2, <5>1, <6>1
        <5>4. QED
          BY <5>2, <5>3
      <4>2. CASE \E x \in Workers \cup Producers : task[x] = t
        BY <3>1, <4>2
      <4>3. QED
        BY <3>1, <3>3, <4>1, <4>2
    <3>4. QED
      BY <3>3
  <2>3. QED
    BY <2>1, <2>2
<1>11. ASSUME NEW w \in Workers, WorkerRun(w) PROVE PendingInv'
  BY <1>11 DEF WorkerRun
<1>12. ASSUME NEW w \in Workers, WorkerThrow(w) PROVE PendingInv'
  BY <1>12 DEF WorkerThrow
<1>13. ASSUME NEW w \in Workers, WorkerDecrement(w) PROVE PendingInv'
  BY <1>13 DEF WorkerDecrement
<1>14. ASSUME NEW w \in Workers, WorkerSetValue(w) PROVE PendingInv'
  BY <1>14 DEF WorkerSetValue
<1>15. ASSUME NEW w \in Workers, WorkerCheck(w) PROVE PendingInv'
  BY <1>15 DEF WorkerCheck
<1>16. ASSUME NEW w \in Workers, WorkerBlock(w) PROVE PendingInv'
  BY <1>16 DEF WorkerBlock
<1>17. ASSUME NEW w \in Workers, WorkerWake(w) PROVE PendingInv'
  BY <1>17 DEF WorkerWake, WakeupCondition
<1>18. ASSUME NEW w \in Workers, SpuriousWakeup(w) PROVE PendingInv'
  BY <1>18 DEF SpuriousWakeup
<1>19. ASSUME NEW d \in Destroyers, DropHandle(d) PROVE PendingInv'
  BY <1>19 DEF DropHandle
<1>20. ASSUME NEW d \in Destroyers, DtorShutdown(d) PROVE PendingInv'
  BY <1>20 DEF DtorShutdown
<1>21. ASSUME NEW d \in Destroyers, DtorNotifyAll(d) PROVE PendingInv'
  BY <1>21 DEF DtorNotifyAll
<1>22. ASSUME NEW d \in Destroyers, DtorJoin(d) PROVE PendingInv'
  BY <1>22 DEF DtorJoin
<1>23. ASSUME NEW d \in Destroyers, DtorDrain(d) PROVE PendingInv'
  <2>1. CASE m_qTasks = <<>>
    BY <1>23, <2>1 DEF DtorDrain
  <2>2. CASE m_qTasks # <<>>
    <3>1. /\ m_qTasks' = Tail(m_qTasks) /\ UNCHANGED task
          /\ future' = [future EXCEPT ![m_qTasks[1]] = "broken"] /\ m_qTasks[1] \in Tasks
      BY <1>23, <2>2, PopFacts DEF DtorDrain
    <3>2. /\ Len(m_qTasks) \in Nat /\ Len(m_qTasks') = Len(m_qTasks) - 1
          /\ \A i \in 2..Len(m_qTasks) : m_qTasks'[i - 1] = m_qTasks[i]
      BY <2>2, <3>1, PopFacts
    <3>3. ASSUME NEW t \in Tasks, future'[t] = "pending"
          PROVE  \/ \E i \in 1..Len(m_qTasks') : m_qTasks'[i] = t
                 \/ \E x \in Workers \cup Producers : task'[x] = t
      <4>1. future[t] = "pending" /\ t # m_qTasks[1]
        BY <3>1, <3>3
      <4>2. CASE \E i \in 1..Len(m_qTasks) : m_qTasks[i] = t
        <5>1. PICK i \in 1..Len(m_qTasks) : m_qTasks[i] = t
          BY <4>2
        <5>2. i - 1 \in 1..Len(m_qTasks') /\ i \in 2..Len(m_qTasks)
          BY <3>2, <4>1, <5>1
        <5>3. QED
          BY <3>2, <5>1, <5>2
      <4>3. CASE \E x \in Workers \cup Producers : task[x] = t
        BY <3>1, <4>3
      <4>4. QED
        BY <4>1, <4>2, <4>3
    <3>4. QED
      BY <3>3
  <2>3. QED
    BY <2>1, <2>2
<1>24. ASSUME CleanerLock PROVE PendingInv'
  BY <1>24 DEF CleanerLock
<1>25. ASSUME CleanerTake PROVE PendingInv'
  BY <1>25 DEF CleanerTake
<1>26. ASSUME UNCHANGED vars PROVE PendingInv'
  BY <1>26 DEF vars
<1>27. QED
  BY <1>1, <1>2, <1>3, <1>4, <1>5, <1>6, <1>7, <1>8, <1>9, <1>10, <1>11, <1>12, <1>13,
     <1>14, <1>15, <1>16, <1>17, <1>18, <1>19, <1>20, <1>21, <1>22, <1>23, <1>24, <1>25, <1>26
     DEF Next, Enqueue, Detach, ConcurrentExecFn, Destructor, Terminated

\* The invariant with both.
FullInv == IInv /\ FlagInv /\ PendingInv

\* It holds in every reachable state of every pool.
THEOREM FullInvariance == Spec => []FullInv
<1>1. Init => FlagInv /\ PendingInv
  BY ThreadsAssumption DEF Init, FlagInv, PendingInv, Threads, Destroyers
<1>2. IInv /\ FlagInv /\ PendingInv /\ [Next]_vars => FlagInv' /\ PendingInv'
  BY FlagStep, PendingStep DEF IInv
<1>3. QED
  BY <1>1, <1>2, Invariance, PTL DEF Spec, FullInv

\* A host that has seen all its futures ready finds the pool idle: every task
\* has been counted down before its future says so.
THEOREM WaitedForMeansIdle == Spec => []FinishedMeansIdle
<1>1. IInv => FinishedMeansIdle
  <2> SUFFICES ASSUME IInv, \A t \in Tasks : future[t] \in {"none", "value"}
               PROVE  isIdle
    BY DEF FinishedMeansIdle
  <2>1. Active = {}
    BY DEF Active
  <2>2. QED
    BY <2>1, FS_EmptySet DEF IInv, CountInv, isIdle
<1>2. QED
  BY <1>1, Invariance, PTL

-----------------------------------------------------------------------------
(* The end of the program, for the single worker a queue has               *)

\* A pool with the one worker of a queue.
SingleWorker == \E w : Workers = {w}

Deleting == DtorLabels \cup {"drop", "exit"}
NoMoreTasks == m_qTasks = <<>> /\ \A p \in Producers : pc[p] \in {"detachNotify", "gone"}

\* The detach handle changes hands together with its flag, and goes to the
\* worker only when nothing is left to do.
HandleInv ==
  /\ Self \in refs /\ (\A p \in Producers : pc[p] # "detachFlag") => m_bDetachedFlag
  /\ \A w \in Workers : pc[w] \in DtorLabels \cup {"drop"} =>
       NoMoreTasks /\ Self \notin refs /\ Queue \notin refs
  /\ pc[Cleaner] = "drop" => refs = {Cleaner}
  /\ pc[Cleaner] # "start" => \A p \in Producers : pc[p] = "gone"

\* Before the exit of the program only the worker itself ends the pool, and
\* what has ended has nothing left to do.
EndInv ==
  /\ pc[Cleaner] = "start" /\ (refs = {} \/ m_bShutdownFlag \/ \E w \in Workers : pc[w] = "exit")
       => refs = {} /\ NoMoreTasks /\ \A w \in Workers : pc[w] \in DtorLabels \cup {"exit"}
  /\ pc[Cleaner] = "exit" => m_qTasks = <<>> /\ \A w \in Workers : pc[w] \in Deleting

\* Every step keeps the handle and its flag together.
LEMMA HandleStep ==
  ASSUME SingleWorker, TypeOK, RefInv, FlagInv, HandleInv, [Next]_vars
  PROVE  HandleInv'
<1> USE ThreadsAssumption DEF TypeOK, RefInv, OwnerInv, HolderInv, DtorInv, FlagInv, HandleInv,
           NoMoreTasks, RunningLabels, DtorLabels, Detaching, Destroyers, Threads, Goto, MutexFree, SingleWorker
<1>1. ASSUME NEW p \in Producers, NEW t \in Tasks, EnqueueCount(p, t) PROVE HandleInv'
  BY <1>1 DEF EnqueueCount
<1>2. ASSUME NEW p \in Producers, EnqueuePush(p) PROVE HandleInv'
  BY <1>2 DEF EnqueuePush
<1>3. ASSUME NEW p \in Producers, EnqueueNotify(p) PROVE HandleInv'
  BY <1>3 DEF EnqueueNotify, NotifyOne
<1>4. ASSUME NEW p \in Producers, ReleaseQueue(p) PROVE HandleInv'
  BY <1>4 DEF ReleaseQueue
<1>5. ASSUME NEW p \in Producers, RegisterCleanup(p) PROVE HandleInv'
  BY <1>5 DEF RegisterCleanup
<1>6. ASSUME NEW p \in Producers, DetachSelf(p) PROVE HandleInv'
  BY <1>6 DEF DetachSelf
<1>7. ASSUME NEW p \in Producers, DetachFlag(p) PROVE HandleInv'
  BY <1>7 DEF DetachFlag
<1>8. ASSUME NEW p \in Producers, DetachNotify(p) PROVE HandleInv'
  BY <1>8 DEF DetachNotify, NotifyOne
<1>9. ASSUME NEW w \in Workers, WorkerLoop(w) PROVE HandleInv'
  BY <1>9 DEF WorkerLoop
<1>10. ASSUME NEW w \in Workers, WorkerPop(w) PROVE HandleInv'
  BY <1>10 DEF WorkerPop
<1>11. ASSUME NEW w \in Workers, WorkerRun(w) PROVE HandleInv'
  BY <1>11 DEF WorkerRun
<1>12. ASSUME NEW w \in Workers, WorkerThrow(w) PROVE HandleInv'
  BY <1>12 DEF WorkerThrow
<1>13. ASSUME NEW w \in Workers, WorkerDecrement(w) PROVE HandleInv'
  BY <1>13 DEF WorkerDecrement
<1>14. ASSUME NEW w \in Workers, WorkerSetValue(w) PROVE HandleInv'
  BY <1>14 DEF WorkerSetValue
<1>15. ASSUME NEW w \in Workers, WorkerCheck(w) PROVE HandleInv'
  <2>1. CASE ~(m_qTasks = <<>> /\ m_bDetachedFlag /\ Self \in refs)
    <3>1. /\ UNCHANGED <<refs, m_qTasks>>
          /\ \E l \in {"loop", "exit", "block"} : pc' = [pc EXCEPT ![w] = l]
          /\ m_bDetachedFlag' = m_bDetachedFlag \/ Self \notin refs \/ ~m_bDetachedFlag
      BY <1>15, <2>1 DEF WorkerCheck
    <3>2. Self \in refs /\ m_bDetachedFlag => m_bDetachedFlag'
      BY <1>15, <2>1, Zenon DEF WorkerCheck
    <3>3. QED
      BY <1>15, <3>1, <3>2
  <2>2. CASE m_qTasks = <<>> /\ m_bDetachedFlag /\ Self \in refs
    <3>1. /\ refs' = (refs \ {Self}) \cup {w} /\ UNCHANGED m_qTasks
          /\ pc' = [pc EXCEPT ![w] = "drop"]
      BY <1>15, <2>2 DEF WorkerCheck
    <3>2. NoMoreTasks
      BY <2>2 DEF ProducerLabels
    <3>a. Self # Queue /\ Self # Cleaner /\ w # Queue /\ w # Self /\ w # Cleaner
      OBVIOUS
    <3>b. refs # {Queue} /\ refs # {Cleaner}
      BY <2>2, <3>a
    <3>3. Queue \notin refs /\ pc[Cleaner] # "drop" /\ w # Queue /\ w # Self /\ w # Cleaner
      BY <3>a, <3>b
    <3>4. QED
      BY <3>1, <3>2, <3>3
  <2>3. QED
    BY <2>1, <2>2
<1>16. ASSUME NEW w \in Workers, WorkerBlock(w) PROVE HandleInv'
  BY <1>16 DEF WorkerBlock
<1>17. ASSUME NEW w \in Workers, WorkerWake(w) PROVE HandleInv'
  BY <1>17 DEF WorkerWake, WakeupCondition
<1>18. ASSUME NEW w \in Workers, SpuriousWakeup(w) PROVE HandleInv'
  BY <1>18 DEF SpuriousWakeup
<1>19. ASSUME NEW d \in Destroyers, DropHandle(d) PROVE HandleInv'
  BY <1>19 DEF DropHandle
<1>20. ASSUME NEW d \in Destroyers, DtorShutdown(d) PROVE HandleInv'
  BY <1>20 DEF DtorShutdown
<1>21. ASSUME NEW d \in Destroyers, DtorNotifyAll(d) PROVE HandleInv'
  BY <1>21 DEF DtorNotifyAll
<1>22. ASSUME NEW d \in Destroyers, DtorJoin(d) PROVE HandleInv'
  BY <1>22 DEF DtorJoin
<1>23. ASSUME NEW d \in Destroyers, DtorDrain(d) PROVE HandleInv'
  BY <1>23 DEF DtorDrain
<1>24. ASSUME CleanerLock PROVE HandleInv'
  <2>1. /\ pc[Cleaner] = "start" /\ \A p \in Producers : pc[p] = "gone"
        /\ refs' \in {refs, refs \cup {Cleaner}}
        /\ \E l \in {"take", "exit"} : pc' = [pc EXCEPT ![Cleaner] = l]
        /\ UNCHANGED <<m_qTasks, m_bDetachedFlag>>
    BY <1>24 DEF CleanerLock
  <2>2. Cleaner # Self /\ Cleaner # Queue /\ Cleaner \notin Workers /\ Cleaner \notin Producers
    OBVIOUS
  <2>3. QED
    BY <2>1, <2>2
<1>25. ASSUME CleanerTake PROVE HandleInv'
  <2>1. CASE ~(m_bDetachedFlag /\ Self \in refs)
    BY <1>25, <2>1 DEF CleanerTake
  <2>2. CASE m_bDetachedFlag /\ Self \in refs
    <3>1. /\ pc[Cleaner] = "take" /\ refs' = refs \ {Self} /\ UNCHANGED m_qTasks
          /\ pc' = [pc EXCEPT ![Cleaner] = "drop"]
      BY <1>25, <2>2 DEF CleanerTake
    <3>2. Cleaner \in refs /\ Queue \notin refs /\ \A w \in Workers : w \notin refs
      BY <2>2, <3>1
    <3>3. refs' = {Cleaner}
      <4>1. \A x \in refs' : x = Cleaner
        BY <3>1, <3>2
      <4>2. Cleaner \in refs'
        BY <3>1, <3>2
      <4>3. QED
        BY <4>1, <4>2
    <3>4. QED
      BY <3>1, <3>3
  <2>3. QED
    BY <2>1, <2>2
<1>26. ASSUME UNCHANGED vars PROVE HandleInv'
  BY <1>26 DEF vars
<1>27. QED
  BY <1>1, <1>2, <1>3, <1>4, <1>5, <1>6, <1>7, <1>8, <1>9, <1>10, <1>11, <1>12, <1>13,
     <1>14, <1>15, <1>16, <1>17, <1>18, <1>19, <1>20, <1>21, <1>22, <1>23, <1>24, <1>25, <1>26
     DEF Next, Enqueue, Detach, ConcurrentExecFn, Destructor, Terminated

\* Every step keeps what the end of the pool means.
LEMMA EndStep ==
  ASSUME SingleWorker, TypeOK, RefInv, FlagInv, HandleInv, EndInv, [Next]_vars
  PROVE  EndInv'
<1> USE ThreadsAssumption DEF TypeOK, RefInv, OwnerInv, HolderInv, DtorInv, FlagInv, HandleInv,
           NoMoreTasks, RunningLabels, DtorLabels, Detaching, Destroyers, Threads, Goto, MutexFree, EndInv, Deleting, SingleWorker, CleanerLabels
<1>1. ASSUME NEW p \in Producers, NEW t \in Tasks, EnqueueCount(p, t) PROVE EndInv'
  BY <1>1 DEF EnqueueCount
<1>2. ASSUME NEW p \in Producers, EnqueuePush(p) PROVE EndInv'
  BY <1>2 DEF EnqueuePush
<1>3. ASSUME NEW p \in Producers, EnqueueNotify(p) PROVE EndInv'
  BY <1>3 DEF EnqueueNotify, NotifyOne
<1>4. ASSUME NEW p \in Producers, ReleaseQueue(p) PROVE EndInv'
  BY <1>4 DEF ReleaseQueue
<1>5. ASSUME NEW p \in Producers, RegisterCleanup(p) PROVE EndInv'
  BY <1>5 DEF RegisterCleanup
<1>6. ASSUME NEW p \in Producers, DetachSelf(p) PROVE EndInv'
  BY <1>6 DEF DetachSelf
<1>7. ASSUME NEW p \in Producers, DetachFlag(p) PROVE EndInv'
  BY <1>7 DEF DetachFlag
<1>8. ASSUME NEW p \in Producers, DetachNotify(p) PROVE EndInv'
  BY <1>8 DEF DetachNotify, NotifyOne
<1>9. ASSUME NEW w \in Workers, WorkerLoop(w) PROVE EndInv'
  BY <1>9 DEF WorkerLoop
<1>10. ASSUME NEW w \in Workers, WorkerPop(w) PROVE EndInv'
  BY <1>10 DEF WorkerPop
<1>11. ASSUME NEW w \in Workers, WorkerRun(w) PROVE EndInv'
  BY <1>11 DEF WorkerRun
<1>12. ASSUME NEW w \in Workers, WorkerThrow(w) PROVE EndInv'
  BY <1>12 DEF WorkerThrow
<1>13. ASSUME NEW w \in Workers, WorkerDecrement(w) PROVE EndInv'
  BY <1>13 DEF WorkerDecrement
<1>14. ASSUME NEW w \in Workers, WorkerSetValue(w) PROVE EndInv'
  BY <1>14 DEF WorkerSetValue
<1>15. ASSUME NEW w \in Workers, WorkerCheck(w) PROVE EndInv'
  BY <1>15 DEF WorkerCheck
<1>16. ASSUME NEW w \in Workers, WorkerBlock(w) PROVE EndInv'
  BY <1>16 DEF WorkerBlock
<1>17. ASSUME NEW w \in Workers, WorkerWake(w) PROVE EndInv'
  BY <1>17 DEF WorkerWake, WakeupCondition
<1>18. ASSUME NEW w \in Workers, SpuriousWakeup(w) PROVE EndInv'
  BY <1>18 DEF SpuriousWakeup
<1>19. ASSUME NEW d \in Destroyers, DropHandle(d) PROVE EndInv'
  BY <1>19 DEF DropHandle
<1>20. ASSUME NEW d \in Destroyers, DtorShutdown(d) PROVE EndInv'
  BY <1>20 DEF DtorShutdown
<1>21. ASSUME NEW d \in Destroyers, DtorNotifyAll(d) PROVE EndInv'
  BY <1>21 DEF DtorNotifyAll
<1>22. ASSUME NEW d \in Destroyers, DtorJoin(d) PROVE EndInv'
  BY <1>22 DEF DtorJoin
<1>23. ASSUME NEW d \in Destroyers, DtorDrain(d) PROVE EndInv'
  BY <1>23 DEF DtorDrain
<1>24. ASSUME CleanerLock PROVE EndInv'
  BY <1>24 DEF CleanerLock
<1>25. ASSUME CleanerTake PROVE EndInv'
  BY <1>25 DEF CleanerTake
<1>26. ASSUME UNCHANGED vars PROVE EndInv'
  BY <1>26 DEF vars
<1>27. QED
  BY <1>1, <1>2, <1>3, <1>4, <1>5, <1>6, <1>7, <1>8, <1>9, <1>10, <1>11, <1>12, <1>13,
     <1>14, <1>15, <1>16, <1>17, <1>18, <1>19, <1>20, <1>21, <1>22, <1>23, <1>24, <1>25, <1>26
     DEF Next, Enqueue, Detach, ConcurrentExecFn, Destructor, Terminated

\* A non-blocking queue does not run past the end of the program: when its
\* cleaner is through, none of its tasks waits or runs.
THEOREM QueueEndsWithTheProgram ==
  ASSUME SingleWorker PROVE Spec => []NothingRunsPastExit
<1>1. Init => HandleInv /\ EndInv
  BY ThreadsAssumption DEF Init, HandleInv, EndInv, NoMoreTasks, Threads, Destroyers, DtorLabels
<1>2. FullInv /\ HandleInv /\ EndInv /\ [Next]_vars => HandleInv' /\ EndInv'
  BY SingleWorker, HandleStep, EndStep DEF FullInv, IInv
<1>3. FullInv /\ HandleInv /\ EndInv => NothingRunsPastExit
  <2> SUFFICES ASSUME FullInv, HandleInv, EndInv, pc[Cleaner] = "exit"
               PROVE  /\ \A t \in Tasks : future[t] # "pending"
                      /\ \A w \in Workers : pc[w] \notin RunningLabels
    BY DEF NothingRunsPastExit
  <2>1. /\ m_qTasks = <<>> /\ \A p \in Producers : pc[p] = "gone"
        /\ \A w \in Workers : pc[w] \notin RunningLabels
    BY DEF HandleInv, EndInv, Deleting, DtorLabels, RunningLabels
  <2>2. \A x \in Workers \cup Producers : task[x] = NoTask
    BY <2>1 DEF FullInv, IInv, PlaceInv
  <2>3. QED
    BY <2>1, <2>2, ThreadsAssumption DEF FullInv, PendingInv
<1>4. QED
  BY <1>1, <1>2, <1>3, FullInvariance, PTL DEF Spec

-----------------------------------------------------------------------------
(* Refinement                                                              *)

Running == {task[w] : w \in {v \in Workers : pc[v] \in RunningLabels}}

\* Nothing starts or completes as long as the workers keep their tasks.
LEMMA SameRunning ==
  ASSUME \A w \in Workers : /\ task'[w] = task[w]
                            /\ pc'[w] \in RunningLabels <=> pc[w] \in RunningLabels
  PROVE  Running' = Running
  BY DEF Running

\* A worker that is not running leaves room for one more task.
LEMMA RoomToRun ==
  ASSUME NEW w \in Workers, pc[w] \notin RunningLabels
  PROVE  Cardinality(Running) < Cardinality(Workers)
<1> DEFINE Busy == {v \in Workers : pc[v] \in RunningLabels}
           Image == {task[v] : v \in Busy}
<1>1. IsFiniteSet(Workers \ {w}) /\ Cardinality(Workers \ {w}) = Cardinality(Workers) - 1
  BY ThreadsAssumption, FS_RemoveElement
<1>2. Busy \subseteq Workers \ {w}
  OBVIOUS
<1>3. IsFiniteSet(Busy) /\ Cardinality(Busy) <= Cardinality(Workers \ {w})
  BY <1>1, <1>2, FS_Subset
<1>4. [v \in Busy |-> task[v]] \in Surjection(Busy, Image)
  BY DEF Surjection
<1>5. IsFiniteSet(Image) /\ Cardinality(Image) <= Cardinality(Busy)
  BY <1>3, <1>4, FS_Surjection
<1>6. Cardinality(Image) \in Nat /\ Cardinality(Busy) \in Nat /\ Cardinality(Workers) \in Nat
  BY <1>3, <1>5, ThreadsAssumption, FS_CardinalityType
<1>7. Running = Image
  BY DEF Running
<1>8. QED
  BY <1>1, <1>3, <1>5, <1>6, <1>7

\* Making the package and its future accepts the task.
LEMMA EnqueueAccepts ==
  ASSUME FullInv, NEW p \in Producers, NEW t \in Tasks, EnqueueCount(p, t)
  PROVE  Abstract!Accept(t)
<1> USE ThreadsAssumption DEF FullInv, IInv, TypeOK, Threads
<1>1. ~m_bShutdownFlag
  BY DEF EnqueueCount, RefInv, HolderInv, FlagInv
<1>2. Running' = Running
  <2>1. \A w \in Workers : task'[w] = task[w] /\ pc'[w] = pc[w]
    BY DEF EnqueueCount, Goto
  <2>2. QED
    BY <2>1, SameRunning
<1>3. QED
  BY <1>1, <1>2 DEF EnqueueCount, Abstract!Accept, Running

\* Pushing the package gives the task its place in the order.
LEMMA PushOrders ==
  ASSUME FullInv, NEW p \in Producers, EnqueuePush(p)
  PROVE  \E t \in Tasks : Abstract!Order(t)
<1> USE ThreadsAssumption DEF FullInv, IInv, TypeOK, Threads
<1>1. ~m_bShutdownFlag
  BY DEF EnqueuePush, RefInv, OwnerInv, HolderInv, FlagInv
<1>2. Running' = Running
  <2>1. \A w \in Workers : task'[w] = task[w] /\ pc'[w] = pc[w]
    BY DEF EnqueuePush, Goto
  <2>2. QED
    BY <2>1, SameRunning
<1>3. task[p] \in Tasks /\ future[task[p]] = "pending" /\ task[p] \notin Running
  BY DEF EnqueuePush, PlaceInv, Running
<1>4. \A i \in 1..Len(m_qTasks) : m_qTasks[i] # task[p]
  BY DEF PlaceInv
<1>5. Abstract!Order(task[p])
  BY <1>1, <1>2, <1>3, <1>4 DEF EnqueuePush, Abstract!Order, Running
<1>6. QED
  BY <1>3, <1>5

\* Taking a package starts the oldest waiting task.
LEMMA PopStarts ==
  ASSUME FullInv, NEW w \in Workers, WorkerPop(w), m_qTasks # <<>>
  PROVE  Abstract!Start
<1> USE ThreadsAssumption DEF FullInv, IInv, TypeOK, Threads, RunningLabels
<1>1. Abstract!Cardinality(Running) < Cardinality(Workers)
  <2>1. Cardinality(Running) < Cardinality(Workers)
    BY RoomToRun DEF WorkerPop
  <2>2. Abstract!Cardinality(Running) = Cardinality(Running)
    BY Zenon DEF Abstract!Cardinality, Cardinality
  <2>3. QED
    BY <2>1, <2>2
<1>2. \A t \in Tasks : future[t] # "broken"
  BY DEF WorkerPop, FlagInv
<1>3. /\ pc[w] = "pop" /\ pc' = [pc EXCEPT ![w] = "run"] /\ task' = [task EXCEPT ![w] = Head(m_qTasks)]
      /\ m_qTasks' = Tail(m_qTasks) /\ UNCHANGED <<future, m_bShutdownFlag>>
  BY DEF WorkerPop, Goto
<1>4. /\ \A v \in Workers \ {w} : task'[v] = task[v] /\ pc'[v] = pc[v]
      /\ task'[w] = Head(m_qTasks) /\ pc'[w] = "run"
  BY <1>3
<1>5. Running' = Running \cup {Head(m_qTasks)}
  <2>1. ASSUME NEW x \in Running' PROVE x \in Running \cup {Head(m_qTasks)}
    BY <1>3, <1>4, <2>1 DEF Running
  <2>2. ASSUME NEW x \in Running \cup {Head(m_qTasks)} PROVE x \in Running'
    BY <1>3, <1>4, <2>2 DEF Running
  <2>3. QED
    BY <2>1, <2>2
<1>6. QED
  BY <1>1, <1>2, <1>3, <1>5 DEF Abstract!Start, Running

\* Setting the promise completes the task, with a value or an exception.
LEMMA PromiseCompletes ==
  ASSUME FullInv, NEW w \in Workers, WorkerThrow(w) \/ WorkerSetValue(w)
  PROVE  \E t \in Tasks, r \in {"value", "exception"} : Abstract!Complete(t, r)
<1> USE ThreadsAssumption DEF FullInv, IInv, TypeOK, Threads, RunningLabels
<1>1. PICK r \in {"value", "exception"} : future' = [future EXCEPT ![task[w]] = r]
  BY DEF WorkerThrow, WorkerSetValue
<1>2. /\ pc[w] \in RunningLabels /\ pc' = [pc EXCEPT ![w] = "check"]
      /\ task' = [task EXCEPT ![w] = NoTask]
      /\ UNCHANGED <<m_qTasks, m_bShutdownFlag>>
  BY DEF WorkerThrow, WorkerSetValue, Goto
<1>3. task[w] \in Tasks /\ future[task[w]] = "pending" /\ task[w] \in Running
  BY <1>2 DEF PlaceInv, Running
<1>4. /\ \A v \in Workers \ {w} : task'[v] = task[v] /\ pc'[v] = pc[v]
      /\ pc'[w] = "check"
  BY <1>2
<1>5. Running' = Running \ {task[w]}
  <2>1. ASSUME NEW x \in Running' PROVE x \in Running /\ x # task[w]
    BY <1>3, <1>4, <2>1 DEF Running, PlaceInv
  <2>2. ASSUME NEW x \in Running, x # task[w] PROVE x \in Running'
    BY <1>4, <2>2 DEF Running
  <2>3. QED
    BY <2>1, <2>2
<1>6. Abstract!Complete(task[w], r)
  BY <1>1, <1>2, <1>3, <1>5 DEF Abstract!Complete, Running
<1>7. QED
  BY <1>1, <1>3, <1>6

\* The destructor breaks what waits when nothing runs any more.
LEMMA DrainBreaks ==
  ASSUME FullInv, NEW d \in Destroyers, DtorDrain(d), m_qTasks # <<>>
  PROVE  Abstract!Break
<1> USE ThreadsAssumption DEF FullInv, IInv, TypeOK, Threads, Destroyers
<1>1. m_bShutdownFlag /\ \A w \in Workers : pc[w] \in {"drain", "exit"}
  BY DEF DtorDrain, FlagInv, RefInv, DtorInv
<1>2. Running = {} /\ Running' = {}
  BY <1>1 DEF Running, RunningLabels, DtorDrain
<1>3. future[Head(m_qTasks)] = "pending"
  BY PopFacts DEF PlaceInv
<1>4. QED
  BY <1>1, <1>2, <1>3 DEF DtorDrain, Abstract!Break, Running

\* The other steps are invisible.
LEMMA OthersAreInvisible ==
  ASSUME FullInv,
         \/ \E p \in Producers : \/ EnqueueNotify(p) \/ ReleaseQueue(p) \/ Detach(p)
         \/ \E w \in Workers : \/ WorkerLoop(w) \/ WorkerRun(w) \/ WorkerDecrement(w) \/ WorkerCheck(w)
                               \/ WorkerBlock(w) \/ WorkerWake(w) \/ SpuriousWakeup(w)
                               \/ WorkerPop(w) /\ m_qTasks = <<>>
         \/ CleanerLock \/ CleanerTake
         \/ \E d \in Destroyers : \/ DropHandle(d) \/ DtorNotifyAll(d) \/ DtorJoin(d)
                                  \/ DtorDrain(d) /\ m_qTasks = <<>>
         \/ UNCHANGED vars
  PROVE  UNCHANGED Abstract!vars
<1> USE ThreadsAssumption DEF FullInv, IInv, TypeOK, Threads, Destroyers
<1>1. UNCHANGED <<m_qTasks, task, future, m_bShutdownFlag>>
  BY DEF EnqueueNotify, ReleaseQueue, Detach, RegisterCleanup, DetachSelf, DetachFlag, DetachNotify,
     WorkerLoop, WorkerRun, WorkerDecrement, WorkerCheck, WorkerBlock, WorkerWake, SpuriousWakeup,
     WorkerPop, CleanerLock, CleanerTake, DropHandle, DtorNotifyAll, DtorJoin, DtorDrain, vars
<1>2. \A v \in Workers : pc'[v] \in RunningLabels <=> pc[v] \in RunningLabels
  <2>1. CASE \E p \in Producers : \/ EnqueueNotify(p) \/ ReleaseQueue(p) \/ Detach(p)
    BY <2>1 DEF EnqueueNotify, ReleaseQueue, Detach, RegisterCleanup, DetachSelf, DetachFlag,
       DetachNotify, Goto
  <2>2. CASE \E w \in Workers : \/ WorkerLoop(w) \/ WorkerRun(w) \/ WorkerDecrement(w)
                                \/ WorkerBlock(w) \/ WorkerWake(w) \/ SpuriousWakeup(w)
                                \/ WorkerPop(w) /\ m_qTasks = <<>>
    BY <2>2 DEF WorkerLoop, WorkerRun, WorkerDecrement, WorkerBlock, WorkerWake, SpuriousWakeup,
       WorkerPop, Goto, RunningLabels
  <2>3. CASE \E w \in Workers : WorkerCheck(w)
    BY <2>3 DEF WorkerCheck, Goto, RunningLabels
  <2>4. CASE CleanerLock \/ CleanerTake \/ UNCHANGED vars
    BY <2>4 DEF CleanerLock, CleanerTake, vars, Goto
  <2>5. CASE \E d \in Destroyers : \/ DropHandle(d) \/ DtorNotifyAll(d) \/ DtorJoin(d)
                                   \/ DtorDrain(d) /\ m_qTasks = <<>>
    BY <2>5 DEF DropHandle, DtorNotifyAll, DtorJoin, DtorDrain, Goto, RunningLabels
  <2>6. QED
    BY <2>1, <2>2, <2>3, <2>4, <2>5
<1>3. Running' = Running
  BY <1>1, <1>2, SameRunning
<1>4. QED
  BY <1>1, <1>3 DEF Abstract!vars, Running

\* Setting the flag closes the pool, if that has not been done.
LEMMA ShutdownCloses ==
  ASSUME FullInv, NEW d \in Destroyers, DtorShutdown(d)
  PROVE  Abstract!Close \/ UNCHANGED Abstract!vars
<1> USE ThreadsAssumption DEF FullInv, IInv, TypeOK, Threads, Destroyers
<1>1. UNCHANGED <<m_qTasks, task, future>> /\ m_bShutdownFlag' = TRUE
  BY DEF DtorShutdown
<1>2. \A v \in Workers : pc'[v] \in RunningLabels <=> pc[v] \in RunningLabels
  BY DEF DtorShutdown, Goto, RunningLabels
<1>3. Running' = Running
  BY <1>1, <1>2, SameRunning
<1>4. CASE m_bShutdownFlag
  <2>1. m_bShutdownFlag = TRUE
    BY <1>4, Zenon
  <2>2. QED
    BY <1>1, <1>3, <2>1 DEF Abstract!vars, Running
<1>5. CASE ~m_bShutdownFlag
  BY <1>1, <1>3, <1>5 DEF Abstract!Close, Running
<1>6. QED
  BY <1>4, <1>5

\* The pool implements its abstract specification: tasks start first in, first
\* out, at most as many at a time as there are workers, each that has started
\* completes once, and futures are broken only when nothing runs any more.
THEOREM Refinement == Spec => ImplementsTaskPool
<1>1. Init => Abstract!Init
  <2> SUFFICES ASSUME Init PROVE Abstract!Init
    OBVIOUS
  <2>1. Running = {}
    BY ThreadsAssumption DEF Init, Running, RunningLabels, Threads
  <2>2. QED
    BY <2>1 DEF Init, Abstract!Init, Running
<1>2. FullInv /\ [Next]_vars => [Abstract!Next]_(Abstract!vars)
  <2> SUFFICES ASSUME FullInv, [Next]_vars PROVE Abstract!Next \/ UNCHANGED Abstract!vars
    OBVIOUS
  <2>1. CASE \E p \in Producers, t \in Tasks : EnqueueCount(p, t)
    BY <2>1, EnqueueAccepts DEF Abstract!Next
  <2>2. CASE \E p \in Producers : EnqueuePush(p)
    BY <2>2, PushOrders DEF Abstract!Next
  <2>3. CASE \E w \in Workers : WorkerPop(w) /\ m_qTasks # <<>>
    BY <2>3, PopStarts DEF Abstract!Next
  <2>4. CASE \E w \in Workers : WorkerThrow(w) \/ WorkerSetValue(w)
    BY <2>4, PromiseCompletes DEF Abstract!Next
  <2>5. CASE \E d \in Destroyers : DtorDrain(d) /\ m_qTasks # <<>>
    BY <2>5, DrainBreaks DEF Abstract!Next
  <2>6. CASE \E d \in Destroyers : DtorShutdown(d)
    BY <2>6, ShutdownCloses DEF Abstract!Next
  <2>7. QED
    BY <2>1, <2>2, <2>3, <2>4, <2>5, <2>6, OthersAreInvisible
       DEF Next, Enqueue, ConcurrentExecFn, Destructor, Terminated
<1>3. QED
  BY <1>1, <1>2, FullInvariance, PTL DEF Spec, ImplementsTaskPool, Abstract!Spec
=============================================================================
