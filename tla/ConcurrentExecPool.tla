------------------------- MODULE ConcurrentExecPool -------------------------
(***************************************************************************)
(* The condition-variable thread pool of core/ConcurrentExecPool.hpp       *)
(* (the specialisation with isYielding = false) together with the way the  *)
(* non-blocking CPU queue ends its life: the last copy of the queue that   *)
(* goes away registers an exit-time cleaner and hands the pool's only      *)
(* strong reference to the pool itself (detach); the pool is destroyed by  *)
(* the worker that finds it idle or by the cleaner at program exit.        *)
(*                                                                         *)
(* Threads: Producers hold copies of the queue and enqueue tasks, Workers  *)
(* run concurrentExecFn, Cleaner is the thread that runs the destructor of *)
(* the static CleanupList.  A critical section of m_mtxWakeup in which     *)
(* nothing blocks is one step that needs the mutex to be free; the one     *)
(* that ends in m_cvWakeup.wait is two steps with the mutex held between   *)
(* them, so that what happens between the check and the wait is visible.   *)
(***************************************************************************)
EXTENDS Naturals, Sequences, FiniteSets

CONSTANTS Workers,      \* the threads of m_vConcurrentExecs
          Producers,    \* threads that own a copy of the queue
          Cleaner,      \* the thread that runs exit-time destructors
          Tasks,        \* the tasks that may be enqueued, each at most once
          MayThrow,     \* the tasks whose function object can throw
          NoTask, NoThread,
          Queue, Self   \* holders of strong references that are not threads

ASSUME ThreadsAssumption ==
  /\ Workers # {} /\ Producers # {}
  /\ IsFiniteSet(Workers) /\ IsFiniteSet(Producers) /\ IsFiniteSet(Tasks)
  /\ MayThrow \subseteq Tasks
  /\ Workers \cap Producers = {}
  /\ Cleaner \notin Workers \cup Producers
  /\ NoTask \notin Tasks
  /\ NoThread \notin Workers
  /\ Queue # Self
  /\ {Queue, Self} \cap (Workers \cup {Cleaner}) = {}

VARIABLES
  m_qTasks,         \* the task packages waiting in the ThreadSafeQueue
  m_numActiveTasks,
  m_mtxWakeup,      \* the worker that holds the mutex between two steps
  m_cvWakeup,       \* the workers blocked in m_cvWakeup.wait
  m_bShutdownFlag,
  m_bDetachedFlag,
  refs,             \* the holders of a strong reference to the pool
  destroyed,        \* the pool's destructor has finished
  m_cleanup,        \* the cleaner of this pool is in the CleanupList
  owners,           \* the producers that still hold a copy of the queue
  task,             \* the task package a thread is working on
  future,           \* what the future of a task has been told
  pc

vars == <<m_qTasks, m_numActiveTasks, m_mtxWakeup, m_cvWakeup, m_bShutdownFlag,
          m_bDetachedFlag, refs, destroyed, m_cleanup, owners, task, future, pc>>

Threads == Workers \cup Producers \cup {Cleaner}
Destroyers == Workers \cup {Cleaner}

MutexFree == m_mtxWakeup = NoThread

\* m_cvWakeup.notify_one(): wakes one waiting worker, or none if none waits.
NotifyOne == \/ m_cvWakeup = {} /\ m_cvWakeup' = {}
             \/ \E w \in m_cvWakeup : m_cvWakeup' = m_cvWakeup \ {w}

Goto(t, label) == pc' = [pc EXCEPT ![t] = label]

\* The constructor: every worker starts in concurrentExecFn; the queue owns
\* the pool and every producer owns a copy of the queue.
Init ==
  /\ m_qTasks = <<>>
  /\ m_numActiveTasks = 0
  /\ m_mtxWakeup = NoThread
  /\ m_cvWakeup = {}
  /\ m_bShutdownFlag = FALSE
  /\ m_bDetachedFlag = FALSE
  /\ refs = {Queue}
  /\ destroyed = FALSE
  /\ m_cleanup = FALSE
  /\ owners = Producers
  /\ task = [t \in Workers \cup Producers |-> NoTask]
  /\ future = [t \in Tasks |-> "none"]
  /\ pc = [t \in Threads |-> IF t \in Workers THEN "loop"
                             ELSE IF t \in Producers THEN "idle"
                             ELSE "start"]

-----------------------------------------------------------------------------
(* Seeded faults: wrong versions of actions below, each of which makes one *)
(* of the properties fail.  No specification uses them.                    *)

UncountedEnqueue(p, t) ==   \* ++m_numActiveTasks is forgotten
  /\ pc[p] = "idle" /\ p \in owners /\ future[t] = "none"
  /\ future' = [future EXCEPT ![t] = "pending"]
  /\ task' = [task EXCEPT ![p] = t]
  /\ Goto(p, "push")
  /\ UNCHANGED <<m_qTasks, m_numActiveTasks, m_mtxWakeup, m_cvWakeup, m_bShutdownFlag,
                 m_bDetachedFlag, refs, destroyed, m_cleanup, owners>>

UnlockedPush(p) ==          \* the push does not take m_mtxWakeup
  /\ pc[p] = "push"
  /\ m_qTasks' = Append(m_qTasks, task[p])
  /\ task' = [task EXCEPT ![p] = NoTask]
  /\ Goto(p, "notify")
  /\ UNCHANGED <<m_numActiveTasks, m_mtxWakeup, m_cvWakeup, m_bShutdownFlag,
                 m_bDetachedFlag, refs, destroyed, m_cleanup, owners, future>>

UnlockedDetachFlag(p) ==    \* m_bDetachedFlag is set without m_mtxWakeup
  /\ pc[p] = "detachFlag"
  /\ m_bDetachedFlag' = TRUE
  /\ Goto(p, "detachNotify")
  /\ UNCHANGED <<m_qTasks, m_numActiveTasks, m_mtxWakeup, m_cvWakeup, m_bShutdownFlag,
                 refs, destroyed, m_cleanup, owners, task, future>>

LastInFirstOut(w) ==        \* popTask takes the youngest task
  /\ pc[w] = "pop"
  /\ \/ /\ m_qTasks = <<>>
        /\ Goto(w, "check")
        /\ UNCHANGED <<m_qTasks, task>>
     \/ /\ m_qTasks # <<>>
        /\ task' = [task EXCEPT ![w] = m_qTasks[Len(m_qTasks)]]
        /\ m_qTasks' = SubSeq(m_qTasks, 1, Len(m_qTasks) - 1)
        /\ Goto(w, "run")
  /\ UNCHANGED <<m_numActiveTasks, m_mtxWakeup, m_cvWakeup, m_bShutdownFlag,
                 m_bDetachedFlag, refs, destroyed, m_cleanup, owners, future>>

ValueBeforeDecrement(w) ==  \* the promise is fulfilled before the decrement
  /\ pc[w] = "run"
  /\ future' = [future EXCEPT ![task[w]] = "value"]
  /\ Goto(w, "decrement")
  /\ UNCHANGED <<m_qTasks, m_numActiveTasks, m_mtxWakeup, m_cvWakeup, m_bShutdownFlag,
                 m_bDetachedFlag, refs, destroyed, m_cleanup, owners, task>>

DoubleDecrement(w) ==       \* the task is counted down twice
  /\ pc[w] = "decrement"
  /\ m_numActiveTasks' = m_numActiveTasks - 2
  /\ Goto(w, "setValue")
  /\ UNCHANGED <<m_qTasks, m_mtxWakeup, m_cvWakeup, m_bShutdownFlag,
                 m_bDetachedFlag, refs, destroyed, m_cleanup, owners, task, future>>

EagerDetach(w) ==           \* the handle is taken although tasks are waiting
  /\ pc[w] = "check"
  /\ MutexFree
  /\ \/ /\ m_bDetachedFlag /\ Self \in refs
        /\ m_bDetachedFlag' = FALSE
        /\ refs' = (refs \ {Self}) \cup {w}
        /\ Goto(w, "drop")
        /\ UNCHANGED m_mtxWakeup
     \/ /\ ~m_bDetachedFlag
        /\ IF m_qTasks = <<>> /\ ~m_bShutdownFlag
             THEN Goto(w, "block") /\ m_mtxWakeup' = w
             ELSE Goto(w, "loop") /\ UNCHANGED m_mtxWakeup
        /\ UNCHANGED <<m_bDetachedFlag, refs>>
  /\ UNCHANGED <<m_qTasks, m_numActiveTasks, m_cvWakeup, m_bShutdownFlag,
                 destroyed, m_cleanup, owners, task, future>>

CleanerForgets ==           \* the cleaner does not take the detach handle
  /\ pc[Cleaner] = "take"
  /\ refs' = refs \ {Cleaner}
  /\ Goto(Cleaner, IF refs' = {} THEN "shutdown" ELSE "exit")
  /\ UNCHANGED <<m_qTasks, m_numActiveTasks, m_mtxWakeup, m_cvWakeup, m_bShutdownFlag,
                 m_bDetachedFlag, destroyed, m_cleanup, owners, task, future>>

NoJoin(d) ==                \* the destructor does not wait for the workers
  /\ pc[d] = "join"
  /\ Goto(d, "drain")
  /\ UNCHANGED <<m_qTasks, m_numActiveTasks, m_mtxWakeup, m_cvWakeup, m_bShutdownFlag,
                 m_bDetachedFlag, refs, destroyed, m_cleanup, owners, task, future>>

-----------------------------------------------------------------------------
(* enqueueTask, by a producer                                              *)

\* The package and its future are made and the task is counted as active.
EnqueueCount(p, t) ==
  /\ pc[p] = "idle" /\ p \in owners
  /\ future[t] = "none"
  /\ future' = [future EXCEPT ![t] = "pending"]
  /\ task' = [task EXCEPT ![p] = t]
  /\ m_numActiveTasks' = m_numActiveTasks + 1
  /\ Goto(p, "push")
  /\ UNCHANGED <<m_qTasks, m_mtxWakeup, m_cvWakeup, m_bShutdownFlag,
                 m_bDetachedFlag, refs, destroyed, m_cleanup, owners>>

\* The package is pushed under m_mtxWakeup.
EnqueuePush(p) ==
  /\ pc[p] = "push"
  /\ MutexFree
  /\ m_qTasks' = Append(m_qTasks, task[p])
  /\ task' = [task EXCEPT ![p] = NoTask]
  /\ Goto(p, "notify")
  /\ UNCHANGED <<m_numActiveTasks, m_mtxWakeup, m_cvWakeup, m_bShutdownFlag,
                 m_bDetachedFlag, refs, destroyed, m_cleanup, owners, future>>

EnqueueNotify(p) ==
  /\ pc[p] = "notify"
  /\ NotifyOne
  /\ Goto(p, "idle")
  /\ UNCHANGED <<m_qTasks, m_numActiveTasks, m_mtxWakeup, m_bShutdownFlag,
                 m_bDetachedFlag, refs, destroyed, m_cleanup, owners, task, future>>

-----------------------------------------------------------------------------
(* The destructor of the queue, by the producer that held the last copy,   *)
(* and the pool's detach, which it calls.                                  *)

ReleaseQueue(p) ==
  /\ pc[p] = "idle" /\ p \in owners
  /\ owners' = owners \ {p}
  /\ Goto(p, IF owners = {p} THEN "register" ELSE "gone")
  /\ UNCHANGED <<m_qTasks, m_numActiveTasks, m_mtxWakeup, m_cvWakeup, m_bShutdownFlag,
                 m_bDetachedFlag, refs, destroyed, m_cleanup, task, future>>

RegisterCleanup(p) ==
  /\ pc[p] = "register"
  /\ m_cleanup' = TRUE
  /\ Goto(p, "detachSelf")
  /\ UNCHANGED <<m_qTasks, m_numActiveTasks, m_mtxWakeup, m_cvWakeup, m_bShutdownFlag,
                 m_bDetachedFlag, refs, destroyed, owners, task, future>>

\* m_self = std::move(self): the queue's reference becomes the pool's own.
DetachSelf(p) ==
  /\ pc[p] = "detachSelf"
  /\ refs' = (refs \ {Queue}) \cup {Self}
  /\ Goto(p, "detachFlag")
  /\ UNCHANGED <<m_qTasks, m_numActiveTasks, m_mtxWakeup, m_cvWakeup, m_bShutdownFlag,
                 m_bDetachedFlag, destroyed, m_cleanup, owners, task, future>>

DetachFlag(p) ==
  /\ pc[p] = "detachFlag"
  /\ MutexFree
  /\ m_bDetachedFlag' = TRUE
  /\ Goto(p, "detachNotify")
  /\ UNCHANGED <<m_qTasks, m_numActiveTasks, m_mtxWakeup, m_cvWakeup, m_bShutdownFlag,
                 refs, destroyed, m_cleanup, owners, task, future>>

\* The notification is sent after the mutex has been released.
DetachNotify(p) ==
  /\ pc[p] = "detachNotify"
  /\ NotifyOne
  /\ Goto(p, "gone")
  /\ UNCHANGED <<m_qTasks, m_numActiveTasks, m_mtxWakeup, m_bShutdownFlag,
                 m_bDetachedFlag, refs, destroyed, m_cleanup, owners, task, future>>

-----------------------------------------------------------------------------
(* concurrentExecFn, by a worker                                           *)

\* while(!m_bShutdownFlag), read without the mutex.
WorkerLoop(w) ==
  /\ pc[w] = "loop"
  /\ Goto(w, IF m_bShutdownFlag THEN "exit" ELSE "pop")
  /\ UNCHANGED <<m_qTasks, m_numActiveTasks, m_mtxWakeup, m_cvWakeup, m_bShutdownFlag,
                 m_bDetachedFlag, refs, destroyed, m_cleanup, owners, task, future>>

\* popTask, which takes the mutex of the ThreadSafeQueue only.
WorkerPop(w) ==
  /\ pc[w] = "pop"
  /\ \/ /\ m_qTasks = <<>>
        /\ Goto(w, "check")
        /\ UNCHANGED <<m_qTasks, task>>
     \/ /\ m_qTasks # <<>>
        /\ task' = [task EXCEPT ![w] = Head(m_qTasks)]
        /\ m_qTasks' = Tail(m_qTasks)
        /\ Goto(w, "run")
  /\ UNCHANGED <<m_numActiveTasks, m_mtxWakeup, m_cvWakeup, m_bShutdownFlag,
                 m_bDetachedFlag, refs, destroyed, m_cleanup, owners, future>>

\* The function object returns; the bound decrement is called next.
WorkerRun(w) ==
  /\ pc[w] = "run"
  /\ Goto(w, "decrement")
  /\ UNCHANGED <<m_qTasks, m_numActiveTasks, m_mtxWakeup, m_cvWakeup, m_bShutdownFlag,
                 m_bDetachedFlag, refs, destroyed, m_cleanup, owners, task, future>>

\* The function object throws: invokeBothReturnFirst never calls the bound
\* decrement, and runTask stores the exception in the promise.
WorkerThrow(w) ==
  /\ pc[w] = "run"
  /\ task[w] \in MayThrow
  /\ future' = [future EXCEPT ![task[w]] = "exception"]
  /\ task' = [task EXCEPT ![w] = NoTask]
  /\ Goto(w, "check")
  /\ UNCHANGED <<m_qTasks, m_numActiveTasks, m_mtxWakeup, m_cvWakeup, m_bShutdownFlag,
                 m_bDetachedFlag, refs, destroyed, m_cleanup, owners>>

WorkerDecrement(w) ==
  /\ pc[w] = "decrement"
  /\ m_numActiveTasks' = m_numActiveTasks - 1
  /\ Goto(w, "setValue")
  /\ UNCHANGED <<m_qTasks, m_mtxWakeup, m_cvWakeup, m_bShutdownFlag,
                 m_bDetachedFlag, refs, destroyed, m_cleanup, owners, task, future>>

WorkerSetValue(w) ==
  /\ pc[w] = "setValue"
  /\ future' = [future EXCEPT ![task[w]] = "value"]
  /\ task' = [task EXCEPT ![w] = NoTask]
  /\ Goto(w, "check")
  /\ UNCHANGED <<m_qTasks, m_numActiveTasks, m_mtxWakeup, m_cvWakeup, m_bShutdownFlag,
                 m_bDetachedFlag, refs, destroyed, m_cleanup, owners>>

\* The critical section up to the wait: work left means another round, a
\* detach handle means stop and delete, a set shutdown flag means stop, and
\* otherwise the worker is going to wait with the mutex in its hand.
WorkerCheck(w) ==
  /\ pc[w] = "check"
  /\ MutexFree
  /\ \/ /\ m_qTasks # <<>>
        /\ Goto(w, "loop")
        /\ UNCHANGED <<m_bDetachedFlag, refs, m_mtxWakeup>>
     \/ /\ m_qTasks = <<>> /\ m_bDetachedFlag /\ Self \in refs
        /\ m_bDetachedFlag' = FALSE
        /\ refs' = (refs \ {Self}) \cup {w}
        /\ Goto(w, "drop")
        /\ UNCHANGED m_mtxWakeup
     \/ /\ m_qTasks = <<>> /\ ~(m_bDetachedFlag /\ Self \in refs)
        /\ m_bDetachedFlag' = FALSE
        /\ IF m_bShutdownFlag
             THEN Goto(w, "exit") /\ UNCHANGED m_mtxWakeup
             ELSE Goto(w, "block") /\ m_mtxWakeup' = w
        /\ UNCHANGED refs
  /\ UNCHANGED <<m_qTasks, m_numActiveTasks, m_cvWakeup, m_bShutdownFlag,
                 destroyed, m_cleanup, owners, task, future>>

\* m_cvWakeup.wait releases the mutex and blocks in one step.
WorkerBlock(w) ==
  /\ pc[w] = "block"
  /\ m_mtxWakeup' = NoThread
  /\ m_cvWakeup' = m_cvWakeup \cup {w}
  /\ Goto(w, "wait")
  /\ UNCHANGED <<m_qTasks, m_numActiveTasks, m_bShutdownFlag, m_bDetachedFlag,
                 refs, destroyed, m_cleanup, owners, task, future>>

\* A condition variable may wake up without a notification.
SpuriousWakeup(w) ==
  /\ w \in m_cvWakeup
  /\ m_cvWakeup' = m_cvWakeup \ {w}
  /\ UNCHANGED <<m_qTasks, m_numActiveTasks, m_mtxWakeup, m_bShutdownFlag, m_bDetachedFlag,
                 refs, destroyed, m_cleanup, owners, task, future, pc>>

\* The predicate of the wait.
WakeupCondition == m_qTasks # <<>> \/ m_bShutdownFlag \/ m_bDetachedFlag

\* A woken worker re-acquires the mutex and evaluates the predicate.
WorkerWake(w) ==
  /\ pc[w] = "wait" /\ w \notin m_cvWakeup
  /\ MutexFree
  /\ \/ WakeupCondition /\ Goto(w, "loop") /\ UNCHANGED m_cvWakeup
     \/ ~WakeupCondition /\ m_cvWakeup' = m_cvWakeup \cup {w} /\ UNCHANGED pc
  /\ UNCHANGED <<m_qTasks, m_numActiveTasks, m_mtxWakeup, m_bShutdownFlag, m_bDetachedFlag,
                 refs, destroyed, m_cleanup, owners, task, future>>

-----------------------------------------------------------------------------
(* The exit-time cleaner                                                   *)

\* The program exits after the producers are gone: pool.lock() yields a
\* reference unless the last one has been dropped.
CleanerLock ==
  /\ pc[Cleaner] = "start"
  /\ \A p \in Producers : pc[p] = "gone"
  /\ m_cleanup
  /\ IF refs # {}
       THEN refs' = refs \cup {Cleaner} /\ Goto(Cleaner, "take")
       ELSE Goto(Cleaner, "exit") /\ UNCHANGED refs
  /\ UNCHANGED <<m_qTasks, m_numActiveTasks, m_mtxWakeup, m_cvWakeup, m_bShutdownFlag,
                 m_bDetachedFlag, destroyed, m_cleanup, owners, task, future>>

\* s = s->takeDetachHandle(), without the mutex: the cleaner ends up with the
\* pool's own reference or with none.
CleanerTake ==
  /\ pc[Cleaner] = "take"
  /\ m_bDetachedFlag' = FALSE
  /\ \/ /\ m_bDetachedFlag /\ Self \in refs
        /\ refs' = refs \ {Self}
        /\ Goto(Cleaner, "drop")
     \/ /\ ~(m_bDetachedFlag /\ Self \in refs)
        /\ refs' = refs \ {Cleaner}
        /\ Goto(Cleaner, IF refs' = {} THEN "shutdown" ELSE "exit")
  /\ UNCHANGED <<m_qTasks, m_numActiveTasks, m_mtxWakeup, m_cvWakeup, m_bShutdownFlag,
                 destroyed, m_cleanup, owners, task, future>>

-----------------------------------------------------------------------------
(* ~ConcurrentExecPool, by the thread that drops the last reference        *)

DropHandle(d) ==
  /\ pc[d] = "drop"
  /\ refs' = refs \ {d}
  /\ Goto(d, IF refs' = {} THEN "shutdown" ELSE "exit")
  /\ UNCHANGED <<m_qTasks, m_numActiveTasks, m_mtxWakeup, m_cvWakeup, m_bShutdownFlag,
                 m_bDetachedFlag, destroyed, m_cleanup, owners, task, future>>

DtorShutdown(d) ==
  /\ pc[d] = "shutdown"
  /\ MutexFree
  /\ m_bShutdownFlag' = TRUE
  /\ Goto(d, "notifyAll")
  /\ UNCHANGED <<m_qTasks, m_numActiveTasks, m_mtxWakeup, m_cvWakeup, m_bDetachedFlag,
                 refs, destroyed, m_cleanup, owners, task, future>>

DtorNotifyAll(d) ==
  /\ pc[d] = "notifyAll"
  /\ m_cvWakeup' = {}
  /\ Goto(d, "join")
  /\ UNCHANGED <<m_qTasks, m_numActiveTasks, m_mtxWakeup, m_bShutdownFlag, m_bDetachedFlag,
                 refs, destroyed, m_cleanup, owners, task, future>>

\* joinAllConcurrentExecs: waits for every worker but the calling thread.
DtorJoin(d) ==
  /\ pc[d] = "join"
  /\ \A w \in Workers \ {d} : pc[w] = "exit"
  /\ Goto(d, "drain")
  /\ UNCHANGED <<m_qTasks, m_numActiveTasks, m_mtxWakeup, m_cvWakeup, m_bShutdownFlag,
                 m_bDetachedFlag, refs, destroyed, m_cleanup, owners, task, future>>

\* The tasks that were not able to run get an exception; then the members die.
DtorDrain(d) ==
  /\ pc[d] = "drain"
  /\ \/ /\ m_qTasks # <<>>
        /\ future' = [future EXCEPT ![Head(m_qTasks)] = "broken"]
        /\ m_qTasks' = Tail(m_qTasks)
        /\ UNCHANGED <<destroyed, pc>>
     \/ /\ m_qTasks = <<>>
        /\ destroyed' = TRUE
        /\ Goto(d, "exit")
        /\ UNCHANGED <<m_qTasks, future>>
  /\ UNCHANGED <<m_numActiveTasks, m_mtxWakeup, m_cvWakeup, m_bShutdownFlag,
                 m_bDetachedFlag, refs, m_cleanup, owners, task>>

-----------------------------------------------------------------------------
Terminated == /\ \A t \in Threads : pc[t] \in {"gone", "exit"}
              /\ UNCHANGED vars

Enqueue(p) == EnqueuePush(p) \/ EnqueueNotify(p)

Detach(p) == RegisterCleanup(p) \/ DetachSelf(p) \/ DetachFlag(p) \/ DetachNotify(p)

ConcurrentExecFn(w) ==
  \/ WorkerLoop(w) \/ WorkerPop(w) \/ WorkerRun(w) \/ WorkerThrow(w)
  \/ WorkerDecrement(w) \/ WorkerSetValue(w) \/ WorkerCheck(w)
  \/ WorkerBlock(w) \/ WorkerWake(w)

Destructor(d) == \/ DropHandle(d) \/ DtorShutdown(d) \/ DtorNotifyAll(d)
                 \/ DtorJoin(d) \/ DtorDrain(d)

Next ==
  \/ \E p \in Producers : \/ \E t \in Tasks : EnqueueCount(p, t)
                          \/ Enqueue(p) \/ ReleaseQueue(p) \/ Detach(p)
  \/ \E w \in Workers : ConcurrentExecFn(w) \/ SpuriousWakeup(w)
  \/ CleanerLock \/ CleanerTake
  \/ \E d \in Destroyers : Destructor(d)
  \/ Terminated

Spec == Init /\ [][Next]_vars

\* Every thread that can take a step inside the pool's code eventually does;
\* nothing makes a producer enqueue or release, nothing makes the program
\* exit, and spurious wake-ups are never owed.
FairSpec ==
  /\ Spec
  /\ \A p \in Producers : WF_vars(Enqueue(p) \/ Detach(p))
  /\ \A w \in Workers : WF_vars(ConcurrentExecFn(w) \/ Destructor(w))
  /\ WF_vars(CleanerTake \/ Destructor(Cleaner))

-----------------------------------------------------------------------------
(* Properties                                                              *)

WorkerLabels == {"loop", "pop", "run", "decrement", "setValue", "check", "block",
                 "wait", "drop", "shutdown", "notifyAll", "join", "drain", "exit"}
ProducerLabels == {"idle", "push", "notify", "register", "detachSelf",
                   "detachFlag", "detachNotify", "gone"}
CleanerLabels == {"start", "take", "drop", "shutdown", "notifyAll", "join", "drain", "exit"}
DtorLabels == {"shutdown", "notifyAll", "join", "drain"}
RunningLabels == {"run", "decrement", "setValue"}

\* The types of the pool's members and of the threads' local state.
TypeOK ==
  /\ m_qTasks \in Seq(Tasks)
  /\ m_numActiveTasks \in Nat
  /\ m_mtxWakeup \in Workers \cup {NoThread}
  /\ m_cvWakeup \subseteq Workers
  /\ m_bShutdownFlag \in BOOLEAN /\ m_bDetachedFlag \in BOOLEAN
  /\ refs \subseteq Destroyers \cup {Queue, Self}
  /\ destroyed \in BOOLEAN /\ m_cleanup \in BOOLEAN
  /\ owners \subseteq Producers
  /\ task \in [Workers \cup Producers -> Tasks \cup {NoTask}]
  /\ future \in [Tasks -> {"none", "pending", "value", "exception", "broken"}]
  /\ pc \in [Threads -> WorkerLabels \cup ProducerLabels \cup CleanerLabels]
  /\ \A w \in Workers : pc[w] \in WorkerLabels
  /\ \A p \in Producers : pc[p] \in ProducerLabels
  /\ pc[Cleaner] \in CleanerLabels

isIdle == m_numActiveTasks = 0

Finished(t) == future[t] \in {"value", "exception", "broken"}

\* isIdle never lies to empty(queue): when the counter is zero, no task is
\* waiting in the pool or still inside its function object, although the
\* counter is changed outside every lock.
IdleMeansNothingLeft ==
  isIdle => /\ m_qTasks = <<>>
            /\ \A w \in Workers : pc[w] \notin {"run", "decrement"}
            /\ \A p \in Producers : pc[p] # "push"

\* The other direction: when every task handed in so far has returned, the pool
\* is idle.  The decrement comes before the future becomes ready, so a host
\* thread that has waited can rely on it.  A task that throws is never counted
\* down and the pool reports busy for ever; empty(queue) is documented to allow
\* that direction of error.
FinishedMeansIdle == (\A t \in Tasks : future[t] \in {"none", "value"}) => isIdle

\* A detached pool still runs every task it was given: futures are broken by
\* the destructor only when the program has begun to exit.
BrokenOnlyAtExit == (\E t \in Tasks : future[t] = "broken") => pc[Cleaner] # "start"

\* Once the exit-time cleaner of a queue is through, none of its tasks waits
\* or runs any more (a non-blocking queue does not run past the end of the
\* program).  It rests on the queue's pool having a single worker.
NothingRunsPastExit ==
  pc[Cleaner] = "exit" => /\ \A t \in Tasks : future[t] # "pending"
                          /\ \A w \in Workers : pc[w] \notin RunningLabels

\* The labels at which the next step of a thread touches the pool's members.
UsesPool(t) == IF t = Cleaner THEN pc[t] \in {"take", "drop"} \cup DtorLabels
               ELSE IF t \in Workers THEN pc[t] # "exit"
               ELSE pc[t] # "gone" /\ pc[t] # "idle"

\* No thread is inside the pool when its destructor has ended, and only the
\* thread that drops the last reference runs the destructor: nobody joins
\* itself, nobody pops from a dead queue.  The one use this leaves out is the
\* notify_one at the end of detach.
AliveWhileUsed ==
  /\ destroyed => \A t \in Threads : UsesPool(t) => pc[t] = "detachNotify"
  /\ \A d, e \in Destroyers : pc[d] \in DtorLabels /\ pc[e] \in DtorLabels => d = e
  /\ \A d \in Destroyers : pc[d] \in DtorLabels => refs = {}

\* What the comment in concurrentExecFn says of the moment of deletion: "Pool
\* was detached and is idle".  Nobody is inside a member function of the pool
\* when a worker deletes it.
IdleWhenDeleted == destroyed => \A t \in Threads : ~UsesPool(t)

\* Every task handed to the pool is run or told that it will not be: no wake-up
\* is lost between the check of the worker and its wait.
EveryTaskFinishes == \A t \in Tasks : (future[t] = "pending") ~> Finished(t)

\* A released pool is eventually destroyed, by a worker or by the cleaner: the
\* detach handle is never lost.
ReleasedPoolDies == (owners = {}) ~> destroyed

\* The pool implements the abstract pool of Cardinality(Workers) executors.
Abstract == INSTANCE TaskPool WITH
  Size <- Cardinality(Workers),
  waiting <- m_qTasks,
  running <- {task[w] : w \in {v \in Workers : pc[v] \in RunningLabels}},
  outcome <- future,
  closed <- m_bShutdownFlag

\* FIFO starts, bounded concurrency, and no broken future while tasks run.
ImplementsTaskPool == Abstract!Spec
=============================================================================
