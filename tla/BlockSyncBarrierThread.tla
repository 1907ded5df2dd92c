----------------------- MODULE BlockSyncBarrierThread -----------------------
(***************************************************************************)
(* The block synchronization of the thread accelerator: a spinning barrier *)
(* for syncBlockThreads and a barrier with a mutex and a condition         *)
(* variable for syncBlockThreadsPredicate, side by side in one object      *)
(* (block/sync/BlockSyncBarrierThread.hpp, core/BarrierThread.hpp).        *)
(*                                                                         *)
(* Variables ending in 1 belong to BarrierThread, in 2 to                  *)
(* BarrierThreadWithPredicate.  Every access to an atomic is a step of its *)
(* own, so is everything between lock and unlock except that the step that *)
(* opens the second barrier is apart from the arrival that leads to it.    *)
(* The generation counters have the width of TIdx and wrap around.         *)
(***************************************************************************)
EXTENDS BlockOps

CONSTANTS Threads,     \* the threads of the block
          Generations  \* 2^w for the width w of TIdx

ASSUME BlockAssumption == IsFiniteSet(Threads) /\ Threads # {}
ASSUME WidthAssumption == Generations \in Nat \ {0} /\ Generations % 2 = 0

VARIABLES
  m_curThreadCount1, m_generation1,
  m_curThreadCount2, m_generation2, m_result,
  m_mtxBarrier,                 \* is the mutex held between two steps
  m_cvAllThreadsReachedBarrier, \* the threads asleep on it
  pc, generationWhenEnteredTheWait, generationMod2,   \* of every thread
  op, predicate                 \* what it called and with what

barrier1 == <<m_curThreadCount1, m_generation1>>
barrier2 == <<m_curThreadCount2, m_generation2, m_result, m_mtxBarrier, m_cvAllThreadsReachedBarrier>>
vars == <<barrier1, barrier2, pc, generationWhenEnteredTheWait, generationMod2,
          op, predicate>>

m_threadCount == Cardinality(Threads)

\* A thread is inside a wait that its generation has not been let out of ...
Waiting1(t) == pc[t] = "spin" /\ generationWhenEnteredTheWait[t] = m_generation1
Waiting2(t) == pc[t] = "sleep" /\ generationWhenEnteredTheWait[t] = m_generation2
\* ... or its generation has been let out.
Released(t) == \/ pc[t] = "return"
               \/ pc[t] = "spin" /\ generationWhenEnteredTheWait[t] # m_generation1
               \/ pc[t] = "sleep" /\ generationWhenEnteredTheWait[t] # m_generation2

At(t) == IF pc[t] = "out" THEN "out" ELSE IF Released(t) THEN "go" ELSE "in"

\* m_result is not initialized.
Init ==
  /\ m_curThreadCount1 = m_threadCount /\ m_generation1 = 0
  /\ m_curThreadCount2 = m_threadCount /\ m_generation2 = 0
  /\ m_result \in [{0, 1} -> {0, m_threadCount}]
  /\ m_mtxBarrier = FALSE
  /\ m_cvAllThreadsReachedBarrier = {}
  /\ pc = [t \in Threads |-> "out"]
  /\ generationWhenEnteredTheWait = [t \in Threads |-> 0]
  /\ generationMod2 = [t \in Threads |-> 0]
  /\ op = [t \in Threads |-> "sync"]
  /\ predicate = [t \in Threads |-> FALSE]

Goto(t, label) == pc' = [pc EXCEPT ![t] = label]

\* wait returns and its local variables are gone.
LeaveWait(t) ==
  /\ Goto(t, "out")
  /\ generationWhenEnteredTheWait' = [generationWhenEnteredTheWait EXCEPT ![t] = 0]
  /\ generationMod2' = [generationMod2 EXCEPT ![t] = 0]
  /\ op' = [op EXCEPT ![t] = "sync"]
  /\ predicate' = [predicate EXCEPT ![t] = FALSE]

-----------------------------------------------------------------------------
(* Seeded faults: wrong versions of definitions below, each of which makes *)
(* one of the properties fail.  No specification uses them.                *)

OneSlot == 0                \* both generations share one result

OneShort(t) ==              \* the last but one thread opens the barrier
  /\ pc[t] = "lock" /\ ~m_mtxBarrier
  /\ m_curThreadCount2' = m_curThreadCount2 - 1
  /\ IF m_curThreadCount2 <= 2
       THEN Goto(t, "bump2") /\ m_mtxBarrier' = TRUE /\ UNCHANGED m_cvAllThreadsReachedBarrier
       ELSE /\ Goto(t, "sleep") /\ UNCHANGED m_mtxBarrier
            /\ m_cvAllThreadsReachedBarrier' = m_cvAllThreadsReachedBarrier \cup {t}
  /\ UNCHANGED <<barrier1, m_generation2, m_result, generationWhenEnteredTheWait, generationMod2,
                 op, predicate>>

NoNotify(t) ==              \* the sleeping threads are not notified
  /\ pc[t] = "bump2"
  /\ m_curThreadCount2' = m_threadCount
  /\ m_generation2' = (m_generation2 + 1) % Generations
  /\ m_mtxBarrier' = FALSE
  /\ Goto(t, "return")
  /\ UNCHANGED <<barrier1, m_result, m_cvAllThreadsReachedBarrier,
                 generationWhenEnteredTheWait, generationMod2, op, predicate>>

NoReset(t) ==               \* the count is not put back for the next generation
  /\ pc[t] = "reset"
  /\ Goto(t, "bump")
  /\ UNCHANGED <<barrier1, barrier2, generationWhenEnteredTheWait, generationMod2, op, predicate>>

-----------------------------------------------------------------------------
(* syncBlockThreads: BarrierThread::wait                                   *)

\* All threads of a block come to the same synchronizations in the same order.
Convergent(o) == \A u \in Threads : At(u) = "in" => op[u] = o

SyncBlockThreads(t) ==
  /\ pc[t] = "out" /\ Convergent("sync")
  /\ op' = [op EXCEPT ![t] = "sync"]
  /\ predicate' = [predicate EXCEPT ![t] = FALSE]
  /\ Goto(t, "read")
  /\ UNCHANGED <<barrier1, barrier2, generationWhenEnteredTheWait, generationMod2>>

ReadGeneration1(t) ==
  /\ pc[t] = "read" /\ op[t] = "sync"
  /\ generationWhenEnteredTheWait' = [generationWhenEnteredTheWait EXCEPT ![t] = m_generation1]
  /\ Goto(t, "decrement")
  /\ UNCHANGED <<barrier1, barrier2, generationMod2, op, predicate>>

\* if(--m_curThreadCount == 0)
Decrement1(t) ==
  /\ pc[t] = "decrement"
  /\ m_curThreadCount1' = m_curThreadCount1 - 1
  /\ Goto(t, IF m_curThreadCount1 = 1 THEN "reset" ELSE "spin")
  /\ UNCHANGED <<m_generation1, barrier2, generationWhenEnteredTheWait, generationMod2, op, predicate>>

Reset1(t) ==
  /\ pc[t] = "reset"
  /\ m_curThreadCount1' = m_threadCount
  /\ Goto(t, "bump")
  /\ UNCHANGED <<m_generation1, barrier2, generationWhenEnteredTheWait, generationMod2, op, predicate>>

Bump1(t) ==
  /\ pc[t] = "bump"
  /\ m_generation1' = (m_generation1 + 1) % Generations
  /\ Goto(t, "return")
  /\ UNCHANGED <<m_curThreadCount1, barrier2, generationWhenEnteredTheWait, generationMod2, op, predicate>>

\* The loop sees another generation.
SpinEnds(t) ==
  /\ pc[t] = "spin" /\ generationWhenEnteredTheWait[t] # m_generation1
  /\ LeaveWait(t)
  /\ UNCHANGED <<barrier1, barrier2>>

-----------------------------------------------------------------------------
(* syncBlockThreadsPredicate: BarrierThreadWithPredicate::wait             *)

SyncBlockThreadsPredicate(t, o, v) ==
  /\ pc[t] = "out" /\ Convergent(o)
  /\ op' = [op EXCEPT ![t] = o]
  /\ predicate' = [predicate EXCEPT ![t] = v]
  /\ Goto(t, "read")
  /\ UNCHANGED <<barrier1, barrier2, generationWhenEnteredTheWait, generationMod2>>

\* Not under the mutex, and m_generation is a plain integer.
ReadGeneration2(t) ==
  /\ pc[t] = "read" /\ op[t] # "sync"
  /\ generationWhenEnteredTheWait' = [generationWhenEnteredTheWait EXCEPT ![t] = m_generation2]
  /\ Goto(t, "lock")
  /\ UNCHANGED <<barrier1, barrier2, generationMod2, op, predicate>>

Slot == m_generation2 % 2

\* Lock, contribute, count down; the last one goes on to open the barrier with
\* the mutex held, the others wait for another generation.
Arrive2(t) ==
  /\ pc[t] = "lock" /\ ~m_mtxBarrier
  /\ LET start == IF m_curThreadCount2 = m_threadCount THEN InitialValue(op[t]) ELSE m_result[Slot]
     IN m_result' = [m_result EXCEPT ![Slot] = AtomicOp(op[t], start, predicate[t])]
  /\ generationMod2' = [generationMod2 EXCEPT ![t] = Slot]
  /\ m_curThreadCount2' = m_curThreadCount2 - 1
  /\ IF m_curThreadCount2 = 1
       THEN /\ Goto(t, "bump2") /\ m_mtxBarrier' = TRUE
            /\ UNCHANGED m_cvAllThreadsReachedBarrier
       ELSE /\ Goto(t, "sleep")
            /\ m_cvAllThreadsReachedBarrier' =
                 IF generationWhenEnteredTheWait[t] = m_generation2
                   THEN m_cvAllThreadsReachedBarrier \cup {t} ELSE m_cvAllThreadsReachedBarrier
            /\ UNCHANGED m_mtxBarrier
  /\ UNCHANGED <<barrier1, m_generation2, generationWhenEnteredTheWait, op, predicate>>

Bump2(t) ==
  /\ pc[t] = "bump2"
  /\ m_curThreadCount2' = m_threadCount
  /\ m_generation2' = (m_generation2 + 1) % Generations
  /\ m_cvAllThreadsReachedBarrier' = {}
  /\ m_mtxBarrier' = FALSE
  /\ Goto(t, "return")
  /\ UNCHANGED <<barrier1, m_result, generationWhenEnteredTheWait, generationMod2, op, predicate>>

SpuriousWakeup(t) ==
  /\ t \in m_cvAllThreadsReachedBarrier
  /\ m_cvAllThreadsReachedBarrier' = m_cvAllThreadsReachedBarrier \ {t}
  /\ UNCHANGED <<barrier1, m_curThreadCount2, m_generation2, m_result, m_mtxBarrier,
                 pc, generationWhenEnteredTheWait, generationMod2, op, predicate>>

\* Awake and holding the mutex: look at the generation and leave or sleep again.
Wake2(t) ==
  /\ pc[t] = "sleep" /\ t \notin m_cvAllThreadsReachedBarrier /\ ~m_mtxBarrier
  /\ IF generationWhenEnteredTheWait[t] # m_generation2
       THEN /\ LeaveWait(t)
            /\ UNCHANGED m_cvAllThreadsReachedBarrier
       ELSE /\ m_cvAllThreadsReachedBarrier' = m_cvAllThreadsReachedBarrier \cup {t}
            /\ UNCHANGED <<pc, generationWhenEnteredTheWait, generationMod2, op, predicate>>
  /\ UNCHANGED <<barrier1, m_curThreadCount2, m_generation2, m_result, m_mtxBarrier>>

\* The thread that opened a barrier leaves it.
Return(t) ==
  /\ pc[t] = "return"
  /\ LeaveWait(t)
  /\ UNCHANGED <<barrier1, barrier2>>

-----------------------------------------------------------------------------
Call(t) == \/ SyncBlockThreads(t)
           \/ \E o \in PredicateOps, v \in BOOLEAN : SyncBlockThreadsPredicate(t, o, v)

Step(t) == \/ ReadGeneration1(t) \/ Decrement1(t) \/ Reset1(t) \/ Bump1(t) \/ SpinEnds(t)
           \/ ReadGeneration2(t) \/ Arrive2(t) \/ Bump2(t) \/ Wake2(t) \/ Return(t)

Next == \E t \in Threads : Call(t) \/ Step(t) \/ SpuriousWakeup(t)

Spec == Init /\ [][Next]_vars

\* A thread in a wait is scheduled.
FairSpec == Spec /\ \A t \in Threads : WF_vars(Step(t))

-----------------------------------------------------------------------------
(* Properties                                                              *)

Labels == {"out", "read", "decrement", "reset", "bump", "spin", "lock", "bump2", "sleep", "return"}

\* The types of both barriers and of the threads' local variables; the counts
\* never go below zero, which unsigned ones would wrap around from.
TypeOK ==
  /\ m_curThreadCount1 \in 0..m_threadCount /\ m_curThreadCount2 \in 0..m_threadCount
  /\ m_generation1 \in 0..(Generations - 1) /\ m_generation2 \in 0..(Generations - 1)
  /\ m_result \in [{0, 1} -> Nat]
  /\ m_mtxBarrier \in BOOLEAN
  /\ m_cvAllThreadsReachedBarrier \subseteq Threads
  /\ pc \in [Threads -> Labels]
  /\ generationWhenEnteredTheWait \in [Threads -> 0..(Generations - 1)]
  /\ generationMod2 \in [Threads -> {0, 1}]
  /\ op \in [Threads -> PredicateOps \cup {"sync"}]
  /\ predicate \in [Threads -> BOOLEAN]

\* m_generation of the second barrier is a plain integer that wait reads before
\* it locks the mutex.  While the last thread to arrive, holding the mutex, is
\* about to write it, all others are asleep in the barrier, so that none of them
\* can be about to read it: there is no data race.
NoRaceOnGeneration ==
  \A t \in Threads : pc[t] = "bump2" => \A u \in Threads \ {t} : pc[u] = "sleep"

\* The value a thread takes out is the one it finds in m_result as it returns.
Value(t) == IF Released(t) /\ op[t] # "sync" THEN m_result[generationMod2[t]] ELSE 0
BS == INSTANCE BlockSync WITH
        at <- [t \in Threads |-> At(t)], op <- op, given <- predicate,
        value <- [t \in Threads |-> Value(t)]

\* Both barriers together do what the interface of block synchronization says,
\* whatever sequence of the two a kernel uses: nobody gets out of wait before
\* all have entered it, and all get out with the combination of all predicates,
\* though a fast thread is already combining the next one.
ImplementsBlockSync == BS!Spec

\* No wakeup is lost: once all threads have entered a wait, each returns from it.
EverybodyGetsOut == BS!Fairness
=============================================================================
