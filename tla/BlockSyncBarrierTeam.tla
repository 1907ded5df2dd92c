------------------------ MODULE BlockSyncBarrierTeam ------------------------
(***************************************************************************)
(* The block synchronizations that have a barrier of their runtime to      *)
(* build on: that of OpenMP (block/sync/BlockSyncBarrierOmp.hpp), and that *)
(* of Boost.Fiber (block/sync/BlockSyncBarrierFiber.hpp), where a fiber    *)
(* runs until it waits.  The members the two have in common are one        *)
(* variable here.                                                          *)
(***************************************************************************)
EXTENDS BlockOps

CONSTANTS Threads, Generations

VARIABLES kind,              \* "Omp" or "Fiber"
          m_generation, m_result,
          m_curThreadCount,  \* BlockSyncBarrierFiber
          single,            \* OpenMP: has the single region of this round been entered
          pc, generationMod2, op, predicate

shared == <<m_generation, m_result, m_curThreadCount, single>>
vars == <<kind, shared, pc, generationMod2, op, predicate>>

m_threadCount == Cardinality(Threads)

\* m_result is not initialized.
Init ==
  /\ kind \in {"Omp", "Fiber"}
  /\ m_generation = 0
  /\ m_result \in [{0, 1} -> {0, m_threadCount}]
  /\ m_curThreadCount = 0
  /\ single = FALSE
  /\ pc = [t \in Threads |-> "out"]
  /\ generationMod2 = [t \in Threads |-> 0]
  /\ op = [t \in Threads |-> "sync"]
  /\ predicate = [t \in Threads |-> FALSE]

Goto(t, label) == pc' = [pc EXCEPT ![t] = label]

\* A barrier of the runtime: the last one to arrive lets everybody out.
RuntimeBarrier(t, before, after) ==
  pc' = IF \A u \in Threads \ {t} : pc[u] = before
          THEN [u \in Threads |-> after] ELSE [pc EXCEPT ![t] = before]

\* Fibers take turns: no other one runs between a call and its wait.
Scheduled(t) == kind = "Fiber" => \A u \in Threads \ {t} : pc[u] \notin {"combine", "arrive"}

At(t) == IF pc[t] = "out" THEN "out" ELSE IF pc[t] = "return" THEN "go" ELSE "in"

-----------------------------------------------------------------------------
(* Seeded fault: a wrong version of the definition below, which makes the  *)
(* property fail.  No specification uses it.                               *)

OneSlot(generation) == 0    \* the next round overwrites a result not yet returned

-----------------------------------------------------------------------------
Slot(generation) == generation % 2

\* syncBlockThreads and syncBlockThreadsPredicate are called by all threads of a
\* block in the same order.
Sync(t, o, v) ==
  /\ pc[t] = "out" /\ Scheduled(t)
  /\ \A u \in Threads : At(u) = "in" => op[u] = o
  /\ op' = [op EXCEPT ![t] = o]
  /\ predicate' = [predicate EXCEPT ![t] = v]
  /\ Goto(t, IF o = "sync" THEN "arrive" ELSE IF kind = "Omp" THEN "single" ELSE "combine")
  /\ UNCHANGED <<kind, shared, generationMod2>>

\* omp single, and the barrier at its end.
Single(t) ==
  /\ pc[t] = "single"
  /\ IF single THEN UNCHANGED <<m_generation, m_result>>
     ELSE /\ m_generation' = (m_generation + 1) % Generations
          /\ m_result' = [m_result EXCEPT ![Slot(m_generation')] = InitialValue(op[t])]
  /\ RuntimeBarrier(t, "endOfSingle", "combine")
  /\ single' = (pc'[t] # "combine")
  /\ UNCHANGED <<kind, m_curThreadCount, generationMod2, op, predicate>>

\* omp atomic
CombineOmp(t) ==
  /\ kind = "Omp" /\ pc[t] = "combine"
  /\ LET slot == Slot(m_generation)
     IN /\ generationMod2' = [generationMod2 EXCEPT ![t] = slot]
        /\ m_result' = [m_result EXCEPT ![slot] = AtomicOp(op[t], @, predicate[t])]
  /\ Goto(t, "arrive")
  /\ UNCHANGED <<kind, m_generation, m_curThreadCount, single, op, predicate>>

\* The first fiber of a round begins it.
CombineFiber(t) ==
  /\ kind = "Fiber" /\ pc[t] = "combine"
  /\ LET full == m_curThreadCount = m_threadCount
         generation == IF full THEN (m_generation + 1) % Generations ELSE m_generation
         count == IF full THEN 0 ELSE m_curThreadCount
         slot == Slot(generation)
         start == IF count = 0 THEN InitialValue(op[t]) ELSE m_result[slot]
     IN /\ m_generation' = generation
        /\ m_curThreadCount' = count + 1
        /\ generationMod2' = [generationMod2 EXCEPT ![t] = slot]
        /\ m_result' = [m_result EXCEPT ![slot] = AtomicOp(op[t], start, predicate[t])]
  /\ Goto(t, "arrive")
  /\ UNCHANGED <<kind, single, op, predicate>>

\* omp barrier, m_barrier.wait()
Arrive(t) ==
  /\ pc[t] = "arrive"
  /\ RuntimeBarrier(t, "barrier", "return")
  /\ UNCHANGED <<kind, shared, generationMod2, op, predicate>>

Return(t) ==
  /\ pc[t] = "return" /\ Scheduled(t)
  /\ Goto(t, "out")
  /\ generationMod2' = [generationMod2 EXCEPT ![t] = 0]
  /\ op' = [op EXCEPT ![t] = "sync"]
  /\ predicate' = [predicate EXCEPT ![t] = FALSE]
  /\ UNCHANGED <<kind, shared>>

Step(t) == Single(t) \/ CombineOmp(t) \/ CombineFiber(t) \/ Arrive(t) \/ Return(t)

Next == \E t \in Threads :
          \/ Sync(t, "sync", FALSE)
          \/ \E o \in PredicateOps, v \in BOOLEAN : Sync(t, o, v)
          \/ Step(t)

Spec == Init /\ [][Next]_vars

-----------------------------------------------------------------------------
(* What the interface says of it                                           *)

Value(t) == IF pc[t] = "return" /\ op[t] # "sync" THEN m_result[generationMod2[t]] ELSE 0
BS == INSTANCE BlockSync WITH
        at <- [t \in Threads |-> At(t)], op <- op, given <- predicate,
        value <- [t \in Threads |-> Value(t)]
=============================================================================
