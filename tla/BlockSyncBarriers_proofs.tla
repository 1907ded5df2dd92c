---------------------- MODULE BlockSyncBarriers_proofs ----------------------
(***************************************************************************)
(* Proofs about the block synchronizations for every number of threads and *)
(* every even width of the generation counters.  The argument about        *)
(* BlockSyncBarrierThread is a count: the threads that have arrived in a   *)
(* generation that has not been let out (Counted1, Counted2) are exactly   *)
(* those missing from m_curThreadCount, so the thread that brings it to    *)
(* zero finds all the others waiting.  About BlockSyncBarrierOmp and       *)
(* BlockSyncBarrierFiber it is that the slot of the generation holds what  *)
(* the threads that Contributed have given, and the results still to be    *)
(* taken are in the other slot.                                            *)
(***************************************************************************)
EXTENDS BlockSyncBarriers, FiniteSetTheorems, TLAPS

Counted1 == {t \in Threads : pc[t] \in {"reset", "bump"} \/ Waiting1(t)}
Counted2 == {t \in Threads : pc[t] = "bump2" \/ Waiting2(t)}
LetOut == {t \in Threads : Released(t)}
Inside == {t \in Threads : pc[t] # "out" /\ ~Released(t)}

\* Local generations are up to date until the thread waits.
Entered ==
  \A t \in Threads :
    /\ pc[t] \in {"decrement", "reset", "bump"} => generationWhenEnteredTheWait[t] = m_generation1
    /\ pc[t] \in {"lock", "bump2"} => generationWhenEnteredTheWait[t] = m_generation2
    /\ pc[t] \in {"decrement", "reset", "bump", "spin"} => op[t] = "sync"
    /\ pc[t] \in {"lock", "bump2", "sleep"} => op[t] # "sync"

\* Threads that have not been let out are in the same synchronization.
Together == \A t, u \in Inside : op[t] = op[u]

\* The counts of the two barriers.
Count1 ==
  /\ \A t \in Threads : pc[t] \in {"reset", "bump"} => Counted1 = Threads
  /\ \A t, u \in Threads : pc[t] \in {"reset", "bump"} /\ pc[u] \in {"reset", "bump"} => t = u
  /\ m_curThreadCount1 = IF \E t \in Threads : pc[t] = "bump" THEN m_threadCount
                         ELSE m_threadCount - Cardinality(Counted1)
Count2 ==
  /\ \A t \in Threads : pc[t] = "bump2" => Counted2 = Threads
  /\ \A t, u \in Threads : pc[t] = "bump2" /\ pc[u] = "bump2" => t = u
  /\ m_mtxBarrier = \E t \in Threads : pc[t] = "bump2"
  /\ m_curThreadCount2 = m_threadCount - Cardinality(Counted2)

\* The slot of the current generation holds the predicates counted so far; the
\* other slot belongs to the threads that have been let out and not returned.
Result ==
  /\ \A t \in Counted2 :
       /\ generationMod2[t] = Slot
       /\ m_result[Slot] = Combine(op[t], predicate, Counted2)
  /\ \A t \in LetOut : op[t] # "sync" => generationMod2[t] # Slot

IInv == TypeOK /\ Entered /\ Together /\ Count1 /\ Count2 /\ Result

-----------------------------------------------------------------------------
(* Arithmetic and sets                                                     *)

\* The number of threads is a positive number.
LEMMA ThreadCount == m_threadCount \in Nat /\ m_threadCount > 0
<1>1. m_threadCount \in Nat
  BY BlockAssumption, FS_CardinalityType DEF m_threadCount
<1>2. m_threadCount # 0
  BY BlockAssumption, FS_EmptySet DEF m_threadCount
<1> QED BY <1>1, <1>2

\* Sets of threads are finite, and all threads are the only set of their number.
LEMMA Counting ==
  ASSUME NEW S \in SUBSET Threads
  PROVE  /\ IsFiniteSet(S)
         /\ Cardinality(S) \in Nat
         /\ Cardinality(S) <= m_threadCount
         /\ Cardinality(S) = m_threadCount => S = Threads
         /\ S = Threads => Cardinality(S) = m_threadCount
         /\ \A t \in Threads \ S : Cardinality(S \cup {t}) = Cardinality(S) + 1
<1>1. IsFiniteSet(S) /\ Cardinality(S) <= m_threadCount
  BY BlockAssumption, FS_Subset DEF m_threadCount
<1>2. Cardinality(S) = m_threadCount => S = Threads
  BY BlockAssumption, FS_Subset DEF m_threadCount
<1>3. \A t \in Threads \ S : Cardinality(S \cup {t}) = Cardinality(S) + 1
  BY <1>1, FS_AddElement
<1>4. Cardinality(S) \in Nat
  BY <1>1, FS_CardinalityType
<1> QED BY <1>1, <1>2, <1>3, <1>4 DEF m_threadCount

\* The next generation is another one and uses the other slot, wrapped or not.
LEMMA NextGeneration ==
  ASSUME NEW g \in 0..(Generations - 1)
  PROVE  /\ (g + 1) % Generations \in 0..(Generations - 1)
         /\ (g + 1) % Generations # g
         /\ g % 2 \in {0, 1}
         /\ ((g + 1) % Generations) % 2 # g % 2
<1>1. Generations \in Nat /\ Generations >= 2 /\ Generations % 2 = 0
  BY WidthAssumption
<1>2. CASE g + 1 < Generations
  <2>1. (g + 1) % Generations = g + 1
    BY <1>1, <1>2
  <2> QED BY <2>1, <1>1, <1>2
<1>3. CASE g + 1 = Generations
  <2>1. (g + 1) % Generations = 0
    BY <1>1, <1>3
  <2>2. g % 2 = 1
    BY <1>1, <1>3
  <2> QED BY <2>1, <2>2, <1>1, <1>3
<1> QED BY <1>1, <1>2, <1>3

\* One more thread: what AtomicOp does to the combination of the others.
LEMMA CombineStep ==
  ASSUME NEW o \in PredicateOps, NEW f \in [Threads -> BOOLEAN],
         NEW S \in SUBSET Threads, NEW t \in Threads \ S
  PROVE  Combine(o, f, S \cup {t}) = AtomicOp(o, Combine(o, f, S), f[t])
<1> DEFINE A == Ones(f, S)  B == Ones(f, S \cup {t})
<1>1. A \in SUBSET Threads /\ t \notin A /\ A \subseteq S
  BY DEF Ones
<1>2. f[t] => B = A \cup {t}
  BY DEF Ones
<1>3. ~f[t] => B = A
  BY DEF Ones
<1>4. Cardinality(A) \in Nat /\ Cardinality(A \cup {t}) = Cardinality(A) + 1
  BY <1>1, Counting
<1>5. CASE o = "BlockCount"
  BY <1>2, <1>3, <1>4, <1>5 DEF Combine, AtomicOp
<1>6. CASE o = "BlockAnd"
  <2>1. B = S \cup {t} <=> A = S /\ f[t]
    BY <1>1, <1>2, <1>3
  <2> QED BY <2>1, <1>6 DEF Combine, AtomicOp
<1>7. CASE o = "BlockOr"
  <2>1. B = {} <=> A = {} /\ ~f[t]
    BY <1>1, <1>2, <1>3
  <2> QED BY <2>1, <1>7 DEF Combine, AtomicOp
<1> QED BY <1>5, <1>6, <1>7 DEF PredicateOps

\* The combination of no predicates is the initial value.
LEMMA CombineNone ==
  ASSUME NEW o \in PredicateOps, NEW f \in [Threads -> BOOLEAN]
  PROVE  Combine(o, f, {}) = InitialValue(o)
BY FS_EmptySet DEF Combine, Ones, InitialValue, PredicateOps

\* Combinations are numbers and depend only on the predicates combined.
LEMMA CombineFacts ==
  ASSUME NEW o, NEW f \in [Threads -> BOOLEAN], NEW g \in [Threads -> BOOLEAN],
         NEW S \in SUBSET Threads, \A u \in S : f[u] = g[u]
  PROVE  Combine(o, f, S) = Combine(o, g, S) /\ Combine(o, f, S) \in Nat
<1>1. Ones(f, S) = Ones(g, S) /\ Ones(f, S) \in SUBSET Threads
  BY DEF Ones
<1>2. Cardinality(Ones(f, S)) \in Nat
  BY <1>1, Counting
<1> QED BY <1>1, <1>2 DEF Combine

-----------------------------------------------------------------------------
(* Steps that change no count                                              *)

\* While no generation changes, a thread that does nothing keeps its status.
LEMMA Others ==
  ASSUME NEW t \in Threads,
         m_generation1' = m_generation1, m_generation2' = m_generation2,
         \A u \in Threads \ {t} :
           /\ pc'[u] = pc[u]
           /\ generationWhenEnteredTheWait'[u] = generationWhenEnteredTheWait[u]
  PROVE  /\ LetOut' \ {t} = LetOut \ {t} /\ Inside' \ {t} = Inside \ {t}
         /\ Counted1' \ {t} = Counted1 \ {t} /\ Counted2' \ {t} = Counted2 \ {t}
<1>1. LetOut' \ {t} = LetOut \ {t}
  BY DEF LetOut, Released
<1>2. Inside' \ {t} = Inside \ {t}
  BY DEF Inside, Released
<1>3. Counted1' \ {t} = Counted1 \ {t}
  BY DEF Counted1, Waiting1
<1>4. Counted2' \ {t} = Counted2 \ {t}
  BY DEF Counted2, Waiting2
<1> QED BY <1>1, <1>2, <1>3, <1>4

\* A step of a thread that is counted neither before nor after it.
LEMMA Uncounted ==
  ASSUME IInv, NEW t \in Threads,
         UNCHANGED <<barrier1, m_curThreadCount2, m_generation2, m_result, m_mtxBarrier>>,
         \A u \in Threads \ {t} :
           /\ pc'[u] = pc[u] /\ op'[u] = op[u] /\ predicate'[u] = predicate[u]
           /\ generationWhenEnteredTheWait'[u] = generationWhenEnteredTheWait[u]
           /\ generationMod2'[u] = generationMod2[u],
         predicate' \in [Threads -> BOOLEAN],
         t \notin Counted1, t \notin Counted2, t \notin Counted1', t \notin Counted2',
         t \notin LetOut'
  PROVE  Count1' /\ Count2' /\ Result'
<1>1. Counted1' = Counted1 /\ Counted2' = Counted2
  BY Others DEF barrier1, Counted1, Counted2
<1>2. pc[t] \notin {"reset", "bump", "bump2"} /\ pc'[t] \notin {"reset", "bump", "bump2"}
  BY DEF Counted1, Counted2
<1>3. Count1'
  BY <1>1, <1>2 DEF IInv, Count1, barrier1, m_threadCount
<1>4. Count2'
  BY <1>1, <1>2 DEF IInv, Count2, m_threadCount
<1>5. \A u \in Counted2 : Combine(op[u], predicate, Counted2) = Combine(op[u], predicate', Counted2)
  BY CombineFacts DEF IInv, TypeOK, Counted2
<1>6. Slot' = Slot
  BY DEF Slot
<1>7. \A u \in Counted2 : u \in Threads \ {t}
  BY DEF Counted2
<1>8. \A u \in Counted2' : /\ generationMod2'[u] = Slot'
                          /\ m_result'[Slot'] = Combine(op'[u], predicate', Counted2')
  BY <1>1, <1>5, <1>6, <1>7 DEF IInv, Result
<1>9. \A u \in LetOut' : u \in LetOut /\ u \in Threads \ {t}
  BY Others DEF barrier1, LetOut
<1>10. \A u \in LetOut' : op'[u] # "sync" => generationMod2'[u] # Slot'
  BY <1>6, <1>9 DEF IInv, Result
<1> QED BY <1>3, <1>4, <1>8, <1>10 DEF Result

\* syncBlockThreads and syncBlockThreadsPredicate begin.
LEMMA CallStep ==
  ASSUME IInv, NEW t \in Threads, Call(t)
  PROVE  IInv'
<1>1. PICK o \in PredicateOps \cup {"sync"}, v \in BOOLEAN :
        /\ pc[t] = "out" /\ Convergent(o)
        /\ op' = [op EXCEPT ![t] = o]
        /\ predicate' = [predicate EXCEPT ![t] = v]
        /\ pc' = [pc EXCEPT ![t] = "read"]
        /\ UNCHANGED <<barrier1, barrier2, generationWhenEnteredTheWait, generationMod2>>
  BY DEF Call, SyncBlockThreads, SyncBlockThreadsPredicate, Goto
<1>2. TypeOK'
  BY <1>1 DEF IInv, TypeOK, Labels, barrier1, barrier2, m_threadCount
<1>3. Entered'
  BY <1>1 DEF IInv, TypeOK, Entered, barrier1, barrier2
<1>4. \A u \in Threads \ {t} : /\ pc'[u] = pc[u] /\ op'[u] = op[u] /\ predicate'[u] = predicate[u]
                               /\ generationWhenEnteredTheWait'[u] = generationWhenEnteredTheWait[u]
                               /\ generationMod2'[u] = generationMod2[u]
  BY <1>1 DEF IInv, TypeOK
<1>5. pc'[t] = "read" /\ op'[t] = o
  BY <1>1 DEF IInv, TypeOK
<1>6. Together'
  <2>1. ASSUME NEW u \in Inside PROVE op[u] = o
    <3>1. u \in Threads /\ At(u) = "in"
      BY DEF At, Inside
    <3>2. Convergent(o)
      BY <1>1
    <3> QED BY <3>1, <3>2 DEF Convergent
  <2>2. \A u \in Inside' : u = t \/ (u \in Inside /\ u \in Threads \ {t})
    BY <1>1, <1>4, Others DEF barrier1, barrier2, Inside
  <2> QED BY <2>1, <2>2, <1>4, <1>5 DEF Together
<1>7. /\ t \notin Counted1 /\ t \notin Counted2 /\ t \notin Counted1' /\ t \notin Counted2'
      /\ t \notin LetOut'
  BY <1>1, <1>5 DEF Counted1, Counted2, LetOut, Waiting1, Waiting2, Released
<1>8. Count1' /\ Count2' /\ Result'
  BY <1>1, <1>2, <1>4, <1>7, Uncounted DEF TypeOK, barrier2
<1> QED BY <1>2, <1>3, <1>6, <1>8 DEF IInv

\* The generation is read on entry to either wait.
LEMMA ReadStep ==
  ASSUME IInv, NEW t \in Threads, ReadGeneration1(t) \/ ReadGeneration2(t)
  PROVE  IInv'
<1>1. PICK g \in {m_generation1, m_generation2}, l \in {"decrement", "lock"} :
        /\ pc[t] = "read"
        /\ l = "decrement" => op[t] = "sync" /\ g = m_generation1
        /\ l = "lock" => op[t] # "sync" /\ g = m_generation2
        /\ generationWhenEnteredTheWait' = [generationWhenEnteredTheWait EXCEPT ![t] = g]
        /\ pc' = [pc EXCEPT ![t] = l]
        /\ UNCHANGED <<barrier1, barrier2, generationMod2, op, predicate>>
  BY DEF ReadGeneration1, ReadGeneration2, Goto
<1>2. TypeOK'
  BY <1>1 DEF IInv, TypeOK, Labels, barrier1, barrier2, m_threadCount
<1>3. Entered'
  BY <1>1 DEF IInv, TypeOK, Entered, barrier1, barrier2
<1>4. \A u \in Threads \ {t} : /\ pc'[u] = pc[u] /\ op'[u] = op[u] /\ predicate'[u] = predicate[u]
                               /\ generationWhenEnteredTheWait'[u] = generationWhenEnteredTheWait[u]
                               /\ generationMod2'[u] = generationMod2[u]
  BY <1>1 DEF IInv, TypeOK
<1>5. pc'[t] = l /\ op'[t] = op[t]
  BY <1>1 DEF IInv, TypeOK
<1>6. Together'
  <2>1. t \in Inside
    BY <1>1 DEF Inside, Released
  <2>2. Inside' \subseteq Inside
    BY <1>1, <1>4, <2>1, Others DEF barrier1, barrier2
  <2> QED BY <2>2, <1>1 DEF IInv, Together
<1>7. /\ t \notin Counted1 /\ t \notin Counted2 /\ t \notin Counted1' /\ t \notin Counted2'
      /\ t \notin LetOut'
  BY <1>1, <1>5 DEF Counted1, Counted2, LetOut, Waiting1, Waiting2, Released
<1>8. Count1' /\ Count2' /\ Result'
  BY <1>1, <1>2, <1>4, <1>7, Uncounted DEF TypeOK, barrier2
<1> QED BY <1>2, <1>3, <1>6, <1>8 DEF IInv

\* A thread that has been let out returns.
LEMMA LeaveStep ==
  ASSUME IInv, NEW t \in Threads, Released(t), LeaveWait(t),
         UNCHANGED <<barrier1, barrier2>>
  PROVE  IInv'
<1>1. /\ pc' = [pc EXCEPT ![t] = "out"]
      /\ op' = [op EXCEPT ![t] = "sync"]
      /\ predicate' = [predicate EXCEPT ![t] = FALSE]
      /\ generationWhenEnteredTheWait' = [generationWhenEnteredTheWait EXCEPT ![t] = 0]
      /\ generationMod2' = [generationMod2 EXCEPT ![t] = 0]
  BY DEF LeaveWait, Goto
<1>2. TypeOK'
  BY <1>1, WidthAssumption DEF IInv, TypeOK, Labels, barrier1, barrier2, m_threadCount
<1>3. Entered'
  BY <1>1 DEF IInv, TypeOK, Entered, barrier1, barrier2
<1>4. \A u \in Threads \ {t} : /\ pc'[u] = pc[u] /\ op'[u] = op[u] /\ predicate'[u] = predicate[u]
                               /\ generationWhenEnteredTheWait'[u] = generationWhenEnteredTheWait[u]
                               /\ generationMod2'[u] = generationMod2[u]
  BY <1>1 DEF IInv, TypeOK
<1>5. pc'[t] = "out"
  BY <1>1 DEF IInv, TypeOK
<1>6. Together'
  <2>1. t \notin Inside'
    BY <1>5 DEF Inside
  <2>2. \A u \in Inside' : u \in Inside /\ u \in Threads \ {t}
    BY <1>1, <1>4, <2>1, Others DEF barrier1, barrier2, Inside
  <2> QED BY <2>2, <1>4 DEF IInv, Together
<1>7. /\ t \notin Counted1 /\ t \notin Counted2 /\ t \notin Counted1' /\ t \notin Counted2'
      /\ t \notin LetOut'
  BY <1>1, <1>5 DEF Counted1, Counted2, LetOut, Waiting1, Waiting2, Released
<1>8. Count1' /\ Count2' /\ Result'
  BY <1>1, <1>2, <1>4, <1>7, Uncounted DEF TypeOK, barrier2
<1> QED BY <1>2, <1>3, <1>6, <1>8 DEF IInv

\* Falling asleep again and waking up for no reason.
LEMMA SleepStep ==
  ASSUME IInv,
         m_cvAllThreadsReachedBarrier' \in SUBSET Threads,
         UNCHANGED <<barrier1, m_curThreadCount2, m_generation2, m_result, m_mtxBarrier, pc,
                     generationWhenEnteredTheWait, generationMod2, op, predicate>>
  PROVE  IInv'
<1>1. TypeOK'
  BY DEF IInv, TypeOK, barrier1, m_threadCount
<1>2. Entered' /\ Together'
  BY DEF IInv, Entered, Together, Inside, Released, barrier1
<1>3. Counted1' = Counted1 /\ Counted2' = Counted2
  BY DEF Counted1, Counted2, Waiting1, Waiting2, barrier1
<1>4. Count1' /\ Count2'
  BY <1>3 DEF IInv, Count1, Count2, barrier1, m_threadCount
<1>5. Result'
  BY <1>3 DEF IInv, Result, Slot, LetOut, Released, barrier1
<1> QED BY <1>1, <1>2, <1>4, <1>5 DEF IInv

-----------------------------------------------------------------------------
(* Steps of the first barrier                                              *)

\* A thread is counted in the first barrier.
LEMMA Decrement1Step ==
  ASSUME IInv, NEW t \in Threads, Decrement1(t)
  PROVE  IInv'
<1>1. /\ pc[t] = "decrement" /\ pc \in [Threads -> Labels]
      /\ m_curThreadCount1' = m_curThreadCount1 - 1
      /\ pc' = [pc EXCEPT ![t] = IF m_curThreadCount1 = 1 THEN "reset" ELSE "spin"]
      /\ generationWhenEnteredTheWait[t] = m_generation1
      /\ UNCHANGED <<m_generation1, barrier2, generationWhenEnteredTheWait, generationMod2, op, predicate>>
  BY DEF Decrement1, Goto, IInv, TypeOK, Entered
<1>2. t \notin Counted1 /\ t \notin Counted2 /\ Counted1 \in SUBSET Threads
  BY <1>1 DEF Counted1, Counted2, Waiting1, Waiting2
<1>3. \A u \in Threads : pc[u] \notin {"reset", "bump"}
  BY <1>2 DEF IInv, Count1
<1>4. m_curThreadCount1 = m_threadCount - Cardinality(Counted1)
  BY <1>3 DEF IInv, Count1
<1>5. \A u \in Threads \ {t} : pc'[u] = pc[u]
  BY <1>1
<1>6. pc'[t] = IF m_curThreadCount1 = 1 THEN "reset" ELSE "spin"
  BY <1>1
<1>7. Counted1' = Counted1 \cup {t}
  <2>1. t \in Counted1'
    BY <1>1, <1>6 DEF Counted1, Waiting1
  <2> QED BY <2>1, <1>1, <1>2, <1>5, Others DEF barrier2
<1>8. Counted2' = Counted2
  <2>1. t \notin Counted2'
    BY <1>6 DEF Counted2, Waiting2
  <2> QED BY <2>1, <1>1, <1>2, <1>5, Others DEF barrier2
<1>9. Inside' = Inside /\ LetOut' = LetOut
  <2>1. t \in Inside /\ t \in Inside' /\ t \notin LetOut /\ t \notin LetOut'
    BY <1>1, <1>6 DEF Inside, LetOut, Released
  <2> QED BY <2>1, <1>1, <1>5, Others DEF barrier2
<1>10. /\ m_threadCount \in Nat /\ Cardinality(Counted1) \in Nat
       /\ Cardinality(Counted1) <= m_threadCount
       /\ Cardinality(Counted1) = m_threadCount => Counted1 = Threads
       /\ Cardinality(Counted1') = Cardinality(Counted1) + 1
       /\ Cardinality(Counted1') = m_threadCount => Counted1' = Threads
  BY <1>2, <1>7, Counting, ThreadCount
<1>11. m_curThreadCount1 \in 1..m_threadCount
  BY <1>2, <1>4, <1>10
<1>12. TypeOK'
  BY <1>1, <1>11, <1>10 DEF IInv, TypeOK, Labels, barrier2, m_threadCount
<1>13. Entered'
  BY <1>1, <1>5, <1>6 DEF IInv, Entered, barrier2
<1>14. Together'
  BY <1>1, <1>9 DEF IInv, Together
<1>15. Count1'
  <2>1. \A u \in Threads : pc'[u] \in {"reset", "bump"} => u = t /\ pc'[u] = "reset" /\ m_curThreadCount1 = 1
    BY <1>3, <1>5, <1>6
  <2>2. m_curThreadCount1 = 1 => Counted1' = Threads
    BY <1>4, <1>10
  <2>3. m_curThreadCount1' = m_threadCount - Cardinality(Counted1')
    BY <1>1, <1>4, <1>10
  <2> QED BY <2>1, <2>2, <2>3 DEF Count1, m_threadCount
<1>16. Count2'
  BY <1>1, <1>5, <1>6, <1>8 DEF IInv, Count2, barrier2, m_threadCount
<1>17. Result'
  BY <1>1, <1>8, <1>9 DEF IInv, Result, Slot, barrier2
<1> QED BY <1>12, <1>13, <1>14, <1>15, <1>16, <1>17 DEF IInv

\* The last thread puts the count back.
LEMMA Reset1Step ==
  ASSUME IInv, NEW t \in Threads, Reset1(t)
  PROVE  IInv'
<1>1. /\ pc[t] = "reset" /\ pc \in [Threads -> Labels]
      /\ m_curThreadCount1' = m_threadCount
      /\ pc' = [pc EXCEPT ![t] = "bump"]
      /\ UNCHANGED <<m_generation1, barrier2, generationWhenEnteredTheWait, generationMod2, op, predicate>>
  BY DEF Reset1, Goto, IInv, TypeOK
<1>2. pc'[t] = "bump" /\ \A u \in Threads \ {t} : pc'[u] = pc[u]
  BY <1>1
<1>3. Counted1' = Counted1 /\ Counted2' = Counted2 /\ Inside' = Inside /\ LetOut' = LetOut
  <2>1. /\ t \in Counted1 /\ t \in Counted1' /\ t \notin Counted2 /\ t \notin Counted2'
        /\ t \in Inside /\ t \in Inside' /\ t \notin LetOut /\ t \notin LetOut'
    BY <1>1, <1>2 DEF Counted1, Counted2, Waiting2, Inside, LetOut, Released
  <2> QED BY <2>1, <1>1, <1>2, Others DEF barrier2
<1>4. TypeOK'
  BY <1>1, ThreadCount DEF IInv, TypeOK, Labels, barrier2, m_threadCount
<1>5. Entered'
  BY <1>1, <1>2 DEF IInv, Entered, barrier2
<1>6. Together'
  BY <1>1, <1>3 DEF IInv, Together
<1>7. Count1'
  BY <1>1, <1>2, <1>3 DEF IInv, Count1, m_threadCount
<1>8. Count2'
  BY <1>1, <1>2, <1>3 DEF IInv, Count2, barrier2, m_threadCount
<1>9. Result'
  BY <1>1, <1>3 DEF IInv, Result, Slot, barrier2
<1> QED BY <1>4, <1>5, <1>6, <1>7, <1>8, <1>9 DEF IInv

\* When the first barrier opens, every thread is in it, and then every thread
\* is let out.
LEMMA Bump1Facts ==
  ASSUME IInv, NEW t \in Threads, Bump1(t)
  PROVE  /\ \A u \in Threads : op[u] = "sync"
         /\ Inside = Threads /\ LetOut' = Threads
         /\ Counted1' = {} /\ Counted2 = {} /\ Counted2' = {}
         /\ \A u \in Threads : pc'[u] \in {"spin", "return"}
<1>1. /\ pc[t] = "bump" /\ pc \in [Threads -> Labels]
      /\ m_generation1' = (m_generation1 + 1) % Generations
      /\ pc' = [pc EXCEPT ![t] = "return"]
      /\ UNCHANGED <<m_curThreadCount1, barrier2, generationWhenEnteredTheWait, generationMod2, op, predicate>>
  BY DEF Bump1, Goto, IInv, TypeOK
<1>2. m_generation1' # m_generation1
  BY <1>1, NextGeneration DEF IInv, TypeOK
<1>3. Counted1 = Threads
  BY <1>1 DEF IInv, Count1
<1>4. \A u \in Threads \ {t} : pc[u] = "spin" /\ generationWhenEnteredTheWait[u] = m_generation1
  BY <1>1, <1>3 DEF IInv, Count1, Counted1, Waiting1
<1>5. pc'[t] = "return" /\ \A u \in Threads \ {t} : pc'[u] = "spin"
  BY <1>1, <1>4
<1>6. \A u \in Threads : op[u] = "sync"
  BY <1>1, <1>4 DEF IInv, Entered
<1>7. Inside = Threads /\ Counted2 = {}
  BY <1>1, <1>4 DEF Inside, Released, Counted2, Waiting2
<1>8. LetOut' = Threads /\ Counted1' = {} /\ Counted2' = {}
  BY <1>1, <1>2, <1>4, <1>5 DEF LetOut, Released, Counted1, Counted2, Waiting1, Waiting2
<1> QED BY <1>5, <1>6, <1>7, <1>8

\* The first barrier opens.
LEMMA Bump1Step ==
  ASSUME IInv, NEW t \in Threads, Bump1(t)
  PROVE  IInv'
<1>1. /\ pc[t] = "bump" /\ pc \in [Threads -> Labels]
      /\ m_generation1' = (m_generation1 + 1) % Generations
      /\ pc' = [pc EXCEPT ![t] = "return"]
      /\ UNCHANGED <<m_curThreadCount1, barrier2, generationWhenEnteredTheWait, generationMod2, op, predicate>>
  BY DEF Bump1, Goto, IInv, TypeOK
<1>2. TypeOK'
  <2>1. m_generation1' \in 0..(Generations - 1)
    BY <1>1, NextGeneration DEF IInv, TypeOK
  <2> QED BY <2>1, <1>1 DEF IInv, TypeOK, Labels, barrier2, m_threadCount
<1>3. Entered'
  BY <1>1, Bump1Facts DEF Entered
<1>4. Inside' = {}
  BY Bump1Facts DEF Inside, LetOut
<1>5. Together'
  BY <1>4 DEF Together
<1>6. Count1'
  <2>1. m_curThreadCount1' = m_threadCount
    BY <1>1 DEF IInv, Count1
  <2>2. Cardinality({}) = 0 /\ m_threadCount \in Nat
    BY FS_EmptySet, ThreadCount
  <2>3. m_curThreadCount1' = m_threadCount - Cardinality(Counted1')
    BY <2>1, <2>2, Bump1Facts
  <2> QED BY <2>3, Bump1Facts DEF Count1, m_threadCount
<1>7. Count2'
  <2>1. m_curThreadCount2' = m_threadCount - Cardinality(Counted2')
    BY <1>1, Bump1Facts DEF IInv, Count2, barrier2
  <2>2. m_mtxBarrier' = FALSE
    BY <1>1, Bump1Facts DEF IInv, Count2, barrier2, Counted2, TypeOK
  <2> QED BY <2>1, <2>2, Bump1Facts DEF Count2, m_threadCount
<1>8. Result'
  BY <1>1, Bump1Facts DEF Result
<1> QED BY <1>2, <1>3, <1>5, <1>6, <1>7, <1>8 DEF IInv

-----------------------------------------------------------------------------
(* Steps of the second barrier                                             *)

\* A thread adds its predicate and is counted in the second barrier.
LEMMA Arrive2Step ==
  ASSUME IInv, NEW t \in Threads, Arrive2(t)
  PROVE  IInv'
<1> DEFINE start == IF m_curThreadCount2 = m_threadCount THEN InitialValue(op[t]) ELSE m_result[Slot]
<1>1. /\ pc[t] = "lock" /\ ~m_mtxBarrier /\ pc \in [Threads -> Labels]
      /\ m_result' = [m_result EXCEPT ![Slot] = AtomicOp(op[t], start, predicate[t])]
      /\ generationMod2' = [generationMod2 EXCEPT ![t] = Slot]
      /\ m_curThreadCount2' = m_curThreadCount2 - 1
      /\ pc' = [pc EXCEPT ![t] = IF m_curThreadCount2 = 1 THEN "bump2" ELSE "sleep"]
      /\ m_mtxBarrier' = (m_curThreadCount2 = 1)
      /\ m_cvAllThreadsReachedBarrier' \in SUBSET Threads
      /\ generationWhenEnteredTheWait[t] = m_generation2
      /\ op[t] # "sync"
      /\ UNCHANGED <<barrier1, m_generation2, generationWhenEnteredTheWait, op, predicate>>
  BY DEF Arrive2, Goto, IInv, TypeOK, Entered
<1>2. t \notin Counted1 /\ t \notin Counted2 /\ Counted2 \in SUBSET Threads
  BY <1>1 DEF Counted1, Counted2, Waiting1, Waiting2
<1>3. \A u \in Threads : pc[u] # "bump2"
  BY <1>2 DEF IInv, Count2
<1>4. m_curThreadCount2 = m_threadCount - Cardinality(Counted2)
  BY DEF IInv, Count2
<1>5. \A u \in Threads \ {t} : pc'[u] = pc[u]
  BY <1>1
<1>6. pc'[t] = IF m_curThreadCount2 = 1 THEN "bump2" ELSE "sleep"
  BY <1>1
<1>0. /\ m_generation1' = m_generation1 /\ m_generation2' = m_generation2
      /\ \A u \in Threads \ {t} :
           generationWhenEnteredTheWait'[u] = generationWhenEnteredTheWait[u]
  BY <1>1 DEF barrier1
<1>7. Counted2' = Counted2 \cup {t}
  <2>1. t \in Counted2'
    BY <1>1, <1>6 DEF Counted2, Waiting2
  <2> QED BY <2>1, <1>0, <1>2, <1>5, Others
<1>8. Counted1' = Counted1
  <2>1. t \notin Counted1'
    BY <1>6 DEF Counted1, Waiting1
  <2> QED BY <2>1, <1>0, <1>2, <1>5, Others
<1>9. /\ Inside' = Inside /\ LetOut' = LetOut
      /\ t \in Inside /\ t \notin LetOut
  <2>1. t \in Inside /\ t \in Inside' /\ t \notin LetOut /\ t \notin LetOut'
    BY <1>1, <1>6 DEF Inside, LetOut, Released
  <2> QED BY <2>1, <1>0, <1>5, Others
<1>10. /\ m_threadCount \in Nat /\ Cardinality(Counted2) \in Nat
       /\ Cardinality(Counted2) <= m_threadCount
       /\ Cardinality(Counted2) = m_threadCount => Counted2 = Threads
       /\ Cardinality(Counted2') = Cardinality(Counted2) + 1
       /\ Cardinality(Counted2') = m_threadCount => Counted2' = Threads
  BY <1>2, <1>7, Counting, ThreadCount
<1>11. m_curThreadCount2 \in 1..m_threadCount
  BY <1>2, <1>4, <1>10
<1>12. Slot \in {0, 1} /\ Slot' = Slot
  BY <1>1, NextGeneration DEF IInv, TypeOK, Slot
<1>13. op[t] \in PredicateOps /\ predicate \in [Threads -> BOOLEAN]
  BY <1>1 DEF IInv, TypeOK
<1>14. \A u \in Counted2' : op[u] = op[t]
  <2>1. Counted2 \subseteq Inside
    BY DEF Counted2, Inside, Waiting2, Released
  <2> QED BY <2>1, <1>7, <1>9 DEF IInv, Together
<1>15. start = Combine(op[t], predicate, Counted2)
  <2>1. CASE m_curThreadCount2 = m_threadCount
    <3>1. Cardinality(Counted2) = 0
      BY <2>1, <1>4, <1>10
    <3>2. Counted2 = {}
      BY <3>1, <1>2, Counting, FS_EmptySet
    <3> QED BY <3>2, <2>1, <1>13, CombineNone
  <2>2. CASE m_curThreadCount2 # m_threadCount
    <3>1. Cardinality(Counted2) # 0
      BY <2>2, <1>4, <1>10
    <3>2. PICK u \in Counted2 : TRUE
      BY <3>1, FS_EmptySet
    <3>3. m_result[Slot] = Combine(op[u], predicate, Counted2)
      BY <3>2 DEF IInv, Result
    <3>4. op[u] = op[t]
      BY <3>2, <1>7, <1>14
    <3> QED BY <3>3, <3>4, <2>2
  <2> QED BY <2>1, <2>2
<1>16. m_result'[Slot] = Combine(op[t], predicate, Counted2')
  <2>1. m_result'[Slot] = AtomicOp(op[t], start, predicate[t])
    BY <1>1, <1>12 DEF IInv, TypeOK
  <2>2. Combine(op[t], predicate, Counted2 \cup {t})
          = AtomicOp(op[t], Combine(op[t], predicate, Counted2), predicate[t])
    BY <1>2, <1>13, CombineStep
  <2> HIDE DEF start
  <2> QED BY <2>1, <2>2, <1>7, <1>15
<1>17. m_result' \in [{0, 1} -> Nat]
  <2>1. Counted2' \in SUBSET Threads
    BY <1>2, <1>7
  <2>2. m_result'[Slot] \in Nat
    BY <2>1, <1>13, <1>16, CombineFacts
  <2>3. DOMAIN m_result' = {0, 1} /\ \A i \in {0, 1} \ {Slot} : m_result'[i] \in Nat
    BY <1>1, <1>12 DEF IInv, TypeOK
  <2>4. m_result' = [i \in {0, 1} |-> m_result'[i]]
    BY <1>1, <1>12 DEF IInv, TypeOK
  <2> QED BY <2>2, <2>3, <2>4
<1> HIDE DEF start
<1>18. TypeOK'
  BY <1>1, <1>11, <1>10, <1>12, <1>17 DEF IInv, TypeOK, Labels, barrier1, m_threadCount
<1>19. Entered'
  BY <1>1, <1>5, <1>6 DEF IInv, Entered, barrier1
<1>20. Together'
  BY <1>1, <1>9 DEF IInv, Together
<1>21. Count1'
  BY <1>1, <1>5, <1>6, <1>8 DEF IInv, Count1, barrier1, m_threadCount
<1>22. Count2'
  <2>1. \A u \in Threads : pc'[u] = "bump2" => u = t /\ m_curThreadCount2 = 1
    BY <1>3, <1>5, <1>6
  <2>2. m_curThreadCount2 = 1 => Counted2' = Threads
    BY <1>4, <1>10
  <2>3. m_curThreadCount2' = m_threadCount - Cardinality(Counted2')
    BY <1>1, <1>4, <1>10
  <2>4. m_mtxBarrier' = \E u \in Threads : pc'[u] = "bump2"
    BY <2>1, <1>1, <1>6
  <2> QED BY <2>1, <2>2, <2>3, <2>4 DEF Count2, m_threadCount
<1>23. Result'
  <2>1. generationMod2'[t] = Slot /\ \A u \in Threads \ {t} : generationMod2'[u] = generationMod2[u]
    BY <1>1, <1>12 DEF IInv, TypeOK
  <2>2. \A u \in Counted2' : generationMod2'[u] = Slot
    BY <2>1, <1>2, <1>7 DEF IInv, Result
  <2>3. \A u \in Counted2' : m_result'[Slot] = Combine(op'[u], predicate', Counted2')
    BY <1>1, <1>14, <1>16
  <2>4. \A u \in LetOut' : u \in Threads \ {t} /\ u \in LetOut
    BY <1>9 DEF LetOut
  <2>5. \A u \in LetOut' : op'[u] # "sync" => generationMod2'[u] # Slot
    BY <2>1, <2>4, <1>1 DEF IInv, Result
  <2> QED BY <2>2, <2>3, <2>5, <1>12 DEF Result
<1> QED BY <1>18, <1>19, <1>20, <1>21, <1>22, <1>23 DEF IInv

\* When the second barrier opens, every thread is in it and m_result combines
\* the predicates of all; then every thread is let out.
LEMMA Bump2Facts ==
  ASSUME IInv, NEW t \in Threads, Bump2(t)
  PROVE  /\ Inside = Threads /\ LetOut' = Threads
         /\ Counted1 = {} /\ Counted1' = {} /\ Counted2' = {}
         /\ \A u \in Threads : /\ pc'[u] \in {"sleep", "return"}
                              /\ op[u] # "sync"
                              /\ generationMod2[u] = Slot
                              /\ m_result[Slot] = Combine(op[u], predicate, Threads)
         /\ Slot' # Slot
<1>1. /\ pc[t] = "bump2" /\ pc \in [Threads -> Labels]
      /\ m_generation2' = (m_generation2 + 1) % Generations
      /\ pc' = [pc EXCEPT ![t] = "return"]
      /\ UNCHANGED <<barrier1, m_result, generationWhenEnteredTheWait, generationMod2, op, predicate>>
  BY DEF Bump2, Goto, IInv, TypeOK
<1>2. m_generation2' # m_generation2 /\ Slot' # Slot
  BY <1>1, NextGeneration DEF IInv, TypeOK, Slot
<1>3. Counted2 = Threads
  BY <1>1 DEF IInv, Count2
<1>4. \A u \in Threads \ {t} : pc[u] = "sleep" /\ generationWhenEnteredTheWait[u] = m_generation2
  BY <1>1, <1>3 DEF IInv, Count2, Counted2, Waiting2
<1>5. pc'[t] = "return" /\ \A u \in Threads \ {t} : pc'[u] = "sleep"
  BY <1>1, <1>4
<1>6. \A u \in Threads : op[u] # "sync"
  BY <1>1, <1>4 DEF IInv, Entered
<1>7. Inside = Threads /\ Counted1 = {}
  BY <1>1, <1>4 DEF Inside, Released, Counted1, Waiting1
<1>8. LetOut' = Threads /\ Counted1' = {} /\ Counted2' = {}
  BY <1>1, <1>2, <1>4, <1>5 DEF LetOut, Released, Counted1, Counted2, Waiting1, Waiting2
<1>9. \A u \in Threads : /\ generationMod2[u] = Slot
                        /\ m_result[Slot] = Combine(op[u], predicate, Threads)
  BY <1>3 DEF IInv, Result
<1> QED BY <1>2, <1>5, <1>6, <1>7, <1>8, <1>9

\* The second barrier opens.
LEMMA Bump2Step ==
  ASSUME IInv, NEW t \in Threads, Bump2(t)
  PROVE  IInv'
<1>1. /\ pc[t] = "bump2" /\ pc \in [Threads -> Labels]
      /\ m_curThreadCount2' = m_threadCount
      /\ m_generation2' = (m_generation2 + 1) % Generations
      /\ m_cvAllThreadsReachedBarrier' = {}
      /\ m_mtxBarrier' = FALSE
      /\ pc' = [pc EXCEPT ![t] = "return"]
      /\ UNCHANGED <<barrier1, m_result, generationWhenEnteredTheWait, generationMod2, op, predicate>>
  BY DEF Bump2, Goto, IInv, TypeOK
<1>2. TypeOK'
  <2>1. m_generation2' \in 0..(Generations - 1)
    BY <1>1, NextGeneration DEF IInv, TypeOK
  <2>2. m_curThreadCount2' \in 0..m_threadCount /\ m_threadCount' = m_threadCount
    BY <1>1, ThreadCount DEF m_threadCount
  <2>3. pc' \in [Threads -> Labels]
    BY <1>1 DEF Labels
  <2> QED BY <2>1, <2>2, <2>3, <1>1 DEF IInv, TypeOK, barrier1
<1>3. Entered'
  BY <1>1, Bump2Facts DEF Entered
<1>4. Inside' = {}
  BY Bump2Facts DEF Inside, LetOut
<1>5. Together'
  BY <1>4 DEF Together
<1>6. Count1'
  <2>1. \A u \in Threads : pc[u] \notin {"reset", "bump"}
    BY Bump2Facts DEF Counted1
  <2>2. m_curThreadCount1' = m_threadCount - Cardinality(Counted1')
    BY <2>1, <1>1, Bump2Facts DEF IInv, Count1, barrier1
  <2> QED BY <2>2, Bump2Facts DEF Count1, m_threadCount
<1>7. Count2'
  <2>1. Cardinality({}) = 0 /\ m_threadCount \in Nat
    BY FS_EmptySet, ThreadCount
  <2>2. m_curThreadCount2' = m_threadCount - Cardinality(Counted2')
    <3>1. Counted2' = {}
      BY Bump2Facts
    <3> HIDE DEF Counted2
    <3>2. Cardinality(Counted2') = 0
      BY <3>1, <2>1
    <3> QED BY <3>2, <2>1, <1>1
  <2> QED BY <2>2, <1>1, Bump2Facts DEF Count2, m_threadCount
<1>8. Result'
  BY <1>1, Bump2Facts DEF Result
<1> QED BY <1>2, <1>3, <1>5, <1>6, <1>7, <1>8 DEF IInv

-----------------------------------------------------------------------------
(* The inductive invariant                                                 *)

\* A new barrier satisfies it.
LEMMA Initially == Init => IInv
<1> SUFFICES ASSUME Init PROVE IInv
  OBVIOUS
<1> USE DEF Init
<1>1. m_threadCount \in Nat /\ Generations \in Nat \ {0} /\ 0 \in 0..(Generations - 1)
  BY ThreadCount, WidthAssumption
<1>2. TypeOK
  <2>1. /\ m_curThreadCount1 \in 0..m_threadCount /\ m_curThreadCount2 \in 0..m_threadCount
        /\ m_generation1 \in 0..(Generations - 1) /\ m_generation2 \in 0..(Generations - 1)
    BY <1>1
  <2>2. m_result \in [{0, 1} -> Nat]
    BY <1>1
  <2>3. /\ pc \in [Threads -> Labels] /\ generationMod2 \in [Threads -> {0, 1}]
        /\ generationWhenEnteredTheWait \in [Threads -> 0..(Generations - 1)]
        /\ op \in [Threads -> PredicateOps \cup {"sync"}] /\ predicate \in [Threads -> BOOLEAN]
    BY <1>1 DEF Labels
  <2>4. m_mtxBarrier \in BOOLEAN /\ m_cvAllThreadsReachedBarrier \subseteq Threads
    OBVIOUS
  <2> QED BY <2>1, <2>2, <2>3, <2>4 DEF TypeOK
<1>3. Counted1 = {} /\ Counted2 = {} /\ LetOut = {} /\ Inside = {}
  BY DEF Counted1, Counted2, LetOut, Inside, Waiting1, Waiting2, Released
<1>4. Cardinality({}) = 0
  BY FS_EmptySet
<1>5. Entered /\ Together
  BY <1>3 DEF Entered, Together
<1>6. Count1 /\ Count2
  <2>1. \A t \in Threads : pc[t] \notin {"reset", "bump", "bump2"}
    OBVIOUS
  <2>2. m_threadCount = m_threadCount - Cardinality({})
    BY <1>1, <1>4
  <2> QED BY <2>1, <2>2, <1>3 DEF Count1, Count2
<1>7. Result
  BY <1>3 DEF Result
<1> QED BY <1>2, <1>5, <1>6, <1>7 DEF IInv

\* A thread that leaves a wait has been let out of it.
LEMMA Leaving ==
  ASSUME NEW t \in Threads, SpinEnds(t) \/ Return(t) \/ (Wake2(t) /\ pc'[t] # pc[t]), IInv
  PROVE  Released(t) /\ LeaveWait(t) /\ UNCHANGED <<barrier1, barrier2>>
<1>1. CASE SpinEnds(t)
  BY <1>1 DEF SpinEnds, Released
<1>2. CASE Return(t)
  BY <1>2 DEF Return, Released
<1>3. CASE Wake2(t) /\ pc'[t] # pc[t]
  BY <1>3 DEF Wake2, Released, barrier2
<1> QED BY <1>1, <1>2, <1>3

\* A thread that wakes up too early, or that is woken, changes nothing else.
LEMMA Sleeping ==
  ASSUME NEW t \in Threads, SpuriousWakeup(t) \/ (Wake2(t) /\ pc'[t] = pc[t]), IInv
  PROVE  /\ m_cvAllThreadsReachedBarrier' \in SUBSET Threads
         /\ UNCHANGED <<barrier1, m_curThreadCount2, m_generation2, m_result, m_mtxBarrier, pc,
                        generationWhenEnteredTheWait, generationMod2, op, predicate>>
<1>1. CASE SpuriousWakeup(t)
  BY <1>1 DEF SpuriousWakeup, IInv, TypeOK
<1>2. CASE Wake2(t) /\ pc'[t] = pc[t]
  <2>1. pc[t] = "sleep" /\ generationWhenEnteredTheWait[t] = m_generation2
    BY <1>2 DEF Wake2, LeaveWait, Goto, IInv, TypeOK
  <2> QED BY <2>1, <1>2 DEF Wake2, IInv, TypeOK
<1> QED BY <1>1, <1>2

\* Every step keeps it.
LEMMA Inductive == IInv /\ [Next]_vars => IInv'
<1> SUFFICES ASSUME IInv, [Next]_vars PROVE IInv'
  OBVIOUS
<1>1. CASE UNCHANGED vars
  <2>1. m_cvAllThreadsReachedBarrier' \in SUBSET Threads
    BY <1>1 DEF vars, barrier2, IInv, TypeOK
  <2> QED BY <2>1, <1>1, SleepStep DEF vars, barrier2
<1>2. CASE Next
  <2>1. PICK t \in Threads : Call(t) \/ Step(t) \/ SpuriousWakeup(t)
    BY <1>2 DEF Next
  <2>2. CASE Call(t)
    BY <2>2, CallStep
  <2>3. CASE ReadGeneration1(t) \/ ReadGeneration2(t)
    BY <2>3, ReadStep
  <2>4. CASE Decrement1(t)
    BY <2>4, Decrement1Step
  <2>5. CASE Reset1(t)
    BY <2>5, Reset1Step
  <2>6. CASE Bump1(t)
    BY <2>6, Bump1Step
  <2>7. CASE Arrive2(t)
    BY <2>7, Arrive2Step
  <2>8. CASE Bump2(t)
    BY <2>8, Bump2Step
  <2>9. CASE SpinEnds(t) \/ Return(t) \/ (Wake2(t) /\ pc'[t] # pc[t])
    BY <2>9, Leaving, LeaveStep
  <2>10. CASE SpuriousWakeup(t) \/ (Wake2(t) /\ pc'[t] = pc[t])
    BY <2>10, Sleeping, SleepStep
  <2> QED BY <2>1, <2>2, <2>3, <2>4, <2>5, <2>6, <2>7, <2>8, <2>9, <2>10 DEF Step
<1> QED BY <1>1, <1>2

\* The invariant holds in every reachable state.
THEOREM Invariance == Spec => []IInv
BY Initially, Inductive, PTL DEF Spec

\* Types are kept: in particular neither count ever wraps below zero, though
\* threads enter the next generation while others are still leaving the last.
THEOREM TypeCorrect == Spec => []TypeOK
<1>1. IInv => TypeOK
  BY DEF IInv
<1> QED BY <1>1, Invariance, PTL

\* The unguarded read of m_generation in BarrierThreadWithPredicate::wait never
\* races with the guarded write, for any number of threads.
THEOREM NoDataRace == Spec => []NoRaceOnGeneration
<1>1. IInv => NoRaceOnGeneration
  BY DEF IInv, Count2, Counted2, Waiting2, NoRaceOnGeneration
<1> QED BY <1>1, Invariance, PTL

-----------------------------------------------------------------------------
(* Refinement                                                              *)

Outside == {t \in Threads : pc[t] = "out"}
AtMap == [t \in Threads |-> At(t)]
ValueMap == [t \in Threads |-> Value(t)]

\* The abstract state in terms of the sets of threads outside and let out.
LEMMA Abstraction ==
  /\ AtMap = [u \in Threads |-> IF u \in Outside THEN "out" ELSE IF u \in LetOut THEN "go" ELSE "in"]
  /\ AtMap' = [u \in Threads |-> IF u \in Outside' THEN "out" ELSE IF u \in LetOut' THEN "go" ELSE "in"]
  /\ ValueMap = [u \in Threads |-> IF u \in LetOut /\ op[u] # "sync" THEN m_result[generationMod2[u]] ELSE 0]
  /\ ValueMap' = [u \in Threads |-> IF u \in LetOut' /\ op'[u] # "sync" THEN m_result'[generationMod2'[u]] ELSE 0]
<1>1. AtMap = [u \in Threads |-> IF u \in Outside THEN "out" ELSE IF u \in LetOut THEN "go" ELSE "in"]
  BY DEF AtMap, At, Outside, LetOut, Released
<1>2. AtMap' = [u \in Threads |-> IF u \in Outside' THEN "out" ELSE IF u \in LetOut' THEN "go" ELSE "in"]
  BY DEF AtMap, At, Outside, LetOut, Released
<1>3. ValueMap = [u \in Threads |-> IF u \in LetOut /\ op[u] # "sync" THEN m_result[generationMod2[u]] ELSE 0]
  BY DEF ValueMap, Value, LetOut, Released
<1>4. ValueMap' = [u \in Threads |-> IF u \in LetOut' /\ op'[u] # "sync" THEN m_result'[generationMod2'[u]] ELSE 0]
  BY DEF ValueMap, Value, LetOut, Released
<1> QED BY <1>1, <1>2, <1>3, <1>4

\* A step is invisible if no thread enters, is let out or leaves, and what the
\* threads let out take with them stays.
LEMMA Invisible ==
  ASSUME UNCHANGED <<op, predicate>>, Outside' = Outside, LetOut' = LetOut,
         \A u \in LetOut : op[u] # "sync" => m_result'[generationMod2'[u]] = m_result[generationMod2[u]]
  PROVE  UNCHANGED BS!vars
<1>1. AtMap' = AtMap
  BY Abstraction
<1>2. ValueMap' = ValueMap
  BY Abstraction
<1> QED BY <1>1, <1>2 DEF BS!vars, AtMap, ValueMap

\* Calling a synchronization enters it.
LEMMA CallEnters ==
  ASSUME IInv, NEW t \in Threads, Call(t)
  PROVE  BS!Next
<1>1. PICK o \in PredicateOps \cup {"sync"}, v \in BOOLEAN :
        /\ pc[t] = "out" /\ Convergent(o)
        /\ op' = [op EXCEPT ![t] = o]
        /\ predicate' = [predicate EXCEPT ![t] = v]
        /\ pc' = [pc EXCEPT ![t] = "read"]
        /\ UNCHANGED <<barrier1, barrier2, generationWhenEnteredTheWait, generationMod2>>
  BY DEF Call, SyncBlockThreads, SyncBlockThreadsPredicate, Goto
<1>2. pc'[t] = "read" /\ \A u \in Threads \ {t} : pc'[u] = pc[u] /\ op'[u] = op[u]
  BY <1>1 DEF IInv, TypeOK
<1>3. t \notin LetOut /\ t \notin LetOut' /\ t \in Outside
  BY <1>1, <1>2 DEF LetOut, Released, Outside
<1>4. LetOut' = LetOut
  BY <1>1, <1>2, <1>3, Others DEF barrier1, barrier2
<1>5. Outside' = Outside \ {t}
  BY <1>1, <1>2 DEF Outside
<1>6. AtMap[t] = "out" /\ AtMap' = [AtMap EXCEPT ![t] = "in"]
  BY <1>3, <1>4, <1>5, Abstraction
<1>7. ValueMap' = ValueMap
  <2>1. \A u \in LetOut : u \in Threads \ {t}
    BY <1>3 DEF LetOut
  <2>2. m_result' = m_result /\ generationMod2' = generationMod2
    BY <1>1 DEF barrier2
  <2> QED BY <2>1, <2>2, <1>2, <1>4, Abstraction
<1>8. \A u \in Threads : AtMap[u] = "in" => op[u] = o
  BY <1>1 DEF Convergent, AtMap
<1>9. BS!Enter(t, o, v)
  BY <1>1, <1>6, <1>7, <1>8 DEF BS!Enter, AtMap, ValueMap
<1> QED BY <1>9 DEF BS!Next, BS!Ops, PredicateOps

\* Opening either barrier releases everybody with the combined predicates.
LEMMA BumpReleases ==
  ASSUME IInv, NEW t \in Threads, Bump1(t) \/ Bump2(t)
  PROVE  BS!Next
<1>1. Inside = Threads /\ LetOut' = Threads
  BY Bump1Facts, Bump2Facts
<1>2. Outside = {} /\ LetOut = {}
  BY <1>1 DEF Inside, Outside, LetOut
<1>3. Outside' = {}
  BY Bump1Facts, Bump2Facts DEF Outside
<1>4. \A u \in Threads : AtMap[u] = "in"
  BY <1>2, Abstraction
<1>5. AtMap' = [u \in Threads |-> "go"]
  BY <1>1, <1>3, Abstraction
<1>6. UNCHANGED <<op, predicate, generationMod2, m_result>>
  BY DEF Bump1, Bump2, barrier2
<1>7. ValueMap' = [u \in Threads |-> Combine(op[u], predicate, Threads)]
  <2>1. CASE Bump1(t)
    <3>1. \A u \in Threads : op[u] = "sync"
      BY <2>1, Bump1Facts
    <3>2. \A u \in Threads : Combine(op[u], predicate, Threads) = 0
      BY <3>1 DEF Combine
    <3> QED BY <3>1, <3>2, <1>6, Abstraction
  <2>2. CASE Bump2(t)
    <3>1. \A u \in Threads : /\ op[u] # "sync"
                            /\ m_result[generationMod2[u]] = Combine(op[u], predicate, Threads)
      BY <2>2, Bump2Facts
    <3> QED BY <3>1, <1>1, <1>6, Abstraction
  <2> QED BY <2>1, <2>2
<1>8. BS!Release
  BY <1>4, <1>5, <1>6, <1>7 DEF BS!Release, AtMap, ValueMap
<1> QED BY <1>8 DEF BS!Next

\* Returning from wait leaves the synchronization.
LEMMA ReturnLeaves ==
  ASSUME IInv, NEW t \in Threads, Released(t), LeaveWait(t), UNCHANGED <<barrier1, barrier2>>
  PROVE  BS!Next
<1>1. /\ pc' = [pc EXCEPT ![t] = "out"]
      /\ op' = [op EXCEPT ![t] = "sync"]
      /\ predicate' = [predicate EXCEPT ![t] = FALSE]
      /\ generationWhenEnteredTheWait' = [generationWhenEnteredTheWait EXCEPT ![t] = 0]
      /\ generationMod2' = [generationMod2 EXCEPT ![t] = 0]
  BY DEF LeaveWait, Goto
<1>2. /\ pc'[t] = "out" /\ op'[t] = "sync"
      /\ \A u \in Threads \ {t} : /\ pc'[u] = pc[u] /\ op'[u] = op[u]
                                 /\ generationMod2'[u] = generationMod2[u]
                                 /\ generationWhenEnteredTheWait'[u] = generationWhenEnteredTheWait[u]
  BY <1>1 DEF IInv, TypeOK
<1>3. t \in LetOut /\ t \notin LetOut' /\ t \notin Outside
  BY <1>2 DEF LetOut, Released, Outside
<1>4. LetOut' = LetOut \ {t}
  BY <1>2, <1>3, Others DEF barrier1, barrier2
<1>5. Outside' = Outside \cup {t}
  BY <1>2 DEF Outside
<1>6. AtMap[t] = "go" /\ AtMap' = [AtMap EXCEPT ![t] = "out"]
  BY <1>3, <1>4, <1>5, Abstraction
<1>7. ValueMap' = [ValueMap EXCEPT ![t] = 0]
  <2>1. m_result' = m_result
    BY DEF barrier2
  <2> QED BY <2>1, <1>2, <1>4, Abstraction
<1>8. BS!Leave(t)
  BY <1>1, <1>6, <1>7 DEF BS!Leave, AtMap, ValueMap
<1> QED BY <1>8 DEF BS!Next

\* All other steps are invisible: a thread that reads, counts down or goes to
\* sleep writes only to the slot of its own generation.
LEMMA WaitingIsInvisible ==
  ASSUME IInv, NEW t \in Threads,
         ReadGeneration1(t) \/ ReadGeneration2(t) \/ Decrement1(t) \/ Reset1(t) \/ Arrive2(t)
  PROVE  UNCHANGED BS!vars
<1>1. /\ pc[t] \notin {"out", "spin", "sleep", "return"}
      /\ m_generation1' = m_generation1 /\ m_generation2' = m_generation2
      /\ UNCHANGED <<op, predicate>>
      /\ \A u \in Threads \ {t} :
           /\ pc'[u] = pc[u] /\ generationMod2'[u] = generationMod2[u]
           /\ generationWhenEnteredTheWait'[u] = generationWhenEnteredTheWait[u]
  BY DEF ReadGeneration1, ReadGeneration2, Decrement1, Reset1, Arrive2, Goto, barrier1, barrier2,
         IInv, TypeOK
<1>2. /\ pc'[t] \notin {"out", "return"}
      /\ pc'[t] = "spin" => generationWhenEnteredTheWait'[t] = m_generation1'
      /\ pc'[t] = "sleep" => generationWhenEnteredTheWait'[t] = m_generation2'
  BY DEF ReadGeneration1, ReadGeneration2, Decrement1, Reset1, Arrive2, Goto, barrier1, barrier2,
         IInv, TypeOK, Entered
<1>3. t \notin LetOut /\ t \notin LetOut' /\ t \notin Outside /\ t \notin Outside'
  BY <1>1, <1>2 DEF LetOut, Released, Outside
<1>4. LetOut' = LetOut
  <2>1. LetOut' \ {t} = LetOut \ {t}
    BY <1>1, Others
  <2> QED BY <2>1, <1>3
<1>5. Outside' = Outside
  BY <1>1, <1>3 DEF Outside
<1>6. \A i \in {0, 1} \ {Slot} : m_result'[i] = m_result[i]
  BY DEF ReadGeneration1, ReadGeneration2, Decrement1, Reset1, Arrive2, barrier2, IInv, TypeOK
<1>7. ASSUME NEW u \in LetOut, op[u] # "sync"
      PROVE  m_result'[generationMod2'[u]] = m_result[generationMod2[u]]
  <2>1. u \in Threads \ {t}
    BY <1>3 DEF LetOut
  <2>2. generationMod2[u] \in {0, 1} \ {Slot}
    BY <2>1, <1>7 DEF IInv, TypeOK, Result
  <2> QED BY <2>1, <2>2, <1>1, <1>6
<1> QED BY <1>1, <1>4, <1>5, <1>7, Invisible

\* The two barriers of the thread accelerator implement the synchronization of
\* a block: safety of the refinement, for any number of threads and any width
\* of the generation counters.
THEOREM Refinement == Spec => ImplementsBlockSync
<1>1. Init => BS!Init
  <2> SUFFICES ASSUME Init PROVE BS!Init
    OBVIOUS
  <2>1. Outside = Threads /\ LetOut = {}
    BY DEF Init, Outside, LetOut, Released
  <2>2. AtMap = [t \in Threads |-> "out"] /\ ValueMap = [t \in Threads |-> 0]
    BY <2>1, Abstraction
  <2> QED BY <2>2 DEF Init, BS!Init, AtMap, ValueMap
<1>2. IInv /\ [Next]_vars => [BS!Next]_(BS!vars)
  <2> SUFFICES ASSUME IInv, [Next]_vars PROVE BS!Next \/ UNCHANGED BS!vars
    OBVIOUS
  <2>1. ASSUME UNCHANGED <<barrier1, m_curThreadCount2, m_generation2, m_result, m_mtxBarrier, pc,
                           generationWhenEnteredTheWait, generationMod2, op, predicate>>
        PROVE  UNCHANGED BS!vars
    <3>1. Outside' = Outside /\ LetOut' = LetOut
      BY <2>1 DEF Outside, LetOut, Released, barrier1
    <3> QED BY <2>1, <3>1, Invisible
  <2>2. CASE UNCHANGED vars
    BY <2>1, <2>2 DEF vars, barrier2
  <2>3. CASE Next
    <3>1. PICK t \in Threads : Call(t) \/ Step(t) \/ SpuriousWakeup(t)
      BY <2>3 DEF Next
    <3>2. CASE Call(t)
      BY <3>2, CallEnters
    <3>3. CASE Bump1(t) \/ Bump2(t)
      BY <3>3, BumpReleases
    <3>4. CASE SpinEnds(t) \/ Return(t) \/ (Wake2(t) /\ pc'[t] # pc[t])
      BY <3>4, Leaving, ReturnLeaves
    <3>5. CASE SpuriousWakeup(t) \/ (Wake2(t) /\ pc'[t] = pc[t])
      BY <3>5, <2>1, Sleeping
    <3>6. CASE ReadGeneration1(t) \/ ReadGeneration2(t) \/ Decrement1(t) \/ Reset1(t) \/ Arrive2(t)
      BY <3>6, WaitingIsInvisible
    <3> QED BY <3>1, <3>2, <3>3, <3>4, <3>5, <3>6 DEF Step
  <2> QED BY <2>2, <2>3
<1> QED BY <1>1, <1>2, Invariance, PTL DEF Spec, ImplementsBlockSync, BS!Spec

-----------------------------------------------------------------------------
(* The synchronizations of OpenMP threads and fibers                       *)

TeamLabels == {"out", "single", "endOfSingle", "combine", "arrive", "barrier", "return"}
TeamSlot == teamGeneration % 2

\* Inside a synchronization; those that have combined their predicate; and
\* those on their way out with a result.
TeamInside(t) == teamPc[t] \notin {"out", "return"}
Contributed == {t \in Threads : teamPc[t] \in {"arrive", "barrier"} /\ teamOp[t] # "sync"}
TakesResult(t) == teamPc[t] = "return" /\ teamOp[t] # "sync"

TeamType ==
  /\ teamKind \in {"Omp", "Fiber"}
  /\ teamGeneration \in 0..(Generations - 1)
  /\ teamResult \in [{0, 1} -> Nat]
  /\ teamCurThreadCount \in Nat
  /\ teamSingle \in BOOLEAN
  /\ teamPc \in [Threads -> TeamLabels]
  /\ teamGenerationMod2 \in [Threads -> {0, 1}]
  /\ teamOp \in [Threads -> PredicateOps \cup {"sync"}]
  /\ teamPredicate \in [Threads -> BOOLEAN]

\* Threads inside are in one synchronization; which part of it belongs to whom.
TeamTogether ==
  /\ \A t, u \in Threads : TeamInside(t) /\ TeamInside(u) => teamOp[t] = teamOp[u]
  /\ \A t \in Threads : teamPc[t] \in {"single", "endOfSingle", "combine"} => teamOp[t] # "sync"
  /\ \A t \in Threads : teamPc[t] \in {"single", "endOfSingle"} => teamKind = "Omp"

\* The barrier at the end of the single region: beyond it is everybody or nobody.
TeamPhase ==
  /\ teamSingle = (\E t \in Threads : teamPc[t] = "endOfSingle")
  /\ teamKind = "Omp" /\ (Contributed # {} \/ \E t \in Threads : teamPc[t] = "combine") =>
       \A u \in Threads : teamPc[u] \in {"combine", "arrive", "barrier"}

\* The slot of the generation holds what has been combined, or the initial value.
TeamResult ==
  /\ \A t \in Contributed : teamGenerationMod2[t] = TeamSlot
  /\ \A t \in Threads :
       t \in Contributed \/ teamPc[t] = "endOfSingle" \/ (teamKind = "Omp" /\ teamPc[t] = "combine") =>
         teamResult[TeamSlot] = Combine(teamOp[t], teamPredicate, Contributed)

\* Fibers count themselves; a full count is that of the last round, or of this.
TeamCount ==
  teamKind = "Fiber" =>
    /\ Contributed # {} => teamCurThreadCount = Cardinality(Contributed)
    /\ Contributed = {} => teamCurThreadCount \in {0, m_threadCount}
    /\ teamCurThreadCount = 0 => \A t \in Threads : ~TakesResult(t)

\* Once a new round has begun, the results of the old one are in the other slot.
TeamOld ==
  \A t \in Threads :
    TakesResult(t) => (teamGenerationMod2[t] = TeamSlot <=> (~teamSingle /\ Contributed = {}))

TeamInv == TeamType /\ TeamTogether /\ TeamPhase /\ TeamResult /\ TeamCount /\ TeamOld

\* The operators of the two modules are those of BlockOps.
LEMMA TeamOps ==
  /\ Team!m_threadCount = m_threadCount /\ Team!PredicateOps = PredicateOps
  /\ \A o : Team!InitialValue(o) = InitialValue(o)
  /\ \A o, r, v : Team!AtomicOp(o, r, v) = AtomicOp(o, r, v)
  /\ \A o, f, S : Team!Combine(o, f, S) = Combine(o, f, S)
<1>0. ASSUME NEW S PROVE Team!Cardinality(S) = Cardinality(S)
  BY DEF Team!Cardinality, Cardinality
<1>1. Team!m_threadCount = m_threadCount /\ Team!PredicateOps = PredicateOps
  BY <1>0 DEF Team!m_threadCount, m_threadCount, Team!PredicateOps, PredicateOps
<1>2. \A o : Team!InitialValue(o) = InitialValue(o)
  BY DEF Team!InitialValue, InitialValue
<1>3. ASSUME NEW o, NEW r, NEW v PROVE Team!AtomicOp(o, r, v) = AtomicOp(o, r, v)
  BY DEF Team!AtomicOp, AtomicOp
<1>4. ASSUME NEW o, NEW f, NEW S PROVE Team!Combine(o, f, S) = Combine(o, f, S)
  <2>1. Team!Ones(f, S) = Ones(f, S)
    BY DEF Team!Ones, Ones
  <2>2. Team!Cardinality(Ones(f, S)) = Cardinality(Ones(f, S))
    BY <1>0
  <2>3. QED
    BY <2>1, <2>2 DEF Team!Combine, Combine
<1>5. QED
  BY <1>1, <1>2, <1>3, <1>4

\* At the start nobody is inside and no round has begun.
LEMMA TeamInitially == Team!Init => TeamInv
<1>1. HAVE Team!Init
<1>2. /\ teamKind \in {"Omp", "Fiber"} /\ teamGeneration = 0 /\ teamResult \in [{0, 1} -> {0, m_threadCount}]
      /\ teamCurThreadCount = 0 /\ teamSingle = FALSE
      /\ teamPc = [t \in Threads |-> "out"] /\ teamGenerationMod2 = [t \in Threads |-> 0]
      /\ teamOp = [t \in Threads |-> "sync"] /\ teamPredicate = [t \in Threads |-> FALSE]
  BY <1>1, TeamOps DEF Team!Init
<1>3. 0 \in 0..(Generations - 1) /\ m_threadCount \in Nat
  BY WidthAssumption, ThreadCount
<1>4. Contributed = {}
  BY <1>2 DEF Contributed
<1>5. TeamType
  <2>1. teamResult \in [{0, 1} -> Nat] /\ teamCurThreadCount \in Nat /\ teamGeneration \in 0..(Generations - 1)
    BY <1>2, <1>3
  <2>2. teamPc \in [Threads -> TeamLabels]
    BY <1>2 DEF TeamLabels
  <2>3. teamOp \in [Threads -> PredicateOps \cup {"sync"}] /\ teamPredicate \in [Threads -> BOOLEAN]
        /\ teamGenerationMod2 \in [Threads -> {0, 1}]
    BY <1>2
  <2>4. QED
    BY <1>2, <2>1, <2>2, <2>3 DEF TeamType
<1>6. TeamTogether /\ TeamPhase /\ TeamCount /\ TeamOld
  BY <1>2, <1>4 DEF TeamTogether, TeamPhase, TeamCount, TeamOld, TeamInside, TakesResult
<1>7. TeamResult
  BY <1>2, <1>4 DEF TeamResult
<1>8. QED
  BY <1>5, <1>6, <1>7 DEF TeamInv

\* The combination of those who have contributed does not depend on the
\* predicate of another thread.
LEMMA TeamCombine ==
  ASSUME TeamType, TeamType', Contributed' = Contributed,
         \A u \in Contributed : teamPredicate'[u] = teamPredicate[u]
  PROVE  \A o : Combine(o, teamPredicate', Contributed) = Combine(o, teamPredicate, Contributed)
<1>1. Contributed \in SUBSET Threads
  BY DEF Contributed
<1>2. PICK S \in SUBSET Threads, f \in [Threads -> BOOLEAN], g \in [Threads -> BOOLEAN] :
        S = Contributed /\ f = teamPredicate /\ g = teamPredicate'
  BY <1>1 DEF TeamType
<1>3. TAKE o
<1>4. Combine(o, f, S) = Combine(o, g, S)
  BY <1>2, CombineFacts
<1>5. QED
  BY <1>2, <1>4

\* A call.
LEMMA TeamSyncStep ==
  ASSUME TeamInv, NEW t \in Threads, NEW o \in PredicateOps \cup {"sync"}, NEW v \in BOOLEAN,
         Team!Sync(t, o, v)
  PROVE  TeamInv'
<1>1. PICK l \in {"arrive", "single", "combine"} :
        /\ l = IF o = "sync" THEN "arrive" ELSE IF teamKind = "Omp" THEN "single" ELSE "combine"
        /\ teamPc[t] = "out" /\ \A u \in Threads : TeamInside(u) => teamOp[u] = o
        /\ teamPc' = [teamPc EXCEPT ![t] = l]
        /\ teamOp' = [teamOp EXCEPT ![t] = o]
        /\ teamPredicate' = [teamPredicate EXCEPT ![t] = v]
        /\ teamKind' = teamKind /\ teamGeneration' = teamGeneration /\ teamResult' = teamResult
        /\ teamCurThreadCount' = teamCurThreadCount /\ teamSingle' = teamSingle
        /\ teamGenerationMod2' = teamGenerationMod2
  BY DEF Team!Sync, Team!At, Team!Goto, Team!shared, TeamInside, TeamInv, TeamType, TeamLabels
<1>2. TeamType /\ TeamTogether /\ TeamPhase /\ TeamResult /\ TeamCount /\ TeamOld
  BY DEF TeamInv
<1>3. TeamType'
  BY <1>1, <1>2 DEF TeamType, TeamLabels
<1>4. \A u \in Threads : /\ u # t => teamPc'[u] = teamPc[u] /\ teamOp'[u] = teamOp[u]
                         /\ u = t => teamPc'[u] = l /\ teamOp'[u] = o
  BY <1>1, <1>2 DEF TeamType
<1>5. Contributed' = Contributed /\ t \notin Contributed
  BY <1>1, <1>4 DEF Contributed
<1>6. TeamTogether'
  BY <1>1, <1>2, <1>4 DEF TeamTogether, TeamInside
<1>7. TeamPhase'
  BY <1>1, <1>2, <1>4, <1>5 DEF TeamPhase
<1>8. \A p : Combine(p, teamPredicate', Contributed) = Combine(p, teamPredicate, Contributed)
  <2>1. \A u \in Contributed : teamPredicate'[u] = teamPredicate[u]
    BY <1>1, <1>2, <1>5 DEF TeamType
  <2>2. QED
    BY <1>2, <1>3, <1>5, <2>1, TeamCombine
<1>9. TeamResult'
  <2>1. TeamSlot' = TeamSlot
    BY <1>1 DEF TeamSlot
  <2>2. \A u \in Contributed : teamGenerationMod2'[u] = TeamSlot
    BY <1>1, <1>2 DEF TeamResult
  <2>3. ASSUME NEW u \in Threads,
               u \in Contributed \/ teamPc'[u] = "endOfSingle" \/ (teamKind = "Omp" /\ teamPc'[u] = "combine")
        PROVE  teamResult[TeamSlot] = Combine(teamOp'[u], teamPredicate', Contributed)
    <3>1. u # t
      BY <1>1, <1>4, <1>5, <2>3
    <3>2. QED
      BY <1>2, <1>4, <1>8, <2>3, <3>1 DEF TeamResult
  <2>4. QED
    BY <1>1, <1>5, <2>1, <2>2, <2>3 DEF TeamResult
<1>10. \A u \in Threads : TakesResult(u)' = TakesResult(u)
  BY <1>1, <1>4 DEF TakesResult
<1>11. TeamCount'
  BY <1>1, <1>2, <1>5, <1>10 DEF TeamCount
<1>12. TeamOld'
  BY <1>1, <1>2, <1>5, <1>10 DEF TeamOld, TeamSlot
<1>13. QED
  BY <1>3, <1>6, <1>7, <1>9, <1>11, <1>12 DEF TeamInv

\* Entering the single region: the first thread begins the round in the other
\* slot, the last one lets all go on to combine.
LEMMA TeamSingleStep ==
  ASSUME TeamInv, NEW t \in Threads, Team!Single(t)
  PROVE  TeamInv'
<1>1. TeamType /\ TeamTogether /\ TeamPhase /\ TeamResult /\ TeamCount /\ TeamOld
  BY DEF TeamInv
<1>2. /\ teamPc[t] = "single" /\ teamKind = "Omp" /\ teamKind' = teamKind
      /\ teamOp' = teamOp /\ teamPredicate' = teamPredicate /\ teamGenerationMod2' = teamGenerationMod2
      /\ teamCurThreadCount' = teamCurThreadCount
      /\ teamSingle' = (teamPc'[t] # "combine")
  BY <1>1 DEF Team!Single, TeamTogether
<1>3. PICK g \in 0..(Generations - 1), r \in [{0, 1} -> Nat] :
        /\ g = teamGeneration' /\ r = teamResult' /\ g % 2 \in {0, 1}
        /\ r[g % 2] = InitialValue(teamOp[t])
        /\ teamSingle => g = teamGeneration
        /\ ~teamSingle => g % 2 # TeamSlot
        /\ \A i \in {0, 1} : i # g % 2 => r[i] = teamResult[i]
        /\ teamSingle => r = teamResult
  <2>1. CASE teamSingle
    <3>1. teamGeneration' = teamGeneration /\ teamResult' = teamResult
      BY <2>1 DEF Team!Single
    <3>2. PICK u \in Threads : teamPc[u] = "endOfSingle"
      BY <1>1, <2>1 DEF TeamPhase
    <3>3. Contributed = {}
      BY <1>1, <1>2, <3>2 DEF TeamPhase
    <3>4. teamOp[u] = teamOp[t] /\ teamOp[t] \in PredicateOps
      BY <1>1, <1>2, <3>2 DEF TeamTogether, TeamInside, TeamType
    <3>5. teamResult[TeamSlot] = Combine(teamOp[t], teamPredicate, {})
      BY <1>1, <3>2, <3>3, <3>4 DEF TeamResult
    <3>6. Combine(teamOp[t], teamPredicate, {}) = InitialValue(teamOp[t])
      BY <1>1, <3>4, CombineNone DEF TeamType
    <3>7. teamGeneration % 2 \in {0, 1}
      BY <1>1, NextGeneration DEF TeamType
    <3>8. QED
      BY <1>1, <2>1, <3>1, <3>5, <3>6, <3>7 DEF TeamType, TeamSlot
  <2>2. CASE ~teamSingle
    <3>1. PICK g \in 0..(Generations - 1) : g = (teamGeneration + 1) % Generations /\ g % 2 # TeamSlot
      BY <1>1, NextGeneration DEF TeamType, TeamSlot
    <3>2. g % 2 \in {0, 1}
      BY NextGeneration
    <3>3. /\ teamGeneration' = g
          /\ teamResult' = [teamResult EXCEPT ![g % 2] = InitialValue(teamOp[t])]
      BY <2>2, <3>1, TeamOps DEF Team!Single, Team!Slot
    <3>4. InitialValue(teamOp[t]) \in Nat
      BY DEF InitialValue
    <3>5. PICK r \in [{0, 1} -> Nat] : r = [teamResult EXCEPT ![g % 2] = InitialValue(teamOp[t])]
      BY <1>1, <3>2, <3>4 DEF TeamType
    <3>6. r[g % 2] = InitialValue(teamOp[t]) /\ \A i \in {0, 1} : i # g % 2 => r[i] = teamResult[i]
      BY <1>1, <3>2, <3>5 DEF TeamType
    <3>7. QED
      BY <2>2, <3>1, <3>2, <3>3, <3>5, <3>6
  <2>3. QED
    BY <2>1, <2>2
<1>4. Contributed = {} /\ \A u \in Threads : teamPc[u] # "combine"
  BY <1>1, <1>2 DEF TeamPhase
<1>5. teamOp[t] \in PredicateOps /\ \A u \in Threads : TeamInside(u) => teamOp[u] = teamOp[t]
  BY <1>1, <1>2 DEF TeamTogether, TeamType, TeamInside
<1>6. Combine(teamOp[t], teamPredicate, {}) = InitialValue(teamOp[t])
  BY <1>1, <1>5, CombineNone DEF TeamType
<1>7. CASE \A u \in Threads \ {t} : teamPc[u] = "endOfSingle"
  <2>1. teamPc' = [u \in Threads |-> "combine"]
    BY <1>7 DEF Team!Single, Team!RuntimeBarrier
  <2>2. \A u \in Threads : teamPc'[u] = "combine" /\ TeamInside(u)
    BY <1>2, <1>7, <2>1 DEF TeamInside
  <2>3. teamSingle' = FALSE
    BY <1>2, <2>2
  <2>4. Contributed' = {}
    BY <2>2 DEF Contributed
  <2>5. TeamType'
    BY <1>1, <1>2, <1>3, <2>1, <2>3 DEF TeamType, TeamLabels
  <2>6. \A u \in Threads : teamOp[u] = teamOp[t] /\ teamOp[u] # "sync"
    BY <1>1, <1>2, <1>5, <2>2 DEF TeamTogether
  <2>7. TeamTogether'
    BY <1>2, <2>2, <2>6 DEF TeamTogether
  <2>8. TeamPhase'
    BY <2>2, <2>3 DEF TeamPhase
  <2>9. TeamResult'
    BY <1>2, <1>3, <1>6, <2>4, <2>6 DEF TeamResult, TeamSlot
  <2>10. TeamCount' /\ TeamOld'
    BY <1>2, <2>2 DEF TeamCount, TeamOld, TakesResult
  <2>11. QED
    BY <2>5, <2>7, <2>8, <2>9, <2>10 DEF TeamInv
<1>8. CASE ~(\A u \in Threads \ {t} : teamPc[u] = "endOfSingle")
  <2>1. teamPc' = [teamPc EXCEPT ![t] = "endOfSingle"]
    BY <1>8 DEF Team!Single, Team!RuntimeBarrier
  <2>2. teamPc'[t] = "endOfSingle" /\ \A u \in Threads : u # t => teamPc'[u] = teamPc[u]
    BY <1>1, <2>1 DEF TeamType
  <2>3. teamSingle' = TRUE
    BY <1>2, <2>2
  <2>4. Contributed' = {}
    BY <1>2, <1>4, <2>2 DEF Contributed
  <2>5. TeamType'
    BY <1>1, <1>2, <1>3, <2>1, <2>3 DEF TeamType, TeamLabels
  <2>6. TeamTogether'
    BY <1>1, <1>2, <1>5, <2>2 DEF TeamTogether, TeamInside
  <2>7. TeamPhase'
    BY <1>4, <2>2, <2>3, <2>4 DEF TeamPhase
  <2>8. TeamResult'
    <3>1. SUFFICES ASSUME NEW u \in Threads, teamPc'[u] = "endOfSingle"
                   PROVE  r[g % 2] = Combine(teamOp[u], teamPredicate, {})
      BY <1>2, <1>3, <1>4, <2>2, <2>4 DEF TeamResult, TeamSlot
    <3>2. teamOp[u] = teamOp[t]
      BY <1>2, <1>5, <2>2, <3>1 DEF TeamInside
    <3>3. QED
      BY <1>3, <1>6, <3>2
  <2>9. TeamCount'
    BY <1>2 DEF TeamCount
  <2>10. TeamOld'
    <3>1. \A u \in Threads : TakesResult(u)' => TakesResult(u)
      BY <1>2, <2>2 DEF TakesResult
    <3>2. ASSUME NEW u \in Threads, TakesResult(u) PROVE teamGenerationMod2[u] # g % 2
      <4>1. teamSingle => teamGenerationMod2[u] # TeamSlot
        BY <1>1, <3>2 DEF TeamOld
      <4>2. ~teamSingle => teamGenerationMod2[u] = TeamSlot
        BY <1>1, <1>4, <3>2 DEF TeamOld
      <4>3. QED
        BY <1>3, <4>1, <4>2 DEF TeamSlot
    <3>3. QED
      BY <1>2, <1>3, <2>3, <3>1, <3>2 DEF TeamOld, TeamSlot
  <2>11. QED
    BY <2>5, <2>6, <2>7, <2>8, <2>9, <2>10 DEF TeamInv
<1>9. QED
  BY <1>7, <1>8

\* What a thread that combines its predicate does to the invariant: it adds
\* itself to those whose predicates are in the slot of the generation.
LEMMA TeamContribute ==
  ASSUME TeamInv, NEW t \in Threads, NEW g \in 0..(Generations - 1), NEW r \in [{0, 1} -> Nat], NEW n \in Nat,
         teamPc[t] = "combine",
         teamPc' = [teamPc EXCEPT ![t] = "arrive"],
         teamGenerationMod2' = [teamGenerationMod2 EXCEPT ![t] = g % 2],
         teamGeneration' = g, teamResult' = r, teamCurThreadCount' = n,
         teamKind' = teamKind, teamSingle' = teamSingle, teamOp' = teamOp, teamPredicate' = teamPredicate,
         r[g % 2] = Combine(teamOp[t], teamPredicate, Contributed \cup {t}),
         Contributed # {} \/ teamKind = "Omp" => g = teamGeneration,
         teamKind = "Fiber" => n = Cardinality(Contributed \cup {t}),
         \A u \in Threads : TakesResult(u) => teamGenerationMod2[u] # g % 2
  PROVE  TeamInv'
<1>1. TeamType /\ TeamTogether /\ TeamPhase /\ TeamResult /\ TeamCount /\ TeamOld
  BY DEF TeamInv
<1>2. teamPc'[t] = "arrive" /\ \A u \in Threads : u # t => teamPc'[u] = teamPc[u]
  BY <1>1 DEF TeamType
<1>3. teamOp[t] # "sync" /\ \A u \in Threads : TeamInside(u) => teamOp[u] = teamOp[t]
  BY <1>1 DEF TeamTogether, TeamInside
<1>4. Contributed' = Contributed \cup {t} /\ t \notin Contributed
  BY <1>2, <1>3 DEF Contributed
<1>5. g % 2 \in {0, 1}
  BY NextGeneration
<1>6. TeamType'
  BY <1>1, <1>5 DEF TeamType, TeamLabels
<1>7. TeamTogether'
  BY <1>1, <1>2, <1>3 DEF TeamTogether, TeamInside
<1>8. TeamPhase'
  <2>1. teamSingle' = (\E u \in Threads : teamPc'[u] = "endOfSingle")
    BY <1>1, <1>2 DEF TeamPhase
  <2>2. teamKind = "Omp" => \A u \in Threads : teamPc'[u] \in {"combine", "arrive", "barrier"}
    BY <1>1, <1>2 DEF TeamPhase
  <2>3. QED
    BY <2>1, <2>2 DEF TeamPhase
<1>9. TeamResult'
  <2>1. ASSUME NEW u \in Contributed PROVE teamGenerationMod2[u] = g % 2
    BY <1>1, <2>1 DEF TeamResult, TeamSlot
  <2>2. \A u \in Contributed' : teamGenerationMod2'[u] = g % 2
    <3>1. \A u \in Threads : teamGenerationMod2'[u] = IF u = t THEN g % 2 ELSE teamGenerationMod2[u]
      BY <1>1 DEF TeamType
    <3>2. Contributed \subseteq Threads
      BY DEF Contributed
    <3>3. QED
      BY <1>4, <2>1, <3>1, <3>2
  <2>3. ASSUME NEW u \in Threads,
               u \in Contributed' \/ teamPc'[u] = "endOfSingle" \/ (teamKind = "Omp" /\ teamPc'[u] = "combine")
        PROVE  teamOp[u] = teamOp[t]
    <3>1. u # t => TeamInside(u)
      BY <1>2, <1>4, <2>3 DEF TeamInside, Contributed
    <3>2. QED
      BY <1>3, <3>1
  <2>4. QED
    BY <1>4, <2>2, <2>3 DEF TeamResult, TeamSlot
<1>10. \A u \in Threads : TakesResult(u)' => TakesResult(u) /\ u # t
  BY <1>2 DEF TakesResult
<1>11. TeamCount'
  <2>1. SUFFICES ASSUME teamKind = "Fiber" PROVE n = Cardinality(Contributed \cup {t}) /\ n # 0
    BY <1>4 DEF TeamCount
  <2>2. Contributed \in SUBSET Threads
    BY DEF Contributed
  <2>3. Cardinality(Contributed \cup {t}) = Cardinality(Contributed) + 1 /\ Cardinality(Contributed) \in Nat
    BY <1>4, <2>2, Counting
  <2>4. QED
    BY <2>1, <2>3
<1>12. TeamOld'
  <2>1. SUFFICES ASSUME NEW u \in Threads, TakesResult(u)' PROVE teamGenerationMod2'[u] # g % 2
    BY <1>4 DEF TeamOld, TeamSlot
  <2>2. QED
    BY <1>1, <1>10, <2>1 DEF TeamType
<1>13. QED
  BY <1>6, <1>7, <1>8, <1>9, <1>11, <1>12 DEF TeamInv

\* The combination with one more predicate is a number.
LEMMA TeamAtomicOp ==
  ASSUME TeamInv, NEW t \in Threads, teamPc[t] = "combine"
  PROVE  /\ AtomicOp(teamOp[t], Combine(teamOp[t], teamPredicate, Contributed), teamPredicate[t])
              = Combine(teamOp[t], teamPredicate, Contributed \cup {t})
         /\ Combine(teamOp[t], teamPredicate, Contributed \cup {t}) \in Nat
         /\ Combine(teamOp[t], teamPredicate, {}) = InitialValue(teamOp[t])
<1>1. PICK o \in PredicateOps, f \in [Threads -> BOOLEAN], S \in SUBSET Threads :
        o = teamOp[t] /\ f = teamPredicate /\ S = Contributed /\ t \notin S
  <2>1. teamOp[t] \in PredicateOps /\ teamPredicate \in [Threads -> BOOLEAN]
    BY DEF TeamInv, TeamType, TeamTogether
  <2>2. Contributed \in SUBSET Threads /\ t \notin Contributed
    BY DEF Contributed
  <2>3. QED
    BY <2>1, <2>2
<1>2. Combine(o, f, S \cup {t}) = AtomicOp(o, Combine(o, f, S), f[t])
  BY <1>1, CombineStep
<1>3. Combine(o, f, S \cup {t}) \in Nat
  BY CombineFacts
<1>4. Combine(o, f, {}) = InitialValue(o)
  BY CombineNone
<1>5. QED
  BY <1>1, <1>2, <1>3, <1>4

\* A thread of an OpenMP team combines its predicate.
LEMMA TeamCombineOmpStep ==
  ASSUME TeamInv, NEW t \in Threads, Team!CombineOmp(t)
  PROVE  TeamInv'
<1>1. TeamType /\ TeamTogether /\ TeamPhase /\ TeamResult /\ TeamCount /\ TeamOld
  BY DEF TeamInv
<1>2. PICK g \in 0..(Generations - 1), n \in Nat : g = teamGeneration /\ n = teamCurThreadCount
  BY <1>1 DEF TeamType
<1>3. /\ teamKind = "Omp" /\ teamPc[t] = "combine"
      /\ teamGenerationMod2' = [teamGenerationMod2 EXCEPT ![t] = g % 2]
      /\ teamResult' = [teamResult EXCEPT ![g % 2] = AtomicOp(teamOp[t], @, teamPredicate[t])]
      /\ teamPc' = [teamPc EXCEPT ![t] = "arrive"]
      /\ teamKind' = teamKind /\ teamGeneration' = g /\ teamCurThreadCount' = n /\ teamSingle' = teamSingle
      /\ teamOp' = teamOp /\ teamPredicate' = teamPredicate
  BY <1>2, TeamOps DEF Team!CombineOmp, Team!Slot, Team!Goto
<1>4. g % 2 \in {0, 1}
  BY NextGeneration
<1>5. teamResult[g % 2] = Combine(teamOp[t], teamPredicate, Contributed)
  BY <1>1, <1>2, <1>3 DEF TeamResult, TeamSlot
<1>6. PICK c \in Nat : c = Combine(teamOp[t], teamPredicate, Contributed \cup {t})
  BY <1>3, TeamAtomicOp
<1>7. teamResult' = [teamResult EXCEPT ![g % 2] = c]
  BY <1>3, <1>5, <1>6, TeamAtomicOp
<1>8. PICK r \in [{0, 1} -> Nat] : r = teamResult' /\ r[g % 2] = c
  BY <1>1, <1>4, <1>7 DEF TeamType
<1>9. \A u \in Threads : ~TakesResult(u)
  BY <1>1, <1>3 DEF TeamPhase, TakesResult
<1>10. QED
  BY <1>2, <1>3, <1>6, <1>8, <1>9, TeamContribute

\* A fiber combines its predicate and counts itself; the first one of a round
\* begins it in the other slot.
LEMMA TeamCombineFiberStep ==
  ASSUME TeamInv, NEW t \in Threads, Team!CombineFiber(t)
  PROVE  TeamInv'
<1>1. TeamType /\ TeamTogether /\ TeamPhase /\ TeamResult /\ TeamCount /\ TeamOld
  BY DEF TeamInv
<1>2. /\ teamKind = "Fiber" /\ teamPc[t] = "combine"
      /\ teamPc' = [teamPc EXCEPT ![t] = "arrive"]
      /\ teamKind' = teamKind /\ teamSingle' = teamSingle /\ teamOp' = teamOp /\ teamPredicate' = teamPredicate
  BY DEF Team!CombineFiber, Team!Goto
<1>3. /\ Contributed \in SUBSET Threads /\ t \notin Contributed
      /\ Cardinality(Contributed) \in Nat /\ Cardinality(Contributed) < m_threadCount
      /\ Cardinality(Contributed \cup {t}) = Cardinality(Contributed) + 1
      /\ m_threadCount \in Nat /\ m_threadCount > 0
  <2>1. Contributed \in SUBSET Threads /\ t \notin Contributed
    BY <1>2 DEF Contributed
  <2>2. QED
    BY <2>1, Counting, ThreadCount
<1>4. ~teamSingle
  BY <1>1, <1>2 DEF TeamPhase, TeamTogether
<1>5. PICK full \in BOOLEAN : full = (teamCurThreadCount = m_threadCount)
  OBVIOUS
<1>6. PICK g \in 0..(Generations - 1) :
        g = IF full THEN (teamGeneration + 1) % Generations ELSE teamGeneration
  BY <1>1, NextGeneration DEF TeamType
<1>7. g % 2 \in {0, 1} /\ (full => g % 2 # TeamSlot) /\ (~full => g = teamGeneration)
  BY <1>1, <1>6, NextGeneration DEF TeamType, TeamSlot
<1>8. PICK k \in Nat : k = IF full THEN 0 ELSE teamCurThreadCount
  BY <1>1 DEF TeamType
<1>9. /\ teamGeneration' = g /\ teamCurThreadCount' = k + 1
      /\ teamGenerationMod2' = [teamGenerationMod2 EXCEPT ![t] = g % 2]
      /\ teamResult' = [teamResult EXCEPT ![g % 2] =
           AtomicOp(teamOp[t], IF k = 0 THEN InitialValue(teamOp[t]) ELSE teamResult[g % 2], teamPredicate[t])]
  BY <1>5, <1>6, <1>8, TeamOps DEF Team!CombineFiber, Team!Slot
<1>10. /\ Contributed # {} => ~full /\ k = Cardinality(Contributed) /\ k # 0
       /\ Contributed = {} => k = 0
  <2>1. ASSUME Contributed # {} PROVE ~full /\ k = Cardinality(Contributed) /\ k # 0
    <3>1. teamCurThreadCount = Cardinality(Contributed)
      BY <1>1, <1>2, <2>1 DEF TeamCount
    <3>2. Cardinality(Contributed) # 0
      BY <1>3, <2>1, Counting, FS_EmptySet
    <3>3. teamCurThreadCount # m_threadCount
      BY <1>3, <3>1
    <3>4. ~full
      BY <1>5, <3>3
    <3>5. QED
      BY <1>8, <3>1, <3>2, <3>4
  <2>2. ASSUME Contributed = {} PROVE k = 0
    BY <1>1, <1>2, <1>5, <1>8, <2>2 DEF TeamCount
  <2>3. QED
    BY <2>1, <2>2
<1>11. k + 1 = Cardinality(Contributed \cup {t})
  <2>1. Contributed = {} => Cardinality(Contributed) = 0
    BY FS_EmptySet
  <2>2. QED
    BY <1>3, <1>10, <2>1
<1>12. (IF k = 0 THEN InitialValue(teamOp[t]) ELSE teamResult[g % 2])
         = Combine(teamOp[t], teamPredicate, Contributed)
  <2>1. CASE Contributed = {}
    BY <1>2, <1>10, <2>1, TeamAtomicOp
  <2>2. CASE Contributed # {}
    <3>1. PICK u \in Contributed : TRUE
      BY <2>2
    <3>2. u \in Threads /\ teamOp[u] = teamOp[t]
      BY <1>1, <1>2, <3>1 DEF TeamTogether, TeamInside, Contributed
    <3>3. teamResult[TeamSlot] = Combine(teamOp[u], teamPredicate, Contributed)
      BY <1>1, <3>1, <3>2 DEF TeamResult
    <3>4. QED
      BY <1>7, <1>10, <2>2, <3>2, <3>3 DEF TeamSlot
  <2>3. QED
    BY <2>1, <2>2
<1>13. PICK c \in Nat : c = Combine(teamOp[t], teamPredicate, Contributed \cup {t})
  BY <1>2, TeamAtomicOp
<1>14. teamResult' = [teamResult EXCEPT ![g % 2] = c]
  BY <1>2, <1>9, <1>12, <1>13, TeamAtomicOp
<1>15. PICK r \in [{0, 1} -> Nat] : r = teamResult' /\ r[g % 2] = c
  BY <1>1, <1>7, <1>14 DEF TeamType
<1>16. ASSUME NEW u \in Threads, TakesResult(u) PROVE teamGenerationMod2[u] # g % 2
  <2>1. CASE Contributed # {}
    BY <1>1, <1>7, <1>10, <1>16, <2>1 DEF TeamOld, TeamSlot
  <2>2. CASE Contributed = {}
    <3>1. teamGenerationMod2[u] = TeamSlot
      BY <1>1, <1>4, <1>16, <2>2 DEF TeamOld
    <3>2. teamCurThreadCount # 0
      BY <1>1, <1>2, <1>16 DEF TeamCount
    <3>3. full
      BY <1>1, <1>2, <1>5, <2>2, <3>2 DEF TeamCount
    <3>4. QED
      BY <1>7, <3>1, <3>3
  <2>3. QED
    BY <2>1, <2>2
<1>17. PICK n \in Nat : n = k + 1
  OBVIOUS
<1>18. Contributed # {} => g = teamGeneration
  BY <1>7, <1>10
<1>19. QED
  BY <1>2, <1>9, <1>11, <1>13, <1>15, <1>16, <1>17, <1>18, TeamContribute

\* Arriving at the barrier, and being let out by the last one to arrive.
LEMMA TeamArriveStep ==
  ASSUME TeamInv, NEW t \in Threads, Team!Arrive(t)
  PROVE  TeamInv'
<1>1. TeamType /\ TeamTogether /\ TeamPhase /\ TeamResult /\ TeamCount /\ TeamOld
  BY DEF TeamInv
<1>2. /\ teamPc[t] = "arrive" /\ teamKind' = teamKind /\ teamGeneration' = teamGeneration
      /\ teamResult' = teamResult /\ teamCurThreadCount' = teamCurThreadCount /\ teamSingle' = teamSingle
      /\ teamGenerationMod2' = teamGenerationMod2 /\ teamOp' = teamOp /\ teamPredicate' = teamPredicate
  BY DEF Team!Arrive, Team!shared
<1>3. CASE \A u \in Threads \ {t} : teamPc[u] = "barrier"
  <2>1. teamPc' = [u \in Threads |-> "return"]
    BY <1>3 DEF Team!Arrive, Team!RuntimeBarrier
  <2>2. \A u \in Threads : teamPc'[u] = "return" /\ teamPc[u] \in {"arrive", "barrier"}
    BY <1>2, <1>3, <2>1
  <2>3. Contributed' = {} /\ \A u \in Threads : teamOp[u] = teamOp[t]
    BY <1>1, <2>2 DEF Contributed, TeamTogether, TeamInside
  <2>4. teamOp[t] # "sync" => Contributed = Threads
    BY <2>2, <2>3 DEF Contributed
  <2>5. teamOp[t] = "sync" => Contributed = {}
    BY <2>3 DEF Contributed
  <2>6. ~teamSingle
    BY <1>1, <2>2 DEF TeamPhase
  <2>7. TeamType'
    BY <1>1, <1>2, <2>1 DEF TeamType, TeamLabels
  <2>8. TeamTogether' /\ TeamPhase'
    <3>1. TeamTogether'
      BY <2>2 DEF TeamTogether, TeamInside
    <3>2. teamSingle' = FALSE
      BY <1>1, <1>2, <2>6 DEF TeamType
    <3>3. TeamPhase'
      BY <2>2, <2>3, <3>2 DEF TeamPhase
    <3>4. QED
      BY <3>1, <3>3
  <2>9. TeamResult'
    BY <2>2, <2>3 DEF TeamResult
  <2>10. TeamCount'
    <3>1. Cardinality(Threads) = m_threadCount /\ m_threadCount # 0 /\ Threads # {}
      BY ThreadCount, BlockAssumption DEF m_threadCount
    <3>2. CASE teamOp[t] # "sync"
      <4>1. teamKind = "Fiber" => teamCurThreadCount = m_threadCount
        BY <1>1, <2>4, <3>1, <3>2 DEF TeamCount
      <4>2. QED
        BY <1>2, <2>3, <3>1, <4>1 DEF TeamCount
    <3>3. CASE teamOp[t] = "sync"
      BY <1>1, <1>2, <2>3, <2>5, <3>3 DEF TeamCount, TakesResult
    <3>4. QED
      BY <3>2, <3>3
  <2>11. TeamOld'
    <3>1. SUFFICES ASSUME NEW u \in Threads, TakesResult(u)' PROVE teamGenerationMod2[u] = TeamSlot
      BY <1>2, <2>3, <2>6 DEF TeamOld, TeamSlot
    <3>2. u \in Contributed
      BY <1>2, <2>3, <2>4, <3>1 DEF TakesResult
    <3>3. QED
      BY <1>1, <3>2 DEF TeamResult
  <2>12. QED
    BY <2>7, <2>8, <2>9, <2>10, <2>11 DEF TeamInv
<1>4. CASE ~(\A u \in Threads \ {t} : teamPc[u] = "barrier")
  <2>1. teamPc' = [teamPc EXCEPT ![t] = "barrier"]
    BY <1>4 DEF Team!Arrive, Team!RuntimeBarrier
  <2>2. teamPc'[t] = "barrier" /\ \A u \in Threads : u # t => teamPc'[u] = teamPc[u]
    BY <1>1, <2>1 DEF TeamType
  <2>3. Contributed' = Contributed
    BY <1>2, <2>2 DEF Contributed
  <2>4. TeamType'
    BY <1>1, <1>2, <2>1 DEF TeamType, TeamLabels
  <2>5. TeamTogether'
    BY <1>1, <1>2, <2>2 DEF TeamTogether, TeamInside
  <2>6. TeamPhase'
    BY <1>1, <1>2, <2>2, <2>3 DEF TeamPhase
  <2>7. TeamResult'
    <3>1. TeamSlot' = TeamSlot
      BY <1>2 DEF TeamSlot
    <3>2. QED
      BY <1>1, <1>2, <2>2, <2>3, <3>1 DEF TeamResult
  <2>8. \A u \in Threads : TakesResult(u)' = TakesResult(u)
    BY <1>2, <2>2 DEF TakesResult
  <2>9. TeamCount'
    BY <1>1, <1>2, <2>3, <2>8 DEF TeamCount
  <2>10. TeamOld'
    BY <1>1, <1>2, <2>3, <2>8 DEF TeamOld, TeamSlot
  <2>11. QED
    BY <2>4, <2>5, <2>6, <2>7, <2>9, <2>10 DEF TeamInv
<1>5. QED
  BY <1>3, <1>4

\* Leaving.
LEMMA TeamReturnStep ==
  ASSUME TeamInv, NEW t \in Threads, Team!Return(t)
  PROVE  TeamInv'
<1>1. TeamType /\ TeamTogether /\ TeamPhase /\ TeamResult /\ TeamCount /\ TeamOld
  BY DEF TeamInv
<1>2. /\ teamPc[t] = "return" /\ teamKind' = teamKind /\ teamGeneration' = teamGeneration
      /\ teamResult' = teamResult /\ teamCurThreadCount' = teamCurThreadCount /\ teamSingle' = teamSingle
      /\ teamPc' = [teamPc EXCEPT ![t] = "out"]
      /\ teamGenerationMod2' = [teamGenerationMod2 EXCEPT ![t] = 0]
      /\ teamOp' = [teamOp EXCEPT ![t] = "sync"]
      /\ teamPredicate' = [teamPredicate EXCEPT ![t] = FALSE]
  BY DEF Team!Return, Team!shared, Team!Goto
<1>3. TeamType'
  BY <1>1, <1>2 DEF TeamType, TeamLabels
<1>4. /\ teamPc'[t] = "out" /\ teamOp'[t] = "sync"
      /\ \A u \in Threads : u # t => /\ teamPc'[u] = teamPc[u] /\ teamOp'[u] = teamOp[u]
                                     /\ teamGenerationMod2'[u] = teamGenerationMod2[u]
                                     /\ teamPredicate'[u] = teamPredicate[u]
  BY <1>1, <1>2 DEF TeamType
<1>5. Contributed' = Contributed /\ t \notin Contributed /\ Contributed \subseteq Threads
  BY <1>2, <1>4 DEF Contributed
<1>6. TeamTogether'
  BY <1>1, <1>2, <1>4 DEF TeamTogether, TeamInside
<1>7. TeamPhase'
  <2>1. (\E u \in Threads : teamPc'[u] = "endOfSingle") <=> (\E u \in Threads : teamPc[u] = "endOfSingle")
    BY <1>2, <1>4
  <2>2. (\E u \in Threads : teamPc'[u] = "combine") => (\E u \in Threads : teamPc[u] = "combine")
    BY <1>4
  <2>3. teamSingle' = (\E u \in Threads : teamPc'[u] = "endOfSingle")
    BY <1>1, <1>2, <2>1 DEF TeamPhase
  <2>4. ASSUME teamKind = "Omp", Contributed # {} \/ \E u \in Threads : teamPc'[u] = "combine"
        PROVE  FALSE
    BY <1>1, <1>2, <2>2, <2>4 DEF TeamPhase
  <2>5. QED
    BY <1>2, <1>5, <2>3, <2>4 DEF TeamPhase
<1>8. \A o : Combine(o, teamPredicate', Contributed) = Combine(o, teamPredicate, Contributed)
  <2>1. \A u \in Contributed : teamPredicate'[u] = teamPredicate[u]
    BY <1>4, <1>5
  <2>2. QED
    BY <1>1, <1>3, <1>5, <2>1, TeamCombine
<1>9. TeamResult'
  <2>1. TeamSlot' = TeamSlot
    BY <1>2 DEF TeamSlot
  <2>2. \A u \in Contributed : teamGenerationMod2'[u] = TeamSlot
    BY <1>1, <1>4, <1>5 DEF TeamResult
  <2>3. ASSUME NEW u \in Threads,
               u \in Contributed \/ teamPc'[u] = "endOfSingle" \/ (teamKind = "Omp" /\ teamPc'[u] = "combine")
        PROVE  teamResult[TeamSlot] = Combine(teamOp'[u], teamPredicate', Contributed)
    <3>1. u # t
      BY <1>4, <1>5, <2>3
    <3>2. QED
      BY <1>1, <1>4, <1>8, <2>3, <3>1 DEF TeamResult
  <2>4. QED
    BY <1>2, <1>5, <2>1, <2>2, <2>3 DEF TeamResult
<1>10. \A u \in Threads : TakesResult(u)' => TakesResult(u) /\ u # t
  BY <1>4 DEF TakesResult
<1>11. TeamCount'
  BY <1>1, <1>2, <1>5, <1>10 DEF TeamCount
<1>12. TeamOld'
  BY <1>1, <1>2, <1>4, <1>5, <1>10 DEF TeamOld, TeamSlot
<1>13. QED
  BY <1>3, <1>6, <1>7, <1>9, <1>11, <1>12 DEF TeamInv

\* Every call and every step of a thread of the team is one of these.
LEMMA TeamActions ==
  ASSUME Team!Next
  PROVE  \E t \in Threads :
           \/ \E o \in PredicateOps \cup {"sync"}, v \in BOOLEAN : Team!Sync(t, o, v)
           \/ Team!Single(t) \/ Team!CombineOmp(t) \/ Team!CombineFiber(t) \/ Team!Arrive(t) \/ Team!Return(t)
BY TeamOps DEF Team!Next, Team!Step

\* The invariant of the synchronizations that build on a barrier of the runtime.
LEMMA TeamInductive == TeamInv /\ [Team!Next]_(Team!vars) => TeamInv'
<1>1. SUFFICES ASSUME TeamInv, [Team!Next]_(Team!vars) PROVE TeamInv'
  OBVIOUS
<1>2. CASE Team!Next
  BY <1>1, <1>2, TeamActions, TeamSyncStep, TeamSingleStep, TeamCombineOmpStep, TeamCombineFiberStep,
     TeamArriveStep, TeamReturnStep
<1>3. CASE UNCHANGED Team!vars
  BY <1>1, <1>3 DEF Team!vars, Team!shared, TeamInv, TeamType, TeamTogether, TeamPhase, TeamResult, TeamCount,
     TeamOld, TeamInside, TeamSlot, Contributed, TakesResult
<1>4. QED
  BY <1>1, <1>2, <1>3

\* TeamInv holds in every state, for any number of OpenMP threads or fibers.
THEOREM TeamInvariance == Team!Spec => []TeamInv
BY TeamInitially, TeamInductive, PTL DEF Team!Spec

TeamOutside == {t \in Threads : teamPc[t] = "out"}
TeamLetOut == {t \in Threads : teamPc[t] = "return"}
TeamAtMap == [t \in Threads |-> Team!At(t)]
TeamValueMap == [t \in Threads |-> Team!Value(t)]

\* The abstract state of a team in terms of the threads outside and let out.
LEMMA TeamAbstraction ==
  /\ TeamAtMap = [u \in Threads |-> IF u \in TeamOutside THEN "out" ELSE IF u \in TeamLetOut THEN "go" ELSE "in"]
  /\ TeamAtMap' = [u \in Threads |-> IF u \in TeamOutside' THEN "out" ELSE IF u \in TeamLetOut' THEN "go" ELSE "in"]
  /\ TeamValueMap = [u \in Threads |->
       IF u \in TeamLetOut /\ teamOp[u] # "sync" THEN teamResult[teamGenerationMod2[u]] ELSE 0]
  /\ TeamValueMap' = [u \in Threads |->
       IF u \in TeamLetOut' /\ teamOp'[u] # "sync" THEN teamResult'[teamGenerationMod2'[u]] ELSE 0]
<1>1. TeamAtMap = [u \in Threads |-> IF u \in TeamOutside THEN "out" ELSE IF u \in TeamLetOut THEN "go" ELSE "in"]
  BY DEF TeamAtMap, Team!At, TeamOutside, TeamLetOut
<1>2. TeamAtMap' = [u \in Threads |-> IF u \in TeamOutside' THEN "out" ELSE IF u \in TeamLetOut' THEN "go" ELSE "in"]
  BY DEF TeamAtMap, Team!At, TeamOutside, TeamLetOut
<1>3. TeamValueMap = [u \in Threads |->
        IF u \in TeamLetOut /\ teamOp[u] # "sync" THEN teamResult[teamGenerationMod2[u]] ELSE 0]
  BY DEF TeamValueMap, Team!Value, TeamLetOut
<1>4. TeamValueMap' = [u \in Threads |->
        IF u \in TeamLetOut' /\ teamOp'[u] # "sync" THEN teamResult'[teamGenerationMod2'[u]] ELSE 0]
  BY DEF TeamValueMap, Team!Value, TeamLetOut
<1>5. QED
  BY <1>1, <1>2, <1>3, <1>4

\* A call enters the synchronization.
LEMMA TeamSyncEnters ==
  ASSUME TeamInv, NEW t \in Threads, NEW o \in PredicateOps \cup {"sync"}, NEW v \in BOOLEAN,
         Team!Sync(t, o, v)
  PROVE  Team!BS!Next
<1>1. PICK l \in {"arrive", "single", "combine"} :
        /\ teamPc[t] = "out" /\ \A u \in Threads : Team!At(u) = "in" => teamOp[u] = o
        /\ teamPc' = [teamPc EXCEPT ![t] = l]
        /\ teamOp' = [teamOp EXCEPT ![t] = o]
        /\ teamPredicate' = [teamPredicate EXCEPT ![t] = v]
        /\ teamResult' = teamResult /\ teamGenerationMod2' = teamGenerationMod2
  BY DEF Team!Sync, Team!Goto, Team!shared
<1>2. \A u \in Threads : /\ u # t => teamPc'[u] = teamPc[u] /\ teamOp'[u] = teamOp[u]
                         /\ u = t => teamPc'[u] = l
  BY <1>1 DEF TeamInv, TeamType
<1>3. t \in TeamOutside /\ TeamOutside' = TeamOutside \ {t}
  BY <1>1, <1>2 DEF TeamOutside
<1>4. TeamLetOut' = TeamLetOut /\ t \notin TeamLetOut
  BY <1>1, <1>2 DEF TeamLetOut
<1>5. TeamAtMap[t] = "out" /\ TeamAtMap' = [TeamAtMap EXCEPT ![t] = "in"]
  BY <1>3, <1>4, TeamAbstraction
<1>6. TeamValueMap' = TeamValueMap
  BY <1>1, <1>2, <1>4, TeamAbstraction
<1>7. \A u \in Threads : TeamAtMap[u] = "in" => teamOp[u] = o
  BY <1>1 DEF TeamAtMap
<1>8. Team!BS!Enter(t, o, v)
  BY <1>1, <1>5, <1>6, <1>7 DEF Team!BS!Enter, TeamAtMap, TeamValueMap
<1>9. QED
  BY <1>8 DEF Team!BS!Next, Team!BS!Ops, PredicateOps

\* A step is invisible if no thread enters, is let out or leaves, and of the
\* results only that of the current round is written.
LEMMA TeamInvisible ==
  ASSUME TeamInv, TeamInv', teamOp' = teamOp, teamPredicate' = teamPredicate,
         TeamOutside' = TeamOutside, TeamLetOut' = TeamLetOut,
         \A u \in TeamLetOut : teamGenerationMod2'[u] = teamGenerationMod2[u],
         \/ teamResult' = teamResult
         \/ /\ \A i \in {0, 1} : i # TeamSlot' => teamResult'[i] = teamResult[i]
            /\ teamSingle' \/ Contributed' # {} \/ TeamLetOut = {}
  PROVE  UNCHANGED Team!BS!vars
<1>1. TeamAtMap' = TeamAtMap
  BY TeamAbstraction
<1>2. ASSUME NEW u \in TeamLetOut, teamOp[u] # "sync"
      PROVE  teamResult'[teamGenerationMod2'[u]] = teamResult[teamGenerationMod2[u]]
  <2>1. CASE teamResult' = teamResult
    BY <2>1
  <2>2. CASE teamSingle' \/ Contributed' # {}
    <3>1. u \in Threads /\ TakesResult(u)'
      BY <1>2 DEF TakesResult, TeamLetOut
    <3>2. teamGenerationMod2'[u] # TeamSlot'
      BY <2>2, <3>1 DEF TeamInv, TeamOld
    <3>3. teamGenerationMod2[u] \in {0, 1}
      BY <3>1 DEF TeamInv, TeamType
    <3>4. QED
      BY <3>2, <3>3
  <2>3. QED
    BY <2>1, <2>2
<1>3. TeamValueMap' = TeamValueMap
  BY <1>2, TeamAbstraction
<1>4. QED
  BY <1>1, <1>3 DEF Team!BS!vars, TeamAtMap, TeamValueMap

\* Beginning a round and combining a predicate are invisible.
LEMMA TeamWorkIsInvisible ==
  ASSUME TeamInv, NEW t \in Threads, Team!Single(t) \/ Team!CombineOmp(t) \/ Team!CombineFiber(t)
  PROVE  UNCHANGED Team!BS!vars
<1>1. TeamType /\ TeamTogether /\ TeamPhase
  BY DEF TeamInv
<1>2. TeamInv'
  BY TeamSingleStep, TeamCombineOmpStep, TeamCombineFiberStep
<1>3. teamOp' = teamOp /\ teamPredicate' = teamPredicate
  BY DEF Team!Single, Team!CombineOmp, Team!CombineFiber
<1>4. CASE Team!Single(t)
  <2>1. teamPc[t] = "single" /\ teamGenerationMod2' = teamGenerationMod2 /\ teamSingle' = (teamPc'[t] # "combine")
    BY <1>4 DEF Team!Single
  <2>2. \/ teamResult' = teamResult
        \/ \A i \in {0, 1} : i # TeamSlot' => teamResult'[i] = teamResult[i]
    BY <1>1, <1>4 DEF Team!Single, Team!Slot, TeamSlot, TeamType
  <2>3. CASE \A u \in Threads \ {t} : teamPc[u] = "endOfSingle"
    <3>1. \A u \in Threads : teamPc'[u] = "combine" /\ teamPc[u] \in {"single", "endOfSingle"}
      BY <1>4, <2>1, <2>3 DEF Team!Single, Team!RuntimeBarrier
    <3>2. TeamOutside = {} /\ TeamOutside' = {} /\ TeamLetOut = {} /\ TeamLetOut' = {}
      BY <3>1 DEF TeamOutside, TeamLetOut
    <3>3. QED
      BY <1>2, <1>3, <2>1, <2>2, <3>2, TeamInvisible
  <2>4. CASE ~(\A u \in Threads \ {t} : teamPc[u] = "endOfSingle")
    <3>1. teamPc' = [teamPc EXCEPT ![t] = "endOfSingle"]
      BY <1>4, <2>4 DEF Team!Single, Team!RuntimeBarrier
    <3>2. teamPc'[t] = "endOfSingle" /\ \A u \in Threads : u # t => teamPc'[u] = teamPc[u]
      BY <1>1, <3>1 DEF TeamType
    <3>3. TeamOutside' = TeamOutside /\ TeamLetOut' = TeamLetOut
      BY <2>1, <3>2 DEF TeamOutside, TeamLetOut
    <3>4. teamSingle'
      BY <2>1, <3>2
    <3>5. QED
      BY <1>2, <1>3, <2>1, <2>2, <3>3, <3>4, TeamInvisible
  <2>5. QED
    BY <2>3, <2>4
<1>5. CASE Team!CombineOmp(t) \/ Team!CombineFiber(t)
  <2>1. /\ teamPc[t] = "combine" /\ teamPc' = [teamPc EXCEPT ![t] = "arrive"]
        /\ \A u \in Threads : u # t => teamGenerationMod2'[u] = teamGenerationMod2[u]
    BY <1>1, <1>5 DEF Team!CombineOmp, Team!CombineFiber, Team!Goto, TeamType
  <2>2. \A i \in {0, 1} : i # TeamSlot' => teamResult'[i] = teamResult[i]
    <3>1. CASE Team!CombineOmp(t)
      BY <1>1, <3>1 DEF Team!CombineOmp, Team!Slot, TeamSlot, TeamType
    <3>2. CASE Team!CombineFiber(t)
      <4>1. PICK x : teamResult' = [teamResult EXCEPT ![TeamSlot'] = x]
        BY <3>2 DEF Team!CombineFiber, Team!Slot, TeamSlot
      <4>2. QED
        BY <1>1, <4>1 DEF TeamType
    <3>3. QED
      BY <1>5, <3>1, <3>2
  <2>3. teamPc'[t] = "arrive" /\ \A u \in Threads : u # t => teamPc'[u] = teamPc[u]
    BY <1>1, <2>1 DEF TeamType
  <2>4. TeamOutside' = TeamOutside /\ TeamLetOut' = TeamLetOut
    BY <2>1, <2>3 DEF TeamOutside, TeamLetOut
  <2>5. t \in Contributed'
    BY <1>1, <1>3, <2>1, <2>3 DEF Contributed, TeamTogether
  <2>6. \A u \in TeamLetOut : teamGenerationMod2'[u] = teamGenerationMod2[u]
    BY <2>1 DEF TeamLetOut
  <2>7. QED
    BY <1>2, <1>3, <2>2, <2>4, <2>5, <2>6, TeamInvisible
<1>6. QED
  BY <1>4, <1>5

\* The last one to arrive releases everybody with the combined predicates.
LEMMA TeamArriveReleases ==
  ASSUME TeamInv, NEW t \in Threads, Team!Arrive(t)
  PROVE  Team!BS!Next \/ UNCHANGED Team!BS!vars
<1>1. TeamType /\ TeamTogether /\ TeamResult
  BY DEF TeamInv
<1>2. /\ teamPc[t] = "arrive" /\ teamResult' = teamResult /\ teamGenerationMod2' = teamGenerationMod2
      /\ teamOp' = teamOp /\ teamPredicate' = teamPredicate
  BY DEF Team!Arrive, Team!shared
<1>3. CASE \A u \in Threads \ {t} : teamPc[u] = "barrier"
  <2>1. \A u \in Threads : teamPc'[u] = "return" /\ teamPc[u] \in {"arrive", "barrier"}
    BY <1>2, <1>3 DEF Team!Arrive, Team!RuntimeBarrier
  <2>2. TeamOutside = {} /\ TeamLetOut = {} /\ TeamOutside' = {} /\ TeamLetOut' = Threads
    BY <2>1 DEF TeamOutside, TeamLetOut
  <2>3. \A u \in Threads : TeamAtMap[u] = "in"
    BY <2>2, TeamAbstraction
  <2>4. TeamAtMap' = [u \in Threads |-> "go"]
    BY <2>2, TeamAbstraction
  <2>5. ASSUME NEW u \in Threads
        PROVE  Team!Combine(teamOp[u], teamPredicate, Threads)
                 = IF teamOp[u] # "sync" THEN teamResult[teamGenerationMod2[u]] ELSE 0
    <3>1. CASE teamOp[u] = "sync"
      BY <3>1 DEF Team!Combine
    <3>2. CASE teamOp[u] # "sync"
      <4>1. \A w \in Threads : teamOp[w] = teamOp[u]
        BY <1>1, <2>1 DEF TeamTogether, TeamInside
      <4>2. Contributed = Threads
        BY <2>1, <3>2, <4>1 DEF Contributed
      <4>3. teamResult[teamGenerationMod2[u]] = Combine(teamOp[u], teamPredicate, Threads)
        BY <1>1, <4>2 DEF TeamResult
      <4>4. QED
        BY <3>2, <4>3, TeamOps
    <3>3. QED
      BY <3>1, <3>2
  <2>6. TeamValueMap' = [u \in Threads |-> Team!Combine(teamOp[u], teamPredicate, Threads)]
    BY <1>2, <2>2, <2>5, TeamAbstraction
  <2>7. Team!BS!Release
    BY <1>2, <2>3, <2>4, <2>6 DEF Team!BS!Release, TeamAtMap, TeamValueMap
  <2>8. QED
    BY <2>7 DEF Team!BS!Next
<1>4. CASE ~(\A u \in Threads \ {t} : teamPc[u] = "barrier")
  <2>1. teamPc' = [teamPc EXCEPT ![t] = "barrier"]
    BY <1>4 DEF Team!Arrive, Team!RuntimeBarrier
  <2>2. teamPc'[t] = "barrier" /\ \A u \in Threads : u # t => teamPc'[u] = teamPc[u]
    BY <1>1, <2>1 DEF TeamType
  <2>3. TeamOutside' = TeamOutside /\ TeamLetOut' = TeamLetOut
    BY <1>2, <2>2 DEF TeamOutside, TeamLetOut
  <2>4. TeamInv'
    BY TeamArriveStep
  <2>5. QED
    BY <1>2, <2>3, <2>4, TeamInvisible
<1>5. QED
  BY <1>3, <1>4

\* Returning leaves the synchronization.
LEMMA TeamReturnLeaves ==
  ASSUME TeamInv, NEW t \in Threads, Team!Return(t)
  PROVE  Team!BS!Next
<1>1. /\ teamPc[t] = "return" /\ teamResult' = teamResult
      /\ teamPc' = [teamPc EXCEPT ![t] = "out"]
      /\ teamGenerationMod2' = [teamGenerationMod2 EXCEPT ![t] = 0]
      /\ teamOp' = [teamOp EXCEPT ![t] = "sync"]
      /\ teamPredicate' = [teamPredicate EXCEPT ![t] = FALSE]
  BY DEF Team!Return, Team!shared, Team!Goto
<1>2. /\ teamPc'[t] = "out" /\ teamOp'[t] = "sync"
      /\ \A u \in Threads : u # t => /\ teamPc'[u] = teamPc[u] /\ teamOp'[u] = teamOp[u]
                                     /\ teamGenerationMod2'[u] = teamGenerationMod2[u]
  BY <1>1 DEF TeamInv, TeamType
<1>3. t \in TeamLetOut /\ t \notin TeamOutside /\ TeamLetOut' = TeamLetOut \ {t} /\ TeamOutside' = TeamOutside \cup {t}
  BY <1>1, <1>2 DEF TeamLetOut, TeamOutside
<1>4. TeamAtMap[t] = "go" /\ TeamAtMap' = [TeamAtMap EXCEPT ![t] = "out"]
  BY <1>3, TeamAbstraction
<1>5. TeamValueMap' = [TeamValueMap EXCEPT ![t] = 0]
  BY <1>1, <1>2, <1>3, TeamAbstraction
<1>6. Team!BS!Leave(t)
  BY <1>1, <1>4, <1>5 DEF Team!BS!Leave, TeamAtMap, TeamValueMap
<1>7. QED
  BY <1>6 DEF Team!BS!Next

\* BlockSyncBarrierOmp and BlockSyncBarrierFiber implement the synchronization
\* of a block, for any number of threads and any even width of the generation
\* counter, though a thread may begin the next round before others have taken
\* the result of the last one.
THEOREM TeamRefinement == Team!Spec => TeamImplementsBlockSync
<1>1. Team!Init => Team!BS!Init
  BY DEF Team!Init, Team!BS!Init, Team!At, Team!Value
<1>2. TeamInv /\ [Team!Next]_(Team!vars) => [Team!BS!Next]_(Team!BS!vars)
  <2>1. SUFFICES ASSUME TeamInv, [Team!Next]_(Team!vars) PROVE Team!BS!Next \/ UNCHANGED Team!BS!vars
    OBVIOUS
  <2>2. CASE Team!Next
    BY <2>1, <2>2, TeamActions, TeamSyncEnters, TeamWorkIsInvisible, TeamArriveReleases, TeamReturnLeaves
  <2>3. CASE UNCHANGED Team!vars
    <3>1. /\ teamPc' = teamPc /\ teamOp' = teamOp /\ teamPredicate' = teamPredicate
          /\ teamGenerationMod2' = teamGenerationMod2 /\ teamResult' = teamResult
      BY <2>3 DEF Team!vars, Team!shared
    <3>2. TeamOutside' = TeamOutside /\ TeamLetOut' = TeamLetOut
      BY <3>1 DEF TeamOutside, TeamLetOut
    <3>3. TeamInv'
      BY <2>1, TeamInductive
    <3>4. QED
      BY <2>1, <3>1, <3>2, <3>3, TeamInvisible
  <2>4. QED
    BY <2>1, <2>2, <2>3
<1>3. QED
  BY <1>1, <1>2, TeamInvariance, PTL DEF Team!Spec, TeamImplementsBlockSync, Team!BS!Spec
=============================================================================
