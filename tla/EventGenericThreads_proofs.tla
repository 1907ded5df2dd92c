---------------------- MODULE EventGenericThreads_proofs ----------------------
(***************************************************************************)
(* Proofs about EventGenericThreads for any queues, events, hosts, tasks   *)
(* and handles and any number of calls.  PoolInv says that in the queue of *)
(* a pool every item comes after all it needs: what it needs is done, or   *)
(* is given by an item before it or by the item being worked on.  A task   *)
(* gives itself, and a waiting task gives what the event covers.  That it  *)
(* does rests on ChainInv: a later enqueue of an event covers all earlier  *)
(* ones, or these are done, so that a wait for an earlier enqueue may end  *)
(* when a later one is ready.  ChainInv needs a client that enqueues an    *)
(* event again only when it is complete or behind itself (Orderly), and    *)
(* holds in any case for the events that wait(queue) and wait(dev) make.   *)
(* HostInv says of a host in a wait that each task it is due (Due) is done *)
(* or in a queue it still has to go to or covered by an event it waits     *)
(* for; RegisteredInv, that the handles list every queue that exists, is   *)
(* why the queues in reach of a handle are all gone to.                    *)
(***************************************************************************)
EXTENDS EventGenericThreads, NaturalsInduction, WellFoundedInduction, FiniteSetTheorems,
        SequenceTheorems, TLAPS

Orderly == Usage # "any"
Chained(e) == Orderly \/ e \in LocalEvents

\* What a host is due when its wait returns: wait(dev) is held to it only for a
\* client that waits for what the handle reaches.
InReach == DeviceUse # "any"
Due(h) == {u \in due[h] : InReach}

Items == [kind : {"task", "event", "wait"}, what : Tasks \cup AllEvents, count : Nat]
HostLabels == {"idle", "task", "promise", "devPromise", "check", "get", "devEnqueue", "devWait", "return"}
WorkerLabels == {"idle", "run", "mark", "signal", "check", "get"}
Threads == Hosts \cup NonBlocking

\* The types of the variables.
Types ==
  /\ fifo \in [NonBlocking -> Seq(Items)] /\ cur \in [NonBlocking -> Items \cup {NoItem}]
  /\ m_mutex \in [Blocking -> Hosts \cup {None}]
  /\ m_queues \in [Devs -> Seq(Queues)] /\ alive \subseteq Queues
  /\ m_enqueueCount \in [AllEvents -> Nat] /\ m_LastReadyEnqueueCount \in [AllEvents -> Nat]
  /\ pc \in [Threads -> HostLabels \cup WorkerLabels] /\ cont \in [Hosts -> {"return", "devWait"}]
  /\ todo \in [Hosts -> Seq(Queues)] /\ waits \in [Hosts -> Seq(LocalEvents)]
  /\ target \in [Threads -> (Tasks \cup AllEvents \cup {None}) \X Nat]
  /\ submitted \in [Queues -> SUBSET Tasks] /\ fence \in [Queues -> SUBSET Tasks]
  /\ follows \in [Tasks -> SUBSET Tasks] /\ before \in [AllEvents \X Counts -> SUBSET Tasks]
  /\ due \in [Hosts -> SUBSET Tasks] /\ done \subseteq Tasks
  /\ released \subseteq (Tasks \cup AllEvents \cup {None}) \X Nat

\* Enqueue number n of event e has been made.
Made(e, n) == e \in AllEvents /\ n \in Counts /\ n <= m_enqueueCount[e]

\* What has to be done before an item is worked on, and what is done after it.
Needs(it) == IF it.kind = "event" THEN before[<<it.what, it.count>>]
             ELSE IF it.kind = "task" /\ Orderly THEN follows[it.what] ELSE {}
Gives(it) == IF it.kind = "task" THEN {it.what}
             ELSE IF it.kind = "wait" /\ Orderly THEN before[<<it.what, it.count>>] ELSE {}

\* An item of queue q.
ItemOK(q, it) ==
  /\ it.kind = "task" => it.what \in submitted[q]
  /\ it.kind = "event" => Made(it.what, it.count) /\ before[<<it.what, it.count>>] \subseteq submitted[q]
  /\ it.kind = "wait" => Made(it.what, it.count) /\ it.what \in Events

\* Task u is done before what follows the first n items of queue q.
Settled(q, n, u) == \/ u \in done \/ u \in Gives(cur[q])
                    \/ \E j \in 1..n : u \in Gives(fifo[q][j])

\* The items of a queue are in order, and so are items that will be added.
PoolOK(q) ==
  /\ \A i \in 1..Len(fifo[q]) : ItemOK(q, fifo[q][i]) /\ \A u \in Needs(fifo[q][i]) : Settled(q, i - 1, u)
  /\ \A u \in submitted[q] : Settled(q, Len(fifo[q]), u)
  /\ Orderly => \A u \in fence[q] : Settled(q, Len(fifo[q]), u)
PoolInv == \A q \in NonBlocking : PoolOK(q)

\* A worker is where its item is, and has what the item needs.
WorkerOK(q) ==
  /\ pc[q] \in WorkerLabels
  /\ pc[q] = "idle" <=> cur[q] = NoItem
  /\ pc[q] = "run" <=> cur[q].kind = "task"
  /\ pc[q] \in {"mark", "signal"} <=> cur[q].kind = "event"
  /\ pc[q] \in {"check", "get"} <=> cur[q].kind = "wait"
  /\ pc[q] # "idle" => target[q] = <<cur[q].what, cur[q].count>>
  /\ ItemOK(q, cur[q]) /\ Needs(cur[q]) \subseteq done
WorkerInv == \A q \in NonBlocking : WorkerOK(q)

\* A blocking queue runs one task at a time, in the host that has its mutex.
BlockingOK(q) ==
  /\ fence[q] = {}
  /\ m_mutex[q] = None => submitted[q] \subseteq done
  /\ m_mutex[q] # None =>
       LET h == m_mutex[q] IN
       /\ pc[h] = "task" /\ target[h][1] \in submitted[q]
       /\ submitted[q] \subseteq done \cup {target[h][1]}
       /\ follows[target[h][1]] \subseteq done
BlockingInv == /\ \A q \in Blocking : BlockingOK(q)
               /\ \A p, q \in Blocking : m_mutex[p] = m_mutex[q] /\ m_mutex[p] # None => p = q
               /\ \A h \in Hosts : pc[h] = "task" => \E q \in Blocking : m_mutex[q] = h

\* Of the enqueues of an event, the one that is ready is done, and a later one
\* covers the earlier ones.
ReadyOK(e) ==
  /\ m_enqueueCount[e] <= MaxEnqueue /\ m_LastReadyEnqueueCount[e] <= m_enqueueCount[e]
  /\ m_LastReadyEnqueueCount[e] > 0 => before[<<e, m_LastReadyEnqueueCount[e]>>] \subseteq done
ChainOK(e) ==
  \A k, n \in Counts : k < n /\ n <= m_enqueueCount[e] => before[<<e, k>>] \subseteq before[<<e, n>>] \cup done
EventInv == /\ \A e \in AllEvents : ReadyOK(e)
            /\ \A e \in AllEvents : Chained(e) => ChainOK(e)
            /\ \A e \in LocalEvents : \A n \in Counts :
                 n <= m_enqueueCount[e] => before[<<e, n>>] \subseteq submitted[e[2]]
            /\ \A x \in released : \/ x[2] = 0
                                   \/ Made(x[1], x[2]) /\ (Chained(x[1]) => before[x] \subseteq done)

\* A host inside a wait looks at an enqueue that was made, and what it is due to
\* wait for is done, or waited for by what is left of its loops.
HostOK(h) ==
  /\ pc[h] \in HostLabels
  /\ pc[h] \notin {"check", "get", "devWait"} => cont[h] = "return"
  /\ pc[h] = "devWait" => cont[h] = "devWait" /\ target[h][1] \in Events
  /\ pc[h] \in {"check", "get"} =>
       /\ target[h][1] \in AllEvents /\ target[h][2] <= m_enqueueCount[target[h][1]]
       /\ cont[h] = "devWait" => target[h][1] \in Events
  /\ \A i \in 1..Len(waits[h]) : waits[h][i] \in {h} \X Queues
  /\ waits[h] # <<>> => pc[h] \in {"devEnqueue", "devPromise", "check", "get"} /\ cont[h] = "return"
  /\ \A u \in Due(h) :
       \/ u \in done
       \/ /\ pc[h] \in {"devEnqueue", "devPromise"}
          /\ \E i \in 1..Len(todo[h]) : u \in submitted[todo[h][i]]
       \/ /\ pc[h] \in {"devEnqueue", "devPromise", "check", "get"} /\ cont[h] = "return"
          /\ \E i \in 1..Len(waits[h]) : u \in Covers(waits[h][i])
       \/ /\ pc[h] \in {"check", "get"} /\ target[h][1] \in LocalEvents /\ cont[h] = "return"
          /\ target[h][2] # 0 /\ u \in before[target[h]]
HostInv == \A h \in Hosts : HostOK(h)

\* Every queue of the program is registered on some handle.
RegisteredInv == \A q \in alive : \E d \in Devs : Contains(m_queues[d], q)

IInv == /\ Types /\ PoolInv /\ WorkerInv /\ BlockingInv /\ EventInv /\ HostInv /\ RegisteredInv

\* What a step leaves as it was: tasks stay submitted and done, and what an
\* enqueue of an event covers and what a task follows does not change.
Grows ==
  /\ done \subseteq done' /\ \A q \in Queues : submitted[q] \subseteq submitted'[q]
  /\ \A e, n : Made(e, n) => Made(e, n)' /\ before'[<<e, n>>] = before[<<e, n>>]
  /\ \A q \in Queues : \A t \in submitted[q] : follows'[t] = follows[t]

-----------------------------------------------------------------------------
(* Lists of queues                                                         *)

\* A set of naturals with some element has a least one.
LEMMA LeastNatural ==
  ASSUME NEW T, T \subseteq Nat, T # {}
  PROVE  \E m \in T : \A n \in T : m <= n
<1> DEFINE Less == {ss \in Nat \X Nat : ss[1] < ss[2]}
<1>1. IsWellFoundedOn(Less, Nat)
  BY NatLessThanWellFounded DEF OpToRel
<1>2. \A m, n \in Nat : m < n => <<m, n>> \in Less
  OBVIOUS
<1> HIDE DEF Less
<1>3. PICK m \in T : \A n \in T : ~(<<n, m>> \in Less)
  BY <1>1, WFMin, Zenon
<1>4. \A n \in T : ~(n < m)
  BY <1>2, <1>3
<1>5. QED
  BY <1>4

\* getAllExistingQueues lists the queues of the handle that exist, in induction
\* over the part of the list that the loop has passed.
LEMMA ExistingLists ==
  ASSUME NEW d \in Devs, m_queues[d] \in Seq(Queues)
  PROVE  /\ getAllExistingQueues(d) \in Seq(Queues)
         /\ \A q \in alive : Contains(m_queues[d], q) => Contains(getAllExistingQueues(d), q)
<1> DEFINE s == m_queues[d]
           Def(v, i) == IF s[i] \in alive THEN Append(v, s[i]) ELSE v
           locked == CHOOSE g : g = [i \in 0..Len(s) |-> IF i = 0 THEN <<>> ELSE Def(g[i - 1], i)]
           Right(i) == /\ locked[i] \in Seq(Queues)
                       /\ \A j \in 1..i : s[j] \in alive => Contains(locked[i], s[j])
           Wrong == {i \in 0..Len(s) : ~Right(i)}
<1>1. Len(s) \in Nat /\ \A i \in 1..Len(s) : s[i] \in Queues
  OBVIOUS
<1>2. getAllExistingQueues(d) = locked[Len(s)]
  BY DEF getAllExistingQueues
<1>3. FiniteNatInductiveDefHypothesis(locked, <<>>, Def, 0, Len(s))
  BY DEF FiniteNatInductiveDefHypothesis
<1>4. FiniteNatInductiveDefConclusion(locked, <<>>, Def, 0, Len(s))
  BY <1>1, <1>3, FiniteNatInductiveDef
<1>5. locked = [i \in 0..Len(s) |-> IF i = 0 THEN <<>> ELSE Def(locked[i - 1], i)]
  BY <1>4 DEF FiniteNatInductiveDefConclusion
<1> HIDE DEF locked, Def, s
<1>6. locked[0] = <<>> /\ \A i \in 1..Len(s) : locked[i] = Def(locked[i - 1], i)
  BY <1>1, <1>5
<1>7. Right(0)
  BY <1>6
<1>8. ASSUME NEW i \in 1..Len(s), Right(i - 1)
      PROVE  Right(i)
  <2>1. locked[i - 1] \in Seq(Queues) /\ s[i] \in Queues
    BY <1>1, <1>8
  <2>2. CASE s[i] \notin alive
    <3>1. locked[i] = locked[i - 1]
      BY <1>6, <2>2 DEF Def
    <3>2. QED
      BY <1>1, <1>8, <2>2, <3>1
  <2>3. CASE s[i] \in alive
    <3>1. locked[i] = Append(locked[i - 1], s[i])
      BY <1>6, <2>3 DEF Def
    <3>2. locked[i] \in Seq(Queues) /\ Contains(locked[i], s[i])
      BY <2>1, <3>1 DEF Contains
    <3>3. \A q : Contains(locked[i - 1], q) => Contains(locked[i], q)
      BY <2>1, <3>1 DEF Contains
    <3>4. QED
      BY <1>1, <1>8, <3>2, <3>3
  <2>4. QED
    BY <2>2, <2>3
<1> HIDE DEF Right
<1>9. Wrong = {}
  <2> SUFFICES ASSUME Wrong # {} PROVE FALSE
    OBVIOUS
  <2>1. Wrong \subseteq Nat
    BY <1>1
  <2>2. PICK m \in Wrong : \A n \in Wrong : m <= n
    BY <2>1, LeastNatural
  <2>3. m \in 1..Len(s)
    BY <1>1, <1>7, <2>2
  <2>4. m - 1 \in 0..Len(s) /\ ~(m <= m - 1)
    BY <1>1, <2>3
  <2>5. Right(m - 1)
    BY <2>2, <2>4
  <2>6. QED
    BY <1>8, <2>2, <2>3, <2>5
<1>10. Right(Len(s))
  BY <1>1, <1>9
<1>11. QED
  BY <1>2, <1>10 DEF Right, Contains, s

\* SetToSeq lists the elements of a finite set.
LEMMA SetToSeqLists ==
  ASSUME NEW S, IsFiniteSet(S)
  PROVE  SetToSeq(S) \in Seq(S) /\ \A x \in S : Contains(SetToSeq(S), x)
<1> DEFINE n == Cardinality(S)
           f == SetToSeq(S)
<1>1. n \in Nat /\ IsFiniteSet(1..n) /\ Cardinality(1..n) = n
  BY FS_CardinalityType, FS_Interval
<1>2. PICK g \in [1..n -> S] : IsInjective(g)
  BY FS_CardinalityType, FS_NatBijection DEF ExistsBijection, Bijection, Injection, IsInjective
<1>3. f \in [1..n -> S] /\ IsInjective(f)
  BY <1>2 DEF SetToSeq
<1> HIDE DEF f
<1>4. f \in Seq(S) /\ Len(f) = n
  BY <1>1, <1>3
<1>5. ASSUME NEW x \in S, \A i \in 1..n : f[i] # x
      PROVE  FALSE
  <2>1. f \in Injection(1..n, S \ {x})
    BY <1>3, <1>5 DEF Injection, IsInjective
  <2>2. IsFiniteSet(S \ {x}) /\ Cardinality(S \ {x}) = n - 1
    BY FS_RemoveElement
  <2>3. Cardinality(1..n) <= Cardinality(S \ {x})
    BY <2>1, <2>2, FS_Injection
  <2>4. QED
    BY <1>1, <2>2, <2>3
<1>6. QED
  BY <1>4, <1>5 DEF Contains, f

-----------------------------------------------------------------------------
(* What steps leave alone                                                  *)

\* Most steps do not touch what Grows speaks of.
LEMMA GrowsIfSame ==
  ASSUME IInv, UNCHANGED <<submitted, before, follows, m_enqueueCount>>, done \subseteq done'
  PROVE  Grows
  BY DEF Grows, Made

\* An item needs and gives what it did before.
LEMMA ItemStays ==
  ASSUME IInv, Grows, NEW q \in NonBlocking, NEW it, ItemOK(q, it)
  PROVE  ItemOK(q, it)' /\ Needs(it)' = Needs(it) /\ Gives(it)' = Gives(it)
<1>1. q \in Queues
  BY DEF Queues
<1>2. it.kind \in {"event", "wait"} =>
        Made(it.what, it.count)' /\ before'[<<it.what, it.count>>] = before[<<it.what, it.count>>]
  BY DEF Grows, ItemOK
<1>3. it.kind = "task" => it.what \in submitted'[q] /\ follows'[it.what] = follows[it.what]
  BY <1>1 DEF Grows, ItemOK
<1>4. submitted[q] \subseteq submitted'[q]
  BY <1>1 DEF Grows
<1>5. ItemOK(q, it)'
  BY <1>2, <1>3, <1>4 DEF ItemOK
<1>6. Needs(it)' = Needs(it) /\ Gives(it)' = Gives(it)
  BY <1>2, <1>3 DEF Needs, Gives
<1>7. QED
  BY <1>5, <1>6

\* The items of a pool are items of its queue.
LEMMA PoolItems ==
  ASSUME IInv, NEW q \in NonBlocking
  PROVE  /\ ItemOK(q, cur[q]) /\ \A i \in 1..Len(fifo[q]) : ItemOK(q, fifo[q][i])
         /\ q \in Queues /\ fifo[q] \in Seq(Items) /\ Len(fifo[q]) \in Nat
<1>1. fifo[q] \in Seq(Items) /\ q \in Queues
  BY DEF IInv, Types, Queues
<1>2. QED
  BY <1>1 DEF IInv, PoolInv, PoolOK, WorkerInv, WorkerOK

\* What is settled stays so when the item being worked on stays or is finished.
LEMMA SettledStays ==
  ASSUME IInv, Grows, NEW q \in NonBlocking, NEW n \in 0..Len(fifo[q]), NEW u, Settled(q, n, u),
         \A i \in 1..Len(fifo[q]) : fifo'[q][i] = fifo[q][i],
         cur'[q] = cur[q] \/ Gives(cur[q]) \subseteq done'
  PROVE  Settled(q, n, u)'
<1>1. CASE u \in done
  BY <1>1 DEF Settled, Grows
<1>2. CASE u \in Gives(cur[q])
  <2>1. CASE Gives(cur[q]) \subseteq done'
    BY <1>2, <2>1 DEF Settled
  <2>2. CASE cur'[q] = cur[q]
    <3>1. PICK it : it = cur[q] /\ it = cur'[q]
      BY <2>2
    <3>2. Gives(it)' = Gives(it)
      BY <3>1, ItemStays, PoolItems
    <3>3. u \in Gives(cur[q])'
      BY <1>2, <3>1, <3>2 DEF Gives
    <3>4. QED
      BY <3>3 DEF Settled
  <2>3. QED
    BY <2>1, <2>2
<1>3. ASSUME NEW j \in 1..n, u \in Gives(fifo[q][j])
      PROVE  Settled(q, n, u)'
  <2>1. j \in 1..Len(fifo[q])
    BY PoolItems
  <2>2. PICK it : it = fifo[q][j] /\ it = fifo'[q][j]
    BY <2>1
  <2>3. Gives(it)' = Gives(it)
    BY <2>1, <2>2, ItemStays, PoolItems
  <2>4. u \in Gives(fifo[q][j])'
    BY <1>3, <2>2, <2>3 DEF Gives
  <2>5. QED
    BY <2>4 DEF Settled
<1>4. QED
  BY <1>1, <1>2, <1>3 DEF Settled

\* A pool to which nothing is added, though its item may be finished.
LEMMA PoolStays ==
  ASSUME IInv, Grows, NEW q \in NonBlocking, fifo'[q] = fifo[q],
         cur'[q] = cur[q] \/ Gives(cur[q]) \subseteq done',
         submitted'[q] = submitted[q], fence'[q] \subseteq fence[q] \cup done'
  PROVE  PoolOK(q)'
<1>1. PoolOK(q) /\ Len(fifo[q]) \in Nat
  BY PoolItems DEF IInv, PoolInv
<1>2. \A n \in 0..Len(fifo[q]) : \A u : Settled(q, n, u) => Settled(q, n, u)'
  BY SettledStays
<1>3. ASSUME NEW i \in 1..Len(fifo'[q])
      PROVE  ItemOK(q, fifo[q][i])' /\ \A u \in Needs(fifo[q][i])' : Settled(q, i - 1, u)'
  <2>1. PICK it : it = fifo[q][i] /\ it = fifo'[q][i]
    OBVIOUS
  <2>2. ItemOK(q, it)' /\ Needs(it)' = Needs(it)
    BY <2>1, ItemStays, PoolItems
  <2>3. i - 1 \in 0..Len(fifo[q]) /\ \A u \in Needs(it) : Settled(q, i - 1, u)
    BY <1>1, <2>1 DEF PoolOK
  <2>4. \A u \in Needs(it)' : Settled(q, i - 1, u)'
    BY <1>2, <2>2, <2>3
  <2>5. QED
    BY <2>1, <2>2, <2>4 DEF ItemOK, Needs
<1>4. \A u \in submitted'[q] : Settled(q, Len(fifo[q]), u)'
  <2>1. PICK n : n = Len(fifo[q]) /\ n = Len(fifo'[q])
    OBVIOUS
  <2>2. \A u \in submitted'[q] : Settled(q, n, u)'
    BY <1>1, <1>2, <2>1 DEF PoolOK
  <2>3. QED
    BY <2>1, <2>2 DEF Settled
<1>5. Orderly => \A u \in fence'[q] : Settled(q, Len(fifo[q]), u)'
  <2>1. PICK n : n = Len(fifo[q]) /\ n = Len(fifo'[q])
    OBVIOUS
  <2>2. ASSUME Orderly, NEW u \in fence'[q] PROVE Settled(q, n, u)'
    <3>1. CASE u \in fence[q]
      BY <1>1, <1>2, <2>1, <2>2, <3>1 DEF PoolOK
    <3>2. CASE u \in done'
      BY <3>2 DEF Settled
    <3>3. QED
      BY <3>1, <3>2
  <2>3. QED
    BY <2>1, <2>2 DEF Settled
<1>6. QED
  BY <1>3, <1>4, <1>5 DEF PoolOK, Orderly

\* A pool to which an item is added that finds what it needs.
LEMMA PoolAppend ==
  ASSUME IInv, Grows, NEW q \in NonBlocking, NEW it \in Items,
         fifo'[q] = Append(fifo[q], it), cur'[q] = cur[q], ItemOK(q, it)',
         \A u \in Needs(it)' : Settled(q, Len(fifo[q]), u),
         submitted'[q] \subseteq submitted[q] \cup Gives(it)',
         Orderly => fence'[q] \subseteq fence[q] \cup done \cup Gives(it)'
  PROVE  PoolOK(q)'
<1>1. PICK n : n = Len(fifo[q])
  OBVIOUS
<1>2. /\ n \in Nat /\ Len(fifo'[q]) = n + 1 /\ fifo'[q][n + 1] = it
      /\ \A i \in 1..n : fifo'[q][i] = fifo[q][i]
  BY <1>1, PoolItems
<1>3. PoolOK(q)
  BY DEF IInv, PoolInv
<1>4. \A m \in 0..n : \A u : Settled(q, m, u) => Settled(q, m, u)'
  BY <1>1, <1>2, SettledStays
<1>5. \A u : Settled(q, n, u)' => Settled(q, n + 1, u)'
  BY <1>2 DEF Settled
<1>6. \A u \in Gives(it)' : Settled(q, n + 1, u)'
  <2>1. \A u \in Gives(it)' : u \in Gives(fifo[q][n + 1])'
    BY <1>2 DEF Gives
  <2>2. n + 1 \in 1..(n + 1)
    BY <1>2
  <2>3. QED
    BY <2>1, <2>2 DEF Settled
<1>7. ASSUME NEW i \in 1..n
      PROVE  ItemOK(q, fifo[q][i])' /\ \A u \in Needs(fifo[q][i])' : Settled(q, i - 1, u)'
  <2>1. PICK x : x = fifo[q][i] /\ x = fifo'[q][i]
    BY <1>2
  <2>2. ItemOK(q, x)' /\ Needs(x)' = Needs(x)
    BY <1>1, <2>1, ItemStays, PoolItems
  <2>3. i - 1 \in 0..n /\ \A u \in Needs(x) : Settled(q, i - 1, u)
    BY <1>1, <1>2, <1>3, <2>1 DEF PoolOK
  <2>4. \A u \in Needs(x)' : Settled(q, i - 1, u)'
    BY <1>4, <2>2, <2>3
  <2>5. QED
    BY <2>1, <2>2, <2>4 DEF ItemOK, Needs
<1>8. ItemOK(q, fifo[q][n + 1])' /\ \A u \in Needs(fifo[q][n + 1])' : Settled(q, (n + 1) - 1, u)'
  <2>1. (n + 1) - 1 = n /\ n \in 0..n
    BY <1>2
  <2>2. \A u \in Needs(it)' : Settled(q, n, u)'
    BY <1>1, <1>4, <2>1
  <2>3. QED
    BY <1>2, <2>1, <2>2 DEF ItemOK, Needs
<1>9. \A u \in submitted'[q] : Settled(q, n + 1, u)'
  BY <1>1, <1>2, <1>3, <1>4, <1>5, <1>6 DEF PoolOK
<1>10. Orderly => \A u \in fence'[q] : Settled(q, n + 1, u)'
  <2>1. \A u \in done : Settled(q, n, u)'
    BY DEF Settled, Grows
  <2>2. QED
    BY <1>1, <1>2, <1>3, <1>4, <1>5, <1>6, <2>1 DEF PoolOK
<1>11. \A i \in 1..(n + 1) : i \in 1..n \/ i = n + 1
  BY <1>2
<1>12. QED
  BY <1>2, <1>7, <1>8, <1>9, <1>10, <1>11 DEF PoolOK, Orderly

\* All pools when nothing is added, and all but one.
LEMMA PoolsStay ==
  ASSUME IInv, Grows, UNCHANGED <<fifo, cur, submitted, fence>>
  PROVE  PoolInv'
  BY PoolStays DEF PoolInv, Types

\* A worker that does not move.
LEMMA WorkerStays ==
  ASSUME IInv, Grows, NEW q \in NonBlocking, cur'[q] = cur[q], target'[q] = target[q],
         \/ pc'[q] = pc[q]
         \/ pc[q] = "mark" /\ pc'[q] = "signal"
         \/ pc[q] = "check" /\ pc'[q] = "get"
         \/ pc[q] = "get" /\ pc'[q] = "check"
  PROVE  WorkerOK(q)'
<1>1. WorkerOK(q)
  BY DEF IInv, WorkerInv
<1>2. PICK it : it = cur[q] /\ it = cur'[q]
  OBVIOUS
<1>3. ItemOK(q, it)' /\ Needs(it)' = Needs(it)
  BY <1>1, <1>2, ItemStays DEF WorkerOK
<1>4. ItemOK(q, cur[q])' /\ Needs(cur[q])' \subseteq done'
  BY <1>1, <1>2, <1>3 DEF WorkerOK, ItemOK, Needs, Grows
<1>5. /\ pc'[q] \in WorkerLabels
      /\ pc'[q] = "idle" <=> cur'[q] = NoItem
      /\ pc'[q] = "run" <=> cur'[q].kind = "task"
      /\ pc'[q] \in {"mark", "signal"} <=> cur'[q].kind = "event"
      /\ pc'[q] \in {"check", "get"} <=> cur'[q].kind = "wait"
      /\ pc'[q] # "idle" => target'[q] = <<cur'[q].what, cur'[q].count>>
  BY <1>1 DEF WorkerOK, WorkerLabels
<1>6. QED
  BY <1>4, <1>5 DEF WorkerOK

\* A worker that has finished its item.
LEMMA WorkerFinished ==
  ASSUME NEW q \in NonBlocking, cur'[q] = NoItem, pc'[q] = "idle"
  PROVE  WorkerOK(q)'
<1>1. cur'[q].kind = "none"
  BY DEF NoItem, Item
<1>2. ItemOK(q, cur[q])' /\ Needs(cur[q])' = {}
  BY <1>1 DEF ItemOK, Needs
<1>3. QED
  BY <1>1, <1>2 DEF WorkerOK, WorkerLabels

\* Workers that do not move.
LEMMA WorkersStay ==
  ASSUME IInv, Grows, UNCHANGED cur,
         \A q \in NonBlocking : pc'[q] = pc[q] /\ target'[q] = target[q]
  PROVE  WorkerInv'
  BY WorkerStays DEF WorkerInv

\* A blocking queue whose mutex is left alone.
LEMMA BlockingQueueStays ==
  ASSUME IInv, Grows, NEW q \in Blocking, m_mutex'[q] = m_mutex[q], submitted'[q] = submitted[q],
         fence'[q] = fence[q],
         \A h \in Hosts : m_mutex[q] = h /\ pc[h] = "task" => pc'[h] = "task" /\ target'[h] = target[h]
  PROVE  BlockingOK(q)'
<1>1. BlockingOK(q) /\ q \in Queues /\ m_mutex[q] \in Hosts \cup {None}
  BY DEF IInv, BlockingInv, Types, Queues
<1>2. CASE m_mutex[q] = None
  BY <1>1, <1>2 DEF BlockingOK, Grows
<1>3. CASE m_mutex[q] # None
  <2>1. PICK h \in Hosts : h = m_mutex[q]
    BY <1>1, <1>3
  <2>2. /\ pc[h] = "task" /\ target[h][1] \in submitted[q]
        /\ submitted[q] \subseteq done \cup {target[h][1]} /\ follows[target[h][1]] \subseteq done
    BY <1>1, <1>3, <2>1 DEF BlockingOK
  <2>3. pc'[h] = "task" /\ target'[h] = target[h] /\ follows'[target[h][1]] = follows[target[h][1]]
    BY <1>1, <2>1, <2>2 DEF Grows
  <2>4. /\ pc'[h] = "task" /\ target'[h][1] \in submitted'[q]
        /\ submitted'[q] \subseteq done' \cup {target'[h][1]} /\ follows'[target'[h][1]] \subseteq done'
    BY <2>2, <2>3 DEF Grows
  <2>5. fence'[q] = {} /\ m_mutex'[q] = h /\ h # None
    BY <1>1, <1>3, <2>1 DEF BlockingOK
  <2>6. QED
    BY <2>4, <2>5 DEF BlockingOK
<1>4. QED
  BY <1>2, <1>3

\* Blocking queues whose mutexes are left alone.
LEMMA BlockingStays ==
  ASSUME IInv, Grows, UNCHANGED m_mutex,
         \A q \in Blocking : submitted'[q] = submitted[q] /\ fence'[q] = fence[q],
         \A h \in Hosts : /\ pc[h] = "task" => pc'[h] = "task" /\ target'[h] = target[h]
                          /\ pc'[h] = "task" => pc[h] = "task"
  PROVE  BlockingInv'
<1>1. \A q \in Blocking : BlockingOK(q)'
  BY BlockingQueueStays
<1>2. QED
  BY <1>1 DEF IInv, BlockingInv

\* Events that are left alone.
LEMMA EventsStay ==
  ASSUME IInv, Grows, UNCHANGED <<m_enqueueCount, m_LastReadyEnqueueCount, before, released>>
  PROVE  EventInv'
<1>1. \A e \in AllEvents : ReadyOK(e)'
  BY DEF IInv, EventInv, ReadyOK, Grows
<1>2. \A e \in AllEvents : Chained(e) => ChainOK(e)'
  BY DEF IInv, EventInv, ChainOK, Grows
<1>3. \A e \in LocalEvents : \A n \in Counts :
        n <= m_enqueueCount'[e] => before'[<<e, n>>] \subseteq submitted'[e[2]]
  BY DEF IInv, EventInv, LocalEvents, Grows
<1>4. \A x \in released' : \/ x[2] = 0
                           \/ Made(x[1], x[2])' /\ (Chained(x[1]) => before'[x] \subseteq done')
  BY DEF IInv, EventInv, Made, Grows
<1>5. QED
  BY <1>1, <1>2, <1>3, <1>4 DEF EventInv, Chained, Orderly

\* When a wait for an enqueue ends, what it covers is done.
LEMMA WaitEnded ==
  ASSUME IInv, NEW e \in AllEvents, NEW n \in Nat, n > 0, n <= m_LastReadyEnqueueCount[e], Chained(e)
  PROVE  Made(e, n) /\ before[<<e, n>>] \subseteq done
<1> DEFINE r == m_LastReadyEnqueueCount[e]
<1>1. r \in Nat /\ m_enqueueCount[e] \in Nat /\ ReadyOK(e) /\ ChainOK(e) /\ MaxEnqueue \in Nat
  BY SetsAssumption DEF IInv, Types, EventInv
<1>2. r \in Counts /\ n \in Counts /\ n <= m_enqueueCount[e] /\ r <= m_enqueueCount[e]
  BY <1>1 DEF ReadyOK, Counts
<1>3. before[<<e, r>>] \subseteq done
  BY <1>1, <1>2 DEF ReadyOK, Counts
<1>4. CASE n = r
  BY <1>2, <1>3, <1>4 DEF Made
<1>5. CASE n < r
  BY <1>1, <1>2, <1>3, <1>5 DEF ChainOK, Made
<1>6. QED
  BY <1>1, <1>4, <1>5

\* The enqueues that an event has counted have been made.
LEMMA MadeIfCounted ==
  ASSUME IInv, NEW e \in AllEvents, NEW n \in Nat, n # 0, n <= m_enqueueCount[e]
  PROVE  Made(e, n)
<1>1. m_enqueueCount[e] \in Nat /\ m_enqueueCount[e] <= MaxEnqueue /\ MaxEnqueue \in Nat
  BY SetsAssumption DEF IInv, Types, EventInv, ReadyOK
<1>2. n \in Counts
  BY <1>1 DEF Counts
<1>3. QED
  BY <1>2 DEF Made

\* What an event covers stays while it is not enqueued again.
LEMMA CoversGrows ==
  ASSUME IInv, Grows, NEW e \in AllEvents, m_enqueueCount'[e] = m_enqueueCount[e]
  PROVE  Covers(e)' = Covers(e)
<1>1. CASE m_enqueueCount[e] = 0
  BY <1>1 DEF Covers
<1>2. CASE m_enqueueCount[e] # 0
  <2>1. PICK n : n = m_enqueueCount[e]
    OBVIOUS
  <2>2. Made(e, n)
    BY <1>2, <2>1, MadeIfCounted DEF IInv, Types
  <2>3. QED
    BY <1>2, <2>1, <2>2 DEF Covers, Grows
<1>3. QED
  BY <1>1, <1>2

\* A host that does not move.
LEMMA HostStays ==
  ASSUME IInv, Grows, NEW h \in Hosts,
         \/ pc'[h] = pc[h]
         \/ pc[h] = "check" /\ pc'[h] = "get"
         \/ pc[h] = "get" /\ pc'[h] = "check"
         \/ pc[h] = "promise" /\ pc'[h] = "idle"
         \/ pc[h] = "devPromise" /\ pc'[h] = "devEnqueue",
         cont'[h] = cont[h], target'[h] = target[h], todo'[h] = todo[h],
         waits'[h] = waits[h], due'[h] = due[h],
         \A q \in Queues : m_enqueueCount'[<<h, q>>] = m_enqueueCount[<<h, q>>],
         \A e \in AllEvents : m_enqueueCount[e] <= m_enqueueCount'[e],
         m_enqueueCount' \in [AllEvents -> Nat]
  PROVE  HostOK(h)'
<1>1. /\ HostOK(h) /\ todo[h] \in Seq(Queues) /\ waits[h] \in Seq(LocalEvents)
      /\ m_enqueueCount \in [AllEvents -> Nat] /\ target[h] \in (Tasks \cup AllEvents \cup {None}) \X Nat
  BY DEF IInv, HostInv, Types, Threads
<1>2. \A i \in 1..Len(waits[h]) : Covers(waits[h][i])' = Covers(waits[h][i])
  <2>1. ASSUME NEW i \in 1..Len(waits[h]) PROVE Covers(waits[h][i])' = Covers(waits[h][i])
    <3>1. PICK e \in AllEvents : e = waits[h][i] /\ e = waits'[h][i] /\ e \in {h} \X Queues
      BY <1>1, <2>1 DEF AllEvents, HostOK
    <3>2. m_enqueueCount'[e] = m_enqueueCount[e]
      BY <3>1
    <3>3. Covers(e)' = Covers(e)
      BY <3>1, <3>2, CoversGrows
    <3>4. QED
      BY <3>1, <3>3 DEF Covers
  <2>2. QED
    BY <2>1
<1>3. \A i \in 1..Len(todo[h]) : submitted[todo[h][i]] \subseteq submitted'[todo[h][i]]
  BY <1>1 DEF Grows
<1>4. pc[h] \in {"check", "get"} => target[h][2] <= m_enqueueCount'[target[h][1]]
  BY <1>1 DEF HostOK
<1>5. pc[h] \in {"check", "get"} /\ target[h][2] # 0 => before'[target[h]] = before[target[h]]
  <2>1. SUFFICES ASSUME pc[h] \in {"check", "get"}, target[h][2] # 0 PROVE before'[target[h]] = before[target[h]]
    OBVIOUS
  <2>2. PICK e, n : target[h] = <<e, n>> /\ e \in AllEvents /\ n \in Nat /\ n # 0 /\ n <= m_enqueueCount[e]
    BY <1>1, <2>1 DEF HostOK
  <2>3. Made(e, n)
    BY <2>2, MadeIfCounted
  <2>4. QED
    BY <2>2, <2>3 DEF Grows
<1>6. /\ pc'[h] \in HostLabels
      /\ pc'[h] \notin {"check", "get", "devWait"} => cont'[h] = "return"
      /\ pc'[h] = "devWait" => cont'[h] = "devWait" /\ target'[h][1] \in Events
      /\ pc'[h] \in {"check", "get"} =>
           /\ target'[h][1] \in AllEvents /\ target'[h][2] <= m_enqueueCount'[target'[h][1]]
           /\ cont'[h] = "devWait" => target'[h][1] \in Events
      /\ \A i \in 1..Len(waits'[h]) : waits'[h][i] \in {h} \X Queues
      /\ waits'[h] # <<>> => pc'[h] \in {"devEnqueue", "devPromise", "check", "get"} /\ cont'[h] = "return"
  BY <1>1, <1>4 DEF HostOK, HostLabels
<1>7. ASSUME NEW u \in Due(h)'
      PROVE  \/ u \in done'
             \/ /\ pc'[h] \in {"devEnqueue", "devPromise"}
                /\ \E i \in 1..Len(todo'[h]) : u \in submitted'[todo'[h][i]]
             \/ /\ pc'[h] \in {"devEnqueue", "devPromise", "check", "get"} /\ cont'[h] = "return"
                /\ \E i \in 1..Len(waits'[h]) : u \in Covers(waits[h][i])'
             \/ /\ pc'[h] \in {"check", "get"} /\ target'[h][1] \in LocalEvents /\ cont'[h] = "return"
                /\ target'[h][2] # 0 /\ u \in before'[target'[h]]
  <2>1. CASE u \in done
    BY <2>1 DEF Grows
  <2>2. CASE /\ pc[h] \in {"devEnqueue", "devPromise"}
             /\ \E i \in 1..Len(todo[h]) : u \in submitted[todo[h][i]]
    BY <1>3, <2>2
  <2>3. CASE /\ pc[h] \in {"devEnqueue", "devPromise", "check", "get"} /\ cont[h] = "return"
             /\ \E i \in 1..Len(waits[h]) : u \in Covers(waits[h][i])
    BY <1>2, <2>3
  <2>4. CASE /\ pc[h] \in {"check", "get"} /\ target[h][1] \in LocalEvents /\ cont[h] = "return"
             /\ target[h][2] # 0 /\ u \in before[target[h]]
    BY <1>5, <2>4
  <2>5. QED
    BY <1>1, <2>1, <2>2, <2>3, <2>4 DEF HostOK, Due
<1>8. QED
  BY <1>6, <1>7 DEF HostOK

\* The handles.
LEMMA RegisteredStays ==
  ASSUME IInv, UNCHANGED m_queues, alive' \subseteq alive
  PROVE  RegisteredInv'
  BY DEF IInv, RegisteredInv, Contains

-----------------------------------------------------------------------------
(* What the operations do                                                  *)

\* The parts of the invariant about queues and events.
Data == PoolInv /\ WorkerInv /\ BlockingInv /\ EventInv

\* Hosts and workers other than x stay where they are.
Others(x) ==
  /\ \A y \in Threads \ {x} : pc'[y] = pc[y] /\ target'[y] = target[y]
  /\ \A i \in Hosts \ {x} : /\ cont'[i] = cont[i] /\ todo'[i] = todo[i]
                            /\ waits'[i] = waits[i] /\ due'[i] = due[i]

\* The events that a host other than h makes are not enqueued by h.
LEMMA OtherHosts ==
  ASSUME IInv, Grows, NEW x \in Threads, Others(x),
         \A i \in Hosts \ {x} : \A q \in Queues : m_enqueueCount'[<<i, q>>] = m_enqueueCount[<<i, q>>],
         \A e \in AllEvents : m_enqueueCount[e] <= m_enqueueCount'[e],
         m_enqueueCount' \in [AllEvents -> Nat]
  PROVE  \A i \in Hosts \ {x} : HostOK(i)'
<1>1. ASSUME NEW i \in Hosts \ {x} PROVE HostOK(i)'
  <2>1. i \in Threads \ {x}
    BY DEF Threads
  <2>2. /\ pc'[i] = pc[i] /\ target'[i] = target[i] /\ cont'[i] = cont[i] /\ todo'[i] = todo[i]
        /\ waits'[i] = waits[i] /\ due'[i] = due[i]
    BY <2>1 DEF Others
  <2>3. QED
    BY <2>2, HostStays
<1>2. QED
  BY <1>1

\* A step that only moves a host.
HostOnly(h) ==
  /\ UNCHANGED <<fifo, cur, m_mutex, m_enqueueCount, m_LastReadyEnqueueCount, done,
                 submitted, before, fence, follows, released>>
  /\ Others(h) /\ pc[h] # "task" /\ pc'[h] # "task"

\* It keeps the data and the other hosts as they are.
LEMMA HostMoves ==
  ASSUME IInv, NEW h \in Hosts, HostOnly(h)
  PROVE  Grows /\ Data' /\ \A i \in Hosts \ {h} : HostOK(i)'
<1>1. Grows
  BY GrowsIfSame DEF HostOnly
<1>2. /\ \A q \in NonBlocking : pc'[q] = pc[q] /\ target'[q] = target[q]
      /\ \A i \in Hosts \ {h} : pc'[i] = pc[i] /\ target'[i] = target[i]
  BY SetsAssumption DEF HostOnly, Others, Threads, Queues
<1>3. PoolInv' /\ WorkerInv' /\ EventInv'
  BY <1>1, <1>2, PoolsStay, WorkersStay, EventsStay DEF HostOnly
<1>4. BlockingInv'
  BY <1>1, <1>2, BlockingStays DEF HostOnly
<1>5. /\ h \in Threads /\ m_enqueueCount \in [AllEvents -> Nat] /\ m_enqueueCount' = m_enqueueCount
      /\ \A e \in AllEvents : m_enqueueCount[e] <= m_enqueueCount'[e]
  BY DEF Threads, IInv, Types, HostOnly
<1>6. \A i \in Hosts \ {h} : HostOK(i)'
  BY <1>1, <1>5, OtherHosts DEF HostOnly
<1>7. QED
  BY <1>1, <1>3, <1>4, <1>6 DEF Data

\* Whether event e may be enqueued to q so that it covers its earlier enqueues.
Fits(e, q) == (e \in LocalEvents /\ e[2] = q) \/ (e \in Events /\ MayEnqueue(e, q))

\* An enqueue that follows earlier ones of the event covers them, or they are done.
LEMMA EarlierCovered ==
  ASSUME IInv, NEW q \in Queues, NEW e \in AllEvents, Fits(e, q), Chained(e),
         NEW k \in Counts, k <= m_enqueueCount[e]
  PROVE  before[<<e, k>>] \subseteq submitted[q] \cup done
<1> DEFINE c == m_enqueueCount[e]
<1>1. c \in Nat /\ c \in Counts /\ k \in Nat /\ ChainOK(e) /\ ReadyOK(e)
  BY SetsAssumption DEF IInv, Types, EventInv, ReadyOK, Counts
<1>2. before[<<e, k>>] \subseteq before[<<e, c>>] \cup done
  <2>1. CASE k = c
    BY <2>1
  <2>2. CASE k < c
    BY <1>1, <2>2 DEF ChainOK
  <2>3. QED
    BY <1>1, <2>1, <2>2
<1>3. CASE e \in LocalEvents /\ e[2] = q
  BY <1>3 DEF IInv, EventInv
<1>4. CASE e \in Events /\ isReady(e)
  <2>1. m_LastReadyEnqueueCount[e] = c /\ c > 0
    BY <1>1, <1>4 DEF isReady, Counts
  <2>2. before[<<e, c>>] \subseteq done
    BY <1>1, <2>1 DEF ReadyOK
  <2>3. QED
    BY <1>2, <2>2
<1>5. CASE e \in Events /\ q \in NonBlocking /\ Contains(fifo[q], Item("event", e, c))
  <2>1. PICK i \in 1..Len(fifo[q]) : fifo[q][i] = Item("event", e, c)
    BY <1>5 DEF Contains
  <2>2. ItemOK(q, Item("event", e, c))
    BY <1>5, <2>1, PoolItems
  <2>3. before[<<e, c>>] \subseteq submitted[q]
    BY <2>2 DEF ItemOK, Item
  <2>4. QED
    BY <1>2, <2>3
<1>6. e \in LocalEvents \/ Usage # "any"
  BY DEF Chained, Orderly
<1>7. e \in Events => e \notin LocalEvents
  BY SetsAssumption
<1>8. QED
  BY <1>3, <1>4, <1>5, <1>6, <1>7 DEF Fits, MayEnqueue

\* Enqueue number n of an event is made.
LEMMA NewEnqueue ==
  ASSUME IInv, NEW q \in Queues, NEW e \in AllEvents, Fits(e, q),
         NEW n, n = m_enqueueCount[e] + 1, n \in Counts,
         m_enqueueCount' = [m_enqueueCount EXCEPT ![e] = n],
         before' = [before EXCEPT ![<<e, n>>] = OnQueue(q)],
         UNCHANGED <<submitted, follows, done, released>>,
         \/ UNCHANGED m_LastReadyEnqueueCount
         \/ /\ m_LastReadyEnqueueCount' = [m_LastReadyEnqueueCount EXCEPT ![e] = n]
            /\ submitted[q] \subseteq done
  PROVE  /\ Grows /\ EventInv' /\ Made(e, n)' /\ before'[<<e, n>>] = submitted[q]
         /\ \A x \in AllEvents : m_enqueueCount[x] <= m_enqueueCount'[x]
         /\ \A x \in AllEvents \ {e} : m_enqueueCount'[x] = m_enqueueCount[x]
         /\ m_enqueueCount' \in [AllEvents -> Nat]
<1>1. /\ m_enqueueCount \in [AllEvents -> Nat] /\ m_LastReadyEnqueueCount \in [AllEvents -> Nat]
      /\ before \in [AllEvents \X Counts -> SUBSET Tasks] /\ n \in Nat /\ MaxEnqueue \in Nat
      /\ Counts \subseteq Nat /\ n <= MaxEnqueue
  BY SetsAssumption DEF IInv, Types, Counts
<1>2. /\ m_enqueueCount'[e] = n /\ m_enqueueCount[e] < n /\ m_enqueueCount' \in [AllEvents -> Nat]
      /\ \A x \in AllEvents \ {e} : m_enqueueCount'[x] = m_enqueueCount[x]
      /\ \A x \in AllEvents : m_enqueueCount[x] <= m_enqueueCount'[x]
  BY <1>1
<1>3. before'[<<e, n>>] = submitted[q]
  BY <1>1 DEF OnQueue
<1>4. \A x \in AllEvents : \A k \in Counts : x # e \/ k # n => before'[<<x, k>>] = before[<<x, k>>]
  BY <1>1
<1>5. \A x, k : Made(x, k) => Made(x, k)' /\ before'[<<x, k>>] = before[<<x, k>>]
  <2>1. ASSUME NEW x, NEW k, Made(x, k) PROVE Made(x, k)' /\ before'[<<x, k>>] = before[<<x, k>>]
    <3>1. x \in AllEvents /\ k \in Counts /\ k <= m_enqueueCount[x] /\ k \in Nat
      BY <1>1, <2>1 DEF Made
    <3>2. k <= m_enqueueCount'[x] /\ (x = e => k # n)
      BY <1>1, <1>2, <3>1
    <3>3. QED
      BY <1>4, <3>1, <3>2 DEF Made
  <2>2. QED
    BY <2>1
<1>6. Grows
  BY <1>5 DEF Grows
<1>7. Made(e, n)'
  BY <1>1, <1>2 DEF Made
<1>8. ASSUME NEW x \in AllEvents PROVE ReadyOK(x)'
  <2>1. ReadyOK(x) /\ m_LastReadyEnqueueCount[x] \in Nat
    BY <1>1 DEF IInv, EventInv
  <2>2. m_enqueueCount'[x] <= MaxEnqueue
    BY <1>1, <1>2, <2>1 DEF ReadyOK
  <2>3. CASE m_LastReadyEnqueueCount'[x] = m_LastReadyEnqueueCount[x]
    <3>1. m_LastReadyEnqueueCount[x] <= m_enqueueCount'[x]
      BY <1>1, <1>2, <2>1 DEF ReadyOK
    <3>2. m_LastReadyEnqueueCount[x] > 0 =>
            before'[<<x, m_LastReadyEnqueueCount[x]>>] = before[<<x, m_LastReadyEnqueueCount[x]>>]
      BY <1>5, <2>1, MadeIfCounted DEF ReadyOK
    <3>3. QED
      BY <2>1, <2>2, <2>3, <3>1, <3>2 DEF ReadyOK
  <2>4. CASE x = e /\ m_LastReadyEnqueueCount' = [m_LastReadyEnqueueCount EXCEPT ![e] = n] /\ submitted[q] \subseteq done
    BY <1>1, <1>2, <1>3, <2>2, <2>4 DEF ReadyOK
  <2>5. QED
    BY <1>1, <2>3, <2>4
<1>9. ASSUME NEW x \in AllEvents, Chained(x) PROVE ChainOK(x)'
  <2>1. SUFFICES ASSUME NEW k \in Counts, NEW m \in Counts, k < m, m <= m_enqueueCount'[x]
                 PROVE  before'[<<x, k>>] \subseteq before'[<<x, m>>] \cup done'
    BY DEF ChainOK
  <2>2. CASE m <= m_enqueueCount[x]
    <3>9. k \in Nat /\ m \in Nat /\ m_enqueueCount[x] \in Nat
      BY <1>1
    <3>1. k <= m_enqueueCount[x]
      BY <2>1, <2>2, <3>9
    <3>2. Made(x, k) /\ Made(x, m)
      BY <2>2, <3>1 DEF Made
    <3>3. before[<<x, k>>] \subseteq before[<<x, m>>] \cup done
      BY <1>9, <2>1, <2>2 DEF IInv, EventInv, ChainOK
    <3>4. QED
      BY <1>5, <3>2, <3>3
  <2>3. CASE ~(m <= m_enqueueCount[x])
    <3>9. k \in Nat /\ m \in Nat /\ m_enqueueCount[x] \in Nat /\ m_enqueueCount[e] \in Nat
      BY <1>1
    <3>a. x = e
      BY <1>2, <2>1, <2>3
    <3>b. m <= m_enqueueCount[e] + 1 /\ ~(m <= m_enqueueCount[e])
      BY <1>2, <2>1, <2>3, <3>a
    <3>1. x = e /\ m = n /\ k <= m_enqueueCount[e]
      BY <2>1, <3>9, <3>a, <3>b
    <3>2. Made(e, k)
      BY <3>1 DEF Made
    <3>3. before[<<e, k>>] \subseteq submitted[q] \cup done
      BY <1>9, <3>1, EarlierCovered
    <3>4. QED
      BY <1>3, <1>5, <3>1, <3>2, <3>3
  <2>4. QED
    BY <2>2, <2>3
<1>10. ASSUME NEW x \in LocalEvents, NEW k \in Counts, k <= m_enqueueCount'[x]
       PROVE  before'[<<x, k>>] \subseteq submitted'[x[2]]
  <2>1. x \in AllEvents
    BY DEF AllEvents
  <2>2. CASE x = e /\ k = n
    <3>1. e[2] = q
      BY <1>10, <2>2, SetsAssumption DEF Fits
    <3>2. QED
      BY <1>3, <2>2, <3>1
  <2>3. CASE x # e \/ k # n
    <3>1. k <= m_enqueueCount[x]
      BY <1>1, <1>2, <1>10, <2>1, <2>3
    <3>2. QED
      BY <1>4, <2>1, <2>3, <3>1 DEF IInv, EventInv
  <2>4. QED
    BY <2>2, <2>3
<1>11. ASSUME NEW x \in released', x[2] # 0
       PROVE  Made(x[1], x[2])' /\ (Chained(x[1]) => before'[x] \subseteq done')
  <2>1. Made(x[1], x[2]) /\ (Chained(x[1]) => before[x] \subseteq done)
    BY <1>11 DEF IInv, EventInv
  <2>2. x = <<x[1], x[2]>>
    BY <1>11 DEF IInv, Types
  <2>3. before'[<<x[1], x[2]>>] = before[<<x[1], x[2]>>] /\ Made(x[1], x[2])'
    BY <1>5, <2>1
  <2>4. QED
    BY <2>1, <2>2, <2>3
<1>12. EventInv'
  BY <1>8, <1>9, <1>10, <1>11 DEF EventInv, Chained, Orderly
<1>13. QED
  BY <1>2, <1>3, <1>6, <1>7, <1>12

\* A step of a host that only moves the host, with what it does to the host.
LEMMA HostMoved ==
  ASSUME IInv, NEW h \in Hosts, HostOnly(h), Types', HostOK(h)', RegisteredInv'
  PROVE  IInv'
<1>1. Data' /\ \A i \in Hosts \ {h} : HostOK(i)'
  BY HostMoves
<1>2. HostInv'
  BY <1>1 DEF HostInv
<1>3. QED
  BY <1>1, <1>2 DEF IInv, Data

\* A host that waits for nothing has all it is due.
LEMMA NothingDue ==
  ASSUME IInv, NEW h \in Hosts, pc[h] \notin {"devEnqueue", "devPromise", "check", "get"}
  PROVE  Due(h) \subseteq done /\ waits[h] = <<>>
  BY DEF IInv, HostInv, HostOK

\* A host begins to wait for the latest enqueue of an event.
LEMMA StartsToWait ==
  ASSUME IInv, NEW h \in Hosts, NEW e \in Events,
         pc[h] = "idle" \/ pc[h] = "devWait",
         target' = [target EXCEPT ![h] = <<e, m_enqueueCount[e]>>],
         pc' = [pc EXCEPT ![h] = "check"], m_enqueueCount' = m_enqueueCount,
         waits' = waits, cont' = cont, due' = due, done' = done
  PROVE  HostOK(h)'
<1>1. /\ HostOK(h) /\ Due(h) \subseteq done /\ waits[h] = <<>>
      /\ pc \in [Threads -> HostLabels \cup WorkerLabels]
      /\ target \in [Threads -> (Tasks \cup AllEvents \cup {None}) \X Nat]
      /\ m_enqueueCount \in [AllEvents -> Nat] /\ h \in Threads /\ e \in AllEvents
  BY NothingDue DEF IInv, HostInv, Types, Threads, AllEvents
<1>2. /\ pc'[h] = "check" /\ target'[h] = <<e, m_enqueueCount[e]>> /\ waits'[h] = <<>>
      /\ cont'[h] = cont[h] /\ Due(h)' \subseteq done'
  BY <1>1 DEF Due
<1>3. /\ target'[h][1] = e /\ target'[h][2] = m_enqueueCount'[e] /\ m_enqueueCount'[e] \in Nat
      /\ Len(waits'[h]) = 0
  BY <1>1, <1>2
<1>4. QED
  BY <1>1, <1>2, <1>3 DEF HostOK, HostLabels

\* The type of a variable that changes at one thread.
LEMMA TargetTyped ==
  ASSUME IInv, NEW x \in Threads, NEW e \in Tasks \cup AllEvents, NEW n \in Nat,
         target' = [target EXCEPT ![x] = <<e, n>>]
  PROVE  target' \in [Threads -> (Tasks \cup AllEvents \cup {None}) \X Nat]
<1>1. <<e, n>> \in (Tasks \cup AllEvents \cup {None}) \X Nat
  OBVIOUS
<1>2. QED
  BY <1>1 DEF IInv, Types

\* wait(event), and wait(queue, event) of a blocking queue.
LEMMA WaitEventStep ==
  ASSUME IInv, NEW h \in Hosts, NEW e \in Events,
         WaitEvent(h, e) \/ \E q \in Blocking : QueueWaitBlocking(h, q, e)
  PROVE  IInv'
<1> USE DEF WaitEvent, QueueWaitBlocking, Call, Goto, queueVars, regVars, eventVars, ghostVars
<1>1. HostOnly(h)
  BY DEF IInv, Types, HostOnly, Others, Threads
<1>2. Types'
  <2>1. pc' \in [Threads -> HostLabels \cup WorkerLabels]
    BY DEF IInv, Types, Threads, HostLabels
  <2>2. target' \in [Threads -> (Tasks \cup AllEvents \cup {None}) \X Nat]
    <3>1. h \in Threads /\ e \in AllEvents /\ m_enqueueCount[e] \in Nat
      BY DEF IInv, Types, Threads, AllEvents
    <3>2. QED
      BY <3>1, TargetTyped
  <2>3. QED
    BY <2>1, <2>2 DEF IInv, Types
<1>3. HostOK(h)'
  BY StartsToWait
<1>4. RegisteredInv'
  BY RegisteredStays
<1>5. QED
  BY <1>1, <1>2, <1>3, <1>4, HostMoved

\* A step of a host that waits for nothing and goes on doing so.
LEMMA StaysFree ==
  ASSUME IInv, NEW h \in Hosts, pc[h] \notin {"devEnqueue", "devPromise", "check", "get"},
         pc'[h] \in {"idle", "return"}, cont'[h] = "return", waits' = waits, Due(h)' \subseteq done'
  PROVE  HostOK(h)'
<1>1. waits'[h] = <<>> /\ Len(waits'[h]) = 0
  BY NothingDue
<1>2. QED
  BY <1>1 DEF HostOK, HostLabels

\* The end of a call.
LEMMA ReturnStep ==
  ASSUME IInv, NEW h \in Hosts, Return(h) PROVE IInv'
<1> USE DEF Return, Goto, queueVars, regVars, eventVars
<1>1. HostOnly(h)
  BY DEF IInv, Types, HostOnly, Others, Threads
<1>2. Types'
  <2>1. pc' \in [Threads -> HostLabels \cup WorkerLabels]
    BY DEF IInv, Types, Threads, HostLabels
  <2>2. due' \in [Hosts -> SUBSET Tasks]
    BY DEF IInv, Types
  <2>3. QED
    BY <2>1, <2>2 DEF IInv, Types
<1>3. HostOK(h)'
  <2>9. cont[h] = "return"
    BY DEF IInv, HostInv, HostOK
  <2>1. pc'[h] = "idle" /\ Due(h)' = {} /\ cont'[h] = "return"
    BY <2>9 DEF IInv, Types, Threads, Due
  <2>2. QED
    BY <2>1, StaysFree
<1>4. RegisteredInv'
  BY RegisteredStays
<1>5. QED
  BY <1>1, <1>2, <1>3, <1>4, HostMoved

\* promise.set_value() and the loop of a wait.
LEMMA HostLoops ==
  ASSUME IInv, NEW h \in Hosts, SetPromise(h) \/ WaitCopy(h) \/ WaitGet(h) PROVE IInv'
<1> USE DEF SetPromise, WaitCopy, WaitGet, Waiting, Goto, queueVars, regVars, eventVars, ghostVars
<1>1. HostOnly(h)
  BY DEF IInv, Types, HostOnly, Others, Threads
<1>2. Types'
  <2>1. pc' \in [Threads -> HostLabels \cup WorkerLabels]
    BY DEF IInv, Types, Threads, HostLabels
  <2>2. QED
    BY <2>1 DEF IInv, Types
<1>3. HostOK(h)'
  <2>1. \/ pc[h] = "check" /\ pc'[h] = "get"
        \/ pc[h] = "get" /\ pc'[h] = "check"
        \/ pc[h] = "promise" /\ pc'[h] = "idle"
        \/ pc[h] = "devPromise" /\ pc'[h] = "devEnqueue"
    BY DEF IInv, Types, Threads
  <2>2. /\ cont'[h] = cont[h] /\ target'[h] = target[h] /\ todo'[h] = todo[h]
        /\ waits'[h] = waits[h] /\ due'[h] = due[h] /\ m_enqueueCount' = m_enqueueCount
        /\ m_enqueueCount \in [AllEvents -> Nat]
    BY DEF IInv, Types
  <2>3. Grows
    BY <1>1, GrowsIfSame DEF HostOnly
  <2>4. \A e \in AllEvents : m_enqueueCount[e] <= m_enqueueCount'[e]
    BY <2>2
  <2>5. QED
    BY <2>1, <2>2, <2>3, <2>4, HostStays
<1>4. RegisteredInv'
  BY RegisteredStays
<1>5. QED
  BY <1>1, <1>2, <1>3, <1>4, HostMoved

\* wait(queue) of a blocking queue: no task is in progress, so all are done.
LEMMA WaitQueueBlockingStep ==
  ASSUME IInv, NEW h \in Hosts, NEW q \in Blocking, WaitQueueBlocking(h, q) PROVE IInv'
<1> USE DEF WaitQueueBlocking, Call, Goto, queueVars, regVars, eventVars
<1>1. HostOnly(h)
  BY DEF IInv, Types, HostOnly, Others, Threads
<1>2. submitted[q] \subseteq done /\ submitted[q] \subseteq Tasks
  BY DEF IInv, Types, Queues, BlockingInv, BlockingOK
<1>3. Types'
  <2>1. pc' \in [Threads -> HostLabels \cup WorkerLabels]
    BY DEF IInv, Types, Threads, HostLabels
  <2>2. due' \in [Hosts -> SUBSET Tasks]
    BY <1>2 DEF IInv, Types, OnQueue
  <2>3. QED
    BY <2>1, <2>2 DEF IInv, Types
<1>4. HostOK(h)'
  <2>9. cont[h] = "return"
    BY DEF IInv, HostInv, HostOK
  <2>1. pc'[h] = "return" /\ Due(h)' \subseteq submitted[q] /\ cont'[h] = "return"
    BY <2>9 DEF IInv, Types, Threads, OnQueue, Due
  <2>2. QED
    BY <1>2, <2>1, StaysFree
<1>5. RegisteredInv'
  BY RegisteredStays
<1>6. QED
  BY <1>1, <1>3, <1>4, <1>5, HostMoved

\* The handles after their list of queues was gone through.
LEMMA Listed ==
  ASSUME IInv, NEW h \in Hosts, NEW d \in Devs, ListQueues(h, d)
  PROVE  /\ todo' \in [Hosts -> Seq(Queues)] /\ m_queues' \in [Devs -> Seq(Queues)]
         /\ alive' = alive /\ \A i \in Hosts \ {h} : todo'[i] = todo[i]
         /\ \A q \in alive : Contains(m_queues[d], q) => Contains(todo'[h], q)
         /\ RegisteredInv'
<1>1. /\ m_queues \in [Devs -> Seq(Queues)] /\ todo \in [Hosts -> Seq(Queues)]
      /\ m_queues[d] \in Seq(Queues)
  BY DEF IInv, Types
<1>2. PICK s : s = getAllExistingQueues(d)
  OBVIOUS
<1>3. s \in Seq(Queues) /\ \A q \in alive : Contains(m_queues[d], q) => Contains(s, q)
  BY <1>1, <1>2, ExistingLists
<1>4. todo' = [todo EXCEPT ![h] = s] /\ m_queues' = [m_queues EXCEPT ![d] = s] /\ alive' = alive
  BY <1>2 DEF ListQueues
<1>5. todo'[h] = s /\ m_queues'[d] = s /\ \A c \in Devs \ {d} : m_queues'[c] = m_queues[c]
  BY <1>1, <1>4
<1>6. ASSUME NEW q \in alive' PROVE \E c \in Devs : Contains(m_queues'[c], q)
  <2>1. PICK c \in Devs : Contains(m_queues[c], q)
    BY <1>4 DEF IInv, RegisteredInv
  <2>2. Contains(m_queues'[c], q)
    BY <1>3, <1>4, <1>5, <2>1
  <2>3. QED
    BY <2>2
<1>7. RegisteredInv'
  BY <1>6 DEF RegisteredInv, Contains
<1>8. QED
  BY <1>1, <1>3, <1>4, <1>5, <1>7

\* wait(dev) will go through the queues whose tasks it is due to wait for.
LEMMA WaitDevStep ==
  ASSUME IInv, NEW h \in Hosts, NEW d \in Devs, WaitDev(h, d) PROVE IInv'
<1> USE DEF WaitDev, Call, Goto, queueVars, eventVars
<1>1. /\ todo' \in [Hosts -> Seq(Queues)] /\ m_queues' \in [Devs -> Seq(Queues)]
      /\ alive' = alive /\ \A i \in Hosts \ {h} : todo'[i] = todo[i]
      /\ \A q \in alive : Contains(m_queues[d], q) => Contains(todo'[h], q)
      /\ RegisteredInv'
  BY Listed
<1>2. HostOnly(h)
  BY <1>1 DEF IInv, Types, HostOnly, Others, Threads
<1>3. alive \subseteq Queues /\ Everything \subseteq Tasks
  BY DEF IInv, Types, Everything
<1>4. Types'
  <2>1. pc' \in [Threads -> HostLabels \cup WorkerLabels]
    BY DEF IInv, Types, Threads, HostLabels
  <2>2. due' \in [Hosts -> SUBSET Tasks]
    BY <1>3 DEF IInv, Types
  <2>3. QED
    BY <1>1, <2>1, <2>2 DEF IInv, Types
<1>5. HostOK(h)'
  <2>9. cont[h] = "return"
    BY DEF IInv, HostInv, HostOK
  <2>1. /\ pc'[h] = "devEnqueue" /\ Due(h)' \subseteq Everything /\ cont'[h] = "return" /\ waits'[h] = <<>>
        /\ \A u \in Due(h)' : MayWaitDev(d) /\ InReach
    BY <2>9, NothingDue DEF IInv, Types, Threads, Due, InReach
  <2>2. ASSUME NEW u \in Due(h)'
        PROVE  u \in done' \/ \E i \in 1..Len(todo'[h]) : u \in submitted'[todo'[h][i]]
    <3>1. PICK q \in Queues : u \in submitted[q]
      BY <2>1 DEF Everything
    <3>2. u \in done \/ (q \in alive /\ DevOf(q) = d)
      BY <2>1, <3>1 DEF MayWaitDev, InReach
    <3>3. ASSUME q \in alive, DevOf(q) = d
          PROVE  \E i \in 1..Len(todo'[h]) : u \in submitted'[todo'[h][i]]
      <4>1. Contains(m_queues[d], q)
        BY <3>3 DEF DevOf, IInv, RegisteredInv
      <4>2. QED
        BY <1>1, <3>1, <3>3, <4>1 DEF Contains
    <3>4. QED
      BY <3>2, <3>3
  <2>3. QED
    BY <2>1, <2>2 DEF HostOK, HostLabels
<1>6. QED
  BY <1>1, <1>2, <1>4, <1>5, HostMoved

\* wait(dev, event) begins.
LEMMA WaitDevForEventStep ==
  ASSUME IInv, NEW h \in Hosts, NEW d \in Devs, NEW e \in Events, WaitDevForEvent(h, d, e)
  PROVE  IInv'
<1> USE DEF WaitDevForEvent, Call, Goto, queueVars, eventVars
<1>1. /\ todo' \in [Hosts -> Seq(Queues)] /\ m_queues' \in [Devs -> Seq(Queues)]
      /\ alive' = alive /\ \A i \in Hosts \ {h} : todo'[i] = todo[i]
      /\ RegisteredInv'
  BY Listed
<1>2. HostOnly(h)
  BY <1>1 DEF IInv, Types, HostOnly, Others, Threads
<1>3. h \in Threads /\ e \in AllEvents /\ 0 \in Nat
  BY DEF Threads, AllEvents
<1>4. Types'
  <2>1. pc' \in [Threads -> HostLabels \cup WorkerLabels]
    BY DEF IInv, Types, Threads, HostLabels
  <2>2. target' \in [Threads -> (Tasks \cup AllEvents \cup {None}) \X Nat]
    BY <1>3, TargetTyped
  <2>3. cont' \in [Hosts -> {"return", "devWait"}]
    BY DEF IInv, Types
  <2>4. QED
    BY <1>1, <2>1, <2>2, <2>3 DEF IInv, Types
<1>5. HostOK(h)'
  <2>1. pc'[h] = "devWait" /\ cont'[h] = "devWait" /\ target'[h] = <<e, 0>>
    BY <1>3 DEF IInv, Types
  <2>2. waits'[h] = <<>> /\ Len(waits'[h]) = 0 /\ Due(h)' \subseteq done' /\ target'[h][1] = e
    BY <2>1, NothingDue DEF Due
  <2>3. QED
    BY <2>1, <2>2 DEF HostOK, HostLabels
<1>6. QED
  BY <1>1, <1>2, <1>4, <1>5, HostMoved

\* The end of wait(dev, event).
LEMMA DevWaitEndsStep ==
  ASSUME IInv, NEW h \in Hosts, DevWaitEnds(h) PROVE IInv'
<1> USE DEF DevWaitEnds, Goto, queueVars, regVars, eventVars
<1>1. HostOnly(h)
  BY DEF IInv, Types, HostOnly, Others, Threads
<1>2. Types'
  <2>1. pc' \in [Threads -> HostLabels \cup WorkerLabels]
    BY DEF IInv, Types, Threads, HostLabels
  <2>2. cont' \in [Hosts -> {"return", "devWait"}]
    BY DEF IInv, Types
  <2>3. QED
    BY <2>1, <2>2 DEF IInv, Types
<1>3. HostOK(h)'
  <2>1. pc'[h] = "idle" /\ Due(h)' \subseteq done' /\ cont'[h] = "return"
    BY NothingDue DEF IInv, Types, Threads, Due
  <2>2. QED
    BY <2>1, StaysFree
<1>4. RegisteredInv'
  BY RegisteredStays
<1>5. QED
  BY <1>1, <1>2, <1>3, <1>4, HostMoved

\* wait(dev, event) at a blocking queue.
LEMMA DevWaitBlockingStep ==
  ASSUME IInv, NEW h \in Hosts, DevWaitBlocking(h) PROVE IInv'
<1> USE DEF DevWaitBlocking, Goto, queueVars, regVars, eventVars, ghostVars
<1>1. PICK e \in Events : e = target[h][1]
  BY DEF IInv, HostInv, HostOK
<1>2. /\ target' = [target EXCEPT ![h] = <<e, m_enqueueCount[e]>>] /\ h \in Threads
      /\ e \in AllEvents /\ m_enqueueCount[e] \in Nat
  BY <1>1 DEF IInv, Types, AllEvents, Threads
<1>3. todo' \in [Hosts -> Seq(Queues)]
  BY DEF IInv, Types
<1>4. HostOnly(h)
  BY <1>3 DEF IInv, Types, HostOnly, Others, Threads
<1>5. Types'
  <2>1. pc' \in [Threads -> HostLabels \cup WorkerLabels]
    BY DEF IInv, Types, Threads, HostLabels
  <2>2. target' \in [Threads -> (Tasks \cup AllEvents \cup {None}) \X Nat]
    <3> HIDE DEF DevWaitBlocking
    <3>1. QED
      BY <1>2, TargetTyped
  <2>3. QED
    BY <1>3, <2>1, <2>2 DEF IInv, Types
<1>6. HostOK(h)'
  BY <1>2, StartsToWait
<1>7. RegisteredInv'
  BY RegisteredStays
<1>8. QED
  BY <1>4, <1>5, <1>6, <1>7, HostMoved

\* A queue is made and registered.
LEMMA CreateQueueStep ==
  ASSUME IInv, NEW h \in Hosts, NEW d \in Devs, NEW q \in Queues, CreateQueue(h, d, q)
  PROVE  IInv'
<1> USE DEF CreateQueue, Call, queueVars, eventVars, ctrlVars, ghostVars
<1>1. HostOnly(h)
  BY DEF IInv, Types, HostOnly, Others, Threads
<1>2. m_queues \in [Devs -> Seq(Queues)] /\ m_queues[d] \in Seq(Queues)
  BY DEF IInv, Types
<1>3. m_queues'[d] = Append(m_queues[d], q) /\ \A c \in Devs \ {d} : m_queues'[c] = m_queues[c]
  BY <1>2
<1>4. Append(m_queues[d], q) \in Seq(Queues)
  BY <1>2
<1>5. Types'
  <2>1. m_queues' \in [Devs -> Seq(Queues)]
    BY <1>2, <1>4
  <2>2. QED
    BY <2>1 DEF IInv, Types
<1>6. HostOK(h)'
  <2>1. HostOK(h) /\ Grows
    BY <1>1, GrowsIfSame DEF IInv, HostInv, HostOnly
  <2>2. m_enqueueCount \in [AllEvents -> Nat] /\ \A e \in AllEvents : m_enqueueCount[e] <= m_enqueueCount'[e]
    BY DEF IInv, Types
  <2>3. QED
    BY <2>1, <2>2, HostStays
<1>7. RegisteredInv'
  <2>1. /\ Contains(m_queues'[d], q)
        /\ \A p : Contains(m_queues[d], p) => Contains(m_queues'[d], p)
    BY <1>2, <1>3 DEF Contains
  <2>2. ASSUME NEW p \in alive' PROVE \E c \in Devs : Contains(m_queues'[c], p)
    <3>1. CASE p = q
      BY <2>1, <3>1
    <3>2. CASE p \in alive
      <4>1. PICK c \in Devs : Contains(m_queues[c], p)
        BY <3>2 DEF IInv, RegisteredInv
      <4>2. Contains(m_queues'[c], p)
        BY <1>3, <2>1, <4>1
      <4>3. QED
        BY <4>2
    <3>3. QED
      BY <3>1, <3>2
  <2>3. QED
    BY <2>2 DEF RegisteredInv, Contains
<1>8. QED
  BY <1>1, <1>5, <1>6, <1>7, HostMoved

\* The last copy of a queue goes away.
LEMMA DestroyQueueStep ==
  ASSUME IInv, NEW h \in Hosts, NEW q \in Queues, DestroyQueue(h, q)
  PROVE  IInv'
<1> USE DEF DestroyQueue, Call, queueVars, eventVars, ctrlVars, ghostVars
<1>1. HostOnly(h)
  BY DEF IInv, Types, HostOnly, Others, Threads
<1>2. Types'
  BY DEF IInv, Types
<1>3. HostOK(h)'
  <2>1. HostOK(h) /\ Grows
    BY <1>1, GrowsIfSame DEF IInv, HostInv, HostOnly
  <2>2. m_enqueueCount \in [AllEvents -> Nat] /\ \A e \in AllEvents : m_enqueueCount[e] <= m_enqueueCount'[e]
    BY DEF IInv, Types
  <2>3. QED
    BY <2>1, <2>2, HostStays
<1>4. RegisteredInv'
  BY RegisteredStays
<1>5. QED
  BY <1>1, <1>2, <1>3, <1>4, HostMoved

\* What a host is due is done, or is waited for by what is left of its list of
\* events, when it goes on with the first event of the list.
LEMMA NextOfList ==
  ASSUME IInv, NEW h \in Hosts, waits[h] # <<>>, pc[h] = "check" \/ (pc[h] = "devEnqueue" /\ todo[h] = <<>>),
         target[h][1] \in LocalEvents /\ pc[h] = "check" /\ target[h][2] # 0 => before[target[h]] \subseteq done,
         target' = [target EXCEPT ![h] = <<Head(waits[h]), m_enqueueCount[Head(waits[h])]>>],
         waits' = [waits EXCEPT ![h] = Tail(@)], pc'[h] = "check",
         UNCHANGED <<m_enqueueCount, before, due, done, cont>>
  PROVE  /\ HostOK(h)' /\ waits' \in [Hosts -> Seq(LocalEvents)]
         /\ target' \in [Threads -> (Tasks \cup AllEvents \cup {None}) \X Nat]
<1>1. /\ waits \in [Hosts -> Seq(LocalEvents)] /\ waits[h] \in Seq(LocalEvents) /\ h \in Threads
      /\ m_enqueueCount \in [AllEvents -> Nat] /\ LocalEvents \subseteq AllEvents
      /\ target \in [Threads -> (Tasks \cup AllEvents \cup {None}) \X Nat] /\ HostOK(h)
  BY DEF IInv, Types, Threads, AllEvents, HostInv
<1>2. PICK e \in LocalEvents, n \in Nat :
        e = Head(waits[h]) /\ e = waits[h][1] /\ n = m_enqueueCount[e] /\ e \in {h} \X Queues
  BY <1>1 DEF HostOK
<1>3. PICK s \in Seq(LocalEvents) : s = Tail(waits[h])
  <2>1. Tail(waits[h]) \in Seq(LocalEvents)
    BY <1>1, HeadTailProperties
  <2>2. QED
    BY <2>1
<1>4. Len(waits[h]) \in Nat /\ Len(s) = Len(waits[h]) - 1 /\ \A i \in 1..Len(s) : s[i] = waits[h][i + 1]
  BY <1>1, <1>3
<1>5. target' = [target EXCEPT ![h] = <<e, n>>] /\ waits' = [waits EXCEPT ![h] = s]
  BY <1>2, <1>3
<1>6. target'[h] = <<e, n>> /\ waits'[h] = s /\ waits' \in [Hosts -> Seq(LocalEvents)] /\ cont'[h] = "return"
  BY <1>1, <1>5 DEF HostOK
<1>7. target' \in [Threads -> (Tasks \cup AllEvents \cup {None}) \X Nat]
  BY <1>1, <1>2, <1>5, TargetTyped
<1>8. \A i \in 1..Len(s) : s[i] \in {h} \X Queues
  <2>1. \A i \in 1..Len(s) : i + 1 \in 1..Len(waits[h])
    BY <1>4
  <2>2. QED
    BY <1>1, <1>4, <2>1 DEF HostOK
<1>9. ASSUME NEW u \in Due(h)'
      PROVE  \/ u \in done'
             \/ \E i \in 1..Len(waits'[h]) : u \in Covers(waits[h][i])'
             \/ target'[h][2] # 0 /\ u \in before'[target'[h]]
  <2>1. CASE u \in done
    BY <2>1
  <2>2. CASE \E i \in 1..Len(waits[h]) : u \in Covers(waits[h][i])
    <3>1. PICK i \in 1..Len(waits[h]) : u \in Covers(waits[h][i])
      BY <2>2
    <3>2. CASE i = 1
      <4>1. u \in Covers(e)
        BY <1>2, <3>1, <3>2
      <4>2. n # 0 /\ u \in before[<<e, n>>]
        BY <1>2, <4>1 DEF Covers
      <4>3. target'[h][2] # 0
        BY <1>6, <4>2
      <4>4. before'[target'[h]] = before[<<e, n>>]
        BY <1>6
      <4>5. QED
        BY <4>2, <4>3, <4>4
    <3>3. CASE i # 1
      <4>1. i - 1 \in 1..Len(s) /\ s[i - 1] = waits[h][i]
        BY <1>4, <3>1, <3>3
      <4>2. u \in Covers(waits[h][i - 1])'
        BY <1>6, <3>1, <4>1 DEF Covers
      <4>3. QED
        BY <1>6, <4>1, <4>2
    <3>4. QED
      BY <3>2, <3>3
  <2>3. CASE /\ pc[h] \in {"devEnqueue", "devPromise"}
             /\ \E i \in 1..Len(todo[h]) : u \in submitted[todo[h][i]]
    BY <2>3
  <2>4. CASE /\ pc[h] \in {"check", "get"} /\ target[h][1] \in LocalEvents
             /\ target[h][2] # 0 /\ u \in before[target[h]]
    BY <2>4
  <2>5. QED
    BY <1>1, <2>1, <2>2, <2>3, <2>4 DEF HostOK, Due
<1>10. target'[h][1] \in LocalEvents /\ target'[h][1] \in AllEvents /\ target'[h][2] <= m_enqueueCount'[target'[h][1]]
  BY <1>1, <1>2, <1>6
<1>11. HostOK(h)'
  BY <1>6, <1>8, <1>9, <1>10 DEF HostOK, HostLabels
<1>12. QED
  BY <1>6, <1>7, <1>11

\* wait(dev) has enqueued its events and waits for the first.
LEMMA DevEnqueueEndsStep ==
  ASSUME IInv, NEW h \in Hosts, DevEnqueueEnds(h) PROVE IInv'
<1> USE DEF DevEnqueueEnds, Goto, queueVars, regVars, eventVars, ghostVars
<1>1. HostOnly(h)
  BY DEF IInv, Types, HostOnly, Others, Threads
<1>2. pc' \in [Threads -> HostLabels \cup WorkerLabels] /\ h \in Threads
  BY DEF IInv, Types, Threads, HostLabels
<1>3. RegisteredInv'
  BY RegisteredStays
<1>4. CASE waits[h] = <<>>
  <2>1. Types'
    BY <1>2, <1>4 DEF IInv, Types
  <2>2. HostOK(h) /\ pc'[h] = "return" /\ target' = target /\ waits' = waits
    BY <1>2, <1>4 DEF IInv, Types, HostInv
  <2>3. Due(h) \subseteq done /\ Len(waits[h]) = 0
    BY <1>4, <2>2 DEF HostOK
  <2>4. HostOK(h)'
    BY <1>4, <2>2, <2>3 DEF HostOK, HostLabels, Due
  <2>5. QED
    BY <1>1, <1>3, <2>1, <2>4, HostMoved
<1>5. CASE waits[h] # <<>>
  <2>1. pc'[h] = "check"
    BY <1>2, <1>5 DEF IInv, Types
  <2>2. /\ HostOK(h)' /\ waits' \in [Hosts -> Seq(LocalEvents)]
        /\ target' \in [Threads -> (Tasks \cup AllEvents \cup {None}) \X Nat]
    BY <1>5, <2>1, NextOfList
  <2>3. Types'
    BY <1>2, <2>2 DEF IInv, Types
  <2>4. QED
    BY <1>1, <1>3, <2>2, <2>3, HostMoved
<1>6. QED
  BY <1>4, <1>5

\* A wait that ends has an enqueue of an event that is done.
LEMMA EventsReleased ==
  ASSUME IInv, Grows, NEW x \in Threads, NEW e \in AllEvents, NEW n \in Nat, target[x] = <<e, n>>,
         n <= m_LastReadyEnqueueCount[e], released' = released \cup {target[x]},
         UNCHANGED <<m_enqueueCount, m_LastReadyEnqueueCount, before, done>>
  PROVE  /\ EventInv' /\ released' \subseteq (Tasks \cup AllEvents \cup {None}) \X Nat
         /\ Chained(e) /\ n # 0 => before[<<e, n>>] \subseteq done
<1>1. Chained(e) /\ n # 0 => before[<<e, n>>] \subseteq done
  BY WaitEnded
<1>2. n # 0 => Made(e, n)
  <2>1. m_LastReadyEnqueueCount[e] \in Nat /\ m_enqueueCount[e] \in Nat /\ ReadyOK(e)
    BY DEF IInv, Types, EventInv
  <2>2. n <= m_enqueueCount[e]
    BY <2>1 DEF ReadyOK
  <2>3. QED
    BY <2>2, MadeIfCounted
<1>3. \A e1 \in AllEvents : ReadyOK(e1)'
  BY DEF IInv, EventInv, ReadyOK, Grows
<1>4. \A e1 \in AllEvents : Chained(e1) => ChainOK(e1)'
  BY DEF IInv, EventInv, ChainOK, Grows
<1>5. \A e1 \in LocalEvents : \A k \in Counts :
        k <= m_enqueueCount'[e1] => before'[<<e1, k>>] \subseteq submitted'[e1[2]]
  BY DEF IInv, EventInv, LocalEvents, Grows
<1>6. ASSUME NEW y \in released'
      PROVE  \/ y[2] = 0
             \/ Made(y[1], y[2])' /\ (Chained(y[1]) => before'[y] \subseteq done')
  <2>1. CASE y \in released
    BY <2>1 DEF IInv, EventInv, Made
  <2>2. CASE y = <<e, n>>
    BY <1>1, <1>2, <2>2 DEF Made
  <2>3. QED
    BY <2>1, <2>2
<1>7. EventInv'
  BY <1>3, <1>4, <1>5, <1>6 DEF EventInv, Chained, Orderly
<1>8. released' \subseteq (Tasks \cup AllEvents \cup {None}) \X Nat
  BY DEF IInv, Types
<1>9. QED
  BY <1>1, <1>7, <1>8

\* A wait of a host ends: it goes on with its list or where it came from.
LEMMA HostWaitEndsStep ==
  ASSUME IInv, NEW h \in Hosts, HostWaitEnds(h) PROVE IInv'
<1> USE DEF HostWaitEnds, Goto, queueVars, regVars, eventVars
<1>1. /\ h \in Threads /\ HostOK(h) /\ cont \in [Hosts -> {"return", "devWait"}]
      /\ pc \in [Threads -> HostLabels \cup WorkerLabels]
      /\ m_LastReadyEnqueueCount \in [AllEvents -> Nat] /\ m_enqueueCount \in [AllEvents -> Nat]
      /\ target \in [Threads -> (Tasks \cup AllEvents \cup {None}) \X Nat]
  BY DEF IInv, Types, Threads, HostInv
<1>2. PICK e \in AllEvents, n \in Nat : target[h] = <<e, n>>
  <2>1. target[h] \in (Tasks \cup AllEvents \cup {None}) \X Nat /\ target[h][1] \in AllEvents
    BY <1>1 DEF HostOK
  <2>2. QED
    BY <2>1
<1>3. n <= m_LastReadyEnqueueCount[e]
  BY <1>1, <1>2 DEF Waiting
<1>4. Grows
  BY GrowsIfSame
<1>5. /\ EventInv' /\ released' \subseteq (Tasks \cup AllEvents \cup {None}) \X Nat
      /\ Chained(e) /\ n # 0 => before[<<e, n>>] \subseteq done
  BY <1>1, <1>2, <1>3, <1>4, EventsReleased
<1>6. target[h][1] \in LocalEvents /\ target[h][2] # 0 => before[target[h]] \subseteq done
  BY <1>2, <1>5 DEF Chained
<1>7. pc'[h] # "task" /\ Others(h) /\ pc' \in [Threads -> HostLabels \cup WorkerLabels]
  BY <1>1 DEF IInv, Types, Others, Threads, HostLabels
<1>8. HostOK(h)' /\ waits' \in [Hosts -> Seq(LocalEvents)]
        /\ target' \in [Threads -> (Tasks \cup AllEvents \cup {None}) \X Nat]
  <2>1. CASE waits[h] # <<>>
    <3>1. pc'[h] = "check"
      BY <2>1
    <3>2. QED
      BY <1>6, <2>1, <3>1, NextOfList
  <2>2. CASE waits[h] = <<>>
    <3>1. pc'[h] = cont[h] /\ UNCHANGED <<target, waits, cont, due, done>> /\ Len(waits[h]) = 0
      BY <1>1, <2>2
    <3>2. Due(h) \subseteq done
      BY <1>1, <1>6, <3>1 DEF HostOK
    <3>3. cont[h] = "devWait" => target[h][1] \in Events
      BY <1>1 DEF HostOK
    <3>4. cont[h] = "return" \/ cont[h] = "devWait"
      BY <1>1
    <3>5. HostOK(h)'
      BY <2>2, <3>1, <3>2, <3>3, <3>4 DEF HostOK, HostLabels, Due
    <3>6. QED
      BY <3>1, <3>5 DEF IInv, Types
  <2>3. QED
    BY <2>1, <2>2
<1>9. /\ \A q \in NonBlocking : pc'[q] = pc[q] /\ target'[q] = target[q]
      /\ \A i \in Hosts \ {h} : pc'[i] = pc[i] /\ target'[i] = target[i]
  BY <1>7, SetsAssumption DEF Others, Threads, Queues
<1>10. PoolInv' /\ WorkerInv'
  BY <1>4, <1>9, PoolsStay, WorkersStay
<1>11. BlockingInv'
  BY <1>4, <1>7, <1>9, BlockingStays
<1>12. \A i \in Hosts \ {h} : HostOK(i)'
  <2>1. m_enqueueCount' = m_enqueueCount /\ \A y \in AllEvents : m_enqueueCount[y] <= m_enqueueCount'[y]
    BY <1>1
  <2>2. QED
    BY <1>1, <1>4, <1>7, <2>1, OtherHosts
<1>13. HostInv' /\ RegisteredInv'
  BY <1>8, <1>12, RegisteredStays DEF HostInv
<1>14. Types'
  BY <1>5, <1>7, <1>8 DEF IInv, Types
<1>15. QED
  BY <1>5, <1>10, <1>11, <1>13, <1>14 DEF IInv

-----------------------------------------------------------------------------
(* The worker of a pool                                                    *)

\* A step of the worker of q that leaves the tasks and the events of the others alone.
WorkerOnly(q) ==
  /\ UNCHANGED <<m_mutex, m_queues, alive, m_enqueueCount, cont, todo, waits, submitted, before,
                 fence, follows, due>>
  /\ done \subseteq done' /\ Others(q)
  /\ \A p \in NonBlocking \ {q} : fifo'[p] = fifo[p] /\ cur'[p] = cur[p]

\* The step keeps all but the pool, its worker and the events as they are.
LEMMA WorkerMoves ==
  ASSUME IInv, NEW q \in NonBlocking, WorkerOnly(q), Types', PoolOK(q)', WorkerOK(q)', EventInv'
  PROVE  IInv'
<1>1. Grows
  BY GrowsIfSame DEF WorkerOnly
<1>2. /\ \A p \in NonBlocking \ {q} : pc'[p] = pc[p] /\ target'[p] = target[p]
      /\ \A h \in Hosts : h \in Threads /\ h # q /\ pc'[h] = pc[h] /\ target'[h] = target[h]
      /\ q \in Threads /\ q \notin Hosts
  BY SetsAssumption DEF WorkerOnly, Others, Threads, Queues
<1>3. \A p \in NonBlocking \ {q} : PoolOK(p)'
  BY <1>1, PoolStays DEF WorkerOnly
<1>4. \A p \in NonBlocking \ {q} : WorkerOK(p)'
  BY <1>1, <1>2, WorkerStays DEF WorkerOnly
<1>5. BlockingInv'
  BY <1>1, <1>2, BlockingStays DEF WorkerOnly
<1>6. m_enqueueCount \in [AllEvents -> Nat] /\ \A e \in AllEvents : m_enqueueCount[e] <= m_enqueueCount'[e]
  BY DEF IInv, Types, WorkerOnly
<1>7. HostInv'
  <2>1. \A h \in Hosts \ {q} : HostOK(h)'
    BY <1>1, <1>2, <1>6, OtherHosts DEF WorkerOnly
  <2>2. QED
    BY <1>2, <2>1 DEF HostInv
<1>8. RegisteredInv'
  BY RegisteredStays DEF WorkerOnly
<1>9. QED
  BY <1>3, <1>4, <1>5, <1>7, <1>8 DEF IInv, PoolInv, WorkerInv

\* Events when tasks may have been done and nothing else happened to them.
LEMMA EventsKept ==
  ASSUME IInv, NEW q \in NonBlocking, WorkerOnly(q), UNCHANGED <<m_LastReadyEnqueueCount, released>>
  PROVE  EventInv'
  BY GrowsIfSame, EventsStay DEF WorkerOnly

\* The worker takes the first item, which needs nothing that is not done.
LEMMA WorkerPopStep ==
  ASSUME IInv, NEW q \in NonBlocking, WorkerPop(q) PROVE IInv'
<1>1. /\ PoolOK(q) /\ fifo \in [NonBlocking -> Seq(Items)] /\ fifo[q] \in Seq(Items)
      /\ cur \in [NonBlocking -> Items \cup {NoItem}] /\ fifo[q] # <<>> /\ q \in Threads /\ q \in Queues
      /\ pc \in [Threads -> HostLabels \cup WorkerLabels] /\ cur[q] = NoItem
      /\ target \in [Threads -> (Tasks \cup AllEvents \cup {None}) \X Nat]
  BY DEF IInv, Types, PoolInv, Threads, Queues, WorkerPop
<1>2. PICK it \in Items : it = Head(fifo[q]) /\ it = fifo[q][1]
  BY <1>1
<1>3. PICK s \in Seq(Items) : s = Tail(fifo[q])
  BY <1>1, HeadTailProperties
<1>4. /\ Len(fifo[q]) \in Nat /\ Len(s) = Len(fifo[q]) - 1 /\ 1 \in 1..Len(fifo[q])
      /\ \A i \in 1..Len(s) : s[i] = fifo[q][i + 1]
  BY <1>1, <1>3
<1>5. /\ cur' = [cur EXCEPT ![q] = it] /\ fifo' = [fifo EXCEPT ![q] = s]
      /\ target' = [target EXCEPT ![q] = <<it.what, it.count>>]
      /\ UNCHANGED <<m_mutex, m_queues, alive, m_enqueueCount, m_LastReadyEnqueueCount, cont, todo,
                     waits, done, submitted, before, fence, follows, due, released>>
  BY <1>2, <1>3 DEF WorkerPop, regVars, eventVars, ghostVars
<1>6. it.kind \in {"task", "event", "wait"} /\ it.what \in Tasks \cup AllEvents /\ it.count \in Nat
  BY DEF Items
<1>7. PICK l \in {"run", "mark", "check"} :
        /\ pc' = [pc EXCEPT ![q] = l]
        /\ it.kind = "task" => l = "run"
        /\ it.kind = "event" => l = "mark"
        /\ it.kind = "wait" => l = "check"
  BY <1>2, <1>6 DEF WorkerPop, Goto
<1>8. /\ pc'[q] = l /\ cur'[q] = it /\ fifo'[q] = s /\ target'[q] = <<it.what, it.count>>
      /\ pc' \in [Threads -> HostLabels \cup WorkerLabels] /\ fifo' \in [NonBlocking -> Seq(Items)]
      /\ cur' \in [NonBlocking -> Items \cup {NoItem}]
  BY <1>1, <1>5, <1>7 DEF WorkerLabels
<1>9. target' \in [Threads -> (Tasks \cup AllEvents \cup {None}) \X Nat]
  BY <1>1, <1>5, <1>6, TargetTyped
<1>10. Types'
  BY <1>5, <1>8, <1>9 DEF IInv, Types
<1>11. WorkerOnly(q)
  BY <1>1, <1>5, <1>7 DEF WorkerOnly, Others, Threads
<1>12. Grows /\ EventInv'
  BY <1>5, <1>11, GrowsIfSame, EventsKept
<1>13. ItemOK(q, it) /\ \A u \in Needs(it) : Settled(q, 0, u)
  BY <1>1, <1>2, <1>4 DEF PoolOK
<1>14. \A u \in Needs(it) : u \in done
  <2>1. Gives(cur[q]) = {}
    BY <1>1 DEF Gives, NoItem, Item
  <2>2. QED
    BY <1>13, <2>1 DEF Settled
<1>15. ItemOK(q, it)' /\ Needs(it)' = Needs(it) /\ Gives(it)' = Gives(it)
  BY <1>12, <1>13, ItemStays
<1>16. WorkerOK(q)'
  <2>1. ItemOK(q, cur[q])' /\ Needs(cur[q])' \subseteq done'
    BY <1>5, <1>8, <1>14, <1>15 DEF ItemOK, Needs
  <2>2. it # NoItem
    BY <1>6 DEF NoItem, Item
  <2>3. QED
    BY <1>6, <1>7, <1>8, <2>1, <2>2 DEF WorkerOK, WorkerLabels
<1>17. ASSUME NEW m \in 1..Len(fifo[q]), NEW u, Settled(q, m, u)
       PROVE  Settled(q, m - 1, u)'
  <2>1. CASE u \in done
    BY <1>5, <2>1 DEF Settled
  <2>2. CASE u \in Gives(cur[q])
    BY <1>1, <2>2 DEF Gives, NoItem, Item
  <2>3. ASSUME NEW j \in 1..m, u \in Gives(fifo[q][j]) PROVE Settled(q, m - 1, u)'
    <3>1. CASE j = 1
      <4>1. u \in Gives(cur[q])'
        BY <1>2, <1>8, <1>15, <2>3, <3>1 DEF Gives
      <4>2. QED
        BY <4>1 DEF Settled
    <3>2. CASE j # 1
      <4>1. j - 1 \in 1..(m - 1) /\ j - 1 \in 1..Len(s) /\ j \in 1..Len(fifo[q]) /\ (j - 1) + 1 = j
        BY <1>4, <3>2
      <4>2. PICK x : x = fifo[q][j] /\ x = fifo'[q][j - 1]
        BY <1>4, <1>8, <4>1
      <4>3. Gives(x)' = Gives(x)
        BY <1>12, <4>1, <4>2, ItemStays, PoolItems
      <4>4. u \in Gives(fifo[q][j - 1])'
        BY <2>3, <4>2, <4>3 DEF Gives
      <4>5. QED
        BY <4>1, <4>4 DEF Settled
    <3>3. QED
      BY <3>1, <3>2
  <2>4. QED
    BY <1>17, <2>1, <2>2, <2>3 DEF Settled
<1>18. PoolOK(q)'
  <2>1. ASSUME NEW i \in 1..Len(s)
        PROVE  ItemOK(q, fifo[q][i])' /\ \A u \in Needs(fifo[q][i])' : Settled(q, i - 1, u)'
    <3>1. i + 1 \in 1..Len(fifo[q]) /\ (i + 1) - 1 = i /\ i \in 1..Len(fifo[q])
      BY <1>4
    <3>2. PICK x : x = fifo[q][i + 1] /\ x = fifo'[q][i]
      BY <1>4, <1>8
    <3>3. ItemOK(q, x)' /\ Needs(x)' = Needs(x)
      BY <1>12, <3>1, <3>2, ItemStays, PoolItems
    <3>4. \A u \in Needs(x) : Settled(q, i, u)
      BY <1>1, <3>1, <3>2 DEF PoolOK
    <3>5. \A u \in Needs(x)' : Settled(q, i - 1, u)'
      BY <1>17, <3>1, <3>3, <3>4
    <3>6. QED
      BY <3>2, <3>3, <3>5 DEF ItemOK, Needs
  <2>2. PICK n : n = Len(fifo[q]) /\ n - 1 = Len(fifo'[q]) /\ n \in 1..Len(fifo[q])
    <3>1. Len(fifo'[q]) = Len(fifo[q]) - 1
      BY <1>4, <1>8
    <3>2. Len(fifo[q]) \in 1..Len(fifo[q])
      BY <1>4
    <3>3. QED
      BY <3>1, <3>2
  <2>3. \A u \in submitted'[q] : Settled(q, n - 1, u)'
    BY <1>1, <1>5, <1>17, <2>2 DEF PoolOK
  <2>4. Orderly => \A u \in fence'[q] : Settled(q, n - 1, u)'
    BY <1>1, <1>5, <1>17, <2>2 DEF PoolOK
  <2>5. QED
    BY <1>8, <2>1, <2>2, <2>3, <2>4 DEF PoolOK, Orderly, Settled
<1>19. QED
  BY <1>10, <1>11, <1>12, <1>16, <1>18, WorkerMoves

\* The pool when its worker has finished an item that gave what is done now.
LEMMA ItemFinished ==
  ASSUME IInv, NEW q \in NonBlocking, WorkerOnly(q), Gives(cur[q]) \subseteq done', UNCHANGED fifo,
         cur'[q] = NoItem, pc'[q] = "idle", Types', EventInv'
  PROVE  IInv'
<1>1. Grows
  BY GrowsIfSame DEF WorkerOnly
<1>2. PoolOK(q)'
  BY <1>1, PoolStays DEF WorkerOnly
<1>3. WorkerOK(q)'
  BY WorkerFinished
<1>4. QED
  BY <1>2, <1>3, WorkerMoves

\* A task is run.
LEMMA WorkerRunStep ==
  ASSUME IInv, NEW q \in NonBlocking, WorkerRun(q) PROVE IInv'
<1> USE DEF WorkerRun, Goto, regVars, eventVars, ghostVars
<1>1. /\ WorkerOK(q) /\ q \in Threads /\ submitted[q] \subseteq Tasks
      /\ pc \in [Threads -> HostLabels \cup WorkerLabels] /\ cur \in [NonBlocking -> Items \cup {NoItem}]
  BY DEF IInv, WorkerInv, Threads, Types, Queues
<1>2. cur[q].kind = "task" /\ cur[q].what \in Tasks
  BY <1>1 DEF WorkerOK, ItemOK
<1>3. Gives(cur[q]) \subseteq done' /\ done' \subseteq Tasks
  BY <1>2 DEF Gives, IInv, Types
<1>4. /\ cur'[q] = NoItem /\ pc'[q] = "idle" /\ pc' \in [Threads -> HostLabels \cup WorkerLabels]
      /\ cur' \in [NonBlocking -> Items \cup {NoItem}]
  BY <1>1 DEF WorkerLabels
<1>5. Types'
  BY <1>3, <1>4 DEF IInv, Types
<1>6. WorkerOnly(q)
  BY <1>1 DEF WorkerOnly, Others, Threads
<1>7. EventInv'
  BY <1>6, EventsKept
<1>8. QED
  BY <1>3, <1>4, <1>5, <1>6, <1>7, ItemFinished

\* The future of an event is set.
LEMMA WorkerSignalStep ==
  ASSUME IInv, NEW q \in NonBlocking, WorkerSignal(q) PROVE IInv'
<1> USE DEF WorkerSignal, Goto, regVars, ghostVars
<1>1. /\ WorkerOK(q) /\ q \in Threads
      /\ pc \in [Threads -> HostLabels \cup WorkerLabels] /\ cur \in [NonBlocking -> Items \cup {NoItem}]
  BY DEF IInv, WorkerInv, Threads, Types
<1>2. cur[q].kind = "event"
  BY <1>1 DEF WorkerOK
<1>3. Gives(cur[q]) = {}
  BY <1>2 DEF Gives
<1>4. /\ cur'[q] = NoItem /\ pc'[q] = "idle" /\ pc' \in [Threads -> HostLabels \cup WorkerLabels]
      /\ cur' \in [NonBlocking -> Items \cup {NoItem}]
  BY <1>1 DEF WorkerLabels
<1>5. Types'
  BY <1>4 DEF IInv, Types
<1>6. WorkerOnly(q)
  BY <1>1 DEF WorkerOnly, Others, Threads
<1>7. EventInv'
  BY <1>6, EventsKept
<1>8. QED
  BY <1>3, <1>4, <1>5, <1>6, <1>7, ItemFinished

\* The worker looks at an event it waits for.
LEMMA WorkerLoops ==
  ASSUME IInv, NEW q \in NonBlocking, WaitCopy(q) \/ WaitGet(q) PROVE IInv'
<1> USE DEF WaitCopy, WaitGet, Waiting, Goto, queueVars, regVars, eventVars, ghostVars
<1>1. q \in Threads /\ pc \in [Threads -> HostLabels \cup WorkerLabels]
  BY DEF IInv, Threads, Types
<1>2. pc' \in [Threads -> HostLabels \cup WorkerLabels]
  BY <1>1 DEF WorkerLabels
<1>3. Types'
  BY <1>2 DEF IInv, Types
<1>4. WorkerOnly(q)
  BY <1>1 DEF WorkerOnly, Others, Threads
<1>5. Grows /\ EventInv'
  BY <1>4, GrowsIfSame, EventsKept
<1>6. PoolOK(q)'
  BY <1>5, PoolStays
<1>7. WorkerOK(q)'
  BY <1>1, <1>5, WorkerStays
<1>8. QED
  BY <1>3, <1>4, <1>5, <1>6, <1>7, WorkerMoves

\* A waiting task ends: what the event covers is done.
LEMMA WorkerWaitEndsStep ==
  ASSUME IInv, NEW q \in NonBlocking, WorkerWaitEnds(q) PROVE IInv'
<1> USE DEF WorkerWaitEnds, Goto, regVars, eventVars
<1>1. /\ WorkerOK(q) /\ q \in Threads
      /\ pc \in [Threads -> HostLabels \cup WorkerLabels] /\ cur \in [NonBlocking -> Items \cup {NoItem}]
      /\ m_LastReadyEnqueueCount \in [AllEvents -> Nat]
  BY DEF IInv, WorkerInv, Threads, Types
<1>2. PICK e, n : cur[q].kind = "wait" /\ e = cur[q].what /\ n = cur[q].count
  BY <1>1 DEF WorkerOK
<1>3. target[q] = <<e, n>> /\ Made(e, n)
  BY <1>1, <1>2 DEF WorkerOK, ItemOK
<1>4. e \in AllEvents /\ n \in Nat /\ n # 0
  BY <1>3, SetsAssumption DEF Made, Counts
<1>5. n <= m_LastReadyEnqueueCount[e]
  BY <1>1, <1>3, <1>4 DEF Waiting
<1>6. WorkerOnly(q) /\ Grows
  <2>1. WorkerOnly(q)
    BY <1>1 DEF WorkerOnly, Others, Threads
  <2>2. QED
    BY <2>1, GrowsIfSame DEF WorkerOnly
<1>7. /\ EventInv' /\ released' \subseteq (Tasks \cup AllEvents \cup {None}) \X Nat
      /\ Chained(e) /\ n # 0 => before[<<e, n>>] \subseteq done
  BY <1>1, <1>3, <1>4, <1>5, <1>6, EventsReleased
<1>8. Gives(cur[q]) \subseteq done'
  BY <1>2, <1>4, <1>7 DEF Gives, Chained
<1>9. /\ cur'[q] = NoItem /\ pc'[q] = "idle" /\ pc' \in [Threads -> HostLabels \cup WorkerLabels]
      /\ cur' \in [NonBlocking -> Items \cup {NoItem}]
  BY <1>1 DEF WorkerLabels
<1>10. Types'
  BY <1>7, <1>9 DEF IInv, Types
<1>11. QED
  BY <1>6, <1>7, <1>8, <1>9, <1>10, ItemFinished

\* The event's task marks the event if it was not enqueued again.
LEMMA WorkerMarkStep ==
  ASSUME IInv, NEW q \in NonBlocking, WorkerMark(q) PROVE IInv'
<1> USE DEF WorkerMark, Goto, queueVars, regVars, ghostVars
<1>1. /\ WorkerOK(q) /\ q \in Threads /\ pc \in [Threads -> HostLabels \cup WorkerLabels]
      /\ m_LastReadyEnqueueCount \in [AllEvents -> Nat] /\ m_enqueueCount \in [AllEvents -> Nat]
  BY DEF IInv, WorkerInv, Threads, Types
<1>2. PICK e, n : cur[q].kind = "event" /\ e = cur[q].what /\ n = cur[q].count
  BY <1>1 DEF WorkerOK
<1>3. Made(e, n) /\ before[<<e, n>>] \subseteq done
  BY <1>1, <1>2 DEF WorkerOK, ItemOK, Needs
<1>4. e \in AllEvents /\ n \in Nat /\ n # 0
  BY <1>3, SetsAssumption DEF Made, Counts
<1>5. /\ m_LastReadyEnqueueCount' \in [AllEvents -> Nat]
      /\ \A x \in AllEvents : \/ m_LastReadyEnqueueCount'[x] = m_LastReadyEnqueueCount[x]
                              \/ x = e /\ n = m_enqueueCount[e] /\ m_LastReadyEnqueueCount'[x] = n
  BY <1>1, <1>2, <1>4
<1>6. pc' \in [Threads -> HostLabels \cup WorkerLabels] /\ pc'[q] = "signal"
  BY <1>1 DEF WorkerLabels
<1>7. WorkerOnly(q) /\ Grows
  <2>1. WorkerOnly(q)
    BY <1>1 DEF WorkerOnly, Others, Threads
  <2>2. QED
    BY <2>1, GrowsIfSame DEF WorkerOnly
<1>8. EventInv'
  <2>1. ASSUME NEW x \in AllEvents PROVE ReadyOK(x)'
    <3>1. ReadyOK(x)
      BY DEF IInv, EventInv
    <3>2. CASE m_LastReadyEnqueueCount'[x] = m_LastReadyEnqueueCount[x]
      BY <3>1, <3>2 DEF ReadyOK
    <3>3. CASE x = e /\ n = m_enqueueCount[e] /\ m_LastReadyEnqueueCount'[x] = n
      <4>1. m_LastReadyEnqueueCount'[e] = n /\ m_enqueueCount'[e] = n /\ n <= n
        BY <1>4, <3>3
      <4>2. before'[<<e, m_LastReadyEnqueueCount'[e]>>] \subseteq done'
        BY <1>3, <4>1
      <4>3. QED
        BY <3>1, <3>3, <4>1, <4>2 DEF ReadyOK
    <3>4. QED
      BY <1>5, <3>2, <3>3
  <2>2. QED
    BY <2>1 DEF IInv, EventInv, ChainOK, Chained, Orderly, Made
<1>9. Types'
  BY <1>5, <1>6 DEF IInv, Types
<1>10. PoolOK(q)'
  BY <1>7, PoolStays
<1>11. WorkerOK(q)'
  BY <1>6, <1>7, WorkerStays
<1>12. QED
  BY <1>7, <1>8, <1>9, <1>10, <1>11, WorkerMoves

-----------------------------------------------------------------------------
(* Events are enqueued                                                     *)

\* Nothing but host h moves, and it neither begins nor ends a task.
Moves(h) == Others(h) /\ pc[h] # "task" /\ pc'[h] # "task"

\* Workers and tasks in progress when only h moves.
LEMMA NoneMoves ==
  ASSUME NEW h \in Hosts, Moves(h)
  PROVE  /\ \A q \in NonBlocking : pc'[q] = pc[q] /\ target'[q] = target[q]
         /\ \A i \in Hosts : /\ pc[i] = "task" => pc'[i] = "task" /\ target'[i] = target[i]
                             /\ pc'[i] = "task" => pc[i] = "task"
  BY SetsAssumption DEF Moves, Others, Threads, Queues

\* What an enqueue of event e to queue q establishes.
Enqueued(q, e) ==
  /\ m_enqueueCount'[e] # 0 /\ before'[<<e, m_enqueueCount'[e]>>] = submitted[q]
  /\ \A x \in AllEvents : m_enqueueCount[x] <= m_enqueueCount'[x]
  /\ \A x \in AllEvents \ {e} : m_enqueueCount'[x] = m_enqueueCount[x]
  /\ m_enqueueCount' \in [AllEvents -> Nat] /\ before' \in [AllEvents \X Counts -> SUBSET Tasks]
  /\ m_LastReadyEnqueueCount' \in [AllEvents -> Nat] /\ fifo' \in [NonBlocking -> Seq(Items)]

\* An event is put into a pool, behind the tasks it covers.
LEMMA EventInPool ==
  ASSUME IInv, NEW h \in Hosts, Moves(h), NEW q \in NonBlocking, NEW e \in AllEvents, Fits(e, q),
         EnqueueEventInto(q, e), UNCHANGED <<submitted, fence, follows, done, released>>
  PROVE  Grows /\ Data' /\ Enqueued(q, e)
<1>1. /\ q \in Queues /\ m_enqueueCount \in [AllEvents -> Nat] /\ fifo \in [NonBlocking -> Seq(Items)]
      /\ before \in [AllEvents \X Counts -> SUBSET Tasks] /\ submitted[q] \subseteq Tasks
      /\ m_LastReadyEnqueueCount \in [AllEvents -> Nat] /\ Counts \subseteq Nat \ {0}
  BY SetsAssumption DEF IInv, Types, Queues, Counts
<1>2. PICK n : n = m_enqueueCount[e] + 1
  OBVIOUS
<1>3. /\ n \in Counts /\ m_enqueueCount' = [m_enqueueCount EXCEPT ![e] = n]
      /\ fifo' = [fifo EXCEPT ![q] = Append(@, Item("event", e, n))]
      /\ before' = [before EXCEPT ![<<e, n>>] = OnQueue(q)]
      /\ UNCHANGED <<cur, m_mutex, m_LastReadyEnqueueCount>>
  BY <1>2 DEF EnqueueEventInto
<1>4. /\ Grows /\ EventInv' /\ Made(e, n)' /\ before'[<<e, n>>] = submitted[q]
      /\ \A x \in AllEvents : m_enqueueCount[x] <= m_enqueueCount'[x]
      /\ \A x \in AllEvents \ {e} : m_enqueueCount'[x] = m_enqueueCount[x]
      /\ m_enqueueCount' \in [AllEvents -> Nat]
  BY <1>1, <1>2, <1>3, NewEnqueue
<1>5. PICK it \in Items : it = Item("event", e, n)
  <2>1. Item("event", e, n) \in Items
    BY <1>1, <1>3 DEF Item, Items
  <2>2. QED
    BY <2>1
<1>6. it.kind = "event" /\ it.what = e /\ it.count = n
  BY <1>5 DEF Item
<1>7. fifo' = [fifo EXCEPT ![q] = Append(fifo[q], it)] /\ fifo[q] \in Seq(Items)
  BY <1>1, <1>3, <1>5
<1>8. /\ fifo'[q] = Append(fifo[q], it) /\ \A p \in NonBlocking \ {q} : fifo'[p] = fifo[p]
      /\ fifo' \in [NonBlocking -> Seq(Items)]
  BY <1>1, <1>7
<1>9. PoolInv'
  <2>1. ItemOK(q, it)' /\ Needs(it)' = submitted[q]
    BY <1>4, <1>6 DEF ItemOK, Needs
  <2>2. \A u \in submitted[q] : Settled(q, Len(fifo[q]), u)
    BY DEF IInv, PoolInv, PoolOK
  <2>3. PoolOK(q)'
    BY <1>3, <1>4, <1>8, <2>1, <2>2, PoolAppend
  <2>4. \A p \in NonBlocking \ {q} : PoolOK(p)'
    BY <1>3, <1>4, <1>8, PoolStays
  <2>5. QED
    BY <2>3, <2>4 DEF PoolInv
<1>10. WorkerInv' /\ BlockingInv'
  BY <1>3, <1>4, NoneMoves, WorkersStay, BlockingStays
<1>11. m_enqueueCount'[e] = n /\ n # 0
  BY <1>1, <1>3
<1>12. before' \in [AllEvents \X Counts -> SUBSET Tasks]
  BY <1>1, <1>3 DEF OnQueue
<1>13. Enqueued(q, e)
  BY <1>1, <1>3, <1>4, <1>8, <1>11, <1>12 DEF Enqueued
<1>14. QED
  BY <1>4, <1>9, <1>10, <1>13 DEF Data

\* An event is marked at once in a blocking queue, which has no task in progress.
LEMMA EventMarked ==
  ASSUME IInv, NEW h \in Hosts, Moves(h), NEW q \in Blocking, NEW e \in AllEvents, Fits(e, q),
         MarkEventIn(q, e), UNCHANGED <<submitted, fence, follows, done, released>>
  PROVE  Grows /\ Data' /\ Enqueued(q, e)
<1>1. /\ q \in Queues /\ m_enqueueCount \in [AllEvents -> Nat] /\ fifo \in [NonBlocking -> Seq(Items)]
      /\ before \in [AllEvents \X Counts -> SUBSET Tasks] /\ submitted[q] \subseteq Tasks
      /\ m_LastReadyEnqueueCount \in [AllEvents -> Nat] /\ Counts \subseteq Nat \ {0}
  BY SetsAssumption DEF IInv, Types, Queues, Counts
<1>2. PICK n : n = m_enqueueCount[e] + 1
  OBVIOUS
<1>3. /\ n \in Counts /\ m_enqueueCount' = [m_enqueueCount EXCEPT ![e] = n]
      /\ m_LastReadyEnqueueCount' = [m_LastReadyEnqueueCount EXCEPT ![e] = n]
      /\ before' = [before EXCEPT ![<<e, n>>] = OnQueue(q)]
      /\ UNCHANGED <<fifo, cur, m_mutex>> /\ m_mutex[q] = None
  BY <1>2 DEF MarkEventIn, queueVars
<1>4. submitted[q] \subseteq done
  BY <1>3 DEF IInv, BlockingInv, BlockingOK
<1>5. /\ Grows /\ EventInv' /\ Made(e, n)' /\ before'[<<e, n>>] = submitted[q]
      /\ \A x \in AllEvents : m_enqueueCount[x] <= m_enqueueCount'[x]
      /\ \A x \in AllEvents \ {e} : m_enqueueCount'[x] = m_enqueueCount[x]
      /\ m_enqueueCount' \in [AllEvents -> Nat]
  BY <1>1, <1>2, <1>3, <1>4, NewEnqueue
<1>6. PoolInv' /\ WorkerInv' /\ BlockingInv'
  BY <1>3, <1>5, NoneMoves, PoolsStay, WorkersStay, BlockingStays
<1>7. m_enqueueCount'[e] = n /\ n # 0
  BY <1>1, <1>3
<1>8. before' \in [AllEvents \X Counts -> SUBSET Tasks] /\ m_LastReadyEnqueueCount' \in [AllEvents -> Nat]
  BY <1>1, <1>3 DEF OnQueue
<1>9. Enqueued(q, e)
  BY <1>1, <1>3, <1>5, <1>7, <1>8 DEF Enqueued
<1>10. QED
  BY <1>5, <1>6, <1>9 DEF Data

\* The other hosts, when h has enqueued one of its own events or a shared one.
LEMMA OthersAfterEnqueue ==
  ASSUME IInv, NEW h \in Hosts, Moves(h), NEW q \in Queues, NEW e, Enqueued(q, e), Grows,
         e \in Events \/ e \in {h} \X Queues
  PROVE  \A i \in Hosts \ {h} : HostOK(i)'
<1>1. \A i \in Hosts \ {h} : \A p \in Queues : <<i, p>> \in AllEvents \ {e}
  BY SetsAssumption DEF LocalEvents, AllEvents
<1>2. h \in Threads
  BY DEF Threads
<1>3. QED
  BY <1>1, <1>2, OtherHosts DEF Moves, Enqueued

\* enqueue(queue, event), non-blocking.
LEMMA EnqueueEventNonBlockingStep ==
  ASSUME IInv, NEW h \in Hosts, NEW q \in NonBlocking, NEW e \in Events, EnqueueEventNonBlocking(h, q, e)
  PROVE  IInv'
<1> USE DEF EnqueueEventNonBlocking, Call, regVars, ctrlVars
<1>1. Moves(h) /\ Fits(e, q) /\ e \in AllEvents /\ q \in Queues
  BY DEF Moves, Others, Fits, AllEvents, Queues
<1>2. Grows /\ Data' /\ Enqueued(q, e)
  BY <1>1, EventInPool
<1>3. \A p \in Queues : m_enqueueCount'[<<h, p>>] = m_enqueueCount[<<h, p>>]
  <2>1. \A p \in Queues : <<h, p>> \in AllEvents \ {e}
    BY SetsAssumption DEF LocalEvents, AllEvents
  <2>2. QED
    BY <1>2, <2>1 DEF Enqueued
<1>4. HostOK(h)'
  BY <1>2, <1>3, HostStays DEF Enqueued
<1>5. HostInv'
  BY <1>1, <1>2, <1>4, OthersAfterEnqueue DEF HostInv
<1>6. RegisteredInv'
  BY RegisteredStays
<1>7. cur' = cur /\ m_mutex' = m_mutex
  BY DEF EnqueueEventInto
<1>8. Types'
  BY <1>2, <1>7 DEF IInv, Types, Enqueued
<1>9. QED
  BY <1>2, <1>5, <1>6, <1>8 DEF IInv, Data

\* enqueue(queue, event), blocking.
LEMMA EnqueueEventBlockingStep ==
  ASSUME IInv, NEW h \in Hosts, NEW q \in Blocking, NEW e \in Events, EnqueueEventBlocking(h, q, e)
  PROVE  IInv'
<1> USE DEF EnqueueEventBlocking, Call, Goto, regVars
<1>1. /\ h \in Threads /\ pc \in [Threads -> HostLabels \cup WorkerLabels]
      /\ target \in [Threads -> (Tasks \cup AllEvents \cup {None}) \X Nat]
      /\ e \in AllEvents /\ q \in Queues /\ HostOK(h)
  BY DEF Threads, IInv, Types, AllEvents, Queues, HostInv
<1>2. Moves(h) /\ Fits(e, q)
  BY <1>1 DEF Moves, Others, Fits, Threads
<1>3. Grows /\ Data' /\ Enqueued(q, e)
  BY <1>1, <1>2, EventMarked
<1>4. /\ pc'[h] = "promise" /\ pc' \in [Threads -> HostLabels \cup WorkerLabels]
      /\ m_enqueueCount'[e] \in Nat
  BY <1>1, <1>3 DEF HostLabels, Enqueued
<1>5. HostOK(h)'
  <2>1. Due(h) \subseteq done /\ waits[h] = <<>> /\ Len(waits[h]) = 0 /\ cont[h] = "return"
    BY <1>1, NothingDue DEF HostOK
  <2>2. waits'[h] = <<>> /\ cont'[h] = "return" /\ Due(h)' \subseteq done' /\ Len(waits'[h]) = 0
    BY <2>1 DEF Due
  <2>3. QED
    BY <1>4, <2>2 DEF HostOK, HostLabels
<1>6. HostInv'
  BY <1>1, <1>2, <1>3, <1>5, OthersAfterEnqueue DEF HostInv
<1>7. target' \in [Threads -> (Tasks \cup AllEvents \cup {None}) \X Nat]
  BY <1>1, <1>4, TargetTyped
<1>8. cur' = cur /\ m_mutex' = m_mutex
  BY DEF MarkEventIn, queueVars
<1>9. Types'
  BY <1>3, <1>4, <1>7, <1>8 DEF IInv, Types, Enqueued
<1>10. RegisteredInv'
  BY RegisteredStays
<1>11. QED
  BY <1>3, <1>6, <1>9, <1>10 DEF IInv, Data

\* wait(queue), non-blocking: the host waits for the tasks before its event.
LEMMA WaitQueueNonBlockingStep ==
  ASSUME IInv, NEW h \in Hosts, NEW q \in NonBlocking, WaitQueueNonBlocking(h, q)
  PROVE  IInv'
<1> USE DEF WaitQueueNonBlocking, Call, Goto, regVars
<1>1. PICK e : e = <<h, q>>
  OBVIOUS
<1>2. /\ h \in Threads /\ pc \in [Threads -> HostLabels \cup WorkerLabels]
      /\ target \in [Threads -> (Tasks \cup AllEvents \cup {None}) \X Nat]
      /\ e \in LocalEvents /\ e \in AllEvents /\ q \in Queues /\ e \in {h} \X Queues /\ HostOK(h)
      /\ due \in [Hosts -> SUBSET Tasks] /\ submitted[q] \subseteq Tasks
  BY <1>1 DEF Threads, IInv, Types, LocalEvents, AllEvents, Queues, HostInv
<1>3. Moves(h) /\ Fits(e, q)
  BY <1>1, <1>2 DEF Moves, Others, Fits, Threads
<1>4. Grows /\ Data' /\ Enqueued(q, e)
  BY <1>1, <1>2, <1>3, EventInPool
<1>5. PICK n : n = m_enqueueCount'[e]
  OBVIOUS
<1>6. n \in Nat /\ n # 0 /\ before'[<<e, n>>] = submitted[q]
  BY <1>2, <1>4, <1>5 DEF Enqueued
<1>7. target' = [target EXCEPT ![h] = <<e, n>>]
  BY <1>1, <1>5
<1>8. /\ pc'[h] = "check" /\ pc' \in [Threads -> HostLabels \cup WorkerLabels]
      /\ target'[h] = <<e, n>> /\ due'[h] = submitted[q] /\ due' \in [Hosts -> SUBSET Tasks]
  BY <1>2, <1>7 DEF HostLabels, OnQueue
<1>9. HostOK(h)'
  <2>1. waits[h] = <<>> /\ Len(waits[h]) = 0 /\ cont[h] = "return"
    BY <1>2, NothingDue DEF HostOK
  <2>2. waits'[h] = <<>> /\ cont'[h] = "return" /\ Len(waits'[h]) = 0
    BY <2>1
  <2>3. target'[h][1] = e /\ target'[h][2] = n /\ n <= m_enqueueCount'[e] /\ before'[target'[h]] = submitted[q]
    BY <1>5, <1>6, <1>8
  <2>4. QED
    BY <1>2, <1>6, <1>8, <2>2, <2>3 DEF HostOK, HostLabels, Due
<1>10. HostInv'
  BY <1>2, <1>3, <1>4, <1>9, OthersAfterEnqueue DEF HostInv
<1>11. target' \in [Threads -> (Tasks \cup AllEvents \cup {None}) \X Nat]
  BY <1>2, <1>6, <1>7, TargetTyped
<1>12. cur' = cur /\ m_mutex' = m_mutex
  BY DEF EnqueueEventInto
<1>13. Types'
  BY <1>4, <1>8, <1>11, <1>12 DEF IInv, Types, Enqueued
<1>14. RegisteredInv'
  BY RegisteredStays
<1>15. QED
  BY <1>4, <1>10, <1>13, <1>14 DEF IInv, Data

\* wait(dev) has enqueued its event to the first queue of its list.
LEMMA DevEnqueued ==
  ASSUME IInv, NEW h \in Hosts, NEW q \in Queues, NEW e, e = <<h, q>>, Grows, Enqueued(q, e),
         pc[h] = "devEnqueue", pc'[h] \in {"devEnqueue", "devPromise"},
         todo[h] # <<>>, q = Head(todo[h]),
         waits' = [waits EXCEPT ![h] = Append(@, e)], todo' = [todo EXCEPT ![h] = Tail(@)],
         UNCHANGED <<cont, due, submitted, done>>
  PROVE  /\ HostOK(h)' /\ waits' \in [Hosts -> Seq(LocalEvents)] /\ todo' \in [Hosts -> Seq(Queues)]
<1>1. /\ HostOK(h) /\ waits \in [Hosts -> Seq(LocalEvents)] /\ todo \in [Hosts -> Seq(Queues)]
      /\ waits[h] \in Seq(LocalEvents) /\ todo[h] \in Seq(Queues) /\ e \in LocalEvents /\ e \in AllEvents
      /\ m_enqueueCount \in [AllEvents -> Nat]
  BY DEF IInv, Types, HostInv, LocalEvents, AllEvents
<1>2. PICK w \in Seq(LocalEvents) : w = Append(waits[h], e)
  <2>1. Append(waits[h], e) \in Seq(LocalEvents)
    BY <1>1, AppendProperties
  <2>2. QED
    BY <2>1
<1>3. PICK s \in Seq(Queues) : s = Tail(todo[h])
  <2>1. Tail(todo[h]) \in Seq(Queues)
    BY <1>1, HeadTailProperties
  <2>2. QED
    BY <2>1
<1>4. /\ Len(waits[h]) \in Nat /\ Len(w) = Len(waits[h]) + 1 /\ w[Len(waits[h]) + 1] = e
      /\ \A i \in 1..Len(waits[h]) : w[i] = waits[h][i]
  BY <1>1, <1>2
<1>5. /\ Len(todo[h]) \in Nat /\ Len(s) = Len(todo[h]) - 1 /\ q = todo[h][1]
      /\ \A i \in 1..Len(s) : s[i] = todo[h][i + 1]
  BY <1>1, <1>3
<1>6. waits' = [waits EXCEPT ![h] = w] /\ todo' = [todo EXCEPT ![h] = s]
  BY <1>2, <1>3
<1>7. /\ waits'[h] = w /\ todo'[h] = s /\ cont'[h] = "return" /\ due'[h] = due[h]
      /\ waits' \in [Hosts -> Seq(LocalEvents)] /\ todo' \in [Hosts -> Seq(Queues)]
  <2>1. cont[h] = "return"
    BY <1>1 DEF HostOK
  <2>2. QED
    BY <1>1, <1>6, <2>1
<1>8. \A i \in 1..Len(w) : w[i] \in {h} \X Queues
  <2>1. \A i \in 1..Len(w) : i \in 1..Len(waits[h]) \/ i = Len(waits[h]) + 1
    BY <1>4
  <2>2. QED
    <3>1. \A i \in 1..Len(waits[h]) : waits[h][i] \in {h} \X Queues
      BY <1>1 DEF HostOK
    <3>2. e \in {h} \X Queues
      OBVIOUS
    <3>3. QED
      BY <1>4, <2>1, <3>1, <3>2
<1>9. \A u \in submitted[q] : \E i \in 1..Len(waits'[h]) : u \in Covers(waits[h][i])'
  <2>1. PICK n : n = Len(waits[h]) + 1 /\ n \in 1..Len(waits'[h]) /\ e = waits'[h][n]
    BY <1>4, <1>7
  <2>2. \A u \in submitted[q] : u \in Covers(waits[h][n])'
    BY <2>1 DEF Covers, Enqueued
  <2>3. QED
    BY <2>1, <2>2
<1>10. ASSUME NEW i \in 1..Len(waits[h]), NEW u \in Covers(waits[h][i])
       PROVE  \E j \in 1..Len(waits'[h]) : u \in Covers(waits[h][j])'
  <2>1. PICK x \in AllEvents : x = waits[h][i] /\ x = waits'[h][i] /\ x \in LocalEvents
    <3>1. waits[h][i] \in LocalEvents
      BY <1>1
    <3>2. waits'[h][i] = waits[h][i]
      BY <1>4, <1>7
    <3>3. QED
      BY <3>1, <3>2 DEF AllEvents
  <2>2. i \in 1..Len(waits'[h])
    BY <1>4, <1>7
  <2>3. CASE x = e
    <3>1. m_enqueueCount[e] # 0 /\ m_enqueueCount[e] \in Nat
      BY <1>1, <1>10, <2>1, <2>3 DEF Covers
    <3>2. Made(e, m_enqueueCount[e])
      BY <1>1, <3>1, MadeIfCounted
    <3>3. before[<<e, m_enqueueCount[e]>>] \subseteq submitted[q]
      BY <1>1, <3>2 DEF IInv, EventInv, Made
    <3>4. u \in submitted[q]
      BY <1>10, <2>1, <2>3, <3>1, <3>3 DEF Covers
    <3>5. QED
      BY <1>9, <3>4
  <2>4. CASE x # e
    <3>1. m_enqueueCount'[x] = m_enqueueCount[x]
      BY <2>1, <2>4 DEF Enqueued
    <3>2. Covers(x)' = Covers(x)
      BY <2>1, <3>1, CoversGrows
    <3>3. u \in Covers(waits[h][i])'
      BY <1>10, <2>1, <3>2 DEF Covers
    <3>4. QED
      BY <2>2, <3>3
  <2>5. QED
    BY <2>3, <2>4
<1>11. ASSUME NEW u \in Due(h)'
       PROVE  \/ u \in done'
              \/ \E i \in 1..Len(todo'[h]) : u \in submitted'[todo'[h][i]]
              \/ \E i \in 1..Len(waits'[h]) : u \in Covers(waits[h][i])'
  <2>1. CASE u \in done
    BY <2>1
  <2>2. CASE \E i \in 1..Len(todo[h]) : u \in submitted[todo[h][i]]
    <3>1. PICK i \in 1..Len(todo[h]) : u \in submitted[todo[h][i]]
      BY <2>2
    <3>2. CASE i = 1
      BY <1>5, <1>9, <3>1, <3>2
    <3>3. CASE i # 1
      <4>1. i - 1 \in 1..Len(s) /\ s[i - 1] = todo[h][i]
        <5>1. i - 1 \in 1..Len(s) /\ (i - 1) + 1 = i
          BY <1>5, <3>3
        <5>2. s[i - 1] = todo[h][(i - 1) + 1]
          BY <1>5, <5>1
        <5>3. QED
          BY <5>1, <5>2
      <4>2. QED
        BY <1>7, <3>1, <4>1
    <3>4. QED
      BY <3>2, <3>3
  <2>3. CASE \E i \in 1..Len(waits[h]) : u \in Covers(waits[h][i])
    BY <1>10, <2>3
  <2>4. QED
    BY <1>1, <1>7, <2>1, <2>2, <2>3 DEF HostOK, Due
<1>12. HostOK(h)'
  BY <1>7, <1>8, <1>11 DEF HostOK, HostLabels
<1>13. QED
  BY <1>7, <1>12

\* wait(dev) at a non-blocking queue.
LEMMA DevEnqueueNonBlockingStep ==
  ASSUME IInv, NEW h \in Hosts, DevEnqueueNonBlocking(h) PROVE IInv'
<1> USE DEF DevEnqueueNonBlocking, regVars
<1>1. PICK q \in NonBlocking : q = Head(todo[h])
  OBVIOUS
<1>2. PICK e : e = <<h, q>>
  OBVIOUS
<1>3. /\ h \in Threads /\ e \in LocalEvents /\ e \in AllEvents /\ q \in Queues /\ e \in {h} \X Queues
      /\ waits \in [Hosts -> Seq(LocalEvents)] /\ todo \in [Hosts -> Seq(Queues)]
  BY <1>2 DEF Threads, LocalEvents, AllEvents, Queues, IInv, Types
<1>4. EnqueueEventInto(q, e) /\ waits' = [waits EXCEPT ![h] = Append(@, e)]
  BY <1>1, <1>2
<1>5. Moves(h) /\ Fits(e, q)
  BY <1>2, <1>3 DEF Moves, Others, Fits, Threads
<1>6. Grows /\ Data' /\ Enqueued(q, e)
  BY <1>3, <1>4, <1>5, EventInPool
<1>7. /\ HostOK(h)' /\ waits' \in [Hosts -> Seq(LocalEvents)] /\ todo' \in [Hosts -> Seq(Queues)]
  BY <1>1, <1>2, <1>3, <1>4, <1>6, DevEnqueued
<1>8. HostInv'
  BY <1>3, <1>5, <1>6, <1>7, OthersAfterEnqueue DEF HostInv
<1>9. cur' = cur /\ m_mutex' = m_mutex
  BY <1>4 DEF EnqueueEventInto
<1>10. Types'
  BY <1>6, <1>7, <1>9 DEF IInv, Types, Enqueued
<1>11. RegisteredInv'
  BY RegisteredStays
<1>12. QED
  BY <1>6, <1>8, <1>10, <1>11 DEF IInv, Data

\* wait(dev) at a blocking queue.
LEMMA DevEnqueueBlockingStep ==
  ASSUME IInv, NEW h \in Hosts, DevEnqueueBlocking(h) PROVE IInv'
<1> USE DEF DevEnqueueBlocking, Goto, regVars
<1>1. PICK q \in Blocking : q = Head(todo[h])
  OBVIOUS
<1>2. PICK e : e = <<h, q>>
  OBVIOUS
<1>3. /\ h \in Threads /\ e \in LocalEvents /\ e \in AllEvents /\ q \in Queues /\ e \in {h} \X Queues
      /\ waits \in [Hosts -> Seq(LocalEvents)] /\ todo \in [Hosts -> Seq(Queues)]
      /\ pc \in [Threads -> HostLabels \cup WorkerLabels]
      /\ target \in [Threads -> (Tasks \cup AllEvents \cup {None}) \X Nat]
  BY <1>2 DEF Threads, LocalEvents, AllEvents, Queues, IInv, Types
<1>4. MarkEventIn(q, e) /\ waits' = [waits EXCEPT ![h] = Append(@, e)]
  BY <1>1, <1>2
<1>5. Moves(h) /\ Fits(e, q)
  BY <1>2, <1>3 DEF Moves, Others, Fits, Threads
<1>6. Grows /\ Data' /\ Enqueued(q, e)
  BY <1>3, <1>4, <1>5, EventMarked
<1>7. pc'[h] = "devPromise" /\ pc' \in [Threads -> HostLabels \cup WorkerLabels]
  BY <1>3 DEF HostLabels
<1>8. /\ HostOK(h)' /\ waits' \in [Hosts -> Seq(LocalEvents)] /\ todo' \in [Hosts -> Seq(Queues)]
  BY <1>1, <1>2, <1>3, <1>4, <1>6, <1>7, DevEnqueued
<1>9. HostInv'
  BY <1>3, <1>5, <1>6, <1>8, OthersAfterEnqueue DEF HostInv
<1>10. target' \in [Threads -> (Tasks \cup AllEvents \cup {None}) \X Nat]
  <2>1. PICK n : n = m_enqueueCount'[e]
    OBVIOUS
  <2>2. n \in Nat /\ target' = [target EXCEPT ![h] = <<e, n>>]
    BY <1>1, <1>2, <1>3, <1>6, <2>1 DEF Enqueued
  <2> HIDE DEF DevEnqueueBlocking
  <2>3. QED
    BY <1>3, <2>2, TargetTyped
<1>11. cur' = cur /\ m_mutex' = m_mutex
  BY <1>4 DEF MarkEventIn, queueVars
<1>12. Types'
  BY <1>6, <1>7, <1>8, <1>10, <1>11 DEF IInv, Types, Enqueued
<1>13. RegisteredInv'
  BY RegisteredStays
<1>14. QED
  BY <1>6, <1>9, <1>12, <1>13 DEF IInv, Data

-----------------------------------------------------------------------------
(* Waiting tasks, and tasks                                                *)

\* A waiting task is put into a pool unless the event is ready.
LEMMA WaiterAdded ==
  ASSUME IInv, NEW h \in Hosts, Moves(h), NEW q \in NonBlocking, NEW e \in Events, AddWaiter(q, e),
         UNCHANGED <<submitted, before, follows, done, released>>
  PROVE  /\ Grows /\ Data' /\ fifo' \in [NonBlocking -> Seq(Items)] /\ fence' \in [Queues -> SUBSET Tasks]
<1>1. /\ q \in Queues /\ m_enqueueCount \in [AllEvents -> Nat] /\ fifo \in [NonBlocking -> Seq(Items)]
      /\ before \in [AllEvents \X Counts -> SUBSET Tasks] /\ fence \in [Queues -> SUBSET Tasks]
      /\ m_LastReadyEnqueueCount \in [AllEvents -> Nat] /\ e \in AllEvents /\ fifo[q] \in Seq(Items)
      /\ ReadyOK(e)
  BY DEF IInv, Types, Queues, AllEvents, EventInv
<1>2. PICK c \in Nat : c = m_enqueueCount[e]
  BY <1>1
<1>3. /\ fence' = [fence EXCEPT ![q] = @ \cup Covers(e)]
      /\ fifo' = IF isReady(e) THEN fifo ELSE [fifo EXCEPT ![q] = Append(@, Item("wait", e, c))]
      /\ UNCHANGED <<cur, m_mutex, m_enqueueCount, m_LastReadyEnqueueCount>>
  BY <1>2 DEF AddWaiter, eventVars
<1>4. Grows
  BY <1>3, GrowsIfSame
<1>5. c # 0 => Made(e, c) /\ Made(e, c)' /\ Covers(e) = before[<<e, c>>]
  BY <1>1, <1>2, <1>4, MadeIfCounted DEF Covers, Grows
<1>6. Covers(e) \subseteq Tasks /\ (c = 0 => Covers(e) = {})
  <2>1. c = 0 => Covers(e) = {}
    BY <1>2 DEF Covers
  <2>2. c # 0 => before[<<e, c>>] \subseteq Tasks
    BY <1>1, <1>5 DEF Made
  <2>3. QED
    BY <1>5, <2>1, <2>2
<1>7. /\ fence' \in [Queues -> SUBSET Tasks] /\ fence'[q] = fence[q] \cup Covers(e)
      /\ \A p \in Queues \ {q} : fence'[p] = fence[p]
  BY <1>1, <1>3, <1>6
<1>8. \A p \in NonBlocking \ {q} : fifo'[p] = fifo[p] /\ p \in Queues
  BY <1>1, <1>3 DEF Queues
<1>9. \A p \in NonBlocking \ {q} : PoolOK(p)'
  BY <1>3, <1>4, <1>7, <1>8, PoolStays
<1>10. PoolOK(q)' /\ fifo' \in [NonBlocking -> Seq(Items)]
  <2>1. CASE isReady(e)
    <3>1. Covers(e) \subseteq done
      BY <1>1, <1>2, <1>5, <1>6, <2>1 DEF isReady, ReadyOK
    <3>2. fifo' = fifo /\ fence'[q] \subseteq fence[q] \cup done'
      BY <1>3, <1>7, <2>1, <3>1
    <3>3. QED
      BY <1>1, <1>3, <1>4, <3>2, PoolStays
  <2>2. CASE ~isReady(e)
    <3>1. c # 0
      BY <1>1, <1>2, <2>2 DEF isReady, ReadyOK
    <3>2. PICK it \in Items : it = Item("wait", e, c)
      <4>1. Item("wait", e, c) \in Items
        BY <1>1 DEF Item, Items
      <4>2. QED
        BY <4>1
    <3>3. it.kind = "wait" /\ it.what = e /\ it.count = c
      BY <3>2 DEF Item
    <3>4. /\ fifo' = [fifo EXCEPT ![q] = Append(fifo[q], it)] /\ Append(fifo[q], it) \in Seq(Items)
      BY <1>1, <1>3, <2>2, <3>2
    <3>5. fifo'[q] = Append(fifo[q], it) /\ fifo' \in [NonBlocking -> Seq(Items)]
      BY <1>1, <3>4
    <3>6. ItemOK(q, it)' /\ Needs(it)' = {} /\ (Orderly => Gives(it)' = Covers(e))
      BY <1>5, <3>1, <3>3 DEF ItemOK, Needs, Gives, Orderly
    <3>7. /\ \A u \in Needs(it)' : Settled(q, Len(fifo[q]), u)
          /\ submitted'[q] \subseteq submitted[q] \cup Gives(it)'
          /\ Orderly => fence'[q] \subseteq fence[q] \cup done \cup Gives(it)'
      BY <1>7, <3>6
    <3>8. PoolOK(q)'
      BY <1>3, <1>4, <3>5, <3>6, <3>7, PoolAppend
    <3>9. QED
      BY <3>5, <3>8
  <2>3. QED
    BY <2>1, <2>2
<1>11. WorkerInv' /\ EventInv'
  BY <1>3, <1>4, NoneMoves, WorkersStay, EventsStay
<1>12. BlockingInv'
  <2>1. \A p \in Blocking : fence'[p] = fence[p]
    BY <1>7, SetsAssumption DEF Queues
  <2>2. QED
    BY <1>3, <1>4, <2>1, NoneMoves, BlockingStays
<1>13. QED
  BY <1>4, <1>7, <1>9, <1>10, <1>11, <1>12 DEF Data, PoolInv

\* wait(queue, event), and wait(dev, event) at a non-blocking queue.
LEMMA QueueWaitNonBlockingStep ==
  ASSUME IInv, NEW h \in Hosts, NEW q \in NonBlocking, NEW e \in Events, QueueWaitNonBlocking(h, q, e)
  PROVE  IInv'
<1> USE DEF QueueWaitNonBlocking, Call, regVars, ctrlVars
<1>1. Moves(h)
  BY DEF Moves, Others
<1>2. Grows /\ Data' /\ fifo' \in [NonBlocking -> Seq(Items)] /\ fence' \in [Queues -> SUBSET Tasks]
  BY <1>1, WaiterAdded
<1>3. UNCHANGED <<cur, m_mutex, m_enqueueCount, m_LastReadyEnqueueCount>>
  BY DEF AddWaiter, eventVars
<1>4. m_enqueueCount \in [AllEvents -> Nat] /\ \A x \in AllEvents : m_enqueueCount[x] <= m_enqueueCount'[x]
  BY <1>3 DEF IInv, Types
<1>5. HostInv'
  BY <1>2, <1>3, <1>4, HostStays DEF HostInv
<1>6. Types'
  BY <1>2, <1>3 DEF IInv, Types
<1>7. RegisteredInv'
  BY RegisteredStays
<1>8. QED
  BY <1>2, <1>5, <1>6, <1>7 DEF IInv, Data

\* wait(dev, event) at a non-blocking queue.
LEMMA DevWaitNonBlockingStep ==
  ASSUME IInv, NEW h \in Hosts, DevWaitNonBlocking(h) PROVE IInv'
<1> USE DEF DevWaitNonBlocking, regVars
<1>1. HostOK(h) /\ todo \in [Hosts -> Seq(Queues)] /\ todo[h] \in Seq(Queues)
  BY DEF IInv, HostInv, Types
<1>2. PICK q \in NonBlocking, e \in Events : q = Head(todo[h]) /\ e = target[h][1]
  BY <1>1 DEF HostOK
<1>3. AddWaiter(q, e)
  BY <1>2
<1>4. Moves(h) /\ \A i \in Hosts \ {h} : todo'[i] = todo[i]
  BY <1>1 DEF Moves, Others
<1>5. Grows /\ Data' /\ fifo' \in [NonBlocking -> Seq(Items)] /\ fence' \in [Queues -> SUBSET Tasks]
  BY <1>3, <1>4, WaiterAdded
<1>6. UNCHANGED <<cur, m_mutex, m_enqueueCount, m_LastReadyEnqueueCount>>
  BY <1>3 DEF AddWaiter, eventVars
<1>7. m_enqueueCount \in [AllEvents -> Nat] /\ \A x \in AllEvents : m_enqueueCount[x] <= m_enqueueCount'[x]
  BY <1>6 DEF IInv, Types
<1>8. todo' \in [Hosts -> Seq(Queues)]
  <2>1. Tail(todo[h]) \in Seq(Queues)
    BY <1>1, HeadTailProperties
  <2>2. QED
    BY <1>1, <2>1
<1>9. HostOK(h)'
  <2>1. Due(h) \subseteq done /\ waits[h] = <<>> /\ Len(waits[h]) = 0
    BY NothingDue
  <2>2. pc'[h] = "devWait" /\ cont'[h] = "devWait" /\ target'[h][1] \in Events
    BY <1>1 DEF HostOK
  <2>3. Due(h)' \subseteq done' /\ waits'[h] = <<>> /\ Len(waits'[h]) = 0
    BY <2>1 DEF Due
  <2>4. QED
    BY <2>2, <2>3 DEF HostOK, HostLabels
<1>10. HostInv'
  <2>1. h \in Threads /\ Others(h)
    BY <1>4 DEF Threads, Moves
  <2>2. \A i \in Hosts \ {h} : HostOK(i)'
    BY <1>5, <1>6, <1>7, <2>1, OtherHosts
  <2>3. QED
    BY <1>9, <2>2 DEF HostInv
<1>11. Types'
  BY <1>5, <1>6, <1>8 DEF IInv, Types
<1>12. RegisteredInv'
  BY RegisteredStays
<1>13. QED
  BY <1>5, <1>10, <1>11, <1>12 DEF IInv, Data

\* A new task is submitted to one queue and follows what that queue had.
LEMMA Submitted ==
  ASSUME IInv, NEW q \in Queues, NEW t \in Tasks, t \notin Everything, Submit(q, t),
         UNCHANGED <<done, m_enqueueCount>>
  PROVE  /\ Grows /\ submitted' \in [Queues -> SUBSET Tasks] /\ follows' \in [Tasks -> SUBSET Tasks]
         /\ submitted'[q] = submitted[q] \cup {t} /\ \A p \in Queues \ {q} : submitted'[p] = submitted[p]
         /\ follows'[t] = fence[q] \cup submitted[q]
<1>1. /\ submitted \in [Queues -> SUBSET Tasks] /\ follows \in [Tasks -> SUBSET Tasks]
      /\ fence[q] \subseteq Tasks /\ submitted[q] \subseteq Tasks
  BY DEF IInv, Types
<1>2. /\ submitted' = [submitted EXCEPT ![q] = submitted[q] \cup {t}] /\ before' = before
      /\ follows' = [follows EXCEPT ![t] = fence[q] \cup submitted[q]]
  BY DEF Submit, OnQueue
<1>3. /\ submitted' \in [Queues -> SUBSET Tasks] /\ submitted'[q] = submitted[q] \cup {t}
      /\ \A p \in Queues \ {q} : submitted'[p] = submitted[p]
  BY <1>1, <1>2
<1>4. /\ follows' \in [Tasks -> SUBSET Tasks] /\ follows'[t] = fence[q] \cup submitted[q]
      /\ \A s \in Tasks \ {t} : follows'[s] = follows[s]
  BY <1>1, <1>2
<1>5. \A p \in Queues : \A s \in submitted[p] : s \in Tasks \ {t}
  BY <1>1 DEF Everything
<1>6. Grows
  BY <1>2, <1>3, <1>4, <1>5 DEF Grows, Made
<1>7. QED
  BY <1>3, <1>4, <1>6

\* enqueue(queue, task), non-blocking.
LEMMA EnqueueTaskNonBlockingStep ==
  ASSUME IInv, NEW h \in Hosts, NEW q \in NonBlocking, NEW t \in Tasks, EnqueueTaskNonBlocking(h, q, t)
  PROVE  IInv'
<1> USE DEF EnqueueTaskNonBlocking, Call, regVars, eventVars, ctrlVars
<1>1. /\ q \in Queues /\ fifo \in [NonBlocking -> Seq(Items)] /\ fifo[q] \in Seq(Items)
      /\ UNCHANGED <<before, fence, due, released>> /\ PoolOK(q)
  BY DEF Queues, IInv, Types, Submit, PoolInv
<1>2. /\ Grows /\ submitted' \in [Queues -> SUBSET Tasks] /\ follows' \in [Tasks -> SUBSET Tasks]
      /\ submitted'[q] = submitted[q] \cup {t} /\ \A p \in Queues \ {q} : submitted'[p] = submitted[p]
      /\ follows'[t] = fence[q] \cup submitted[q]
  BY <1>1, Submitted
<1>3. PICK it \in Items : it = Item("task", t, 0)
  <2>1. Item("task", t, 0) \in Items
    BY DEF Item, Items
  <2>2. QED
    BY <2>1
<1>4. it.kind = "task" /\ it.what = t
  BY <1>3 DEF Item
<1>5. fifo' = [fifo EXCEPT ![q] = Append(fifo[q], it)] /\ Append(fifo[q], it) \in Seq(Items)
  BY <1>1, <1>3
<1>6. /\ fifo'[q] = Append(fifo[q], it) /\ \A p \in NonBlocking \ {q} : fifo'[p] = fifo[p] /\ p \in Queues
      /\ fifo' \in [NonBlocking -> Seq(Items)]
  BY <1>1, <1>5 DEF Queues
<1>7. PoolInv'
  <2>1. ItemOK(q, it)' /\ Gives(it)' = {t}
    BY <1>2, <1>4 DEF ItemOK, Gives
  <2>2. \A u \in Needs(it)' : Orderly /\ u \in fence[q] \cup submitted[q]
    BY <1>2, <1>4 DEF Needs, Orderly
  <2>3. \A u \in Needs(it)' : Settled(q, Len(fifo[q]), u)
    BY <1>1, <2>2 DEF PoolOK
  <2>4. submitted'[q] \subseteq submitted[q] \cup Gives(it)' /\ fence'[q] = fence[q]
    BY <1>1, <1>2, <2>1
  <2>5. PoolOK(q)'
    BY <1>2, <1>6, <2>1, <2>3, <2>4, PoolAppend
  <2>6. \A p \in NonBlocking \ {q} : PoolOK(p)'
    BY <1>1, <1>2, <1>6, PoolStays
  <2>7. QED
    BY <2>5, <2>6 DEF PoolInv
<1>8. WorkerInv' /\ EventInv'
  BY <1>1, <1>2, WorkersStay, EventsStay
<1>9. BlockingInv'
  <2>1. \A p \in Blocking : fence'[p] = fence[p] /\ submitted'[p] = submitted[p]
    BY <1>1, <1>2, SetsAssumption DEF Queues
  <2>2. QED
    BY <1>2, <2>1, BlockingStays
<1>10. HostInv'
  <2>1. m_enqueueCount \in [AllEvents -> Nat] /\ \A x \in AllEvents : m_enqueueCount[x] <= m_enqueueCount'[x]
    BY DEF IInv, Types
  <2>2. QED
    BY <1>1, <1>2, <2>1, HostStays DEF HostInv
<1>11. Types'
  BY <1>1, <1>2, <1>6 DEF IInv, Types
<1>12. RegisteredInv'
  BY RegisteredStays
<1>13. QED
  BY <1>7, <1>8, <1>9, <1>10, <1>11, <1>12 DEF IInv

\* enqueue(queue, task), blocking: the host takes the queue's mutex.
LEMMA EnqueueTaskBlockingStep ==
  ASSUME IInv, NEW h \in Hosts, NEW q \in Blocking, NEW t \in Tasks, EnqueueTaskBlocking(h, q, t)
  PROVE  IInv'
<1> USE DEF EnqueueTaskBlocking, Call, Goto, regVars, eventVars
<1>1. /\ q \in Queues /\ q \notin NonBlocking /\ h \in Threads /\ HostOK(h) /\ BlockingOK(q)
      /\ UNCHANGED <<before, fence, due, released>> /\ h # None
      /\ pc \in [Threads -> HostLabels \cup WorkerLabels] /\ m_mutex \in [Blocking -> Hosts \cup {None}]
      /\ target \in [Threads -> (Tasks \cup AllEvents \cup {None}) \X Nat]
  BY SetsAssumption DEF Queues, IInv, Types, Submit, HostInv, BlockingInv, Threads
<1>2. /\ Grows /\ submitted' \in [Queues -> SUBSET Tasks] /\ follows' \in [Tasks -> SUBSET Tasks]
      /\ submitted'[q] = submitted[q] \cup {t} /\ \A p \in Queues \ {q} : submitted'[p] = submitted[p]
      /\ follows'[t] = fence[q] \cup submitted[q]
  BY <1>1, Submitted
<1>3. /\ pc'[h] = "task" /\ pc' \in [Threads -> HostLabels \cup WorkerLabels]
      /\ target'[h] = <<t, 0>> /\ m_mutex'[q] = h /\ m_mutex' \in [Blocking -> Hosts \cup {None}]
      /\ \A p \in Blocking \ {q} : m_mutex'[p] = m_mutex[p] /\ p \in Queues
      /\ Others(h)
  BY <1>1 DEF HostLabels, Others, Queues
<1>4. /\ \A p \in NonBlocking : pc'[p] = pc[p] /\ target'[p] = target[p] /\ p \in Queues \ {q}
      /\ \A i \in Hosts \ {h} : pc'[i] = pc[i] /\ target'[i] = target[i]
  BY <1>1, <1>3, SetsAssumption DEF Others, Threads, Queues
<1>5. PoolInv' /\ WorkerInv' /\ EventInv'
  <2>1. \A p \in NonBlocking : PoolOK(p)'
    BY <1>1, <1>2, <1>4, PoolStays
  <2>2. QED
    BY <1>1, <1>2, <1>4, <2>1, WorkersStay, EventsStay DEF PoolInv
<1>6. BlockingInv'
  <2>1. fence[q] = {} /\ submitted[q] \subseteq done
    BY <1>1 DEF BlockingOK
  <2>2. fence'[q] = {} /\ target'[h][1] = t /\ follows'[t] \subseteq done' /\ submitted'[q] \subseteq done' \cup {t}
    BY <1>1, <1>2, <1>3, <2>1
  <2>3. BlockingOK(q)'
    BY <1>1, <1>2, <1>3, <2>2 DEF BlockingOK
  <2>4. \A p \in Blocking \ {q} : BlockingOK(p)'
    BY <1>1, <1>2, <1>3, <1>4, BlockingQueueStays
  <2>5. \A p \in Blocking : m_mutex[p] # h
    BY <1>1 DEF IInv, BlockingInv, BlockingOK
  <2>6. \A p, r \in Blocking : m_mutex'[p] = m_mutex'[r] /\ m_mutex'[p] # None => p = r
    BY <1>3, <2>5 DEF IInv, BlockingInv
  <2>7. \A i \in Hosts : pc'[i] = "task" => \E p \in Blocking : m_mutex'[p] = i
    <3>1. ASSUME NEW i \in Hosts, pc'[i] = "task" PROVE \E p \in Blocking : m_mutex'[p] = i
      <4>1. CASE i = h
        BY <1>3, <4>1
      <4>2. CASE i # h
        <5>1. pc[i] = "task"
          BY <1>4, <3>1, <4>2
        <5>2. PICK p \in Blocking : m_mutex[p] = i
          BY <5>1 DEF IInv, BlockingInv
        <5>3. p # q
          BY <1>1, <5>2, SetsAssumption
        <5>4. QED
          BY <1>3, <5>2, <5>3
      <4>3. QED
        BY <4>1, <4>2
    <3>2. QED
      BY <3>1
  <2>8. QED
    BY <2>3, <2>4, <2>6, <2>7 DEF BlockingInv
<1>7. HostInv'
  <2>1. Due(h) \subseteq done /\ waits[h] = <<>> /\ Len(waits[h]) = 0 /\ cont[h] = "return"
    BY <1>1, NothingDue DEF HostOK
  <2>2. Due(h)' \subseteq done' /\ waits'[h] = <<>> /\ Len(waits'[h]) = 0 /\ cont'[h] = "return"
    BY <1>1, <2>1 DEF Due
  <2>3. HostOK(h)'
    BY <1>3, <2>2 DEF HostOK, HostLabels
  <2>4. m_enqueueCount \in [AllEvents -> Nat] /\ \A x \in AllEvents : m_enqueueCount[x] <= m_enqueueCount'[x]
    BY DEF IInv, Types
  <2>5. \A i \in Hosts \ {h} : HostOK(i)'
    BY <1>1, <1>2, <1>3, <2>4, OtherHosts
  <2>6. QED
    BY <2>3, <2>5 DEF HostInv
<1>8. target' \in [Threads -> (Tasks \cup AllEvents \cup {None}) \X Nat]
  BY <1>1, TargetTyped
<1>9. Types'
  BY <1>1, <1>2, <1>3, <1>8 DEF IInv, Types
<1>10. RegisteredInv'
  BY RegisteredStays
<1>11. QED
  BY <1>5, <1>6, <1>7, <1>9, <1>10 DEF IInv

\* A task of a blocking queue returns and the mutex is released.
LEMMA TaskReturnsStep ==
  ASSUME IInv, NEW h \in Hosts, NEW q \in Blocking, TaskReturns(h, q) PROVE IInv'
<1> USE DEF TaskReturns, Goto, regVars, eventVars, ghostVars
<1>1. /\ q \in Queues /\ h \in Threads /\ HostOK(h) /\ BlockingOK(q) /\ h # None
      /\ pc \in [Threads -> HostLabels \cup WorkerLabels] /\ m_mutex \in [Blocking -> Hosts \cup {None}]
      /\ submitted[q] \subseteq Tasks
  BY SetsAssumption DEF Queues, IInv, Types, HostInv, BlockingInv, Threads
<1>2. target[h][1] \in submitted[q] /\ submitted[q] \subseteq done \cup {target[h][1]} /\ fence[q] = {}
  BY <1>1 DEF BlockingOK
<1>3. done \subseteq done' /\ done' \subseteq Tasks /\ submitted[q] \subseteq done'
  BY <1>1, <1>2 DEF IInv, Types
<1>4. Grows
  BY <1>3, GrowsIfSame
<1>5. /\ pc'[h] = "idle" /\ pc' \in [Threads -> HostLabels \cup WorkerLabels]
      /\ m_mutex'[q] = None /\ m_mutex' \in [Blocking -> Hosts \cup {None}]
      /\ \A p \in Blocking \ {q} : m_mutex'[p] = m_mutex[p]
      /\ Others(h)
  BY <1>1 DEF HostLabels, Others
<1>6. /\ \A p \in NonBlocking : pc'[p] = pc[p] /\ target'[p] = target[p]
      /\ \A i \in Hosts \ {h} : pc'[i] = pc[i] /\ target'[i] = target[i]
  BY <1>5, SetsAssumption DEF Others, Threads, Queues
<1>7. PoolInv' /\ WorkerInv' /\ EventInv'
  BY <1>4, <1>6, PoolsStay, WorkersStay, EventsStay
<1>8. BlockingInv'
  <2>1. BlockingOK(q)'
    BY <1>2, <1>3, <1>5 DEF BlockingOK
  <2>2. \A p \in Blocking \ {q} : m_mutex[p] # h
    BY <1>1 DEF IInv, BlockingInv
  <2>3. \A p \in Blocking \ {q} : BlockingOK(p)'
    BY <1>4, <1>5, <1>6, <2>2, BlockingQueueStays
  <2>4. \A p, r \in Blocking : m_mutex'[p] = m_mutex'[r] /\ m_mutex'[p] # None => p = r
    BY <1>5 DEF IInv, BlockingInv
  <2>5. ASSUME NEW i \in Hosts, pc'[i] = "task" PROVE \E p \in Blocking : m_mutex'[p] = i
    <3>1. i # h /\ pc[i] = "task"
      BY <1>5, <1>6, <2>5
    <3>2. PICK p \in Blocking : m_mutex[p] = i
      BY <3>1 DEF IInv, BlockingInv
    <3>3. p # q
      BY <3>1, <3>2
    <3>4. QED
      BY <1>5, <3>2, <3>3
  <2>6. QED
    BY <2>1, <2>3, <2>4, <2>5 DEF BlockingInv
<1>9. HostInv'
  <2>1. Due(h) \subseteq done /\ cont[h] = "return"
    BY <1>1, NothingDue DEF HostOK
  <2>2. Due(h)' \subseteq done' /\ cont'[h] = "return"
    BY <1>3, <2>1 DEF Due
  <2>3. HostOK(h)'
    BY <1>5, <2>2, StaysFree
  <2>4. m_enqueueCount \in [AllEvents -> Nat] /\ \A x \in AllEvents : m_enqueueCount[x] <= m_enqueueCount'[x]
    BY DEF IInv, Types
  <2>5. \A i \in Hosts \ {h} : HostOK(i)'
    BY <1>1, <1>4, <1>5, <2>4, OtherHosts
  <2>6. QED
    BY <2>3, <2>5 DEF HostInv
<1>10. Types'
  BY <1>3, <1>5 DEF IInv, Types
<1>11. RegisteredInv'
  BY RegisteredStays
<1>12. QED
  BY <1>7, <1>8, <1>9, <1>10, <1>11 DEF IInv

-----------------------------------------------------------------------------
(* The invariant                                                           *)

\* It holds at the beginning.
LEMMA InitIInv == Init => IInv
<1> SUFFICES ASSUME Init PROVE IInv
  OBVIOUS
<1>1. SetToSeq(Existing) \in Seq(Existing) /\ \A q \in Existing : Contains(SetToSeq(Existing), q)
  BY SetsAssumption, SetToSeqLists
<1>2. PICK s \in Seq(Queues) : s = SetToSeq(Existing)
  <2>1. Existing \subseteq Queues
    BY SetsAssumption
  <2>2. SetToSeq(Existing) \in Seq(Queues)
    BY <1>1, <2>1
  <2>3. QED
    BY <2>2
<1>3. PICK c \in Devs : c = (CHOOSE b \in Devs : TRUE)
  BY SetsAssumption
<1>4. m_queues = [d \in Devs |-> IF d = c THEN s ELSE <<>>]
  BY <1>2, <1>3 DEF Init
<1>5. m_queues \in [Devs -> Seq(Queues)] /\ m_queues[c] = s
  BY <1>4
<1>6. Types
  <2>1. fifo \in [NonBlocking -> Seq(Items)] /\ cur \in [NonBlocking -> Items \cup {NoItem}]
    BY DEF Init
  <2>2. m_mutex \in [Blocking -> Hosts \cup {None}] /\ alive \subseteq Queues
    BY SetsAssumption DEF Init
  <2>3. m_enqueueCount \in [AllEvents -> Nat] /\ m_LastReadyEnqueueCount \in [AllEvents -> Nat]
    BY DEF Init
  <2>4. pc \in [Threads -> HostLabels \cup WorkerLabels] /\ cont \in [Hosts -> {"return", "devWait"}]
    BY DEF Init, Threads, HostLabels
  <2>5. todo \in [Hosts -> Seq(Queues)] /\ waits \in [Hosts -> Seq(LocalEvents)]
    BY DEF Init
  <2>6. target \in [Threads -> (Tasks \cup AllEvents \cup {None}) \X Nat]
    BY DEF Init, Threads
  <2>7. submitted \in [Queues -> SUBSET Tasks] /\ fence \in [Queues -> SUBSET Tasks]
    BY DEF Init
  <2>8. follows \in [Tasks -> SUBSET Tasks] /\ before \in [AllEvents \X Counts -> SUBSET Tasks]
    BY DEF Init
  <2>9. /\ due \in [Hosts -> SUBSET Tasks] /\ done \subseteq Tasks
        /\ released \subseteq (Tasks \cup AllEvents \cup {None}) \X Nat
    BY DEF Init
  <2>10. QED
    BY <1>5, <2>1, <2>2, <2>3, <2>4, <2>5, <2>6, <2>7, <2>8, <2>9 DEF Types
<1>7. PoolInv
  <2>1. ASSUME NEW q \in NonBlocking PROVE PoolOK(q)
    <3>1. fifo[q] = <<>> /\ submitted[q] = {} /\ fence[q] = {} /\ Len(fifo[q]) = 0
      BY DEF Init, Queues
    <3>2. QED
      BY <3>1 DEF PoolOK
  <2>2. QED
    BY <2>1 DEF PoolInv
<1>8. WorkerInv
  <2>1. ASSUME NEW q \in NonBlocking PROVE WorkerOK(q)
    <3>1. cur[q] = NoItem /\ pc[q] = "idle"
      BY DEF Init
    <3>2. cur[q].kind = "none"
      BY <3>1 DEF NoItem, Item
    <3>3. ItemOK(q, cur[q]) /\ Needs(cur[q]) = {}
      BY <3>2 DEF ItemOK, Needs
    <3>4. QED
      BY <3>1, <3>2, <3>3 DEF WorkerOK, WorkerLabels
  <2>2. QED
    BY <2>1 DEF WorkerInv
<1>9. BlockingInv
  <2>1. \A q \in Blocking : m_mutex[q] = None /\ fence[q] = {} /\ submitted[q] = {}
    BY DEF Init, Queues
  <2>2. \A h \in Hosts : pc[h] = "idle"
    BY DEF Init
  <2>3. QED
    BY <2>1, <2>2 DEF BlockingInv, BlockingOK
<1>10. EventInv
  <2>1. /\ \A e \in AllEvents : m_enqueueCount[e] = 0 /\ m_LastReadyEnqueueCount[e] = 0
        /\ released = {} /\ MaxEnqueue \in Nat /\ \A n \in Counts : n \in Nat /\ ~(n <= 0)
    BY SetsAssumption DEF Init, Counts
  <2>2. \A e \in AllEvents : ReadyOK(e) /\ ChainOK(e)
    BY <2>1 DEF ReadyOK, ChainOK
  <2>3. LocalEvents \subseteq AllEvents
    BY DEF AllEvents
  <2>4. QED
    BY <2>1, <2>2, <2>3 DEF EventInv
<1>11. HostInv
  <2>1. ASSUME NEW h \in Hosts PROVE HostOK(h)
    <3>1. pc[h] = "idle" /\ cont[h] = "return" /\ waits[h] = <<>> /\ due[h] = {} /\ Len(waits[h]) = 0
      BY DEF Init
    <3>2. QED
      BY <3>1 DEF HostOK, HostLabels, Due
  <2>2. QED
    BY <2>1 DEF HostInv
<1>12. RegisteredInv
  BY <1>1, <1>2, <1>5 DEF RegisteredInv, Init
<1>13. QED
  BY <1>6, <1>7, <1>8, <1>9, <1>10, <1>11, <1>12 DEF IInv

\* Every call keeps it, every step within a call, and every step of a worker.
LEMMA HostCallKeeps ==
  ASSUME IInv, NEW h \in Hosts, HostCall(h) PROVE IInv'
  BY WaitDevStep, CreateQueueStep, WaitDevForEventStep, DestroyQueueStep, WaitQueueNonBlockingStep,
     EnqueueTaskNonBlockingStep, EnqueueEventNonBlockingStep, QueueWaitNonBlockingStep,
     WaitQueueBlockingStep, EnqueueTaskBlockingStep, EnqueueEventBlockingStep, WaitEventStep
     DEF HostCall

\* A step within a call.
LEMMA HostStepKeeps ==
  ASSUME IInv, NEW h \in Hosts, HostStep(h) PROVE IInv'
  BY TaskReturnsStep, HostLoops, HostWaitEndsStep, ReturnStep, DevEnqueueNonBlockingStep,
     DevEnqueueBlockingStep, DevEnqueueEndsStep, DevWaitNonBlockingStep, DevWaitBlockingStep,
     DevWaitEndsStep DEF HostStep

\* A step of a worker.
LEMMA WorkerStepKeeps ==
  ASSUME IInv, NEW q \in NonBlocking, WorkerStep(q) PROVE IInv'
  BY WorkerPopStep, WorkerRunStep, WorkerMarkStep, WorkerSignalStep, WorkerLoops, WorkerWaitEndsStep
     DEF WorkerStep

\* The invariant is inductive.
LEMMA NextIInv == IInv /\ [Next]_vars => IInv'
<1> SUFFICES ASSUME IInv, [Next]_vars PROVE IInv'
  OBVIOUS
<1>1. CASE UNCHANGED vars
  <2>1. /\ UNCHANGED <<fifo, cur, m_mutex, m_queues, alive, m_enqueueCount, m_LastReadyEnqueueCount>>
        /\ UNCHANGED <<pc, cont, todo, waits, target, done, submitted, before, fence, follows, due, released>>
    BY <1>1 DEF vars, queueVars, regVars, eventVars, ctrlVars, ghostVars
  <2>2. Grows
    BY <2>1, GrowsIfSame
  <2>3. Types'
    BY <2>1 DEF IInv, Types
  <2>4. PoolInv' /\ WorkerInv' /\ EventInv' /\ RegisteredInv'
    BY <2>1, <2>2, PoolsStay, WorkersStay, EventsStay, RegisteredStays
  <2>5. BlockingInv'
    BY <2>1, <2>2, BlockingStays
  <2>6. HostInv'
    <3>1. m_enqueueCount \in [AllEvents -> Nat] /\ \A x \in AllEvents : m_enqueueCount[x] <= m_enqueueCount'[x]
      BY <2>1 DEF IInv, Types
    <3>2. QED
      BY <2>1, <2>2, <3>1, HostStays DEF HostInv
  <2>7. QED
    BY <2>3, <2>4, <2>5, <2>6 DEF IInv
<1>2. CASE \E h \in Hosts : HostCall(h) \/ HostStep(h)
  BY <1>2, HostCallKeeps, HostStepKeeps
<1>3. CASE \E q \in NonBlocking : WorkerStep(q)
  BY <1>3, WorkerStepKeeps
<1>4. QED
  BY <1>1, <1>2, <1>3 DEF Next, Terminated

\* IInv is an invariant, for any client.
THEOREM Invariance == Spec => []IInv
<1>1. QED
  BY InitIInv, NextIInv, PTL DEF Spec

-----------------------------------------------------------------------------
(* What clients are promised                                               *)

\* For any client: an event that isComplete reports as complete has no
\* unfinished task before it in the queue it was last enqueued to.
THEOREM CompleteIsCompleted == Spec => []CompleteMeansCompleted
<1>1. IInv => CompleteMeansCompleted
  <2> SUFFICES ASSUME IInv, NEW e \in Events, isReady(e) PROVE Covers(e) \subseteq done
    BY DEF CompleteMeansCompleted
  <2>1. /\ e \in AllEvents /\ ReadyOK(e) /\ m_enqueueCount[e] \in Nat
        /\ m_LastReadyEnqueueCount[e] = m_enqueueCount[e]
    BY DEF IInv, EventInv, Types, AllEvents, isReady
  <2>2. QED
    BY <2>1 DEF ReadyOK, Covers
<1>2. QED
  BY <1>1, Invariance, PTL

\* For a client that waits for the device only while all unfinished tasks of all
\* queues are in the reach of the handle, in queues that exist and were made on it:
\* wait(queue) returns after all tasks of the queue, and wait(dev) after all tasks
\* enqueued to the device by then, on queues of either kind, whatever other hosts
\* enqueue, create or destroy once the wait has begun.
THEOREM WaitsAreComplete ==
  ASSUME DeviceUse # "any"
  PROVE  Spec => []WaitCoversQueues
<1>1. \A h \in Hosts : Due(h) = due[h]
  BY DEF Due, InReach
<1>2. IInv => WaitCoversQueues
  BY <1>1, NothingDue DEF WaitCoversQueues
<1>3. QED
  BY <1>2, Invariance, PTL

\* For a client that enqueues an unfinished event again only behind itself: a
\* wait for an event, by a host or a queue, ends after all the event covers,
\* though it may be ended by a later enqueue than the one it began with.
THEOREM WaitIsForAll ==
  ASSUME Usage # "any"
  PROVE  Spec => []WaitMeansCompleted
<1>1. IInv => WaitMeansCompleted
  <2> SUFFICES ASSUME IInv, NEW x \in released, x[2] > 0 PROVE before[x] \subseteq done
    BY DEF WaitMeansCompleted
  <2>1. x[2] # 0
    BY DEF IInv, Types
  <2>2. QED
    BY <2>1 DEF IInv, EventInv, Chained, Orderly
<1>2. QED
  BY <1>1, Invariance, PTL

\* For such a client: a task runs after every task before it in its queue and
\* after all that is covered by the events its queue was told to wait for.
THEOREM TasksRunInOrder ==
  ASSUME Usage # "any"
  PROVE  Spec => []StartsInOrder
<1>1. IInv => StartsInOrder
  <2> SUFFICES ASSUME IInv, NEW t \in Tasks, Starts(t) PROVE follows[t] \subseteq done
    BY DEF StartsInOrder
  <2>1. ASSUME NEW q \in NonBlocking, pc[q] = "run", cur[q].what = t
        PROVE  follows[t] \subseteq done
    <3>1. WorkerOK(q)
      BY DEF IInv, WorkerInv
    <3>2. cur[q].kind = "task" /\ Needs(cur[q]) \subseteq done
      BY <2>1, <3>1 DEF WorkerOK
    <3>3. QED
      BY <2>1, <3>2 DEF Needs, Orderly
  <2>2. ASSUME NEW h \in Hosts, pc[h] = "task", target[h][1] = t
        PROVE  follows[t] \subseteq done
    <3>1. PICK q \in Blocking : m_mutex[q] = h
      BY <2>2 DEF IInv, BlockingInv
    <3>2. BlockingOK(q) /\ h # None
      BY SetsAssumption DEF IInv, BlockingInv
    <3>3. QED
      BY <2>2, <3>1, <3>2 DEF BlockingOK
  <2>3. QED
    BY <2>1, <2>2 DEF Starts
<1>2. QED
  BY <1>1, Invariance, PTL
=============================================================================
