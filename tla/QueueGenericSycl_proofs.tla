----------------------- MODULE QueueGenericSycl_proofs -----------------------
(***************************************************************************)
(* Proofs about QueueGenericSycl for any hosts, queues and events and any  *)
(* number of commands and calls, when an event stands for the commands     *)
(* before it in its queue (Transitive = FALSE).  The events kept by queues *)
(* and by commands stand for sets of commands: Covers(f, b) says that      *)
(* command b is not later than f in the same queue, so that b is complete  *)
(* when f is.  AwaitInv says that whatever a queue was told to wait for is *)
(* complete, covered by a dependency that it still has, or covered by one  *)
(* that it gave to an earlier command; it survives enqueues, which clear   *)
(* the dependencies, and the removal of complete events.  LoopInv follows  *)
(* the loops over the queues of the device, from which no queue is missing *)
(* as long as the mutex is held.                                           *)
(***************************************************************************)
EXTENDS QueueGenericSycl, NaturalsInduction, WellFoundedInduction, FiniteSetTheorems,
        SequenceTheorems, TLAPS

Labels == {"idle", "wait", "register", "devWait", "devDependency"}

\* The types of the variables.
TypeOK ==
  /\ queueOf \in Seq(Queues) /\ dependsOn \in Seq(SUBSET Nat) /\ must \in Seq(SUBSET Nat)
  /\ Len(dependsOn) = Len(queueOf) /\ Len(must) = Len(queueOf)
  /\ running \subseteq Commands /\ done \subseteq Commands
  /\ m_dependencies \in [Queues -> SUBSET Nat] /\ m_last_event \in [Queues -> Nat]
  /\ awaited \in [Queues -> SUBSET Nat]
  /\ m_event \in [Events -> Nat] /\ covered \in [Events -> SUBSET Nat]
  /\ m_queues \in Seq(Queues) /\ alive \subseteq Queues /\ m_mutex \subseteq Hosts
  /\ pc \in [Hosts -> Labels] /\ target \in [Hosts -> SUBSET Nat] /\ goal \in [Hosts -> SUBSET Nat]
  /\ todo \in [Hosts -> Seq(Queues)] /\ held \in [Hosts -> Queues \cup {None}] /\ dep \in [Hosts -> Nat]

\* Command b comes with command f, or before it in its queue.
Covers(f, b) == f \in Commands /\ b \in Commands /\ queueOf[b] = queueOf[f] /\ b <= f

\* A command before which command d was given the event f runs after b.
Gave(d, b) == \E f \in dependsOn[d] : Covers(f, b)

\* What is enqueued to q next will run after b.
Awaits(q, b) == \/ b \in done
                \/ \E f \in m_dependencies[q] : Covers(f, b)
                \/ \E d \in Commands : queueOf[d] = q /\ Gave(d, b)

\* Command c runs after b.
RunsAfter(c, b) == \/ b \in done
                   \/ b \in Commands /\ b < c /\ queueOf[b] = queueOf[c]
                   \/ \E d \in Commands : d <= c /\ queueOf[d] = queueOf[c] /\ Gave(d, b)

\* Whether q is among the queues that a list or the loop of a host still has.
Lists(s, q) == \E i \in 1..Len(s) : s[i] = q

\* A command runs after those before it in its queue, and after its dependencies.
RunInv == \A c \in running \cup done :
            /\ \A b \in Commands : queueOf[b] = queueOf[c] /\ b < c => b \in done
            /\ dependsOn[c] \subseteq done

\* What is recorded for the properties is covered by what the queues keep.
MustInv == \A c \in Commands : \A b \in must[c] : RunsAfter(c, b)
LastInv == \A q \in Queues : \A b \in Commands : queueOf[b] = q => Covers(m_last_event[q], b)
EventInv == \A e \in Events : \A b \in covered[e] : Covers(m_event[e], b)
AwaitInv == \A q \in Queues : \A b \in awaited[q] : Awaits(q, b)

\* The device knows all queues of the program.
RegisteredInv == \A q \in alive : Lists(m_queues, q)

\* A host inside a call still has to see to all of its goal, or has done so.
HostOK(h) ==
  /\ pc[h] = "wait" => \A b \in goal[h] : \E f \in target[h] : Covers(f, b)
  /\ pc[h] = "register" => held[h] # None
  /\ InLoop(h) => h \in m_mutex
  /\ pc[h] = "devWait" =>
       \A b \in goal[h] :
         /\ b \in Commands
         /\ b \in done \/ b \in target[h] \/ (queueOf[b] \in alive => Lists(todo[h], queueOf[b]))
  /\ pc[h] = "devDependency" =>
       /\ \A b \in goal[h] : Covers(dep[h], b)
       /\ \A q \in alive : Lists(todo[h], q) \/ \A b \in goal[h] : Awaits(q, b)
HostInv == \A h \in Hosts : HostOK(h)

IInv == /\ TypeOK /\ RunInv /\ MustInv /\ LastInv /\ EventInv /\ AwaitInv
        /\ RegisteredInv /\ HostInv

\* What a step leaves as it was: the commands there are, and that what is
\* enqueued to a queue next runs after a command.
Extends == /\ Commands \subseteq Commands' /\ done \subseteq done'
           /\ \A c \in Commands : queueOf'[c] = queueOf[c] /\ dependsOn'[c] = dependsOn[c]
Kept == \A q \in Queues : \A b : Awaits(q, b) => Awaits(q, b)'

-----------------------------------------------------------------------------
(* Lists of queues                                                         *)

\* A set of naturals with some element has a least one.
LEMMA LeastNatural ==
  ASSUME NEW T, T \subseteq Nat, T # {}
  PROVE  \E m \in T : \A n \in T : m <= n
<1> DEFINE Less == {ss \in Nat \X Nat : ss[1] < ss[2]}
<1>1. IsWellFoundedOn(Less, Nat)
  BY NatLessThanWellFounded DEF OpToRel
<1>2. \A m, n \in Nat : m < n => <<m, n>> \in Less
  OBVIOUS
<1> HIDE DEF Less
<1>3. PICK m \in T : \A n \in T : ~(<<n, m>> \in Less)
  BY <1>1, WFMin, Zenon
<1>4. \A n \in T : ~(n < m)
  BY <1>2, <1>3
<1>5. QED
  BY <1>4

\* clean_queues lists the queues of the device that have not expired, in induction
\* over the part of the list that the loop has passed.
LEMMA CleanQueuesLists ==
  ASSUME m_queues \in Seq(Queues)
  PROVE  /\ clean_queues \in Seq(Queues)
         /\ \A q \in Queues : Lists(m_queues, q) /\ ~Expired(q) => Lists(clean_queues, q)
<1> DEFINE Def(v, i) == IF Expired(m_queues[i]) THEN v ELSE Append(v, m_queues[i])
           kept == CHOOSE g : g = [i \in 0..Len(m_queues) |-> IF i = 0 THEN <<>> ELSE Def(g[i - 1], i)]
           Right(i) == /\ kept[i] \in Seq(Queues)
                       /\ \A j \in 1..i : ~Expired(m_queues[j]) => Lists(kept[i], m_queues[j])
           Wrong == {i \in 0..Len(m_queues) : ~Right(i)}
<1>1. Len(m_queues) \in Nat /\ \A i \in 1..Len(m_queues) : m_queues[i] \in Queues
  OBVIOUS
<1>2. clean_queues = kept[Len(m_queues)]
  BY DEF clean_queues
<1>3. FiniteNatInductiveDefHypothesis(kept, <<>>, Def, 0, Len(m_queues))
  BY DEF FiniteNatInductiveDefHypothesis
<1>4. FiniteNatInductiveDefConclusion(kept, <<>>, Def, 0, Len(m_queues))
  BY <1>1, <1>3, FiniteNatInductiveDef
<1>5. kept = [i \in 0..Len(m_queues) |-> IF i = 0 THEN <<>> ELSE Def(kept[i - 1], i)]
  BY <1>4 DEF FiniteNatInductiveDefConclusion
<1> HIDE DEF kept, Def
<1>6. kept[0] = <<>> /\ \A i \in 1..Len(m_queues) : kept[i] = Def(kept[i - 1], i)
  BY <1>1, <1>5
<1>7. Right(0)
  BY <1>6
<1>8. ASSUME NEW i \in 1..Len(m_queues), Right(i - 1)
      PROVE  Right(i)
  <2>1. kept[i - 1] \in Seq(Queues) /\ m_queues[i] \in Queues
    BY <1>1, <1>8
  <2>2. CASE Expired(m_queues[i])
    <3>1. kept[i] = kept[i - 1]
      BY <1>6, <2>2 DEF Def
    <3>2. QED
      BY <1>1, <1>8, <2>2, <3>1
  <2>3. CASE ~Expired(m_queues[i])
    <3>1. kept[i] = Append(kept[i - 1], m_queues[i])
      BY <1>6, <2>3 DEF Def
    <3>2. kept[i] \in Seq(Queues) /\ Lists(kept[i], m_queues[i])
      BY <2>1, <3>1 DEF Lists
    <3>3. \A q : Lists(kept[i - 1], q) => Lists(kept[i], q)
      BY <2>1, <3>1 DEF Lists
    <3>4. QED
      BY <1>1, <1>8, <3>2, <3>3
  <2>4. QED
    BY <2>2, <2>3
<1> HIDE DEF Right
<1>9. Wrong = {}
  <2> SUFFICES ASSUME Wrong # {} PROVE FALSE
    OBVIOUS
  <2>1. Wrong \subseteq Nat
    BY <1>1
  <2>2. PICK m \in Wrong : \A n \in Wrong : m <= n
    BY <2>1, LeastNatural
  <2>3. m \in 1..Len(m_queues)
    BY <1>1, <1>7, <2>2
  <2>4. m - 1 \in 0..Len(m_queues) /\ ~(m <= m - 1)
    BY <1>1, <2>3
  <2>5. Right(m - 1)
    BY <2>2, <2>4
  <2>6. QED
    BY <1>8, <2>2, <2>3, <2>5
<1>10. Right(Len(m_queues))
  BY <1>1, <1>9
<1>11. QED
  BY <1>2, <1>10 DEF Right, Lists

\* SetToSeq lists the elements of a finite set.
LEMMA SetToSeqLists ==
  ASSUME NEW S, IsFiniteSet(S)
  PROVE  SetToSeq(S) \in Seq(S) /\ \A x \in S : Lists(SetToSeq(S), x)
<1> DEFINE n == Cardinality(S)
           f == SetToSeq(S)
<1>1. n \in Nat /\ IsFiniteSet(1..n) /\ Cardinality(1..n) = n
  BY FS_CardinalityType, FS_Interval
<1>2. PICK g \in [1..n -> S] : IsInjective(g)
  BY FS_CardinalityType, FS_NatBijection DEF ExistsBijection, Bijection, Injection, IsInjective
<1>3. f \in [1..n -> S] /\ IsInjective(f)
  BY <1>2 DEF SetToSeq
<1> HIDE DEF f
<1>4. f \in Seq(S) /\ Len(f) = n
  BY <1>1, <1>3
<1>5. ASSUME NEW x \in S, \A i \in 1..n : f[i] # x
      PROVE  FALSE
  <2>1. f \in Injection(1..n, S \ {x})
    BY <1>3, <1>5 DEF Injection, IsInjective
  <2>2. IsFiniteSet(S \ {x}) /\ Cardinality(S \ {x}) = n - 1
    BY FS_RemoveElement
  <2>3. Cardinality(1..n) <= Cardinality(S \ {x})
    BY <2>1, <2>2, FS_Injection
  <2>4. QED
    BY <1>1, <2>2, <2>3
<1>6. QED
  BY <1>4, <1>5 DEF Lists, f

-----------------------------------------------------------------------------
(* What steps leave alone                                                  *)

\* What a complete event covers is complete.
LEMMA DoneCovers ==
  ASSUME IInv, NEW f \in done, NEW b, Covers(f, b)
  PROVE  b \in done
<1>1. b \in Commands /\ queueOf[b] = queueOf[f] /\ f \in Commands /\ (b = f \/ b < f)
  BY DEF Covers, Commands
<1>2. QED
  BY <1>1 DEF IInv, RunInv

\* What events cover and what commands run after does not change.
LEMMA CoversStays ==
  ASSUME IInv, Extends
  PROVE  /\ \A f, b : Covers(f, b) => Covers(f, b)'
         /\ \A d \in Commands : \A b : Gave(d, b) => Gave(d, b)'
         /\ \A c \in Commands : \A b : RunsAfter(c, b) => RunsAfter(c, b)'
<1>1. \A f, b : Covers(f, b) => Covers(f, b)'
  BY DEF Extends, Covers
<1>2. \A d \in Commands : \A b : Gave(d, b) => Gave(d, b)'
  BY <1>1 DEF Extends, Gave
<1>3. ASSUME NEW c \in Commands, NEW b, RunsAfter(c, b)
      PROVE  RunsAfter(c, b)'
  <2>1. CASE b \in done
    BY <2>1 DEF Extends, RunsAfter
  <2>2. CASE b \in Commands /\ b < c /\ queueOf[b] = queueOf[c]
    BY <2>2 DEF Extends, RunsAfter
  <2>3. ASSUME NEW d \in Commands, d <= c, queueOf[d] = queueOf[c], Gave(d, b)
        PROVE  RunsAfter(c, b)'
    <3>1. Gave(d, b)' /\ d \in Commands' /\ queueOf'[d] = queueOf'[c]
      BY <1>2, <2>3 DEF Extends
    <3>2. QED
      BY <2>3, <3>1 DEF RunsAfter
  <2>4. QED
    BY <1>3, <2>1, <2>2, <2>3 DEF RunsAfter
<1>4. QED
  BY <1>1, <1>2, <1>3

\* A queue waits for what it has waited for if its dependencies stay, are
\* complete, or went to a command.
LEMMA AwaitsStays ==
  ASSUME IInv, Extends, NEW q \in Queues, NEW b, Awaits(q, b),
         \A f \in m_dependencies[q] : \/ f \in m_dependencies'[q] \cup done \cup {0}
                                      \/ \E d \in Commands' : queueOf'[d] = q /\ f \in dependsOn'[d]
  PROVE  Awaits(q, b)'
<1>1. CASE b \in done
  BY <1>1 DEF Extends, Awaits
<1>2. ASSUME NEW d \in Commands, queueOf[d] = q, Gave(d, b)
      PROVE  Awaits(q, b)'
  <2>1. Gave(d, b)' /\ d \in Commands' /\ queueOf'[d] = q
    BY <1>2, CoversStays DEF Extends
  <2>2. QED
    BY <2>1 DEF Awaits
<1>3. ASSUME NEW f \in m_dependencies[q], Covers(f, b)
      PROVE  Awaits(q, b)'
  <2>1. Covers(f, b)'
    BY <1>3, CoversStays
  <2>2. CASE f \in m_dependencies'[q]
    BY <2>1, <2>2 DEF Awaits
  <2>3. CASE f \in done
    BY <1>3, <2>3, DoneCovers DEF Extends, Awaits
  <2>4. CASE f = 0
    BY <1>3, <2>4 DEF Covers, Commands
  <2>5. ASSUME NEW d \in Commands', queueOf'[d] = q, f \in dependsOn'[d]
        PROVE  Awaits(q, b)'
    <3>1. Gave(d, b)'
      BY <2>1, <2>5 DEF Gave
    <3>2. QED
      BY <2>5, <3>1 DEF Awaits
  <2>6. QED
    BY <2>2, <2>3, <2>4, <2>5
<1>4. QED
  BY <1>1, <1>2, <1>3 DEF Awaits

\* Most steps leave the runtime alone.
LEMMA QuietRuntime ==
  ASSUME IInv, UNCHANGED <<queueOf, dependsOn, running, done, must, m_last_event>>
  PROVE  Extends /\ RunInv' /\ MustInv' /\ LastInv'
<1>1. Extends
  BY DEF Extends, Commands
<1>2. RunInv'
  BY DEF IInv, RunInv, Commands
<1>3. MustInv'
  BY <1>1, CoversStays DEF IInv, MustInv, Commands
<1>4. LastInv'
  BY <1>1, CoversStays DEF IInv, LastInv, Commands
<1>5. QED
  BY <1>1, <1>2, <1>3, <1>4

\* Events, and what queues wait for.
LEMMA QuietQueues ==
  ASSUME IInv, Extends
  PROVE  /\ UNCHANGED <<m_event, covered>> => EventInv'
         /\ UNCHANGED m_dependencies => Kept
         /\ Kept /\ UNCHANGED awaited => AwaitInv'
<1>1. ASSUME UNCHANGED <<m_event, covered>> PROVE EventInv'
  BY <1>1, CoversStays DEF IInv, EventInv
<1>2. ASSUME UNCHANGED m_dependencies PROVE Kept
  BY <1>2, AwaitsStays DEF Kept
<1>3. ASSUME Kept, UNCHANGED awaited PROVE AwaitInv'
  BY <1>3 DEF IInv, AwaitInv, Kept
<1>4. QED
  BY <1>1, <1>2, <1>3

\* The list of the device.
LEMMA QuietDevice ==
  ASSUME IInv, UNCHANGED m_queues, alive' \subseteq alive
  PROVE  RegisteredInv'
  BY DEF IInv, RegisteredInv, Lists

\* A host that does not move.
LEMMA QuietHost ==
  ASSUME IInv, Extends, Kept, NEW h \in Hosts,
         alive' \subseteq alive \/ m_mutex = {},
         h \in m_mutex => h \in m_mutex',
         pc'[h] = pc[h], goal'[h] = goal[h], target'[h] = target[h], todo'[h] = todo[h],
         held'[h] = held[h], dep'[h] = dep[h]
  PROVE  HostOK(h)'
<1>1. HostOK(h) /\ alive \subseteq Queues
  BY DEF IInv, HostInv, TypeOK
<1>2. \A f, b : Covers(f, b) => Covers(f, b)'
  BY CoversStays
<1>3. \A q : Lists(todo[h], q) => Lists(todo'[h], q)
  BY DEF Lists
<1>4. CASE pc[h] \in {"idle", "wait", "register"}
  BY <1>1, <1>2, <1>4 DEF HostOK, InLoop
<1>5. CASE InLoop(h)
  <2>1. h \in m_mutex /\ h \in m_mutex' /\ alive' \subseteq alive
    BY <1>1, <1>5 DEF HostOK
  <2>2. ASSUME pc[h] = "devWait" PROVE HostOK(h)'
    <3>1. \A b \in goal[h] : b \in Commands' /\ queueOf'[b] = queueOf[b] /\ (b \in done => b \in done')
      BY <1>1, <2>2 DEF HostOK, Extends
    <3>2. ASSUME NEW b \in goal'[h]
          PROVE  /\ b \in Commands'
                 /\ b \in done' \/ b \in target'[h] \/ (queueOf'[b] \in alive' => Lists(todo'[h], queueOf'[b]))
      BY <1>1, <1>3, <2>1, <2>2, <3>1, <3>2 DEF HostOK
    <3>3. QED
      BY <2>1, <2>2, <3>2 DEF HostOK, InLoop
  <2>3. ASSUME pc[h] = "devDependency" PROVE HostOK(h)'
    <3>1. \A b \in goal'[h] : Covers(dep[h], b)'
      BY <1>1, <1>2, <2>3 DEF HostOK
    <3>2. \A q \in alive' : Lists(todo'[h], q) \/ \A b \in goal'[h] : Awaits(q, b)'
      BY <1>1, <1>3, <2>1, <2>3 DEF HostOK, Kept
    <3>3. QED
      BY <2>1, <2>3, <3>1, <3>2 DEF HostOK, InLoop
  <2>4. QED
    BY <1>5, <2>2, <2>3 DEF InLoop
<1>6. QED
  BY <1>1, <1>4, <1>5 DEF IInv, TypeOK, Labels, InLoop

-----------------------------------------------------------------------------
(* Types                                                                   *)

\* The types are kept by the actions of the program.
LEMMA TypesOfProgram ==
  ASSUME IInv, NEW h \in Hosts, Program(h) \/ Continue(h)
  PROVE  TypeOK'
<1>1. ASSUME NEW q \in Queues, Enqueue(h, q) PROVE TypeOK'
  <2>1. /\ queueOf' = Append(queueOf, q) /\ dependsOn' = Append(dependsOn, clean_dependencies(q))
        /\ must' = Append(must, Of(q) \cup awaited[q])
        /\ m_last_event' = [m_last_event EXCEPT ![q] = Len(queueOf) + 1]
        /\ m_dependencies' = [m_dependencies EXCEPT ![q] = {}]
        /\ UNCHANGED <<m_queues, m_mutex, m_event, alive, running, done, todo, dep, covered, awaited>>
    BY <1>1 DEF Enqueue
  <2>2. clean_dependencies(q) \subseteq Nat /\ Of(q) \cup awaited[q] \subseteq Nat /\ Len(queueOf) \in Nat
    BY DEF IInv, TypeOK, clean_dependencies, Of, Commands
  <2>3. pc' \in [Hosts -> Labels] /\ target' \in [Hosts -> SUBSET Nat] /\ goal' \in [Hosts -> SUBSET Nat]
        /\ held' \in [Hosts -> Queues \cup {None}]
    <3>1. Of(q) \cup {Len(queueOf) + 1} \subseteq Nat
      BY <2>2
    <3> HIDE DEF Of
    <3>2. QED
      BY <1>1, <3>1 DEF IInv, TypeOK, Enqueue, Wait, Labels
  <2>4. /\ queueOf' \in Seq(Queues) /\ dependsOn' \in Seq(SUBSET Nat) /\ must' \in Seq(SUBSET Nat)
        /\ Len(queueOf') = Len(queueOf) + 1 /\ Len(dependsOn') = Len(queueOf') /\ Len(must') = Len(queueOf')
    <3>1. queueOf' \in Seq(Queues) /\ Len(queueOf') = Len(queueOf) + 1
      BY <2>1 DEF IInv, TypeOK
    <3>2. \A s \in Seq(SUBSET Nat) : \A x \in SUBSET Nat :
            Append(s, x) \in Seq(SUBSET Nat) /\ Len(Append(s, x)) = Len(s) + 1
      OBVIOUS
    <3>3. dependsOn' \in Seq(SUBSET Nat) /\ Len(dependsOn') = Len(dependsOn) + 1
      BY <2>1, <2>2, <3>2 DEF IInv, TypeOK
    <3>4. must' \in Seq(SUBSET Nat) /\ Len(must') = Len(must) + 1
      BY <2>1, <2>2, <3>2 DEF IInv, TypeOK
    <3>5. QED
      BY <3>1, <3>3, <3>4 DEF IInv, TypeOK
  <2>5. Commands \subseteq Commands'
    BY <2>2, <2>4 DEF Commands
  <2>6. m_last_event' \in [Queues -> Nat] /\ m_dependencies' \in [Queues -> SUBSET Nat]
    BY <2>1, <2>2 DEF IInv, TypeOK
  <2>7. QED
    BY <2>1, <2>3, <2>4, <2>5, <2>6 DEF IInv, TypeOK
<1>2. ASSUME NEW q \in Queues, WaitQueue(h, q) PROVE TypeOK'
  <2>1. Of(q) \subseteq Nat
    BY DEF Of, Commands
  <2>2. target' \in [Hosts -> SUBSET Nat] /\ goal' \in [Hosts -> SUBSET Nat]
    BY <1>2, <2>1 DEF WaitQueue, Wait, IInv, TypeOK
  <2>3. QED
    BY <1>2, <2>2 DEF WaitQueue, Call, Wait, queueVars, runtime, IInv, TypeOK, Commands, Labels
<1>3. ASSUME NEW q \in Queues, CreateQueue(h, q) PROVE TypeOK'
  BY <1>3 DEF CreateQueue, queueVars, runtime, expected, Call, IInv, TypeOK, Commands, Labels
<1>4. ASSUME NEW q \in Queues, DestroyQueue(h, q) PROVE TypeOK'
  <2>1. Of(q) \subseteq Nat
    BY DEF Of, Commands
  <2>2. target' \in [Hosts -> SUBSET Nat] /\ goal' \in [Hosts -> SUBSET Nat]
    BY <1>4, <2>1 DEF DestroyQueue, Wait, IInv, TypeOK
  <2>3. pc' \in [Hosts -> Labels] /\ held' \in [Hosts -> Queues \cup {None}]
    BY <1>4 DEF DestroyQueue, Wait, IInv, TypeOK, Labels
  <2>4. QED
    BY <1>4, <2>2, <2>3 DEF DestroyQueue, Call, queueVars, runtime, IInv, TypeOK, Commands
<1>5. ASSUME NEW q \in Queues, NEW e \in Events, EnqueueEvent(h, q, e) PROVE TypeOK'
  <2>1. Of(q) \cup (IF Transitive THEN awaited[q] ELSE {}) \subseteq Nat /\ m_last_event[q] \in Nat
    BY DEF IInv, TypeOK, Of, Commands
  <2>2. m_event' \in [Events -> Nat] /\ covered' \in [Events -> SUBSET Nat]
    BY <1>5, <2>1 DEF EnqueueEvent, IInv, TypeOK
  <2>3. QED
    BY <1>5, <2>2 DEF EnqueueEvent, Call, queueVars, runtime, IInv, TypeOK, Commands
<1>6. ASSUME NEW q \in Queues, NEW e \in Events, QueueWait(h, q, e) PROVE TypeOK'
  <2>1. clean_dependencies(q) \cup ({m_event[e]} \ {0}) \subseteq Nat /\ awaited[q] \cup covered[e] \subseteq Nat
    BY DEF IInv, TypeOK, clean_dependencies
  <2>2. m_dependencies' \in [Queues -> SUBSET Nat] /\ awaited' \in [Queues -> SUBSET Nat]
    BY <1>6, <2>1 DEF QueueWait, Registered, IInv, TypeOK
  <2>3. QED
    BY <1>6, <2>2 DEF QueueWait, Call, runtime, IInv, TypeOK, Commands
<1>7. ASSUME NEW e \in Events, WaitEvent(h, e) PROVE TypeOK'
  BY <1>7 DEF WaitEvent, queueVars, runtime, expected, Call, IInv, TypeOK, Commands, Labels
<1>8. ASSUME NEW e \in Events, WaitDevForEvent(h, e) PROVE TypeOK'
  BY <1>8 DEF WaitDevForEvent, CallDev, queueVars, runtime, expected, Call, IInv, TypeOK, Commands, Labels
<1>9. ASSUME WaitDev(h) PROVE TypeOK'
  <2>1. UNION {Of(q) : q \in alive} \subseteq Nat
    BY DEF Of, Commands
  <2>2. goal' \in [Hosts -> SUBSET Nat]
    BY <1>9, <2>1 DEF WaitDev, CallDev, IInv, TypeOK
  <2>3. QED
    BY <1>9, <2>2 DEF WaitDev, CallDev, Call, queueVars, runtime, IInv, TypeOK, Commands, Labels
<1>10. ASSUME WaitEnds(h) PROVE TypeOK'
  BY <1>10 DEF WaitEnds, queueVars, runtime, expected, Call, IInv, TypeOK, Commands, Labels
<1>11. ASSUME register_queue(h) PROVE TypeOK'
  <2>1. held[h] \in Queues /\ clean_queues \in Seq(Queues)
    BY <1>11, CleanQueuesLists DEF register_queue, IInv, TypeOK, HostInv, HostOK
  <2>2. m_queues' \in Seq(Queues) /\ alive' \subseteq Queues
    BY <1>11, <2>1 DEF register_queue, IInv, TypeOK
  <2>3. pc' \in [Hosts -> Labels] /\ held' \in [Hosts -> Queues \cup {None}]
    BY <1>11 DEF register_queue, IInv, TypeOK, Labels
  <2>4. QED
    BY <1>11, <2>2, <2>3 DEF register_queue, queueVars, runtime, expected, IInv, TypeOK, Commands
<1>12. ASSUME NextQueue(h) PROVE TypeOK'
  <2>1. todo[h] \in Seq(Queues) /\ todo[h] # <<>> /\ todo' = [todo EXCEPT ![h] = Tail(todo[h])]
    BY <1>12 DEF NextQueue, IInv, TypeOK
  <2>2. PICK q \in Queues : q = Head(todo[h])
    BY <2>1
  <2>3. clean_dependencies(q) \cup ({dep[h]} \ {0}) \subseteq Nat /\ Of(q) \subseteq Nat
    BY DEF IInv, TypeOK, clean_dependencies, Of, Commands
  <2>4. todo' \in [Hosts -> Seq(Queues)]
    BY <2>1 DEF IInv, TypeOK
  <2>5. held' \in [Hosts -> Queues \cup {None}] /\ target' \in [Hosts -> SUBSET Nat]
        /\ m_dependencies' \in [Queues -> SUBSET Nat]
    BY <1>12, <2>2, <2>3 DEF NextQueue, Registered, IInv, TypeOK
  <2>6. QED
    BY <1>12, <2>4, <2>5 DEF NextQueue, runtime, expected, IInv, TypeOK, Commands
<1>13. ASSUME LeaveQueue(h) PROVE TypeOK'
  <2>1. Of(held[h]) \subseteq Nat
    BY DEF Of, Commands
  <2>2. target' \in [Hosts -> SUBSET Nat] /\ held' \in [Hosts -> Queues \cup {None}]
    BY <1>13, <2>1 DEF LeaveQueue, IInv, TypeOK
  <2>3. QED
    BY <1>13, <2>2 DEF LeaveQueue, queueVars, runtime, expected, IInv, TypeOK, Commands
<1>14. ASSUME ReturnDev(h) PROVE TypeOK'
  <2>1. awaited' \in [Queues -> SUBSET Nat]
    BY <1>14 DEF ReturnDev, IInv, TypeOK
  <2>2. goal' \in [Hosts -> SUBSET Nat] /\ pc' \in [Hosts -> Labels] /\ dep' \in [Hosts -> Nat]
    BY <1>14 DEF ReturnDev, IInv, TypeOK, Labels
  <2>3. QED
    BY <1>14, <2>1, <2>2 DEF ReturnDev, queueVars, runtime, IInv, TypeOK, Commands
<1>15. QED
  BY <1>1, <1>2, <1>3, <1>4, <1>5, <1>6, <1>7, <1>8, <1>9, <1>10, <1>11, <1>12, <1>13, <1>14 DEF Program, Continue

-----------------------------------------------------------------------------
(* Steps                                                                   *)

\* The parts of the invariant that are not types.
Rest == RunInv /\ MustInv /\ LastInv /\ EventInv /\ AwaitInv /\ RegisteredInv /\ HostInv

\* A call that only moves its host, where the moved host is right.
LEMMA OnlyMoves ==
  ASSUME IInv, NEW h \in Hosts, HostOK(h)', alive' \subseteq alive,
         UNCHANGED <<queueOf, dependsOn, running, done, must, m_last_event, m_dependencies,
                     m_event, covered, awaited, m_queues>>,
         \A i \in Hosts \ {h} :
           /\ pc'[i] = pc[i] /\ goal'[i] = goal[i] /\ target'[i] = target[i] /\ todo'[i] = todo[i]
           /\ held'[i] = held[i] /\ dep'[i] = dep[i] /\ (i \in m_mutex => i \in m_mutex')
  PROVE  Rest'
<1>1. Extends /\ RunInv' /\ MustInv' /\ LastInv'
  BY QuietRuntime
<1>2. Kept /\ EventInv' /\ AwaitInv'
  BY <1>1, QuietQueues
<1>3. RegisteredInv'
  BY QuietDevice
<1>4. \A i \in Hosts : HostOK(i)'
  BY <1>1, <1>2, QuietHost
<1>5. QED
  BY <1>1, <1>2, <1>3, <1>4 DEF Rest, HostInv

\* A queue that registers an event waits for what it has waited for and for the event.
LEMMA RegisteredDeps ==
  ASSUME IInv, Extends, NEW q \in Queues, NEW ev, Registered(q, ev)
  PROVE  Kept /\ (ev # 0 => ev \in m_dependencies'[q])
<1>1. m_dependencies' = [m_dependencies EXCEPT ![q] = clean_dependencies(q) \cup ({ev} \ {0})]
  BY DEF Registered
<1>2. m_dependencies'[q] = clean_dependencies(q) \cup ({ev} \ {0})
  BY <1>1 DEF IInv, TypeOK
<1>3. \A f \in m_dependencies[q] : f \in m_dependencies'[q] \cup done \cup {0}
  BY <1>2 DEF clean_dependencies, isComplete
<1>4. \A p \in Queues \ {q} : m_dependencies'[p] = m_dependencies[p]
  BY <1>1 DEF IInv, TypeOK
<1>5. \A p \in Queues : \A f \in m_dependencies[p] : f \in m_dependencies'[p] \cup done \cup {0}
  BY <1>3, <1>4
<1>6. QED
  BY <1>2, <1>5, AwaitsStays DEF Kept

\* A wait for a queue covers the commands of the queue.
LEMMA MovesWaitQueue ==
  ASSUME IInv, NEW h \in Hosts, NEW q \in Queues, WaitQueue(h, q)
  PROVE  Rest'
<1>1. /\ UNCHANGED <<queueOf, dependsOn, running, done, must, m_last_event, m_dependencies,
                     m_event, covered, awaited, m_queues, alive, m_mutex, todo, dep>>
      /\ pc' = [pc EXCEPT ![h] = "wait"] /\ target' = [target EXCEPT ![h] = Of(q)]
      /\ goal' = [goal EXCEPT ![h] = Of(q)] /\ held' = [held EXCEPT ![h] = q]
  BY DEF WaitQueue, Wait, queueVars, runtime
<1>2. /\ pc'[h] = "wait" /\ target'[h] = Of(q) /\ goal'[h] = Of(q)
      /\ \A i \in Hosts \ {h} : pc'[i] = pc[i] /\ goal'[i] = goal[i] /\ target'[i] = target[i] /\ held'[i] = held[i]
  BY <1>1 DEF IInv, TypeOK
<1>3. \A b \in Of(q) : Covers(b, b)'
  BY <1>1 DEF Of, Covers, Commands
<1>4. HostOK(h)'
  BY <1>2, <1>3 DEF HostOK, InLoop
<1>5. QED
  BY <1>1, <1>2, <1>4, OnlyMoves

\* A wait for an event covers what the event covers.
LEMMA MovesWaitEvent ==
  ASSUME IInv, NEW h \in Hosts, NEW e \in Events, WaitEvent(h, e)
  PROVE  Rest'
<1>1. /\ UNCHANGED <<queueOf, dependsOn, running, done, must, m_last_event, m_dependencies,
                     m_event, covered, awaited, m_queues, alive, m_mutex, todo, dep, held>>
      /\ pc' = [pc EXCEPT ![h] = "wait"] /\ target' = [target EXCEPT ![h] = {m_event[e]} \ {0}]
      /\ goal' = [goal EXCEPT ![h] = covered[e]]
  BY DEF WaitEvent, queueVars, runtime
<1>2. /\ pc'[h] = "wait" /\ target'[h] = {m_event[e]} \ {0} /\ goal'[h] = covered[e]
      /\ \A i \in Hosts \ {h} : pc'[i] = pc[i] /\ goal'[i] = goal[i] /\ target'[i] = target[i]
  BY <1>1 DEF IInv, TypeOK
<1>3. \A b \in covered[e] : Covers(m_event[e], b) /\ m_event[e] # 0
  BY DEF IInv, EventInv, Covers, Commands
<1>4. \A b \in goal'[h] : \E f \in target'[h] : Covers(f, b)'
  BY <1>1, <1>2, <1>3 DEF Covers, Commands
<1>5. HostOK(h)'
  BY <1>2, <1>4 DEF HostOK, InLoop
<1>6. QED
  BY <1>1, <1>2, <1>5, OnlyMoves

\* The host holds the queue that it will register.
LEMMA MovesCreateQueue ==
  ASSUME IInv, NEW h \in Hosts, NEW q \in Queues, CreateQueue(h, q)
  PROVE  Rest'
<1>1. /\ UNCHANGED <<queueOf, dependsOn, running, done, must, m_last_event, m_dependencies,
                     m_event, covered, awaited, m_queues, alive, m_mutex, todo, dep, target, goal>>
      /\ pc' = [pc EXCEPT ![h] = "register"] /\ held' = [held EXCEPT ![h] = q]
  BY DEF CreateQueue, queueVars, runtime, expected
<1>2. /\ pc'[h] = "register" /\ held'[h] = q
      /\ \A i \in Hosts \ {h} : pc'[i] = pc[i] /\ held'[i] = held[i]
  BY <1>1 DEF IInv, TypeOK
<1>3. HostOK(h)'
  BY <1>2, SyclAssumption DEF HostOK, InLoop
<1>4. QED
  BY <1>1, <1>2, <1>3, OnlyMoves

\* The last owner of a queue waits for its commands.
LEMMA MovesDestroyQueue ==
  ASSUME IInv, NEW h \in Hosts, NEW q \in Queues, DestroyQueue(h, q)
  PROVE  Rest'
<1>1. /\ UNCHANGED <<queueOf, dependsOn, running, done, must, m_last_event, m_dependencies,
                     m_event, covered, awaited, m_queues, m_mutex, todo, dep>>
      /\ alive' = alive \ {q} /\ pc[h] = "idle"
  BY DEF DestroyQueue, Call, queueVars, runtime
<1>2. \A b \in Of(q) : Covers(b, b)'
  BY <1>1 DEF Of, Covers, Commands
<1>3. CASE UNCHANGED <<pc, target, goal, held>>
  <2>1. HostOK(h)'
    BY <1>1, <1>3 DEF HostOK, InLoop
  <2>2. QED
    BY <1>1, <1>3, <2>1, OnlyMoves
<1>4. CASE Wait(h, None, Of(q))
  <2>1. /\ pc' = [pc EXCEPT ![h] = "wait"] /\ target' = [target EXCEPT ![h] = Of(q)]
        /\ goal' = [goal EXCEPT ![h] = Of(q)] /\ held' = [held EXCEPT ![h] = None]
    BY <1>4 DEF Wait
  <2>2. /\ pc'[h] = "wait" /\ target'[h] = Of(q) /\ goal'[h] = Of(q)
        /\ \A i \in Hosts \ {h} : pc'[i] = pc[i] /\ goal'[i] = goal[i] /\ target'[i] = target[i] /\ held'[i] = held[i]
    BY <2>1 DEF IInv, TypeOK
  <2>3. HostOK(h)'
    BY <1>2, <2>2 DEF HostOK, InLoop
  <2>4. QED
    BY <1>1, <2>2, <2>3, OnlyMoves
<1>5. QED
  BY <1>3, <1>4 DEF DestroyQueue

\* The loop over the queues of the device begins with all of them.
LEMMA MovesCallDev ==
  ASSUME IInv, NEW h \in Hosts, NEW label, NEW event, NEW expectation,
         CallDev(h, label, event, expectation),
         \/ label = "devWait" /\ \A b \in expectation : b \in Commands /\ queueOf[b] \in alive
         \/ label = "devDependency" /\ \A b \in expectation : Covers(event, b)
  PROVE  Rest'
<1>1. /\ UNCHANGED <<queueOf, dependsOn, running, done, must, m_last_event, m_dependencies,
                     m_event, covered, awaited, m_queues, alive, target, held>>
      /\ m_mutex' = m_mutex \cup {h}
      /\ pc' = [pc EXCEPT ![h] = label] /\ todo' = [todo EXCEPT ![h] = m_queues]
      /\ dep' = [dep EXCEPT ![h] = event] /\ goal' = [goal EXCEPT ![h] = expectation]
  BY DEF CallDev, queueVars, runtime
<1>2. /\ pc'[h] = label /\ todo'[h] = m_queues /\ dep'[h] = event /\ goal'[h] = expectation
      /\ \A i \in Hosts \ {h} : pc'[i] = pc[i] /\ goal'[i] = goal[i] /\ todo'[i] = todo[i] /\ dep'[i] = dep[i]
  BY <1>1 DEF IInv, TypeOK
<1>3. \A q \in alive' : Lists(todo'[h], q)
  BY <1>1, <1>2 DEF IInv, RegisteredInv
<1>4. h \in m_mutex'
  BY <1>1
<1>5. CASE label = "devWait" /\ \A b \in expectation : b \in Commands /\ queueOf[b] \in alive
  <2>1. \A b \in goal'[h] : b \in Commands' /\ Lists(todo'[h], queueOf'[b])
    BY <1>1, <1>2, <1>3, <1>5 DEF Commands
  <2>2. QED
    <3>1. HostOK(h)'
      BY <1>2, <1>4, <1>5, <2>1 DEF HostOK, InLoop
    <3>2. QED
      BY <1>1, <1>2, <3>1, OnlyMoves
<1>6. CASE label = "devDependency" /\ \A b \in expectation : Covers(event, b)
  <2>1. \A b \in goal'[h] : Covers(dep[h], b)'
    BY <1>1, <1>2, <1>6 DEF Covers, Commands
  <2>2. QED
    <3>1. HostOK(h)'
      BY <1>2, <1>3, <1>4, <1>6, <2>1 DEF HostOK, InLoop
    <3>2. QED
      BY <1>1, <1>2, <3>1, OnlyMoves
<1>7. QED
  BY <1>5, <1>6

\* wait(dev) looks after the commands of all queues there are.
LEMMA MovesWaitDev ==
  ASSUME IInv, NEW h \in Hosts, WaitDev(h)
  PROVE  Rest'
<1>1. \A b \in UNION {Of(q) : q \in alive} : b \in Commands /\ queueOf[b] \in alive
  BY DEF Of
<1>2. QED
  BY <1>1, MovesCallDev DEF WaitDev

\* wait(dev, event) looks after what the event covers.
LEMMA MovesWaitDevForEvent ==
  ASSUME IInv, NEW h \in Hosts, NEW e \in Events, WaitDevForEvent(h, e)
  PROVE  Rest'
  BY MovesCallDev DEF WaitDevForEvent, IInv, EventInv

\* A host that has waited is idle again.
LEMMA MovesWaitEnds ==
  ASSUME IInv, NEW h \in Hosts, WaitEnds(h)
  PROVE  Rest'
<1>1. /\ UNCHANGED <<queueOf, dependsOn, running, done, must, m_last_event, m_dependencies,
                     m_event, covered, awaited, m_queues, alive, m_mutex, todo, dep>>
      /\ pc' = [pc EXCEPT ![h] = "idle"] /\ target' = [target EXCEPT ![h] = {}]
      /\ goal' = [goal EXCEPT ![h] = {}] /\ held' = [held EXCEPT ![h] = None]
  BY DEF WaitEnds, queueVars, runtime
<1>2. /\ pc'[h] = "idle"
      /\ \A i \in Hosts \ {h} : pc'[i] = pc[i] /\ goal'[i] = goal[i] /\ target'[i] = target[i] /\ held'[i] = held[i]
  BY <1>1 DEF IInv, TypeOK
<1>3. HostOK(h)'
  BY <1>2 DEF HostOK, InLoop
<1>4. QED
  BY <1>1, <1>2, <1>3, OnlyMoves

\* LeaveQueue drops a target that is complete.
LEMMA MovesLeaveQueue ==
  ASSUME IInv, NEW h \in Hosts, LeaveQueue(h)
  PROVE  Rest'
<1>1. /\ UNCHANGED <<queueOf, dependsOn, running, done, must, m_last_event, m_dependencies,
                     m_event, covered, awaited, m_queues, alive, m_mutex, todo, dep, pc, goal>>
      /\ InLoop(h) /\ target[h] \subseteq done /\ held' = [held EXCEPT ![h] = None]
      /\ \A i \in Hosts \ {h} : target'[i] = target[i]
  BY DEF LeaveQueue, queueVars, runtime, expected, IInv, TypeOK
<1>2. \A i \in Hosts \ {h} : held'[i] = held[i]
  BY <1>1 DEF IInv, TypeOK
<1>3. HostOK(h) /\ Commands' = Commands
  BY <1>1 DEF IInv, HostInv, Commands
<1>4. CASE pc[h] = "devWait"
  <2>1. \A b \in goal[h] : b \in Commands /\ (b \in done \/ (queueOf[b] \in alive => Lists(todo[h], queueOf[b])))
    BY <1>1, <1>3, <1>4 DEF HostOK
  <2>2. HostOK(h)'
    BY <1>1, <1>3, <1>4, <2>1 DEF HostOK, InLoop, Lists
  <2>3. QED
    BY <1>1, <1>2, <2>2, OnlyMoves
<1>5. CASE pc[h] = "devDependency"
  <2>1. /\ \A b \in goal[h] : Covers(dep[h], b)
        /\ \A q \in alive : Lists(todo[h], q) \/ \A b \in goal[h] : Awaits(q, b)
    BY <1>3, <1>5 DEF HostOK
  <2>2. Extends
    BY <1>1, QuietRuntime
  <2>3. Kept
    BY <1>1, <2>2, QuietQueues
  <2>4. \A b \in goal'[h] : Covers(dep[h], b)'
    BY <1>1, <2>1, <2>2, CoversStays
  <2>5. \A q \in alive' : Lists(todo'[h], q) \/ \A b \in goal'[h] : Awaits(q, b)'
    BY <1>1, <2>1, <2>3 DEF Kept, IInv, TypeOK
  <2>6. h \in m_mutex' /\ pc'[h] = "devDependency"
    BY <1>1, <1>3, <1>5 DEF HostOK, InLoop
  <2>7. HostOK(h)'
    BY <2>4, <2>5, <2>6 DEF HostOK, InLoop
  <2>8. QED
    BY <1>1, <1>2, <2>7, OnlyMoves
<1>6. QED
  BY <1>1, <1>4, <1>5 DEF InLoop

\* NextQueue skips a queue that has expired, waits for all of it, or registers
\* the event in it.
LEMMA MovesNextQueue ==
  ASSUME IInv, NEW h \in Hosts, NextQueue(h)
  PROVE  Rest'
<1>1. /\ UNCHANGED <<queueOf, dependsOn, running, done, must, m_last_event, m_event, covered, awaited,
                     m_queues, alive, m_mutex, dep, pc, goal>>
      /\ InLoop(h) /\ held[h] = None /\ target[h] = {}
      /\ todo[h] # <<>> /\ todo' = [todo EXCEPT ![h] = Tail(todo[h])]
  BY DEF NextQueue, BetweenQueues, runtime, expected
<1>2. todo[h] \in Seq(Queues) /\ todo'[h] = Tail(todo[h]) /\ \A i \in Hosts \ {h} : todo'[i] = todo[i]
  BY <1>1 DEF IInv, TypeOK
<1>3. PICK q \in Queues : q = Head(todo[h]) /\ \A p : Lists(todo[h], p) => p = q \/ Lists(todo'[h], p)
  <2>1. Head(todo[h]) \in Queues /\ Head(todo[h]) = todo[h][1] /\ Len(Tail(todo[h])) = Len(todo[h]) - 1 /\ Len(todo[h]) \in Nat
        /\ \A i \in 1..Len(Tail(todo[h])) : Tail(todo[h])[i] = todo[h][i + 1]
    BY <1>1, <1>2
  <2>2. ASSUME NEW i \in 1..Len(todo[h]), i # 1
        PROVE  i - 1 \in 1..Len(Tail(todo[h])) /\ Tail(todo[h])[i - 1] = todo[h][i]
    <3>1. i - 1 \in 1..Len(Tail(todo[h])) /\ (i - 1) + 1 = i
      BY <2>1, <2>2
    <3>2. QED
      BY <2>1, <3>1
  <2>3. QED
    BY <1>2, <2>1, <2>2 DEF Lists
<1>4. Extends /\ RunInv' /\ MustInv' /\ LastInv' /\ RegisteredInv'
  BY <1>1, QuietRuntime, QuietDevice
<1>5. EventInv' /\ (UNCHANGED m_dependencies => Kept) /\ (Kept => AwaitInv')
  BY <1>1, <1>4, QuietQueues
<1>6. HostOK(h) /\ h \in m_mutex' /\ Commands' = Commands
  BY <1>1 DEF IInv, HostInv, HostOK, Commands
<1>7. ASSUME Kept, HostOK(h)', \A i \in Hosts \ {h} : target'[i] = target[i] /\ held'[i] = held[i]
      PROVE  Rest'
  <2>1. \A i \in Hosts : HostOK(i)'
    BY <1>1, <1>2, <1>4, <1>7, QuietHost
  <2>2. QED
    BY <1>4, <1>5, <1>7, <2>1 DEF Rest, HostInv
<1>8. CASE Expired(q)
  <2>1. UNCHANGED <<held, target, m_dependencies>> /\ q \notin alive
    BY <1>3, <1>8 DEF NextQueue, Expired
  <2>2. Kept
    BY <1>5, <2>1
  <2>3. \A p \in alive' : Lists(todo[h], p) => Lists(todo'[h], p)
    BY <1>1, <1>3, <2>1
  <2>4. CASE pc[h] = "devWait"
    <3>1. \A b \in goal'[h] : b \in Commands' /\ (b \in done' \/ b \in target'[h]
                                 \/ (queueOf'[b] \in alive' => Lists(todo'[h], queueOf'[b])))
      BY <1>1, <1>6, <2>1, <2>3, <2>4 DEF HostOK
    <3>2. HostOK(h)'
      BY <1>1, <1>6, <2>4, <3>1 DEF HostOK, InLoop
    <3>3. QED
      BY <1>7, <2>1, <2>2, <3>2
  <2>5. CASE pc[h] = "devDependency"
    <3>1. \A b \in goal'[h] : Covers(dep[h], b)'
      BY <1>1, <1>4, <1>6, <2>5, CoversStays DEF HostOK
    <3>2. \A p \in alive' : Lists(todo'[h], p) \/ \A b \in goal'[h] : Awaits(p, b)'
      BY <1>1, <1>6, <2>2, <2>3, <2>5 DEF HostOK, Kept, IInv, TypeOK
    <3>3. HostOK(h)'
      BY <1>1, <1>6, <2>5, <3>1, <3>2 DEF HostOK, InLoop
    <3>4. QED
      BY <1>7, <2>1, <2>2, <3>3
  <2>6. QED
    BY <1>1, <2>4, <2>5 DEF InLoop
<1>9. CASE ~Expired(q) /\ pc[h] = "devWait"
  <2>1. /\ held' = [held EXCEPT ![h] = q] /\ target' = [target EXCEPT ![h] = Of(q)]
        /\ UNCHANGED m_dependencies
    BY <1>3, <1>9 DEF NextQueue
  <2>2. /\ target'[h] = Of(q)
        /\ \A i \in Hosts \ {h} : target'[i] = target[i] /\ held'[i] = held[i]
    BY <2>1 DEF IInv, TypeOK
  <2>3. \A b \in goal'[h] : b \in Commands' /\ (b \in done' \/ b \in target'[h]
                               \/ (queueOf'[b] \in alive' => Lists(todo'[h], queueOf'[b])))
    BY <1>1, <1>3, <1>6, <1>9, <2>2 DEF HostOK, Of
  <2>4. HostOK(h)'
    BY <1>1, <1>6, <1>9, <2>3 DEF HostOK, InLoop
  <2>5. QED
    BY <1>5, <1>7, <2>1, <2>2, <2>4
<1>10. CASE ~Expired(q) /\ pc[h] = "devDependency"
  <2>1. held' = [held EXCEPT ![h] = q] /\ Registered(q, dep[h]) /\ UNCHANGED target
    BY <1>3, <1>10 DEF NextQueue
  <2>2. \A i \in Hosts \ {h} : target'[i] = target[i] /\ held'[i] = held[i]
    BY <2>1 DEF IInv, TypeOK
  <2>3. Kept /\ (dep[h] # 0 => dep[h] \in m_dependencies'[q])
    BY <1>3, <1>4, <2>1, RegisteredDeps
  <2>4. \A b \in goal[h] : Covers(dep[h], b) /\ dep[h] # 0
    BY <1>6, <1>10 DEF HostOK, Covers, Commands
  <2>5. \A b \in goal'[h] : Covers(dep[h], b)'
    BY <1>1, <1>4, <2>4, CoversStays
  <2>6. \A b \in goal'[h] : Awaits(q, b)'
    BY <1>1, <2>3, <2>4, <2>5 DEF Awaits
  <2>7. \A p \in alive' : Lists(todo'[h], p) \/ \A b \in goal'[h] : Awaits(p, b)'
    <3>1. ASSUME NEW p \in alive', ~Lists(todo'[h], p), p # q
          PROVE  \A b \in goal'[h] : Awaits(p, b)'
      BY <1>1, <1>3, <1>6, <1>10, <2>3, <3>1 DEF HostOK, Kept, IInv, TypeOK
    <3>2. QED
      BY <2>6, <3>1
  <2>8. HostOK(h)'
    BY <1>1, <1>6, <1>10, <2>5, <2>7 DEF HostOK, InLoop
  <2>9. QED
    BY <1>7, <2>2, <2>3, <2>8
<1>11. QED
  BY <1>1, <1>8, <1>9, <1>10 DEF InLoop

\* After its loop a wait of the device has told all queues to wait.
LEMMA MovesReturnDev ==
  ASSUME IInv, NEW h \in Hosts, ReturnDev(h)
  PROVE  Rest'
<1>1. /\ UNCHANGED <<queueOf, dependsOn, running, done, must, m_last_event, m_dependencies, m_event, covered,
                     m_queues, alive, target, todo, held>>
      /\ m_mutex' = m_mutex \ {h} /\ pc' = [pc EXCEPT ![h] = "idle"]
      /\ goal' = [goal EXCEPT ![h] = {}] /\ dep' = [dep EXCEPT ![h] = 0]
      /\ InLoop(h) /\ todo[h] = <<>>
  BY DEF ReturnDev, BetweenQueues, queueVars, runtime
<1>2. /\ pc'[h] = "idle"
      /\ \A i \in Hosts \ {h} : pc'[i] = pc[i] /\ goal'[i] = goal[i] /\ dep'[i] = dep[i]
  BY <1>1 DEF IInv, TypeOK
<1>3. Extends /\ RunInv' /\ MustInv' /\ LastInv' /\ RegisteredInv'
  BY <1>1, QuietRuntime, QuietDevice
<1>4. Kept /\ EventInv'
  BY <1>1, <1>3, QuietQueues
<1>5. HostOK(h)'
  BY <1>2 DEF HostOK, InLoop
<1>6. \A i \in Hosts : HostOK(i)'
  BY <1>1, <1>2, <1>3, <1>4, <1>5, QuietHost
<1>7. \A q \in alive : pc[h] = "devDependency" => \A b \in goal[h] : Awaits(q, b)
  BY <1>1 DEF IInv, HostInv, HostOK, Lists
<1>8. ASSUME NEW q \in Queues, NEW b \in awaited'[q]
      PROVE  Awaits(q, b)
  <2>1. \/ b \in awaited[q]
        \/ pc[h] # "devWait" /\ q \in alive /\ b \in goal[h]
    BY <1>8 DEF ReturnDev
  <2>2. QED
    BY <1>1, <1>7, <2>1 DEF IInv, AwaitInv, InLoop
<1>9. AwaitInv'
  BY <1>4, <1>8 DEF AwaitInv, Kept
<1>10. QED
  BY <1>3, <1>4, <1>6, <1>9 DEF Rest, HostInv

\* register_queue lists the new queue and keeps those that have not expired.
LEMMA MovesRegisterQueue ==
  ASSUME IInv, NEW h \in Hosts, register_queue(h)
  PROVE  Rest'
<1>1. /\ UNCHANGED <<queueOf, dependsOn, running, done, must, m_last_event, m_dependencies, m_event, covered,
                     awaited, target, todo, dep, goal, m_mutex>>
      /\ m_mutex = {} /\ pc' = [pc EXCEPT ![h] = "idle"] /\ held' = [held EXCEPT ![h] = None]
      /\ alive' = alive \cup {held[h]} /\ m_queues' = Append(clean_queues, held[h])
      /\ pc[h] = "register"
  BY DEF register_queue, queueVars, runtime, expected
<1>2. /\ pc'[h] = "idle"
      /\ \A i \in Hosts \ {h} : pc'[i] = pc[i] /\ held'[i] = held[i]
  BY <1>1 DEF IInv, TypeOK
<1>3. Extends /\ RunInv' /\ MustInv' /\ LastInv'
  BY <1>1, QuietRuntime
<1>4. Kept /\ EventInv' /\ AwaitInv'
  BY <1>1, <1>3, QuietQueues
<1>5. HostOK(h)'
  BY <1>2 DEF HostOK, InLoop
<1>6. \A i \in Hosts : HostOK(i)'
  BY <1>1, <1>2, <1>3, <1>4, <1>5, QuietHost
<1>7. RegisteredInv'
  <2>1. held[h] \in Queues /\ clean_queues \in Seq(Queues)
    BY <1>1, CleanQueuesLists DEF IInv, TypeOK, HostInv, HostOK
  <2>2. \A q \in alive : Lists(clean_queues, q)
    BY CleanQueuesLists DEF IInv, TypeOK, RegisteredInv, Expired
  <2>3. \A q : Lists(clean_queues, q) \/ q = held[h] => Lists(m_queues', q)
    BY <1>1, <2>1 DEF Lists
  <2>4. QED
    BY <1>1, <2>2, <2>3 DEF RegisteredInv
<1>8. QED
  BY <1>3, <1>4, <1>6, <1>7 DEF Rest, HostInv

\* The queue waits for what the event covers.
LEMMA MovesQueueWait ==
  ASSUME IInv, NEW h \in Hosts, NEW q \in Queues, NEW e \in Events, QueueWait(h, q, e)
  PROVE  Rest'
<1>1. /\ UNCHANGED <<queueOf, dependsOn, running, done, must, m_last_event, m_event, covered, m_queues,
                     alive, m_mutex, todo, dep, pc, target, held, goal>>
      /\ Registered(q, m_event[e]) /\ awaited' = [awaited EXCEPT ![q] = @ \cup covered[e]]
  BY DEF QueueWait, runtime
<1>2. Extends /\ RunInv' /\ MustInv' /\ LastInv' /\ RegisteredInv'
  BY <1>1, QuietRuntime, QuietDevice
<1>3. Kept /\ (m_event[e] # 0 => m_event[e] \in m_dependencies'[q])
  BY <1>1, <1>2, RegisteredDeps
<1>4. EventInv' /\ \A i \in Hosts : HostOK(i)'
  BY <1>1, <1>2, <1>3, QuietQueues, QuietHost
<1>5. ASSUME NEW b \in covered[e]
      PROVE  Awaits(q, b)'
  <2>1. Covers(m_event[e], b)
    BY DEF IInv, EventInv
  <2>2. m_event[e] # 0
    BY <2>1 DEF Covers, Commands
  <2>3. PICK f : f = m_event[e]
    OBVIOUS
  <2>4. Covers(f, b)' /\ f \in m_dependencies'[q]
    BY <1>2, <1>3, <2>1, <2>2, <2>3, CoversStays
  <2>5. QED
    BY <2>4 DEF Awaits
<1>6. ASSUME NEW p \in Queues, NEW b \in awaited'[p]
      PROVE  Awaits(p, b)'
  <2>1. b \in awaited[p] \/ (p = q /\ b \in covered[e])
    BY <1>1, <1>6 DEF IInv, TypeOK
  <2>2. QED
    BY <1>3, <1>5, <2>1 DEF IInv, AwaitInv, Kept
<1>7. QED
  BY <1>2, <1>4, <1>6 DEF Rest, HostInv, AwaitInv

\* The last event of a queue covers all commands of the queue.
LEMMA MovesEnqueueEvent ==
  ASSUME IInv, ~Transitive, NEW h \in Hosts, NEW q \in Queues, NEW e \in Events, EnqueueEvent(h, q, e)
  PROVE  Rest'
<1>1. /\ UNCHANGED <<queueOf, dependsOn, running, done, must, m_last_event, m_dependencies, awaited,
                     m_queues, alive, m_mutex, todo, dep, pc, target, held, goal>>
      /\ m_event' = [m_event EXCEPT ![e] = m_last_event[q]]
      /\ covered' = [covered EXCEPT ![e] = Of(q)]
  BY DEF EnqueueEvent, queueVars, runtime
<1>2. Extends /\ RunInv' /\ MustInv' /\ LastInv' /\ RegisteredInv'
  BY <1>1, QuietRuntime, QuietDevice
<1>3. Kept /\ AwaitInv' /\ \A i \in Hosts : HostOK(i)'
  BY <1>1, <1>2, QuietQueues, QuietHost
<1>4. ASSUME NEW x \in Events, NEW b \in covered'[x]
      PROVE  Covers(m_event[x], b)'
  <2>1. CASE x = e
    <3>1. covered'[e] = Of(q) /\ m_event'[e] = m_last_event[q]
      BY <1>1 DEF IInv, TypeOK
    <3>2. Covers(m_last_event[q], b)
      BY <1>4, <2>1, <3>1 DEF Of, IInv, LastInv
    <3>3. QED
      BY <1>1, <2>1, <3>1, <3>2 DEF Covers, Commands
  <2>2. CASE x # e
    BY <1>1, <1>4, <2>2 DEF IInv, TypeOK, EventInv, Covers, Commands
  <2>3. QED
    BY <2>1, <2>2
<1>5. QED
  BY <1>2, <1>3, <1>4 DEF Rest, HostInv, EventInv

\* A submission adds a command after all others of its queue, and gives it the
\* dependencies that are not complete.
LEMMA Submission ==
  ASSUME IInv, NEW h \in Hosts, NEW q \in Queues, Enqueue(h, q)
  PROVE  LET n == Len(queueOf) + 1 IN
         /\ Commands' = Commands \cup {n} /\ n \notin Commands /\ n \in Nat /\ (\A c \in Commands : c < n)
         /\ queueOf'[n] = q /\ dependsOn'[n] = clean_dependencies(q) /\ must'[n] = Of(q) \cup awaited[q]
         /\ \A c \in Commands : queueOf'[c] = queueOf[c] /\ dependsOn'[c] = dependsOn[c] /\ must'[c] = must[c]
         /\ m_last_event'[q] = n /\ m_dependencies'[q] = {}
         /\ \A p \in Queues \ {q} : m_last_event'[p] = m_last_event[p] /\ m_dependencies'[p] = m_dependencies[p]
         /\ UNCHANGED <<running, done, awaited, m_event, covered, m_queues, alive, m_mutex, todo, dep>>
<1> DEFINE n == Len(queueOf) + 1
<1>1. /\ queueOf \in Seq(Queues) /\ dependsOn \in Seq(SUBSET Nat) /\ must \in Seq(SUBSET Nat)
      /\ Len(dependsOn) = Len(queueOf) /\ Len(must) = Len(queueOf) /\ Len(queueOf) \in Nat
  BY DEF IInv, TypeOK
<1>2. /\ queueOf' = Append(queueOf, q) /\ dependsOn' = Append(dependsOn, clean_dependencies(q))
      /\ must' = Append(must, Of(q) \cup awaited[q])
      /\ m_last_event' = [m_last_event EXCEPT ![q] = n]
      /\ m_dependencies' = [m_dependencies EXCEPT ![q] = {}]
      /\ UNCHANGED <<running, done, awaited, m_event, covered, m_queues, alive, m_mutex, todo, dep>>
  BY DEF Enqueue
<1>3. \A S : \A s \in Seq(S) : \A x \in S : /\ Append(s, x)[Len(s) + 1] = x /\ Len(Append(s, x)) = Len(s) + 1
                                            /\ \A c \in 1..Len(s) : Append(s, x)[c] = s[c]
  OBVIOUS
<1>4. clean_dependencies(q) \in SUBSET Nat /\ Of(q) \cup awaited[q] \in SUBSET Nat
  BY DEF IInv, TypeOK, clean_dependencies, Of, Commands
<1>5. queueOf'[n] = q /\ Len(queueOf') = n /\ \A c \in 1..Len(queueOf) : queueOf'[c] = queueOf[c]
  BY <1>1, <1>2, <1>3
<1>6. dependsOn'[n] = clean_dependencies(q) /\ \A c \in 1..Len(queueOf) : dependsOn'[c] = dependsOn[c]
  BY <1>1, <1>2, <1>3, <1>4
<1>7. must'[n] = Of(q) \cup awaited[q] /\ \A c \in 1..Len(queueOf) : must'[c] = must[c]
  BY <1>1, <1>2, <1>3, <1>4
<1>8. Commands' = Commands \cup {n} /\ n \notin Commands /\ n \in Nat /\ (\A c \in Commands : c < n)
  BY <1>1, <1>5 DEF Commands
<1>9. /\ m_last_event'[q] = n /\ m_dependencies'[q] = {}
      /\ \A p \in Queues \ {q} : m_last_event'[p] = m_last_event[p] /\ m_dependencies'[p] = m_dependencies[p]
  BY <1>2 DEF IInv, TypeOK
<1>10. QED
  BY <1>2, <1>5, <1>6, <1>7, <1>8, <1>9 DEF Commands

\* After a submission the dependencies are with the new command.
LEMMA MovesEnqueue ==
  ASSUME IInv, NEW h \in Hosts, NEW q \in Queues, Enqueue(h, q)
  PROVE  Rest'
<1>n. PICK n : n = Len(queueOf) + 1
  OBVIOUS
<1>1. /\ Commands' = Commands \cup {n} /\ n \notin Commands /\ n \in Nat /\ (\A c \in Commands : c < n)
      /\ queueOf'[n] = q /\ dependsOn'[n] = clean_dependencies(q) /\ must'[n] = Of(q) \cup awaited[q]
      /\ \A c \in Commands : queueOf'[c] = queueOf[c] /\ dependsOn'[c] = dependsOn[c] /\ must'[c] = must[c]
      /\ m_last_event'[q] = n /\ m_dependencies'[q] = {}
      /\ \A p \in Queues \ {q} : m_last_event'[p] = m_last_event[p] /\ m_dependencies'[p] = m_dependencies[p]
      /\ UNCHANGED <<running, done, awaited, m_event, covered, m_queues, alive, m_mutex, todo, dep>>
  BY <1>n, Submission
<1>2. Extends /\ Commands \subseteq Nat
  BY <1>1 DEF Extends, Commands
<1>3. \A f \in m_dependencies[q] : f \in done \cup {0} \/ f \in dependsOn'[n]
  BY <1>1 DEF clean_dependencies, isComplete
<1>4. Kept
  <2>1. ASSUME NEW p \in Queues, NEW b, Awaits(p, b) PROVE Awaits(p, b)'
    <3>1. \A f \in m_dependencies[p] : \/ f \in m_dependencies'[p] \cup done \cup {0}
                                       \/ \E d \in Commands' : queueOf'[d] = p /\ f \in dependsOn'[d]
      BY <1>1, <1>3
    <3>2. QED
      BY <1>2, <2>1, <3>1, AwaitsStays
  <2>2. QED
    BY <2>1 DEF Kept
<1>5. EventInv' /\ AwaitInv' /\ RegisteredInv'
  BY <1>1, <1>2, <1>4, QuietQueues, QuietDevice
<1>6. RunInv'
  <2>1. \A c \in running \cup done : c \in Commands
    BY DEF IInv, TypeOK
  <2>2. ASSUME NEW c \in running' \cup done', NEW b \in Commands', queueOf'[b] = queueOf'[c], b < c
        PROVE  b \in done'
    <3>1. c \in Commands /\ c < n /\ b # n
      BY <1>1, <1>2, <2>1, <2>2
    <3>2. b \in Commands /\ queueOf[b] = queueOf[c]
      BY <1>1, <2>2, <3>1
    <3>3. QED
      BY <1>1, <2>2, <3>2 DEF IInv, RunInv
  <2>3. \A c \in running' \cup done' : dependsOn'[c] \subseteq done'
    BY <1>1, <2>1 DEF IInv, RunInv
  <2>4. QED
    BY <2>2, <2>3 DEF RunInv
<1>7. LastInv'
  <2>1. ASSUME NEW p \in Queues, NEW b \in Commands', queueOf'[b] = p
        PROVE  Covers(m_last_event[p], b)'
    <3>1. CASE p = q
      BY <1>1, <1>2, <2>1, <3>1 DEF Covers
    <3>2. CASE p # q
      <4>1. b \in Commands /\ Covers(m_last_event[p], b)
        BY <1>1, <2>1, <3>2 DEF IInv, LastInv
      <4>2. QED
        BY <1>1, <3>2, <4>1 DEF Covers
    <3>3. QED
      BY <3>1, <3>2
  <2>2. QED
    BY <2>1 DEF LastInv
<1>8. MustInv'
  <2>1. ASSUME NEW c \in Commands, NEW b \in must'[c] PROVE RunsAfter(c, b)'
    BY <1>1, <1>2, <2>1, CoversStays DEF IInv, MustInv
  <2>2. ASSUME NEW b \in Of(q) PROVE RunsAfter(n, b)'
    BY <1>1, <2>2 DEF Of, RunsAfter
  <2>3. ASSUME NEW b \in awaited[q] PROVE RunsAfter(n, b)'
    <3>1. Awaits(q, b)
      BY <2>3 DEF IInv, AwaitInv
    <3>2. CASE b \in done
      BY <1>1, <3>2 DEF RunsAfter
    <3>3. ASSUME NEW d \in Commands, queueOf[d] = q, Gave(d, b) PROVE RunsAfter(n, b)'
      <4>1. Gave(d, b)' /\ d \in Commands' /\ queueOf'[d] = queueOf'[n] /\ d <= n
        BY <1>1, <1>2, <3>3, CoversStays
      <4>2. QED
        BY <4>1 DEF RunsAfter
    <3>4. ASSUME NEW f \in m_dependencies[q], Covers(f, b) PROVE RunsAfter(n, b)'
      <4>1. f # 0
        BY <3>4 DEF Covers, Commands
      <4>2. Covers(f, b)'
        BY <1>2, <3>4, CoversStays
      <4>3. CASE f \in done
        <5>1. b \in done'
          BY <1>1, <3>4, <4>3, DoneCovers
        <5>2. QED
          BY <5>1 DEF RunsAfter
      <4>4. CASE f \in dependsOn'[n]
        <5>1. Gave(n, b)' /\ n \in Commands' /\ n <= n
          BY <1>1, <4>2, <4>4 DEF Gave
        <5>2. QED
          BY <5>1 DEF RunsAfter
      <4>5. QED
        BY <1>3, <4>1, <4>3, <4>4
    <3>5. QED
      BY <3>1, <3>2, <3>3, <3>4 DEF Awaits
  <2>4. QED
    BY <1>1, <2>1, <2>2, <2>3 DEF MustInv
<1>9. \A i \in Hosts : HostOK(i)'
  <2>1. CASE UNCHANGED <<pc, target, goal, held>>
    BY <1>1, <1>2, <1>4, <2>1, QuietHost
  <2>2. CASE Wait(h, q, Of(q) \cup {n})
    <3>1. /\ pc'[h] = "wait" /\ target'[h] = Of(q) \cup {n} /\ goal'[h] = Of(q) \cup {n}
          /\ \A i \in Hosts \ {h} : pc'[i] = pc[i] /\ goal'[i] = goal[i] /\ target'[i] = target[i] /\ held'[i] = held[i]
      BY <2>2 DEF Wait, IInv, TypeOK
    <3>2. \A b \in Of(q) \cup {n} : Covers(b, b)'
      BY <1>1, <1>2 DEF Of, Covers
    <3>3. HostOK(h)'
      BY <3>1, <3>2 DEF HostOK, InLoop
    <3>4. QED
      BY <1>1, <1>2, <1>4, <3>1, <3>3, QuietHost
  <2>3. QED
    BY <1>n, <2>1, <2>2 DEF Enqueue
<1>10. QED
  BY <1>5, <1>6, <1>7, <1>8, <1>9 DEF Rest, HostInv

\* The runtime starts a command after all it depends on.
LEMMA RuntimeSteps ==
  ASSUME IInv, NEW c \in Commands, Start(c) \/ Complete(c)
  PROVE  TypeOK' /\ Rest'
<1>1. /\ UNCHANGED <<queueOf, dependsOn, must, m_last_event, m_dependencies, m_event, covered, awaited,
                     m_queues, alive, m_mutex, todo, dep, pc, target, held, goal>>
      /\ done \subseteq done' /\ running' \cup done' \subseteq running \cup done \cup {c}
      /\ done' \subseteq Commands
  BY DEF Start, Complete, queueVars, expected, IInv, TypeOK
<1>2. Extends /\ Commands' = Commands
  BY <1>1 DEF Extends, Commands
<1>3. TypeOK'
  BY <1>1, <1>2 DEF IInv, TypeOK
<1>4. RunInv'
  <2>1. /\ \A b \in Commands : queueOf[b] = queueOf[c] /\ b < c => b \in done
        /\ dependsOn[c] \subseteq done
    BY DEF Start, Complete, Of, IInv, RunInv
  <2>2. QED
    BY <1>1, <1>2, <2>1 DEF IInv, RunInv
<1>5. Kept /\ EventInv' /\ AwaitInv' /\ RegisteredInv'
  BY <1>1, <1>2, QuietQueues, QuietDevice
<1>6. MustInv' /\ LastInv'
  BY <1>1, <1>2, CoversStays DEF IInv, MustInv, LastInv
<1>7. \A i \in Hosts : HostOK(i)'
  BY <1>1, <1>2, <1>5, QuietHost
<1>8. QED
  BY <1>3, <1>4, <1>5, <1>6, <1>7 DEF Rest, HostInv

-----------------------------------------------------------------------------
(* The theorems                                                            *)

\* The invariant holds in the initial states, where the device lists the queues
\* that exist.
LEMMA Initially ==
  ASSUME Init PROVE IInv
<1>1. m_queues \in Seq(Existing) /\ \A q \in Existing : Lists(m_queues, q)
  BY SyclAssumption, SetToSeqLists DEF Init
<1>2. m_queues \in Seq(Queues)
  BY <1>1, SyclAssumption
<1>3. queueOf = <<>> /\ dependsOn = <<>> /\ must = <<>> /\ Commands = {}
  BY DEF Init, Commands
<1>4. TypeOK
  BY <1>2, <1>3, SyclAssumption DEF Init, TypeOK, Labels
<1>5. RunInv /\ MustInv /\ LastInv /\ EventInv /\ AwaitInv
  BY <1>3, <1>4 DEF Init, RunInv, MustInv, LastInv, EventInv, AwaitInv, TypeOK
<1>6. RegisteredInv
  BY <1>1 DEF Init, RegisteredInv
<1>7. HostInv
  BY DEF Init, HostInv, HostOK, InLoop
<1>8. QED
  BY <1>4, <1>5, <1>6, <1>7 DEF IInv

\* Every step keeps the invariant.
LEMMA Preserved ==
  ASSUME IInv, ~Transitive, [Next]_vars PROVE IInv'
<1>1. ASSUME NEW h \in Hosts, Program(h) \/ Continue(h) PROVE IInv'
  <2>1. TypeOK'
    BY <1>1, TypesOfProgram
  <2>2. CASE Program(h)
    BY <2>1, <2>2, MovesEnqueue, MovesWaitQueue, MovesCreateQueue, MovesDestroyQueue, MovesEnqueueEvent,
       MovesQueueWait, MovesWaitEvent, MovesWaitDevForEvent, MovesWaitDev DEF Program, Rest, IInv
  <2>3. CASE Continue(h)
    BY <2>1, <2>3, MovesWaitEnds, MovesRegisterQueue, MovesNextQueue, MovesLeaveQueue, MovesReturnDev
       DEF Continue, Rest, IInv
  <2>4. QED
    BY <1>1, <2>2, <2>3
<1>2. ASSUME NEW c \in Commands, Start(c) \/ Complete(c) PROVE IInv'
  BY <1>2, RuntimeSteps DEF Rest, IInv
<1>3. ASSUME UNCHANGED vars PROVE IInv'
  BY <1>3 DEF vars, queueVars, runtime, expected, IInv, TypeOK, RunInv, MustInv, LastInv, EventInv, AwaitInv,
     RegisteredInv, HostInv, HostOK, InLoop, Lists, Awaits, RunsAfter, Gave, Covers, Commands
<1>4. QED
  BY <1>1, <1>2, <1>3 DEF Next

\* The invariant holds in every behaviour.
THEOREM Invariance ==
  ASSUME ~Transitive PROVE Spec => []IInv
<1>1. Init => IInv
  BY Initially
<1>2. IInv /\ [Next]_vars => IInv'
  BY Preserved
<1>3. QED
  BY <1>1, <1>2, PTL DEF Spec

\* A command runs only after all that its queue was told to wait for.
THEOREM CommandsWait ==
  ASSUME ~Transitive PROVE Spec => []StartsAfterDependencies
<1>1. ASSUME IInv, NEW c \in running \cup done, NEW b \in must[c] PROVE b \in done
  <2>1. c \in Commands /\ RunsAfter(c, b)
    BY <1>1 DEF IInv, TypeOK, MustInv
  <2>2. CASE b \in Commands /\ b < c /\ queueOf[b] = queueOf[c]
    BY <1>1, <2>2 DEF IInv, RunInv
  <2>3. ASSUME NEW d \in Commands, d <= c, queueOf[d] = queueOf[c], Gave(d, b) PROVE b \in done
    <3>1. d \in running \cup done
      BY <1>1, <2>1, <2>3 DEF IInv, RunInv, Commands
    <3>2. PICK f \in dependsOn[d] : Covers(f, b)
      BY <2>3 DEF Gave
    <3>3. f \in done
      BY <1>1, <3>1, <3>2 DEF IInv, RunInv
    <3>4. QED
      BY <1>1, <3>2, <3>3, DoneCovers
  <2>4. QED
    BY <2>1, <2>2, <2>3 DEF RunsAfter
<1>2. IInv => StartsAfterDependencies
  BY <1>1 DEF StartsAfterDependencies
<1>3. QED
  BY <1>2, Invariance, PTL

\* When a wait returns, what it was to wait for is complete.
THEOREM WaitsAreComplete ==
  ASSUME ~Transitive PROVE Spec => WaitsCover
<1> DEFINE Covered(h) == pc[h] \in {"wait", "devWait"} /\ pc'[h] = "idle" =>
                           \A c \in goal[h] : c \in done \/ (pc[h] = "devWait" /\ queueOf[c] \notin alive)
<1>1. ASSUME IInv, Next, NEW h \in Hosts, pc[h] \in {"wait", "devWait"}, pc'[h] = "idle"
      PROVE  WaitEnds(h) \/ ReturnDev(h)
  <2>1. ASSUME NEW i \in Hosts, Program(i) PROVE pc'[h] = pc[h]
    <3>1. pc[i] = "idle"
      BY <2>1 DEF Program, Enqueue, WaitQueue, CreateQueue, DestroyQueue, EnqueueEvent, QueueWait, WaitEvent,
         WaitDevForEvent, WaitDev, CallDev, Call
    <3>2. QED
      BY <1>1, <2>1, <3>1 DEF Program, Enqueue, WaitQueue, CreateQueue, DestroyQueue, EnqueueEvent, QueueWait,
         WaitEvent, WaitDevForEvent, WaitDev, CallDev, Wait, IInv, TypeOK
  <2>2. ASSUME NEW i \in Hosts, Continue(i) PROVE i # h => pc'[h] = pc[h]
    BY <1>1, <2>2 DEF Continue, WaitEnds, register_queue, NextQueue, LeaveQueue, ReturnDev, IInv, TypeOK
  <2>3. ~register_queue(h) /\ ~NextQueue(h) /\ ~LeaveQueue(h)
    BY <1>1 DEF register_queue, NextQueue, LeaveQueue
  <2>4. ASSUME NEW c \in Commands, Start(c) \/ Complete(c) PROVE pc' = pc
    BY <2>4 DEF Start, Complete
  <2>5. QED
    BY <1>1, <2>1, <2>2, <2>3, <2>4 DEF Next, Continue
<1>2. ASSUME IInv, NEW h \in Hosts, WaitEnds(h) PROVE Covered(h)
  <2>1. pc[h] = "wait" /\ target[h] \subseteq done
    BY <1>2 DEF WaitEnds
  <2>2. \A c \in goal[h] : \E f \in target[h] : Covers(f, c)
    BY <1>2, <2>1 DEF IInv, HostInv, HostOK
  <2>3. QED
    BY <1>2, <2>1, <2>2, DoneCovers
<1>3. ASSUME IInv, NEW h \in Hosts, ReturnDev(h) PROVE Covered(h)
  <2>1. todo[h] = <<>> /\ target[h] = {}
    BY <1>3 DEF ReturnDev, BetweenQueues
  <2>2. \A q : ~Lists(todo[h], q)
    BY <2>1 DEF Lists
  <2>3. QED
    BY <1>3, <2>1, <2>2 DEF IInv, HostInv, HostOK, ReturnDev, BetweenQueues, InLoop
<1>4. IInv /\ [Next]_vars => [\A h \in Hosts : Covered(h)]_vars
  BY <1>1, <1>2, <1>3
<1>5. QED
  BY <1>4, Invariance, PTL DEF Spec, WaitsCover
=============================================================================
