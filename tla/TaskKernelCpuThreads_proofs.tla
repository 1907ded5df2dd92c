--------------------- MODULE TaskKernelCpuThreads_proofs ---------------------
(***************************************************************************)
(* Proofs about TaskKernelCpuThreads for any number of threads and blocks  *)
(* and any kernels.  A thread of the pool with a task is early, until      *)
(* the first synchronization has released it, or past it (StageInv).  The  *)
(* first release finds as many different indices as there are threads, so  *)
(* all tasks of the block are taken, all indices are in the map and the    *)
(* master is known, and nothing of that changes before the last thread has *)
(* finished.  In the kernel, CodeInv says, all threads are between the     *)
(* same two synchronizations: whatever lies between two of them is passed  *)
(* without one, an allocated variable or an exception that was not thrown; *)
(* or all are about to allocate the same variable.  ExecInv follows the    *)
(* threads to the end of the block: one that has left the kernel has seen  *)
(* the others released from the last synchronization, and one that throws  *)
(* keeps them from it.                                                     *)
(***************************************************************************)
EXTENDS TaskKernelCpuThreads, FiniteSetTheorems, SequenceTheorems, TLAPS

Idle == {"loop", "pop", "exit"}
Early(w) == pc[w] \in {"master", "insert"} \/ (pc[w] = "first" /\ at[w] # "go")
Past(w) == pc[w] \notin Idle /\ ~Early(w)

\* Threads between the two synchronizations of an allocation, threads that wait
\* for another synchronization, and all that are on their way to the next one.
Allocating(w) == \/ pc[w] = "alloc"
                 \/ pc[w] = "beforeAlloc" /\ at[w] = "go"
                 \/ pc[w] = "afterAlloc" /\ at[w] # "go"
Blocked(w) == pc[w] \in {"sync", "beforeAlloc", "last"} /\ at[w] # "go"
Free(w) == \/ pc[w] \in {"kernel", "getVarPtr", "getLatestVarPtr"}
           \/ pc[w] \in {"first", "sync", "afterAlloc"} /\ at[w] = "go"
           \/ Blocked(w)

\* The statement a thread is at, the statements of the block, the variables that
\* are allocated, the statements a thread may pass without synchronizing, and the
\* index a thread was given.
Pos(w) == IF pc[w] = "sync" /\ at[w] # "go" THEN ip[w] - 1 ELSE ip[w]
code == kernel[m_gridBlockIdx]
Known == {chunks[k] : k \in 1..Len(chunks)}
Passed == Known \cup {"throw"}
idx(w) == task[w].blockThreadIdx

\* What the host knows of the futures, and who sees the pool shut down.
HostInv ==
  /\ host = "begin" => next \in Grid
  /\ host \in {"enqueue", "wait"} => next \in Indices
  /\ host \in {"begin", "shutdown", "join", "done"} =>
       /\ \A i \in Indices : futuresInBlock[i] = "none"
       /\ \A w \in Workers : m_threadToIndexMap[w] = None
  /\ host = "enqueue" =>
       \A i \in Indices : futuresInBlock[i] = IF i < next THEN "pending" ELSE "none"
  /\ host = "wait" => \A i \in Indices : i < next => futuresInBlock[i] # "pending"
  /\ host = "cleanup" => \A i \in Indices : futuresInBlock[i] # "pending"
  /\ m_bShutdownFlag <=> host \in {"join", "done"}
  /\ \A w \in Workers : pc[w] = "exit" => m_bShutdownFlag
  /\ host = "done" => \A w \in Workers : pc[w] = "exit"

\* Tasks that are queued or held are of the current block, pending, and different.
TaskInv ==
  /\ \A k \in 1..Len(m_qTasks) :
       /\ m_qTasks[k].block = m_gridBlockIdx
       /\ futuresInBlock[m_qTasks[k].blockThreadIdx] = "pending"
       /\ \A j \in 1..Len(m_qTasks) : j # k => m_qTasks[j].blockThreadIdx # m_qTasks[k].blockThreadIdx
       /\ \A w \in Workers : pc[w] \notin Idle => idx(w) # m_qTasks[k].blockThreadIdx
  /\ \A w \in Workers : pc[w] \notin Idle =>
       /\ task[w] \in Tasks /\ task[w].block = m_gridBlockIdx
       /\ futuresInBlock[idx(w)] = "pending"
       /\ \A u \in Workers : u # w /\ pc[u] \notin Idle => idx(u) # idx(w)

\* What the accelerator knows of a thread.
AccOK(w) ==
  /\ pc[w] \in {"master", "insert"} => m_threadToIndexMap[w] = None
  /\ pc[w] = "first" \/ Past(w) => m_threadToIndexMap[w] = idx(w)
  /\ pc[w] \in Idle /\ m_threadToIndexMap[w] # None => m_qTasks = <<>> /\ host \in {"wait", "cleanup"}
  /\ pc[w] \in {"insert", "first"} /\ idx(w) = 0 => m_idMasterThread = w
  /\ Past(w) => m_idMasterThread \in Workers /\ (m_idMasterThread = w <=> idx(w) = 0)
  /\ ~Past(w) => ip[w] = 1
AccInv == \A w \in Workers : AccOK(w)

\* Once the first synchronization has released the threads, nobody is before it.
StageInv ==
  \A w \in Workers :
    /\ at[w] # "out" => pc[w] \in SyncLabels
    /\ Past(w) => /\ m_qTasks = <<>> /\ host = "wait"
                  /\ \A u \in Workers : ~Early(u)

\* Where a thread is in the code, and how far apart two threads are.
CodeOK(w) ==
  /\ Free(w) \/ Allocating(w) => ip[w] \in 1..(Len(code) + 1)
  /\ pc[w] = "sync" => ip[w] - 1 \in 1..Len(code)
  /\ pc[w] = "sync" /\ at[w] # "go" => code[ip[w] - 1] = "sync"
  /\ pc[w] \in {"getVarPtr", "beforeAlloc", "alloc", "afterAlloc", "getLatestVarPtr"} =>
       ip[w] <= Len(code) /\ code[ip[w]] \in Vars
  /\ pc[w] = "beforeAlloc" /\ at[w] # "go" => code[ip[w]] \notin Known
  /\ pc[w] = "last" => ip[w] = Len(code) + 1
  /\ pc[w] = "getLatestVarPtr" \/ (pc[w] = "afterAlloc" /\ at[w] = "go") =>
       chunks # <<>> /\ chunks[Len(chunks)] = code[ip[w]]
Near(w, u) ==
  /\ Free(w) /\ Free(u) => \A k \in Pos(u)..(Pos(w) - 1) : code[k] \in Passed
  /\ Allocating(w) => Allocating(u) /\ ip[u] = ip[w]
CodeInv == \A w \in Workers : CodeOK(w) /\ \A u \in Workers : Near(w, u)

\* The master allocates a variable that is not allocated, and then it is the latest.
MemInv ==
  /\ SharedVarsAgree
  /\ \A w \in Workers : Allocating(w) /\ m_idMasterThread = w =>
       IF pc[w] = "afterAlloc" THEN chunks # <<>> /\ chunks[Len(chunks)] = code[ip[w]]
                               ELSE code[ip[w]] \notin Known

IInv == TypeOK /\ HostInv /\ TaskInv /\ AccInv /\ StageInv /\ CodeInv /\ MemInv

\* Threads that the last synchronization has released, threads whose kernel has
\* returned, and what is so when some thread of the block is through.
Finishing(w) == pc[w] = "return" \/ (pc[w] = "last" /\ at[w] = "go")
Ended(i) == futuresInBlock[i] = "value" \/ \E w \in Workers : pc[w] = "return" /\ idx(w) = i
Ending == (\E w \in Workers : Finishing(w)) \/ (\E i \in Indices : futuresInBlock[i] = "value")
EndInv ==
  /\ host \in {"wait", "cleanup"} => \A i \in Indices : futuresInBlock[i] # "none"
  /\ Ending => /\ \A w \in Workers : pc[w] \in Idle \/ Finishing(w)
               /\ \A i \in Indices : futuresInBlock[i] \in {"pending", "value"}
               /\ m_qTasks = <<>>
  /\ (\E w \in Workers : pc[w] = "thrown") \/ (\E i \in Indices : futuresInBlock[i] = "exception") =>
       Throws(m_gridBlockIdx)

\* How often the threads have got to the end of their blocks.
CountInv ==
  /\ host = "begin" => next = m_gridBlockIdx + 1 \/ (next = 0 /\ m_gridBlockIdx = 0)
  /\ \A b \in Grid, i \in Indices :
       b > m_gridBlockIdx \/ (host = "begin" /\ b >= next) => executed[<<b, i>>] = 0
  /\ host \in {"enqueue", "wait", "cleanup"} =>
       \A i \in Indices : executed[<<m_gridBlockIdx, i>>] = IF Ended(i) THEN 1 ELSE 0
ExecInv == EndInv /\ CountInv /\ BlocksEndTogether

\* A thread that is not in the kernel, and a thread that goes from one place to
\* another.
Outside(w) == pc[w] \in Idle \cup {"master", "insert", "thrown", "return"} \/ (pc[w] = "first" /\ at[w] # "go")
Moves(w, label, i) == pc' = [pc EXCEPT ![w] = label] /\ ip' = [ip EXCEPT ![w] = i]

-----------------------------------------------------------------------------
(* Constants                                                               *)

\* The number of threads is positive.
LEMMA CountFacts == /\ blockThreadCount \in Nat /\ blockThreadCount > 0
                    /\ 0 \in Indices /\ 0 \in Grid /\ Blocks \in Nat
<1>1. blockThreadCount \in Nat /\ blockThreadCount # 0
  BY GridAssumption, FS_CardinalityType, FS_EmptySet DEF blockThreadCount
<1>2. QED
  BY <1>1, GridAssumption DEF Indices, Grid

\* Taking the head of a sequence.
LEMMA TakeHead ==
  ASSUME NEW S, NEW s \in Seq(S), s # <<>>
  PROVE  /\ Head(s) = s[1] /\ Head(s) \in S /\ Tail(s) \in Seq(S)
         /\ Len(s) \in Nat /\ Len(s) > 0 /\ Len(Tail(s)) = Len(s) - 1
         /\ \A i \in 1..Len(Tail(s)) : Tail(s)[i] = s[i + 1] /\ i + 1 \in 1..Len(s) /\ i + 1 # 1
<1>1. /\ Head(s) = s[1] /\ Tail(s) \in Seq(S) /\ Len(s) \in Nat /\ Len(s) > 0
      /\ Len(Tail(s)) = Len(s) - 1 /\ \A i \in 1..Len(Tail(s)) : Tail(s)[i] = s[i + 1]
  BY HeadTailProperties, LenProperties, EmptySeq
<1>2. s[1] \in S
  BY <1>1, ElementOfSeq
<1>3. QED
  BY <1>1, <1>2

-----------------------------------------------------------------------------
(* The steps                                                               *)

\* The statements of the block are a sequence of statements.
LEMMA CodeLength ==
  ASSUME TypeOK
  PROVE  /\ Len(code) \in Nat
         /\ \A i \in 1..Len(code) : code[i] \in Vars \cup {"sync", "throw"}
<1>1. code \in Seq(Vars \cup {"sync", "throw"})
  BY GridAssumption DEF TypeOK, code
<1>2. QED
  BY <1>1, LenProperties, ElementOfSeq

\* Only variables are allocated.
LEMMA KnownVars ==
  ASSUME TypeOK
  PROVE  Known \subseteq Vars /\ Len(chunks) \in Nat /\ DOMAIN chunks = 1..Len(chunks)
BY ElementOfSeq, LenProperties DEF TypeOK, Known

\* The head of the queue is a task.
LEMMA HeadIsTask ==
  ASSUME TypeOK, m_qTasks # <<>>
  PROVE  /\ 1 \in 1..Len(m_qTasks) /\ m_qTasks[1] \in Tasks
         /\ m_qTasks[1].block \in Grid /\ m_qTasks[1].blockThreadIdx \in Indices
<1>1. m_qTasks \in Seq(Tasks)
  BY DEF TypeOK
<1>2. Len(m_qTasks) \in Nat /\ Len(m_qTasks) > 0 /\ m_qTasks[1] \in Tasks
  BY <1>1, TakeHead
<1>3. QED
  BY <1>2 DEF Tasks

\* A thread that moves to a label.
LEMMA MovesTypes ==
  ASSUME TypeOK, NEW w \in Workers, NEW label \in Labels, NEW i \in Nat, Moves(w, label, i)
  PROVE  ip' \in [Workers -> Nat] /\ pc' \in [Workers -> Labels]
BY DEF TypeOK, Moves

\* What the tasks depend on.
LEMMA TaskFrame ==
  ASSUME TaskInv, UNCHANGED <<task, m_qTasks, futuresInBlock, m_gridBlockIdx>>,
         \A u \in Workers : pc'[u] \in Idle <=> pc[u] \in Idle
  PROVE  TaskInv'
BY DEF TaskInv, idx

\* No two tasks of a block are the same.
LEMMA TasksDiffer ==
  ASSUME TaskInv
  PROVE  /\ \A j, k \in 1..Len(m_qTasks) :
              j # k => m_qTasks[j].blockThreadIdx # m_qTasks[k].blockThreadIdx
         /\ \A u, w \in Workers : u # w /\ pc[u] \notin Idle /\ pc[w] \notin Idle => idx(u) # idx(w)
         /\ \A k \in 1..Len(m_qTasks), w \in Workers :
              pc[w] \notin Idle => idx(w) # m_qTasks[k].blockThreadIdx
BY DEF TaskInv

\* While the host is not executing a block, nobody is busy.
LEMMA NobodyBusy ==
  ASSUME IInv, host \notin {"enqueue", "wait"}
  PROVE  m_qTasks = <<>> /\ \A w \in Workers : pc[w] \in Idle
<1> USE DEF IInv, TypeOK, HostInv, TaskInv, Tasks, idx
<1>1. \A i \in Indices : futuresInBlock[i] # "pending"
  BY DEF IInv
<1>2. \A w \in Workers : pc[w] \in Idle
  BY <1>1
<1>3. m_qTasks = <<>>
  <2>1. SUFFICES ASSUME m_qTasks # <<>> PROVE FALSE
    OBVIOUS
  <2>2. 1 \in 1..Len(m_qTasks) /\ m_qTasks[1].blockThreadIdx \in Indices
    BY <2>1, HeadIsTask
  <2>3. QED
    BY <1>1, <2>2
<1>4. QED
  BY <1>2, <1>3

\* When no thread is idle, each index is held by one of them, no future is set and
\* no task is left.
LEMMA AllTaken ==
  ASSUME IInv, \A w \in Workers : pc[w] \notin Idle
  PROVE  /\ \A i \in Indices : futuresInBlock[i] = "pending" /\ \E w \in Workers : idx(w) = i
         /\ m_qTasks = <<>>
<1> DEFINE f == [w \in Workers |-> idx(w)]
<1>1. \A w \in Workers : idx(w) \in Indices /\ futuresInBlock[idx(w)] = "pending"
  BY DEF IInv, TaskInv, Tasks, idx
<1>2. \A w, u \in Workers : idx(w) = idx(u) => w = u
  BY DEF IInv, TaskInv
<1>3. f \in Surjection(Workers, Indices)
  <2>1. f \in Injection(Workers, Indices)
    BY <1>1, <1>2 DEF Injection, IsInjective
  <2>2. IsFiniteSet(Indices) /\ Cardinality(Indices) = Cardinality(Workers)
    BY CountFacts, FS_Interval DEF Indices, blockThreadCount
  <2>3. QED
    BY <2>1, <2>2, GridAssumption, FS_Injection
<1>4. \A i \in Indices : \E w \in Workers : idx(w) = i
  BY <1>3 DEF Surjection
<1>5. m_qTasks = <<>>
  <2>1. SUFFICES ASSUME m_qTasks # <<>> PROVE FALSE
    OBVIOUS
  <2>2. 1 \in 1..Len(m_qTasks) /\ m_qTasks[1].blockThreadIdx \in Indices
    BY <2>1, HeadIsTask DEF IInv
  <2>3. QED
    BY <1>4, <2>2 DEF IInv, TaskInv
<1>6. QED
  BY <1>1, <1>4, <1>5

\* When all threads wait for the first synchronization, all tasks are taken, the
\* host waits for them and the thread with index zero is the master.
LEMMA FirstRelease ==
  ASSUME IInv, \A w \in Workers : pc[w] = "first"
  PROVE  /\ m_qTasks = <<>> /\ host = "wait" /\ m_idMasterThread \in Workers
         /\ \A w \in Workers : m_idMasterThread = w <=> idx(w) = 0
<1>1. \A w \in Workers : pc[w] \notin Idle
  BY DEF Idle
<1>2. \A w, u \in Workers : idx(w) = idx(u) => w = u
  BY <1>1 DEF IInv, TaskInv
<1>3. /\ \A i \in Indices : futuresInBlock[i] = "pending" /\ \E w \in Workers : idx(w) = i
      /\ m_qTasks = <<>>
  BY <1>1, AllTaken
<1>4. host = "wait"
  <2>1. Workers # {}
    BY GridAssumption
  <2>2. host \in {"enqueue", "wait"}
    BY <1>1, <2>1, NobodyBusy
  <2>3. host # "enqueue"
    <3>1. SUFFICES ASSUME host = "enqueue" PROVE FALSE
      OBVIOUS
    <3>2. next \in Indices /\ futuresInBlock[next] = IF next < next THEN "pending" ELSE "none"
      BY <3>1 DEF IInv, HostInv
    <3>3. QED
      BY <1>3, <3>2, CountFacts DEF Indices
  <2>5. QED
    BY <2>2, <2>3
<1>5. \A w \in Workers : idx(w) = 0 => m_idMasterThread = w
  BY DEF IInv, AccInv, AccOK
<1>6. QED
  BY <1>2, <1>3, <1>4, <1>5, CountFacts

\* Threads that are all in a synchronization are in the same one.
LEMMA ReleaseCases ==
  ASSUME IInv, \A w \in Workers : at[w] = "in"
  PROVE  \/ \A w \in Workers : pc[w] = "first"
         \/ \E i \in Nat : \/ \A w \in Workers : pc[w] = "sync" /\ ip[w] = i
                           \/ \A w \in Workers : pc[w] = "beforeAlloc" /\ ip[w] = i
                           \/ \A w \in Workers : pc[w] = "afterAlloc" /\ ip[w] = i
                           \/ \A w \in Workers : pc[w] = "last"
<1>1. \A w \in Workers : pc[w] \in SyncLabels /\ ip[w] \in Nat
  BY DEF IInv, StageInv, TypeOK
<1>2. PICK v \in Workers : TRUE
  BY GridAssumption
<1>3. CASE \E w \in Workers : pc[w] = "first"
  BY <1>1, <1>3 DEF IInv, StageInv, Early, Past, Idle, SyncLabels
<1>4. CASE \E w \in Workers : pc[w] = "afterAlloc"
  <2>1. PICK w \in Workers : pc[w] = "afterAlloc"
    BY <1>4
  <2>2. \A u \in Workers : Allocating(u) /\ ip[u] = ip[w]
    BY <2>1 DEF IInv, CodeInv, Near, Allocating
  <2>3. \A u \in Workers : pc[u] = "afterAlloc"
    BY <1>1, <2>2 DEF Allocating, SyncLabels
  <2>4. QED
    BY <1>1, <2>2, <2>3
<1>5. CASE \A w \in Workers : pc[w] \in {"sync", "beforeAlloc", "last"}
  <2>1. \A w \in Workers : Free(w) /\ CodeOK(w) /\ Len(code) \in Nat
    BY <1>5, CodeLength DEF IInv, CodeInv, Free, Blocked
  <2>2. \A w \in Workers : Pos(w) \in 1..(Len(code) + 1) /\ (Pos(w) <= Len(code) => code[Pos(w)] \notin Passed)
    <3>1. SUFFICES ASSUME NEW w \in Workers
                   PROVE  Pos(w) \in 1..(Len(code) + 1) /\ (Pos(w) <= Len(code) => code[Pos(w)] \notin Passed)
      OBVIOUS
    <3>2. CASE pc[w] = "sync"
      <4>1. Pos(w) = ip[w] - 1 /\ Pos(w) \in 1..Len(code) /\ code[Pos(w)] = "sync"
        BY <2>1, <3>2 DEF Pos, CodeOK
      <4>2. "sync" \notin Passed
        BY KnownVars, GridAssumption DEF IInv, Passed
      <4>3. QED
        BY <2>1, <4>1, <4>2
    <3>3. CASE pc[w] = "beforeAlloc"
      <4>1. Pos(w) = ip[w] /\ Pos(w) \in 1..Len(code) /\ code[Pos(w)] \in Vars /\ code[Pos(w)] \notin Known
        BY <2>1, <3>3 DEF Pos, CodeOK
      <4>2. QED
        BY <2>1, <4>1, GridAssumption DEF Passed
    <3>4. CASE pc[w] = "last"
      BY <2>1, <3>4 DEF Pos, CodeOK
    <3>5. QED
      BY <1>5, <3>2, <3>3, <3>4
  <2>3. \A w, u \in Workers : ~ Pos(u) < Pos(w)
    <3>1. SUFFICES ASSUME NEW w \in Workers, NEW u \in Workers, Pos(u) < Pos(w) PROVE FALSE
      OBVIOUS
    <3>2. Pos(u) \in Pos(u)..(Pos(w) - 1) /\ Pos(u) <= Len(code)
      BY <2>1, <2>2, <3>1
    <3>3. code[Pos(u)] \in Passed
      BY <2>1, <3>2 DEF IInv, CodeInv, Near
    <3>4. QED
      BY <2>2, <3>2, <3>3
  <2>4. \A w, u \in Workers : Pos(w) = Pos(u)
    <3>1. \A w, u \in Workers : Pos(w) \in Nat /\ Pos(u) \in Nat /\ ~ Pos(u) < Pos(w) /\ ~ Pos(w) < Pos(u)
      BY <2>1, <2>2, <2>3
    <3>2. QED
      BY <3>1
  <2>5. CASE pc[v] = "sync"
    <3>1. code[Pos(v)] = "sync" /\ Pos(v) = ip[v] - 1 /\ Pos(v) <= Len(code)
      BY <2>1, <2>5 DEF Pos, CodeOK
    <3>2. ASSUME NEW u \in Workers PROVE pc[u] = "sync" /\ ip[u] = ip[v]
      <4>1. pc[u] # "beforeAlloc"
        BY <2>1, <2>4, <3>1, GridAssumption DEF Pos, CodeOK
      <4>2. pc[u] # "last"
        BY <2>1, <2>4, <3>1 DEF Pos, CodeOK
      <4>3. pc[u] = "sync" /\ Pos(u) = ip[u] - 1
        BY <1>5, <4>1, <4>2 DEF Pos
      <4>4. QED
        BY <1>1, <2>4, <3>1, <4>3
    <3>3. QED
      BY <1>1, <3>2
  <2>6. CASE pc[v] = "beforeAlloc"
    <3>1. code[Pos(v)] \in Vars /\ Pos(v) = ip[v] /\ Pos(v) <= Len(code)
      BY <2>1, <2>6 DEF Pos, CodeOK
    <3>2. ASSUME NEW u \in Workers PROVE pc[u] = "beforeAlloc" /\ ip[u] = ip[v]
      <4>1. pc[u] # "sync"
        BY <2>1, <2>4, <3>1, GridAssumption DEF Pos, CodeOK
      <4>2. pc[u] # "last"
        BY <2>1, <2>4, <3>1 DEF Pos, CodeOK
      <4>3. QED
        BY <1>5, <2>4, <3>1, <4>1, <4>2 DEF Pos
    <3>3. QED
      BY <1>1, <3>2
  <2>7. CASE pc[v] = "last"
    <3>1. Pos(v) = Len(code) + 1
      BY <2>1, <2>7 DEF Pos, CodeOK
    <3>2. ASSUME NEW u \in Workers PROVE pc[u] = "last"
      <4>1. pc[u] # "sync" /\ pc[u] # "beforeAlloc"
        BY <2>1, <2>4, <3>1 DEF Pos, CodeOK
      <4>2. QED
        BY <1>5, <4>1
    <3>3. QED
      BY <1>1, <3>2
  <2>8. QED
    BY <1>2, <1>5, <2>5, <2>6, <2>7
<1>6. QED
  BY <1>1, <1>3, <1>4, <1>5 DEF SyncLabels

\* What the steps inside the kernel do.
LEMMA KernelStepCases ==
  ASSUME IInv, NEW w \in Workers, KernelStep(w)
  PROVE  /\ pc[w] = "kernel" /\ ip[w] \in 1..(Len(code) + 1) /\ Len(code) \in Nat
         /\ \/ ip[w] = Len(code) + 1 /\ Moves(w, "last", ip[w])
            \/ /\ ip[w] \in 1..Len(code)
               /\ \/ code[ip[w]] = "sync" /\ Moves(w, "sync", ip[w] + 1)
                  \/ code[ip[w]] = "throw" /\ Moves(w, "thrown", ip[w] + 1)
                  \/ code[ip[w]] = "throw" /\ Moves(w, "kernel", ip[w] + 1)
                  \/ code[ip[w]] \in Vars /\ Moves(w, "getVarPtr", ip[w])
<1>1. pc[w] = "kernel" /\ task[w].block = m_gridBlockIdx /\ ip \in [Workers -> Nat]
  BY DEF KernelStep, IInv, TypeOK, TaskInv, Idle
<1>2. ip[w] \in 1..(Len(code) + 1)
  BY <1>1 DEF IInv, CodeInv, CodeOK, Free
<1>3. Statement(w) = code[ip[w]] /\ kernel[task[w].block] = code
  BY <1>1 DEF Statement, code
<1>4. Len(code) \in Nat /\ \A i \in 1..Len(code) : code[i] \in Vars \cup {"sync", "throw"}
  BY CodeLength DEF IInv
<1>5. CASE ip[w] > Len(code)
  BY <1>1, <1>2, <1>3, <1>4, <1>5 DEF KernelStep, Goto, Moves
<1>6. CASE ~(ip[w] > Len(code))
  <2>1. ip[w] \in 1..Len(code) /\ code[ip[w]] \in Vars \cup {"sync", "throw"}
    BY <1>2, <1>4, <1>6
  <2>2. CASE code[ip[w]] = "sync"
    <3>1. GoesOn(Statement(w)) = {"sync"} /\ Statement(w) \notin Vars
      BY <1>3, <2>2, GridAssumption DEF GoesOn
    <3>2. ip' = [ip EXCEPT ![w] = ip[w] + 1] /\ pc' = [pc EXCEPT ![w] = "sync"]
      BY <1>3, <1>6, <3>1 DEF KernelStep, Goto
    <3>3. QED
      BY <1>1, <1>2, <1>4, <2>1, <2>2, <3>2 DEF Moves
  <2>3. CASE code[ip[w]] = "throw"
    <3>1. GoesOn(Statement(w)) = {"kernel", "thrown"} /\ Statement(w) \notin Vars
      BY <1>3, <2>3, GridAssumption DEF GoesOn
    <3>2. /\ ip' = [ip EXCEPT ![w] = ip[w] + 1]
          /\ pc' = [pc EXCEPT ![w] = "kernel"] \/ pc' = [pc EXCEPT ![w] = "thrown"]
      BY <1>3, <1>6, <3>1 DEF KernelStep, Goto
    <3>3. QED
      BY <1>1, <1>2, <1>4, <2>1, <2>3, <3>2 DEF Moves
  <2>4. CASE code[ip[w]] \in Vars
    <3>1. Statement(w) # "sync" /\ Statement(w) # "throw" /\ Statement(w) \in Vars
      BY <1>3, <2>4, GridAssumption
    <3>2. ip' = ip /\ pc' = [pc EXCEPT ![w] = "getVarPtr"]
      BY <1>3, <1>6, <3>1 DEF KernelStep, Goto, GoesOn
    <3>3. QED
      BY <1>1, <1>2, <1>4, <2>1, <2>4, <3>2 DEF Moves
  <2>5. QED
    BY <2>1, <2>2, <2>3, <2>4
<1>7. QED
  BY <1>5, <1>6

\* GetVarPtr either goes on to allocate the variable or finds it.
LEMMA GetVarPtrCases ==
  ASSUME IInv, NEW w \in Workers, GetVarPtr(w)
  PROVE  /\ pc[w] = "getVarPtr" /\ ip[w] \in 1..Len(code) /\ code[ip[w]] \in Vars
         /\ \/ code[ip[w]] \notin Known /\ Moves(w, "beforeAlloc", ip[w]) /\ UNCHANGED data
            \/ \E k \in 1..Len(chunks) : /\ chunks[k] = code[ip[w]]
                                         /\ Moves(w, "kernel", ip[w] + 1)
                                         /\ data' = [data EXCEPT ![w][code[ip[w]]] = k]
<1> DEFINE found == {k \in DOMAIN chunks : chunks[k] = Statement(w)}
<1>1. pc[w] = "getVarPtr" /\ task[w].block = m_gridBlockIdx /\ ip \in [Workers -> Nat]
  BY DEF GetVarPtr, IInv, TypeOK, TaskInv, Idle
<1>2. ip[w] \in 1..Len(code) /\ code[ip[w]] \in Vars
  BY <1>1, CodeLength DEF IInv, CodeInv, CodeOK, Free
<1>3. Statement(w) = code[ip[w]]
  BY <1>1 DEF Statement, code
<1>4. DOMAIN chunks = 1..Len(chunks) /\ Len(chunks) \in Nat
  BY KnownVars DEF IInv
<1>5. CASE found = {}
  <2>1. code[ip[w]] \notin Known
    BY <1>3, <1>4, <1>5 DEF Known
  <2>2. Moves(w, "beforeAlloc", ip[w]) /\ UNCHANGED data
    BY <1>1, <1>5 DEF GetVarPtr, Goto, Moves
  <2>3. QED
    BY <1>1, <1>2, <2>1, <2>2
<1>6. CASE found # {}
  <2>1. PICK k \in found : \A j \in found : j = k
    BY <1>6 DEF IInv, MemInv, SharedVarsAgree
  <2>2. k \in 1..Len(chunks) /\ chunks[k] = code[ip[w]]
    BY <1>3, <1>4, <2>1
  <2>3. (CHOOSE i \in found : \A j \in found : i <= j) = k
    BY <1>4, <2>1, <2>2
  <2>4. data' = [data EXCEPT ![w][code[ip[w]]] = k] /\ Moves(w, "kernel", ip[w] + 1)
    BY <1>3, <1>6, <2>3 DEF GetVarPtr, Declared, Goto, Moves
  <2>5. QED
    BY <1>1, <1>2, <2>2, <2>4
<1>7. QED
  BY <1>5, <1>6

\* Alloc adds the variable, in the master only.
LEMMA AllocCases ==
  ASSUME IInv, NEW w \in Workers, Alloc(w)
  PROVE  /\ pc[w] = "alloc" /\ ip[w] \in 1..Len(code) /\ code[ip[w]] \in Vars
         /\ Moves(w, "afterAlloc", ip[w])
         /\ chunks' = IF m_idMasterThread = w THEN Append(chunks, code[ip[w]]) ELSE chunks
<1>1. pc[w] = "alloc" /\ task[w].block = m_gridBlockIdx /\ ip \in [Workers -> Nat]
  BY DEF Alloc, IInv, TypeOK, TaskInv, Idle
<1>2. ip[w] \in 1..Len(code) /\ code[ip[w]] \in Vars
  BY <1>1, CodeLength DEF IInv, CodeInv, CodeOK, Allocating
<1>3. Statement(w) = code[ip[w]]
  BY <1>1 DEF Statement, code
<1>4. QED
  BY <1>1, <1>2, <1>3 DEF Alloc, Goto, Moves, IsMasterThread

\* GetLatestVarPtr finds the variable that was added last.
LEMMA GetLatestVarPtrCases ==
  ASSUME IInv, NEW w \in Workers, GetLatestVarPtr(w)
  PROVE  /\ pc[w] = "getLatestVarPtr" /\ ip[w] \in 1..Len(code) /\ code[ip[w]] \in Vars
         /\ Len(chunks) \in 1..Len(chunks) /\ chunks[Len(chunks)] = code[ip[w]]
         /\ Moves(w, "kernel", ip[w] + 1)
         /\ data' = [data EXCEPT ![w][code[ip[w]]] = Len(chunks)]
<1>1. pc[w] = "getLatestVarPtr" /\ task[w].block = m_gridBlockIdx /\ ip \in [Workers -> Nat]
  BY DEF GetLatestVarPtr, IInv, TypeOK, TaskInv, Idle
<1>2. ip[w] \in 1..Len(code) /\ code[ip[w]] \in Vars /\ chunks # <<>> /\ chunks[Len(chunks)] = code[ip[w]]
  BY <1>1, CodeLength DEF IInv, CodeInv, CodeOK, Free
<1>3. Statement(w) = code[ip[w]]
  BY <1>1 DEF Statement, code
<1>4. Len(chunks) \in 1..Len(chunks)
  BY <1>2, TakeHead DEF IInv, TypeOK
<1>5. QED
  BY <1>1, <1>2, <1>3, <1>4 DEF GetLatestVarPtr, Declared, Goto, Moves

\* Where a synchronization returns to.
LEMMA SyncReturnsCases ==
  ASSUME IInv, NEW w \in Workers, SyncReturns(w)
  PROVE  /\ at[w] = "go" /\ at' = [at EXCEPT ![w] = "out"]
         /\ \/ pc[w] \in {"first", "sync"} /\ Moves(w, "kernel", ip[w])
            \/ pc[w] = "beforeAlloc" /\ Moves(w, "alloc", ip[w])
            \/ pc[w] = "afterAlloc" /\ Moves(w, "getLatestVarPtr", ip[w])
            \/ pc[w] = "last" /\ Moves(w, "return", ip[w])
<1>1. ip' = ip /\ ip \in [Workers -> Nat]
  BY DEF SyncReturns, IInv, TypeOK
<1>2. at[w] = "go" /\ at' = [at EXCEPT ![w] = "out"]
  BY DEF SyncReturns, BS!Leave
<1>3. pc[w] \in SyncLabels /\ pc' = [pc EXCEPT ![w] = After(pc[w])]
  BY DEF SyncReturns, Goto
<1>4. QED
  BY <1>1, <1>2, <1>3 DEF After, SyncLabels, Moves

\* The steps inside the kernel leave the host, the tasks and the accelerator alone.
LEMMA InsideSteps ==
  ASSUME IInv, NEW w \in Workers,
         KernelStep(w) \/ GetVarPtr(w) \/ Alloc(w) \/ GetLatestVarPtr(w) \/ SyncReturns(w)
  PROVE  HostInv' /\ TaskInv' /\ AccInv' /\ StageInv'
<1>1. UNCHANGED <<kernel, host, next, futuresInBlock, m_qTasks, m_bShutdownFlag, m_gridBlockIdx,
                  m_threadToIndexMap, m_idMasterThread, task>>
  BY DEF KernelStep, GetVarPtr, Alloc, GetLatestVarPtr, SyncReturns, hostVars, accelerator
<1>2. \E label, i : /\ Moves(w, label, i)
                    /\ label \in {"kernel", "sync", "thrown", "last", "getVarPtr", "beforeAlloc", "alloc",
                                  "afterAlloc", "getLatestVarPtr", "return"}
  BY KernelStepCases, GetVarPtrCases, AllocCases, GetLatestVarPtrCases, SyncReturnsCases
<1>3. /\ \A u \in Workers \ {w} : pc'[u] = pc[u] /\ ip'[u] = ip[u]
      /\ pc'[w] \in {"kernel", "sync", "thrown", "last", "getVarPtr", "beforeAlloc", "alloc",
                     "afterAlloc", "getLatestVarPtr", "return"}
  BY <1>2 DEF Moves, IInv, TypeOK
<1>4. /\ \A u \in Workers \ {w} : at'[u] = at[u]
      /\ at'[w] = "out"
  <2>1. CASE SyncReturns(w)
    BY <2>1, SyncReturnsCases DEF IInv, TypeOK
  <2>2. CASE KernelStep(w) \/ GetVarPtr(w) \/ Alloc(w) \/ GetLatestVarPtr(w)
    <3>1. pc[w] \notin SyncLabels /\ at' = at
      BY <2>2 DEF KernelStep, GetVarPtr, Alloc, GetLatestVarPtr, SyncLabels, barrier
    <3>2. QED
      BY <3>1 DEF IInv, StageInv
  <2>3. QED
    BY <2>1, <2>2
<1>5. pc[w] \notin Idle \cup {"master", "insert"} /\ (pc[w] = "first" => at[w] = "go")
  BY KernelStepCases, GetVarPtrCases, AllocCases, GetLatestVarPtrCases, SyncReturnsCases DEF Idle
<1>6. /\ \A u \in Workers : (Early(u)' <=> Early(u)) /\ (Past(u)' <=> Past(u))
      /\ \A u \in Workers : pc'[u] \in Idle <=> pc[u] \in Idle
      /\ \A u \in Workers : pc'[u] \in {"master", "insert", "first", "exit"} => pc'[u] = pc[u]
      /\ Past(w)
  BY <1>3, <1>4, <1>5 DEF Early, Past, Idle
<1>7. \A u \in Workers : idx(u)' = idx(u)
  BY <1>1 DEF idx
<1>8. HostInv'
  BY <1>1, <1>3, <1>6, <1>7 DEF IInv, HostInv, StageInv
<1>9. TaskInv'
  BY <1>1, <1>6, <1>7 DEF IInv, TaskInv
<1>10. AccInv'
  BY <1>1, <1>3, <1>6, <1>7 DEF IInv, AccInv, AccOK
<1>11. StageInv'
  BY <1>1, <1>3, <1>4, <1>6 DEF IInv, StageInv
<1>12. QED
  BY <1>8, <1>9, <1>10, <1>11

\* The types are kept.
LEMMA TypeStep ==
  ASSUME IInv, [Next]_vars
  PROVE  TypeOK'
<1> USE CountFacts, GridAssumption DEF IInv, TypeOK, accelerator, barrier, hostVars, Labels, SyncLabels
<1>1. ASSUME SetGridBlockIdx PROVE TypeOK'
  BY <1>1 DEF SetGridBlockIdx, HostInv, Grid
<1>2. ASSUME BlockThreadExecHost PROVE TypeOK'
  <2>1. next \in Indices /\ [block |-> m_gridBlockIdx, blockThreadIdx |-> next] \in Tasks
    BY <1>2 DEF BlockThreadExecHost, HostInv, Tasks
  <2>2. m_qTasks' \in Seq(Tasks)
    BY <1>2, <2>1, AppendProperties DEF BlockThreadExecHost
  <2>3. QED
    BY <1>2, <2>1, <2>2 DEF BlockThreadExecHost
<1>3. ASSUME WaitFuture PROVE TypeOK'
  BY <1>3 DEF WaitFuture
<1>4. ASSUME CleanUp PROVE TypeOK'
  BY <1>4 DEF CleanUp, Empty, Grid
<1>5. ASSUME Shutdown PROVE TypeOK'
  BY <1>5 DEF Shutdown
<1>6. ASSUME JoinAll PROVE TypeOK'
  BY <1>6 DEF JoinAll
<1>7. ASSUME SyncRelease PROVE TypeOK'
  BY <1>7 DEF SyncRelease, BS!Release
<1>8. ASSUME NEW w \in Workers, CheckShutdown(w) PROVE TypeOK'
  BY <1>8 DEF CheckShutdown, Goto
<1>9. ASSUME NEW w \in Workers, PopTask(w) PROVE TypeOK'
  <2>1. m_qTasks # <<>> => Head(m_qTasks) \in Tasks /\ Tail(m_qTasks) \in Seq(Tasks)
    BY TakeHead
  <2>2. CASE m_qTasks = <<>>
    BY <1>9, <2>2 DEF PopTask, Goto
  <2>3. CASE m_qTasks # <<>>
    <3>1. /\ task' = [task EXCEPT ![w] = Head(m_qTasks)] /\ m_qTasks' = Tail(m_qTasks)
          /\ pc' = [pc EXCEPT ![w] = "master"]
      BY <1>9, <2>3 DEF PopTask, Goto
    <3>2. task' \in [Workers -> Tasks \cup {None}]
      BY <2>1, <2>3, <3>1
    <3>3. m_qTasks' \in Seq(Tasks) /\ pc' \in [Workers -> Labels]
      BY <2>1, <2>3, <3>1
    <3>4. QED
      BY <1>9, <3>2, <3>3 DEF PopTask
  <2>4. QED
    BY <2>2, <2>3
<1>10. ASSUME NEW w \in Workers, SetValue(w) PROVE TypeOK'
  <2>1. task[w] \in Tasks /\ idx(w) \in Indices
    BY <1>10 DEF SetValue, TaskInv, Idle, Tasks, idx
  <2>2. data' \in [Workers -> [Vars -> Nat]]
    BY <1>10 DEF SetValue, EndTask, NoPointers
  <2>3. QED
    BY <1>10, <2>1, <2>2 DEF SetValue, EndTask, Goto, idx
<1>11. ASSUME NEW w \in Workers, SetException(w) PROVE TypeOK'
  <2>1. task[w] \in Tasks /\ idx(w) \in Indices
    BY <1>11 DEF SetException, TaskInv, Idle, Tasks, idx
  <2>2. data' \in [Workers -> [Vars -> Nat]]
    BY <1>11 DEF SetException, EndTask, NoPointers
  <2>3. QED
    BY <1>11, <2>1, <2>2 DEF SetException, EndTask, Goto, idx
<1>12. ASSUME NEW w \in Workers, SetMaster(w) PROVE TypeOK'
  BY <1>12 DEF SetMaster, Goto
<1>13. ASSUME NEW w \in Workers, InsertIndex(w) PROVE TypeOK'
  <2>1. idx(w) \in Indices
    BY <1>13 DEF InsertIndex, TaskInv, Idle, Tasks, idx
  <2>2. QED
    BY <1>13, <2>1 DEF InsertIndex, Goto, idx
<1>14. ASSUME NEW w \in Workers, SyncBlockThreads(w) PROVE TypeOK'
  BY <1>14 DEF SyncBlockThreads, BS!Enter
<1>15. ASSUME NEW w \in Workers, SyncReturns(w) PROVE TypeOK'
  <2>1. After(pc[w]) \in Labels /\ at' \in [Workers -> {"out", "in", "go"}]
    BY <1>15 DEF SyncReturns, BS!Leave, After
  <2>2. executed' \in [Grid \X Indices -> Nat]
    <3> DEFINE e == <<task[w].block, task[w].blockThreadIdx>>
    <3>1. CASE pc[w] = "last"
      <4>1. e \in Grid \X Indices
        BY <3>1 DEF TaskInv, Idle, Tasks
      <4>2. executed' = [executed EXCEPT ![e] = executed[e] + 1] /\ executed[e] + 1 \in Nat
        BY <1>15, <3>1, <4>1 DEF SyncReturns
      <4>3. QED
        BY <4>2
    <3>2. QED
      BY <1>15, <3>1 DEF SyncReturns
  <2>3. QED
    BY <1>15, <2>1, <2>2 DEF SyncReturns, Goto
<1>16. ASSUME NEW w \in Workers, KernelStep(w) PROVE TypeOK'
  <2>1. ip' \in [Workers -> Nat] /\ pc' \in [Workers -> Labels]
    <3>1. \/ Moves(w, "last", ip[w]) \/ Moves(w, "sync", ip[w] + 1)
          \/ Moves(w, "thrown", ip[w] + 1) \/ Moves(w, "kernel", ip[w] + 1)
          \/ Moves(w, "getVarPtr", ip[w])
      BY <1>16, KernelStepCases
    <3>2. ip[w] \in Nat /\ ip[w] + 1 \in Nat
      OBVIOUS
    <3>3. QED
      BY <3>1, <3>2, MovesTypes
  <2>2. QED
    BY <1>16, <2>1 DEF KernelStep
<1>17. ASSUME NEW w \in Workers, GetVarPtr(w) PROVE TypeOK'
  <2>1. CASE Moves(w, "beforeAlloc", ip[w]) /\ UNCHANGED data
    BY <1>17, <2>1 DEF GetVarPtr, Moves
  <2>2. ASSUME NEW k \in 1..Len(chunks), Moves(w, "kernel", ip[w] + 1),
               data' = [data EXCEPT ![w][code[ip[w]]] = k]
        PROVE  TypeOK'
    <3>1. k \in Nat
      BY KnownVars
    <3>2. data' \in [Workers -> [Vars -> Nat]]
      BY <2>2, <3>1
    <3>3. ip[w] + 1 \in Nat
      OBVIOUS
    <3>4. ip' \in [Workers -> Nat] /\ pc' \in [Workers -> Labels]
      BY <2>2, <3>3 DEF Moves
    <3>5. QED
      BY <1>17, <3>2, <3>4 DEF GetVarPtr
  <2>3. QED
    BY <1>17, <2>1, <2>2, GetVarPtrCases
<1>18. ASSUME NEW w \in Workers, Alloc(w) PROVE TypeOK'
  <2>1. Statement(w) \in Vars
    BY <1>18 DEF Alloc, Statement, CodeInv, CodeOK, code, TaskInv, Idle
  <2>2. chunks' \in Seq(Vars)
    BY <1>18, <2>1, AppendProperties DEF Alloc
  <2>3. QED
    BY <1>18, <2>2 DEF Alloc, Goto
<1>19. ASSUME NEW w \in Workers, GetLatestVarPtr(w) PROVE TypeOK'
  <2>1. Len(chunks) \in Nat
    BY LenProperties
  <2>2. data' \in [Workers -> [Vars -> Nat]]
    BY <1>19, <2>1 DEF GetLatestVarPtr, Declared
  <2>3. QED
    BY <1>19, <2>2 DEF GetLatestVarPtr, Declared, Goto
<1>20. ASSUME UNCHANGED vars PROVE TypeOK'
  BY <1>20 DEF vars
<1>21. QED
  BY <1>1, <1>2, <1>3, <1>4, <1>5, <1>6, <1>7, <1>8, <1>9, <1>10, <1>11, <1>12, <1>13,
     <1>14, <1>15, <1>16, <1>17, <1>18, <1>19, <1>20
     DEF Next, Host, Worker

\* The host knows what has become of the tasks.
LEMMA HostStep ==
  ASSUME IInv, [Next]_vars
  PROVE  HostInv'
<1> USE CountFacts, GridAssumption DEF IInv, TypeOK, accelerator, barrier, hostVars, Indices, Grid, Early, Past, Idle, idx, SyncLabels
<1>1. ASSUME SetGridBlockIdx PROVE HostInv'
  BY <1>1 DEF SetGridBlockIdx, HostInv, TaskInv, StageInv, Empty
<1>2. ASSUME BlockThreadExecHost PROVE HostInv'
  <2>1. /\ host = "enqueue" /\ next \in Indices /\ futuresInBlock' = [futuresInBlock EXCEPT ![next] = "pending"]
        /\ UNCHANGED <<m_bShutdownFlag, m_threadToIndexMap, pc>>
    BY <1>2 DEF BlockThreadExecHost, HostInv
  <2>2. \A i \in Indices : futuresInBlock'[i] = IF i < next + 1 THEN "pending" ELSE "none"
    BY <2>1 DEF HostInv
  <2>3. CASE next + 1 < blockThreadCount
    <3>1. host' = "enqueue" /\ next' = next + 1
      BY <1>2, <2>1, <2>3 DEF BlockThreadExecHost
    <3>2. QED
      BY <2>1, <2>2, <2>3, <3>1 DEF HostInv
  <2>4. CASE ~(next + 1 < blockThreadCount)
    <3>1. host' = "wait" /\ next' = 0
      BY <1>2, <2>1, <2>4 DEF BlockThreadExecHost
    <3>2. QED
      BY <2>1, <3>1 DEF HostInv
  <2>5. QED
    BY <2>3, <2>4
<1>3. ASSUME WaitFuture PROVE HostInv'
  <2>1. /\ host = "wait" /\ next \in Indices /\ futuresInBlock[next] # "pending"
        /\ UNCHANGED <<futuresInBlock, m_bShutdownFlag, m_threadToIndexMap, pc>>
    BY <1>3 DEF WaitFuture, HostInv
  <2>2. \A i \in Indices : i < next + 1 => futuresInBlock[i] # "pending"
    BY <2>1 DEF HostInv
  <2>3. CASE next + 1 < blockThreadCount
    <3>1. host' = "wait" /\ next' = next + 1
      BY <1>3, <2>1, <2>3 DEF WaitFuture
    <3>2. QED
      BY <2>1, <2>2, <2>3, <3>1 DEF HostInv
  <2>4. CASE ~(next + 1 < blockThreadCount)
    <3>1. host' = "cleanup" /\ next' = 0
      BY <1>3, <2>1, <2>4 DEF WaitFuture
    <3>2. \A i \in Indices : i < next + 1
      BY <2>1, <2>4
    <3>3. QED
      BY <2>1, <2>2, <3>1, <3>2 DEF HostInv
  <2>5. QED
    BY <2>3, <2>4
<1>4. ASSUME CleanUp PROVE HostInv'
  BY <1>4 DEF CleanUp, HostInv, TaskInv, StageInv, Empty
<1>5. ASSUME Shutdown PROVE HostInv'
  BY <1>5 DEF Shutdown, HostInv, TaskInv, StageInv, Empty
<1>6. ASSUME JoinAll PROVE HostInv'
  BY <1>6 DEF JoinAll, HostInv, TaskInv, StageInv, Empty
<1>7. ASSUME SyncRelease PROVE HostInv'
  BY <1>7 DEF SyncRelease, BS!Release, HostInv, TaskInv, StageInv, Empty
<1>8. ASSUME NEW w \in Workers, CheckShutdown(w) PROVE HostInv'
  BY <1>8 DEF CheckShutdown, Goto, HostInv, TaskInv, StageInv, Empty
<1>9. ASSUME NEW w \in Workers, PopTask(w) PROVE HostInv'
  BY <1>9 DEF PopTask, Goto, HostInv, TaskInv, StageInv, Empty
<1>10. ASSUME NEW w \in Workers, SetValue(w) PROVE HostInv'
  BY <1>10 DEF SetValue, EndTask, Goto, HostInv, TaskInv, StageInv, Empty
<1>11. ASSUME NEW w \in Workers, SetException(w) PROVE HostInv'
  BY <1>11 DEF SetException, EndTask, Goto, HostInv, TaskInv, StageInv, Empty
<1>12. ASSUME NEW w \in Workers, SetMaster(w) PROVE HostInv'
  BY <1>12 DEF SetMaster, Goto, HostInv, TaskInv, StageInv, Empty
<1>13. ASSUME NEW w \in Workers, InsertIndex(w) PROVE HostInv'
  <2>1. host \in {"enqueue", "wait"}
    BY <1>13, NobodyBusy DEF InsertIndex
  <2>2. /\ UNCHANGED <<host, next, futuresInBlock, m_bShutdownFlag>>
        /\ \A u \in Workers : pc'[u] = "exit" => pc[u] = "exit"
    BY <1>13 DEF InsertIndex, Goto
  <2>3. QED
    BY <2>1, <2>2 DEF HostInv
<1>14. ASSUME NEW w \in Workers, SyncBlockThreads(w) PROVE HostInv'
  BY <1>14 DEF SyncBlockThreads, BS!Enter, HostInv, TaskInv, StageInv, Empty
<1>15. ASSUME NEW w \in Workers, SyncReturns(w) PROVE HostInv'
  BY <1>15, InsideSteps
<1>16. ASSUME NEW w \in Workers, KernelStep(w) PROVE HostInv'
  BY <1>16, InsideSteps
<1>17. ASSUME NEW w \in Workers, GetVarPtr(w) PROVE HostInv'
  BY <1>17, InsideSteps
<1>18. ASSUME NEW w \in Workers, Alloc(w) PROVE HostInv'
  BY <1>18, InsideSteps
<1>19. ASSUME NEW w \in Workers, GetLatestVarPtr(w) PROVE HostInv'
  BY <1>19, InsideSteps
<1>20. ASSUME UNCHANGED vars PROVE HostInv'
  BY <1>20 DEF vars, HostInv, TaskInv, StageInv, Empty
<1>21. QED
  BY <1>1, <1>2, <1>3, <1>4, <1>5, <1>6, <1>7, <1>8, <1>9, <1>10, <1>11, <1>12, <1>13,
     <1>14, <1>15, <1>16, <1>17, <1>18, <1>19, <1>20
     DEF Next, Host, Worker

\* The tasks of a block are taken once.
LEMMA TaskStep ==
  ASSUME IInv, [Next]_vars
  PROVE  TaskInv'
<1> USE CountFacts, GridAssumption DEF IInv, TypeOK, accelerator, barrier, hostVars, Early, Past, Idle, idx, SyncLabels
<1>1. ASSUME SetGridBlockIdx PROVE TaskInv'
  <2>1. m_qTasks = <<>> /\ \A w \in Workers : pc[w] \in Idle
    BY <1>1, NobodyBusy DEF SetGridBlockIdx
  <2>2. m_qTasks' = <<>> /\ \A w \in Workers : pc'[w] \in Idle
    BY <1>1, <2>1 DEF SetGridBlockIdx
  <2>3. QED
    BY <2>2 DEF TaskInv
<1>2. ASSUME BlockThreadExecHost PROVE TaskInv'
  <2> DEFINE t == [block |-> m_gridBlockIdx, blockThreadIdx |-> next]
  <2>1. /\ next \in Indices /\ t \in Tasks /\ t.block = m_gridBlockIdx /\ t.blockThreadIdx = next
        /\ futuresInBlock[next] = "none"
    BY <1>2 DEF BlockThreadExecHost, HostInv, Tasks, Indices
  <2>2. /\ m_qTasks' = Append(m_qTasks, t) /\ futuresInBlock' = [futuresInBlock EXCEPT ![next] = "pending"]
        /\ UNCHANGED <<pc, task, m_gridBlockIdx>>
    BY <1>2 DEF BlockThreadExecHost
  <2> HIDE DEF t
  <2>3. /\ Len(m_qTasks) \in Nat /\ Len(m_qTasks') = Len(m_qTasks) + 1
        /\ \A k \in 1..Len(m_qTasks) : m_qTasks'[k] = m_qTasks[k] /\ m_qTasks[k] \in Tasks
        /\ m_qTasks'[Len(m_qTasks) + 1] = t
    BY <2>1, <2>2, AppendProperties, LenProperties, ElementOfSeq
  <2>4. /\ \A k \in 1..Len(m_qTasks) : m_qTasks[k].blockThreadIdx \in Indices /\ m_qTasks[k].blockThreadIdx # next
        /\ \A w \in Workers : pc[w] \notin Idle => idx(w) \in Indices /\ idx(w) # next
    BY <2>1, <2>3 DEF TaskInv, Tasks
  <2>5. ASSUME NEW k \in 1..Len(m_qTasks')
        PROVE  /\ m_qTasks'[k].block = m_gridBlockIdx' /\ futuresInBlock'[m_qTasks'[k].blockThreadIdx] = "pending"
               /\ \A w \in Workers : pc'[w] \notin Idle => idx(w)' # m_qTasks'[k].blockThreadIdx
    <3>1. CASE k = Len(m_qTasks) + 1
      BY <2>1, <2>2, <2>3, <2>4, <3>1
    <3>2. CASE k \in 1..Len(m_qTasks)
      BY <2>2, <2>3, <2>4, <3>2 DEF TaskInv
    <3>3. QED
      BY <2>3, <2>5, <3>1, <3>2
  <2>6. ASSUME NEW k \in 1..Len(m_qTasks'), NEW j \in 1..Len(m_qTasks'), j # k
        PROVE  m_qTasks'[j].blockThreadIdx # m_qTasks'[k].blockThreadIdx
    <3>1. CASE k \in 1..Len(m_qTasks) /\ j \in 1..Len(m_qTasks)
      BY <2>3, <2>6, <3>1, TasksDiffer
    <3>2. CASE k = Len(m_qTasks) + 1 /\ j \in 1..Len(m_qTasks)
      BY <2>1, <2>3, <2>4, <3>2
    <3>3. CASE j = Len(m_qTasks) + 1 /\ k \in 1..Len(m_qTasks)
      BY <2>1, <2>3, <2>4, <3>3
    <3>4. QED
      BY <2>3, <2>6, <3>1, <3>2, <3>3
  <2>7. ASSUME NEW w \in Workers, pc'[w] \notin Idle
        PROVE  /\ task'[w] \in Tasks /\ task'[w].block = m_gridBlockIdx'
               /\ futuresInBlock'[idx(w)'] = "pending"
               /\ \A u \in Workers : u # w /\ pc'[u] \notin Idle => idx(u)' # idx(w)'
    BY <2>2, <2>4, <2>7 DEF TaskInv
  <2>8. QED
    BY <2>5, <2>6, <2>7 DEF TaskInv
<1>3. ASSUME WaitFuture PROVE TaskInv'
  BY <1>3 DEF WaitFuture, TaskInv, HostInv, StageInv
<1>4. ASSUME CleanUp PROVE TaskInv'
  <2>1. m_qTasks = <<>> /\ \A w \in Workers : pc[w] \in Idle
    BY <1>4, NobodyBusy DEF CleanUp
  <2>2. m_qTasks' = <<>> /\ \A w \in Workers : pc'[w] \in Idle
    BY <1>4, <2>1 DEF CleanUp
  <2>3. QED
    BY <2>2 DEF TaskInv
<1>5. ASSUME Shutdown PROVE TaskInv'
  BY <1>5 DEF Shutdown, TaskInv, HostInv, StageInv
<1>6. ASSUME JoinAll PROVE TaskInv'
  BY <1>6 DEF JoinAll, TaskInv, HostInv, StageInv
<1>7. ASSUME SyncRelease PROVE TaskInv'
  BY <1>7 DEF SyncRelease, BS!Release, TaskInv, HostInv, StageInv
<1>8. ASSUME NEW w \in Workers, CheckShutdown(w) PROVE TaskInv'
  BY <1>8 DEF CheckShutdown, Goto, TaskInv, HostInv, StageInv
<1>9. ASSUME NEW w \in Workers, PopTask(w) PROVE TaskInv'
  <2>1. CASE m_qTasks = <<>>
    <3>1. /\ UNCHANGED <<task, m_qTasks, futuresInBlock, m_gridBlockIdx>>
          /\ \A u \in Workers : pc'[u] \in Idle <=> pc[u] \in Idle
      BY <1>9, <2>1 DEF PopTask, Goto
    <3>2. QED
      BY <3>1, TaskFrame
  <2>2. CASE m_qTasks # <<>>
    <3>1. /\ 1 \in 1..Len(m_qTasks) /\ m_qTasks[1] \in Tasks
          /\ Head(m_qTasks) = m_qTasks[1] /\ Len(m_qTasks) \in Nat
          /\ \A i \in 1..Len(Tail(m_qTasks)) :
               Tail(m_qTasks)[i] = m_qTasks[i + 1] /\ i + 1 \in 1..Len(m_qTasks) /\ i + 1 # 1
          /\ Len(Tail(m_qTasks)) \in Nat
      BY <2>2, HeadIsTask, TakeHead, LenProperties
    <3>2. /\ pc[w] = "pop" /\ pc' = [pc EXCEPT ![w] = "master"] /\ task' = [task EXCEPT ![w] = m_qTasks[1]]
          /\ m_qTasks' = Tail(m_qTasks) /\ UNCHANGED <<futuresInBlock, m_gridBlockIdx>>
      BY <1>9, <2>2, <3>1 DEF PopTask, Goto
    <3>3. /\ \A u \in Workers \ {w} : pc'[u] = pc[u] /\ task'[u] = task[u]
          /\ pc'[w] = "master" /\ task'[w] = m_qTasks[1] /\ pc[w] = "pop"
      BY <3>2
    <3>4. ASSUME NEW k \in 1..Len(m_qTasks')
          PROVE  /\ m_qTasks'[k].block = m_gridBlockIdx' /\ futuresInBlock'[m_qTasks'[k].blockThreadIdx] = "pending"
                 /\ m_qTasks'[k].blockThreadIdx # m_qTasks[1].blockThreadIdx
                 /\ \A u \in Workers \ {w} : pc[u] \notin Idle => task[u].blockThreadIdx # m_qTasks'[k].blockThreadIdx
      <4>1. m_qTasks'[k] = m_qTasks[k + 1] /\ k + 1 \in 1..Len(m_qTasks) /\ k + 1 # 1
        BY <3>1, <3>2, <3>4
      <4>2. QED
        BY <3>1, <3>2, <4>1 DEF TaskInv
    <3>5. ASSUME NEW k \in 1..Len(m_qTasks'), NEW j \in 1..Len(m_qTasks'), j # k
          PROVE  m_qTasks'[j].blockThreadIdx # m_qTasks'[k].blockThreadIdx
      <4>1. /\ m_qTasks'[k] = m_qTasks[k + 1] /\ k + 1 \in 1..Len(m_qTasks)
            /\ m_qTasks'[j] = m_qTasks[j + 1] /\ j + 1 \in 1..Len(m_qTasks) /\ j + 1 # k + 1
        BY <3>1, <3>2, <3>5
      <4>2. QED
        BY <4>1, TasksDiffer
    <3>6. ASSUME NEW u \in Workers, pc'[u] \notin Idle
          PROVE  /\ task'[u] \in Tasks /\ task'[u].block = m_gridBlockIdx'
                 /\ futuresInBlock'[idx(u)'] = "pending"
      BY <3>1, <3>2, <3>3, <3>6 DEF TaskInv
    <3>7. ASSUME NEW u \in Workers, NEW v \in Workers, u # v, pc'[u] \notin Idle, pc'[v] \notin Idle
          PROVE  idx(v)' # idx(u)'
      <4>1. CASE u # w /\ v # w
        BY <3>3, <3>7, <4>1, TasksDiffer
      <4>2. CASE u = w \/ v = w
        BY <3>1, <3>3, <3>7, <4>2, TasksDiffer
      <4>3. QED
        BY <4>1, <4>2
    <3>8. ASSUME NEW k \in 1..Len(m_qTasks'), NEW u \in Workers, pc'[u] \notin Idle
          PROVE  idx(u)' # m_qTasks'[k].blockThreadIdx
      <4>1. CASE u = w
        BY <3>3, <3>4, <4>1
      <4>2. CASE u # w
        BY <3>3, <3>4, <3>8, <4>2
      <4>3. QED
        BY <4>1, <4>2
    <3>9. QED
      BY <3>4, <3>5, <3>6, <3>7, <3>8 DEF TaskInv
  <2>3. QED
    BY <2>1, <2>2
<1>10. ASSUME NEW w \in Workers, SetValue(w) PROVE TaskInv'
  BY <1>10 DEF SetValue, EndTask, Goto, TaskInv, HostInv, StageInv
<1>11. ASSUME NEW w \in Workers, SetException(w) PROVE TaskInv'
  BY <1>11 DEF SetException, EndTask, Goto, TaskInv, HostInv, StageInv
<1>12. ASSUME NEW w \in Workers, SetMaster(w) PROVE TaskInv'
  BY <1>12 DEF SetMaster, Goto, TaskInv, HostInv, StageInv
<1>13. ASSUME NEW w \in Workers, InsertIndex(w) PROVE TaskInv'
  BY <1>13 DEF InsertIndex, Goto, TaskInv, HostInv, StageInv
<1>14. ASSUME NEW w \in Workers, SyncBlockThreads(w) PROVE TaskInv'
  BY <1>14 DEF SyncBlockThreads, BS!Enter, TaskInv, HostInv, StageInv
<1>15. ASSUME NEW w \in Workers, SyncReturns(w) PROVE TaskInv'
  BY <1>15, InsideSteps
<1>16. ASSUME NEW w \in Workers, KernelStep(w) PROVE TaskInv'
  BY <1>16, InsideSteps
<1>17. ASSUME NEW w \in Workers, GetVarPtr(w) PROVE TaskInv'
  BY <1>17, InsideSteps
<1>18. ASSUME NEW w \in Workers, Alloc(w) PROVE TaskInv'
  BY <1>18, InsideSteps
<1>19. ASSUME NEW w \in Workers, GetLatestVarPtr(w) PROVE TaskInv'
  BY <1>19, InsideSteps
<1>20. ASSUME UNCHANGED vars PROVE TaskInv'
  BY <1>20 DEF vars, TaskInv, HostInv, StageInv
<1>21. QED
  BY <1>1, <1>2, <1>3, <1>4, <1>5, <1>6, <1>7, <1>8, <1>9, <1>10, <1>11, <1>12, <1>13,
     <1>14, <1>15, <1>16, <1>17, <1>18, <1>19, <1>20
     DEF Next, Host, Worker

\* The accelerator knows the threads of the block.
LEMMA AccStep ==
  ASSUME IInv, [Next]_vars
  PROVE  AccInv'
<1> USE CountFacts, GridAssumption DEF IInv, TypeOK, accelerator, barrier, hostVars, Early, Past, Idle, idx, SyncLabels
<1>1. ASSUME SetGridBlockIdx PROVE AccInv'
  <2>1. \A w \in Workers : m_threadToIndexMap[w] = None /\ pc[w] \in Idle
    BY <1>1, NobodyBusy DEF SetGridBlockIdx, HostInv
  <2>2. \A w \in Workers : m_threadToIndexMap'[w] = None /\ pc'[w] \in Idle /\ ip'[w] = 1
    BY <1>1, <2>1 DEF SetGridBlockIdx, AccInv, AccOK
  <2>3. QED
    BY <2>2 DEF AccInv, AccOK
<1>2. ASSUME BlockThreadExecHost PROVE AccInv'
  <2>1. \A w \in Workers : /\ ~Past(w)
                           /\ pc[w] \in Idle => m_threadToIndexMap[w] = None
    BY <1>2 DEF BlockThreadExecHost, StageInv, AccInv, AccOK
  <2>2. UNCHANGED <<pc, at, task, ip, m_threadToIndexMap, m_idMasterThread>>
    BY <1>2 DEF BlockThreadExecHost
  <2>3. QED
    BY <2>1, <2>2 DEF AccInv, AccOK
<1>3. ASSUME WaitFuture PROVE AccInv'
  BY <1>3 DEF WaitFuture, AccInv, AccOK, StageInv, HostInv
<1>4. ASSUME CleanUp PROVE AccInv'
  <2>1. \A w \in Workers : pc[w] \in Idle
    BY <1>4, NobodyBusy DEF CleanUp
  <2>2. \A w \in Workers : m_threadToIndexMap'[w] = None /\ pc'[w] \in Idle /\ ip'[w] = 1
    BY <1>4, <2>1 DEF CleanUp, Empty, AccInv, AccOK
  <2>3. QED
    BY <2>2 DEF AccInv, AccOK
<1>5. ASSUME Shutdown PROVE AccInv'
  BY <1>5 DEF Shutdown, AccInv, AccOK, StageInv, HostInv
<1>6. ASSUME JoinAll PROVE AccInv'
  BY <1>6 DEF JoinAll, AccInv, AccOK, StageInv, HostInv
<1>7. ASSUME SyncRelease PROVE AccInv'
  <2>1. /\ \A w \in Workers : at[w] = "in" /\ at'[w] = "go"
        /\ UNCHANGED <<pc, ip, task, m_threadToIndexMap, m_idMasterThread, m_qTasks, host>>
    BY <1>7 DEF SyncRelease, BS!Release
  <2>2. CASE \A w \in Workers : pc[w] = "first"
    <3>1. /\ m_idMasterThread \in Workers
          /\ \A w \in Workers : m_idMasterThread = w <=> idx(w) = 0
      BY <2>2, FirstRelease
    <3>2. QED
      BY <2>1, <2>2, <3>1 DEF AccInv, AccOK
  <2>3. CASE \A w \in Workers : pc[w] \in {"sync", "beforeAlloc", "afterAlloc", "last"}
    <3>1. \A w \in Workers : Past(w)
      BY <2>3
    <3>2. QED
      BY <2>1, <2>3, <3>1 DEF AccInv, AccOK
  <2>4. QED
    BY <2>1, <2>2, <2>3, ReleaseCases
<1>8. ASSUME NEW w \in Workers, CheckShutdown(w) PROVE AccInv'
  BY <1>8 DEF CheckShutdown, Goto, AccInv, AccOK, StageInv, HostInv
<1>9. ASSUME NEW w \in Workers, PopTask(w) PROVE AccInv'
  BY <1>9 DEF PopTask, Goto, AccInv, AccOK, StageInv, HostInv
<1>10. ASSUME NEW w \in Workers, SetValue(w) PROVE AccInv'
  BY <1>10 DEF SetValue, EndTask, Goto, AccInv, AccOK, StageInv, HostInv
<1>11. ASSUME NEW w \in Workers, SetException(w) PROVE AccInv'
  BY <1>11 DEF SetException, EndTask, Goto, AccInv, AccOK, StageInv, HostInv
<1>12. ASSUME NEW w \in Workers, SetMaster(w) PROVE AccInv'
  <2>1. /\ pc[w] = "master" /\ pc' = [pc EXCEPT ![w] = "insert"] /\ Early(w)
        /\ m_idMasterThread' = IF idx(w) = 0 THEN w ELSE m_idMasterThread
        /\ UNCHANGED <<at, ip, task, m_threadToIndexMap, m_qTasks, host>>
    BY <1>12 DEF SetMaster, Goto
  <2>2. \A u \in Workers : ~Past(u)
    BY <2>1 DEF StageInv
  <2>3. \A u \in Workers : u # w /\ pc[u] \notin Idle => idx(u) # idx(w)
    BY <2>1 DEF TaskInv
  <2>4. ASSUME NEW u \in Workers PROVE AccOK(u)'
    <3>1. CASE u = w
      BY <2>1, <3>1 DEF AccInv, AccOK
    <3>2. CASE u # w
      BY <2>1, <2>2, <2>3, <3>2 DEF AccInv, AccOK
    <3>3. QED
      BY <3>1, <3>2
  <2>5. QED
    BY <2>4 DEF AccInv
<1>13. ASSUME NEW w \in Workers, InsertIndex(w) PROVE AccInv'
  BY <1>13 DEF InsertIndex, Goto, AccInv, AccOK, StageInv, HostInv
<1>14. ASSUME NEW w \in Workers, SyncBlockThreads(w) PROVE AccInv'
  BY <1>14 DEF SyncBlockThreads, BS!Enter, AccInv, AccOK, StageInv, HostInv
<1>15. ASSUME NEW w \in Workers, SyncReturns(w) PROVE AccInv'
  BY <1>15, InsideSteps
<1>16. ASSUME NEW w \in Workers, KernelStep(w) PROVE AccInv'
  BY <1>16, InsideSteps
<1>17. ASSUME NEW w \in Workers, GetVarPtr(w) PROVE AccInv'
  BY <1>17, InsideSteps
<1>18. ASSUME NEW w \in Workers, Alloc(w) PROVE AccInv'
  BY <1>18, InsideSteps
<1>19. ASSUME NEW w \in Workers, GetLatestVarPtr(w) PROVE AccInv'
  BY <1>19, InsideSteps
<1>20. ASSUME UNCHANGED vars PROVE AccInv'
  BY <1>20 DEF vars, AccInv, AccOK, StageInv, HostInv
<1>21. QED
  BY <1>1, <1>2, <1>3, <1>4, <1>5, <1>6, <1>7, <1>8, <1>9, <1>10, <1>11, <1>12, <1>13,
     <1>14, <1>15, <1>16, <1>17, <1>18, <1>19, <1>20
     DEF Next, Host, Worker

\* Nobody is before the first synchronization when somebody is past it.
LEMMA StageStep ==
  ASSUME IInv, [Next]_vars
  PROVE  StageInv'
<1> USE CountFacts, GridAssumption DEF IInv, TypeOK, accelerator, barrier, hostVars, Early, Past, Idle, idx, SyncLabels
<1>1. ASSUME SetGridBlockIdx PROVE StageInv'
  BY <1>1 DEF SetGridBlockIdx, StageInv, HostInv
<1>2. ASSUME BlockThreadExecHost PROVE StageInv'
  BY <1>2 DEF BlockThreadExecHost, StageInv, HostInv
<1>3. ASSUME WaitFuture PROVE StageInv'
  <2>1. /\ host = "wait" /\ next \in Indices /\ futuresInBlock[next] # "pending"
        /\ UNCHANGED <<pc, at, m_qTasks>>
    BY <1>3 DEF WaitFuture, HostInv
  <2>2. CASE next + 1 < blockThreadCount
    BY <1>3, <2>1, <2>2 DEF WaitFuture, StageInv
  <2>3. CASE ~(next + 1 < blockThreadCount)
    <3>1. \A i \in Indices : i = next \/ i < next
      BY <2>1, <2>3 DEF Indices
    <3>2. \A i \in Indices : futuresInBlock[i] # "pending"
      BY <2>1, <3>1 DEF HostInv
    <3>3. \A w \in Workers : pc[w] \in Idle
      BY <3>2 DEF TaskInv, Tasks
    <3>4. QED
      BY <2>1, <3>3 DEF StageInv
  <2>4. QED
    BY <2>2, <2>3
<1>4. ASSUME CleanUp PROVE StageInv'
  BY <1>4 DEF CleanUp, StageInv, HostInv
<1>5. ASSUME Shutdown PROVE StageInv'
  BY <1>5 DEF Shutdown, StageInv, HostInv
<1>6. ASSUME JoinAll PROVE StageInv'
  BY <1>6 DEF JoinAll, StageInv, HostInv
<1>7. ASSUME SyncRelease PROVE StageInv'
  <2>1. /\ \A w \in Workers : at[w] = "in" /\ at'[w] = "go" /\ pc[w] \in SyncLabels
        /\ UNCHANGED <<pc, m_qTasks, host>>
    BY <1>7 DEF SyncRelease, BS!Release, StageInv
  <2>2. CASE \A w \in Workers : pc[w] = "first"
    <3>1. m_qTasks = <<>> /\ host = "wait"
      BY <2>2, FirstRelease
    <3>2. QED
      BY <2>1, <2>2, <3>1 DEF StageInv
  <2>3. CASE \A w \in Workers : pc[w] \in {"sync", "beforeAlloc", "afterAlloc", "last"}
    <3>1. \A w \in Workers : Past(w)
      BY <2>3
    <3>2. QED
      BY <2>1, <2>3, <3>1 DEF StageInv
  <2>4. QED
    BY <2>1, <2>2, <2>3, ReleaseCases
<1>8. ASSUME NEW w \in Workers, CheckShutdown(w) PROVE StageInv'
  BY <1>8 DEF CheckShutdown, Goto, StageInv, HostInv
<1>9. ASSUME NEW w \in Workers, PopTask(w) PROVE StageInv'
  <2>1. CASE m_qTasks = <<>>
    <3>1. /\ UNCHANGED <<at, m_qTasks, host>> /\ pc[w] = "pop" /\ pc' = [pc EXCEPT ![w] = "loop"]
      BY <1>9, <2>1 DEF PopTask, Goto
    <3>2. /\ \A u \in Workers : (Early(u)' <=> Early(u)) /\ (Past(u)' <=> Past(u))
          /\ \A u \in Workers : pc[u] \in SyncLabels => pc'[u] \in SyncLabels
      BY <3>1
    <3>3. QED
      BY <3>1, <3>2 DEF StageInv
  <2>2. CASE m_qTasks # <<>>
    <3>1. \A u \in Workers : ~Past(u)
      BY <2>2 DEF StageInv
    <3>2. pc[w] = "pop" /\ pc' = [pc EXCEPT ![w] = "master"] /\ UNCHANGED at
      BY <1>9, <2>2 DEF PopTask, Goto
    <3>3. \A u \in Workers : ~Past(u)'
      BY <3>1, <3>2
    <3>4. \A u \in Workers : at'[u] # "out" => pc'[u] \in SyncLabels
      BY <3>2 DEF StageInv
    <3>5. QED
      BY <3>3, <3>4 DEF StageInv
  <2>3. QED
    BY <2>1, <2>2
<1>10. ASSUME NEW w \in Workers, SetValue(w) PROVE StageInv'
  BY <1>10 DEF SetValue, EndTask, Goto, StageInv, HostInv
<1>11. ASSUME NEW w \in Workers, SetException(w) PROVE StageInv'
  BY <1>11 DEF SetException, EndTask, Goto, StageInv, HostInv
<1>12. ASSUME NEW w \in Workers, SetMaster(w) PROVE StageInv'
  BY <1>12 DEF SetMaster, Goto, StageInv, HostInv
<1>13. ASSUME NEW w \in Workers, InsertIndex(w) PROVE StageInv'
  BY <1>13 DEF InsertIndex, Goto, StageInv, HostInv
<1>14. ASSUME NEW w \in Workers, SyncBlockThreads(w) PROVE StageInv'
  BY <1>14 DEF SyncBlockThreads, BS!Enter, StageInv, HostInv
<1>15. ASSUME NEW w \in Workers, SyncReturns(w) PROVE StageInv'
  BY <1>15, InsideSteps
<1>16. ASSUME NEW w \in Workers, KernelStep(w) PROVE StageInv'
  BY <1>16, InsideSteps
<1>17. ASSUME NEW w \in Workers, GetVarPtr(w) PROVE StageInv'
  BY <1>17, InsideSteps
<1>18. ASSUME NEW w \in Workers, Alloc(w) PROVE StageInv'
  BY <1>18, InsideSteps
<1>19. ASSUME NEW w \in Workers, GetLatestVarPtr(w) PROVE StageInv'
  BY <1>19, InsideSteps
<1>20. ASSUME UNCHANGED vars PROVE StageInv'
  BY <1>20 DEF vars, StageInv, HostInv
<1>21. QED
  BY <1>1, <1>2, <1>3, <1>4, <1>5, <1>6, <1>7, <1>8, <1>9, <1>10, <1>11, <1>12, <1>13,
     <1>14, <1>15, <1>16, <1>17, <1>18, <1>19, <1>20
     DEF Next, Host, Worker

\* Steps that change neither the code nor the chunks, and move threads outside the
\* kernel only.
LEMMA QuietStep ==
  ASSUME IInv, UNCHANGED <<kernel, m_gridBlockIdx, chunks>>,
         \A u \in Workers : \/ pc'[u] = pc[u] /\ ip'[u] = ip[u] /\ (at'[u] = "go" <=> at[u] = "go")
                            \/ Outside(u)' /\ ~Allocating(u),
         \A u \in Workers : data'[u] = data[u] \/ data'[u] = NoPointers,
         \A u \in Workers : Allocating(u) => m_idMasterThread' = m_idMasterThread
  PROVE  CodeInv' /\ MemInv'
<1> DEFINE Same(u) == pc'[u] = pc[u] /\ ip'[u] = ip[u] /\ (at'[u] = "go" <=> at[u] = "go")
<1>1. code' = code /\ Known' = Known /\ Passed' = Passed /\ chunks' = chunks
  BY DEF code, Known, Passed
<1>2. ASSUME NEW u \in Workers, Same(u)
      PROVE  /\ Free(u)' <=> Free(u)
             /\ Allocating(u)' <=> Allocating(u)
             /\ Pos(u)' = Pos(u)
             /\ CodeOK(u)'
  <2>1. /\ Free(u)' <=> Free(u)
        /\ Allocating(u)' <=> Allocating(u)
        /\ Pos(u)' = Pos(u)
    BY <1>2 DEF Free, Blocked, Allocating, Pos
  <2>2. CodeOK(u)
    BY DEF IInv, CodeInv
  <2>3. CodeOK(u)'
    BY <1>1, <1>2, <2>1, <2>2 DEF CodeOK
  <2>4. QED
    BY <2>1, <2>3
<1>3. ASSUME NEW u \in Workers, ~Same(u)
      PROVE  ~Free(u)' /\ ~Allocating(u)' /\ ~Allocating(u) /\ CodeOK(u)'
  <2>1. Outside(u)' /\ ~Allocating(u)
    BY <1>3
  <2>2. QED
    BY <2>1 DEF Outside, Idle, Free, Blocked, Allocating, CodeOK
<1> HIDE DEF Same
<1>4. ASSUME NEW w \in Workers, NEW u \in Workers PROVE Near(w, u)'
  <2>1. Near(w, u)
    BY DEF IInv, CodeInv
  <2>2. CASE Same(w) /\ Same(u)
    BY <1>1, <1>2, <2>1, <2>2 DEF Near, Same
  <2>3. CASE ~Same(w)
    BY <1>3, <2>3 DEF Near
  <2>4. CASE Same(w) /\ ~Same(u)
    <3>1. ~Free(u)' /\ ~Allocating(u)
      BY <1>3, <2>4
    <3>2. ~Allocating(w)'
      BY <1>2, <2>1, <2>4, <3>1 DEF Near
    <3>3. QED
      BY <3>1, <3>2 DEF Near
  <2>5. QED
    BY <2>2, <2>3, <2>4
<1>5. CodeInv'
  BY <1>2, <1>3, <1>4 DEF CodeInv
<1>6. SharedVarsAgree'
  <2>1. ASSUME NEW u \in Workers, NEW v \in Vars, data'[u][v] # 0
        PROVE  data'[u][v] \in DOMAIN chunks /\ chunks[data'[u][v]] = v
    <3>1. data'[u] = data[u]
      BY <2>1 DEF NoPointers
    <3>2. QED
      BY <2>1, <3>1 DEF IInv, MemInv, SharedVarsAgree
  <2>2. QED
    BY <1>1, <2>1 DEF IInv, MemInv, SharedVarsAgree
<1>7. ASSUME NEW w \in Workers, Allocating(w)', m_idMasterThread' = w
      PROVE  IF pc'[w] = "afterAlloc" THEN chunks' # <<>> /\ chunks'[Len(chunks')] = code'[ip'[w]]
                                      ELSE code'[ip'[w]] \notin Known'
  <2>1. Same(w) /\ Allocating(w) /\ m_idMasterThread = w
    BY <1>2, <1>3, <1>7
  <2>2. QED
    BY <1>1, <2>1 DEF Same, IInv, MemInv
<1>8. QED
  BY <1>5, <1>6, <1>7 DEF MemInv

\* A step of one thread inside the kernel: the others stay where they are, and it
\* is enough to look at it and at its distance to each of them.
LEMMA MoveInside ==
  ASSUME IInv, NEW w \in Workers, UNCHANGED <<kernel, m_gridBlockIdx, chunks>>,
         \A u \in Workers \ {w} : pc'[u] = pc[u] /\ ip'[u] = ip[u] /\ at'[u] = at[u],
         CodeOK(w)', Near(w, w)',
         \A u \in Workers \ {w} : Near(w, u)' /\ Near(u, w)'
  PROVE  CodeInv'
<1>1. code' = code /\ Known' = Known /\ Passed' = Passed /\ chunks' = chunks
  BY DEF code, Known, Passed
<1>2. ASSUME NEW u \in Workers \ {w}
      PROVE  /\ Free(u)' <=> Free(u)
             /\ Allocating(u)' <=> Allocating(u)
             /\ Pos(u)' = Pos(u)
             /\ CodeOK(u)'
  <2>1. /\ Free(u)' <=> Free(u)
        /\ Allocating(u)' <=> Allocating(u)
        /\ Pos(u)' = Pos(u)
    BY DEF Free, Blocked, Allocating, Pos
  <2>2. CodeOK(u)
    BY DEF IInv, CodeInv
  <2>3. CodeOK(u)'
    BY <1>1, <2>1, <2>2 DEF CodeOK
  <2>4. QED
    BY <2>1, <2>3
<1>3. ASSUME NEW u \in Workers \ {w}, NEW v \in Workers \ {w} PROVE Near(u, v)'
  <2>1. Near(u, v) /\ ip'[u] = ip[u] /\ ip'[v] = ip[v]
    BY DEF IInv, CodeInv
  <2>2. QED
    BY <1>1, <1>2, <2>1 DEF Near
<1>4. QED
  BY <1>2, <1>3 DEF CodeInv

\* The distance to a thread that moves inside a segment.
LEMMA StaysNear ==
  ASSUME IInv, NEW w \in Workers, UNCHANGED <<kernel, m_gridBlockIdx, chunks>>,
         \A u \in Workers \ {w} : pc'[u] = pc[u] /\ ip'[u] = ip[u] /\ at'[u] = at[u],
         \/ ~Allocating(w) /\ ~Free(w)' /\ ~Allocating(w)'
         \/ /\ Free(w) /\ Free(w)' /\ Pos(w) \in Nat
            /\ \/ Pos(w)' = Pos(w)
               \/ Pos(w)' = Pos(w) + 1 /\ code[Pos(w)] \in Passed
         \/ Allocating(w) /\ Allocating(w)' /\ ip'[w] = ip[w]
  PROVE  Near(w, w)' /\ \A u \in Workers \ {w} : Near(w, u)' /\ Near(u, w)'
<1>1. code' = code /\ Passed' = Passed
  BY DEF code, Passed, Known
<1>2. \A u \in Workers \ {w} : /\ Free(u)' <=> Free(u)
                               /\ Allocating(u)' <=> Allocating(u)
                               /\ Pos(u)' = Pos(u) /\ ip'[u] = ip[u]
                               /\ Free(u) => Pos(u) \in Nat
  <2>1. ASSUME NEW u \in Workers, Free(u) PROVE Pos(u) \in Nat
    BY <2>1, CodeLength DEF IInv, TypeOK, CodeInv, CodeOK, Pos
  <2>2. QED
    BY <2>1 DEF Free, Blocked, Allocating, Pos
<1>3. \A u \in Workers : Near(w, u) /\ Near(u, w)
  BY DEF IInv, CodeInv
<1>4. \A u \in Workers : ~(Free(u) /\ Allocating(u)) /\ ~(Free(u)' /\ Allocating(u)')
  BY DEF Free, Blocked, Allocating
<1>5. CASE ~Allocating(w) /\ ~Free(w)' /\ ~Allocating(w)'
  <2>1. \A u \in Workers \ {w} : ~Allocating(u)'
    BY <1>2, <1>3, <1>5 DEF Near
  <2>2. QED
    BY <1>5, <2>1 DEF Near
<1>6. CASE Allocating(w) /\ Allocating(w)' /\ ip'[w] = ip[w]
  <2>1. \A u \in Workers \ {w} : Allocating(u)' /\ ip'[u] = ip'[w]
    BY <1>2, <1>3, <1>6 DEF Near
  <2>2. QED
    BY <1>4, <1>6, <2>1 DEF Near
<1>7. CASE /\ Free(w) /\ Free(w)' /\ Pos(w) \in Nat
           /\ \/ Pos(w)' = Pos(w)
              \/ Pos(w)' = Pos(w) + 1 /\ code[Pos(w)] \in Passed
  <2>1. ~Allocating(w)' /\ \A u \in Workers \ {w} : ~Allocating(u)'
    BY <1>2, <1>3, <1>4, <1>7 DEF Near
  <2>2. \A k \in Pos(w)'..(Pos(w)' - 1) : code[k] \in Passed
    BY <1>7
  <2>3. ASSUME NEW u \in Workers \ {w}, Free(u)'
        PROVE  /\ \A k \in Pos(u)..(Pos(w)' - 1) : code[k] \in Passed
               /\ \A k \in Pos(w)'..(Pos(u) - 1) : code[k] \in Passed
    <3>1. /\ \A k \in Pos(u)..(Pos(w) - 1) : code[k] \in Passed
          /\ \A k \in Pos(w)..(Pos(u) - 1) : code[k] \in Passed
          /\ Pos(u) \in Nat
      BY <1>2, <1>3, <1>7, <2>3 DEF Near
    <3>2. \A k \in Pos(u)..(Pos(w)' - 1) : k = Pos(w) \/ k \in Pos(u)..(Pos(w) - 1)
      BY <1>7, <3>1
    <3>3. \A k \in Pos(w)'..(Pos(u) - 1) : k \in Pos(w)..(Pos(u) - 1)
      BY <1>7, <3>1
    <3>4. CASE Pos(w)' = Pos(w)
      BY <3>1, <3>4
    <3>5. CASE Pos(w)' = Pos(w) + 1 /\ code[Pos(w)] \in Passed
      BY <3>1, <3>2, <3>3, <3>5
    <3>6. QED
      BY <1>7, <3>4, <3>5
  <2>4. QED
    BY <1>1, <1>2, <2>1, <2>2, <2>3 DEF Near
<1>8. QED
  BY <1>5, <1>6, <1>7

\* The threads stay together in the code, and the chunks apart.
LEMMA CodeStep ==
  ASSUME IInv, [Next]_vars
  PROVE  CodeInv' /\ MemInv'
<1>1. ASSUME SetGridBlockIdx PROVE CodeInv' /\ MemInv'
  <2>1. \A w \in Workers : pc[w] \in Idle
    BY <1>1, NobodyBusy DEF SetGridBlockIdx
  <2>2. UNCHANGED <<pc, chunks, data>>
    BY <1>1 DEF SetGridBlockIdx
  <2>3. \A w \in Workers : ~Free(w)' /\ ~Allocating(w)' /\ CodeOK(w)'
    BY <2>1, <2>2 DEF Idle, Free, Blocked, Allocating, CodeOK
  <2>4. CodeInv'
    BY <2>3 DEF CodeInv, Near
  <2>5. QED
    BY <2>2, <2>3, <2>4 DEF IInv, MemInv, SharedVarsAgree
<1>2. ASSUME BlockThreadExecHost PROVE CodeInv' /\ MemInv'
  <2>1. UNCHANGED <<kernel, m_gridBlockIdx, chunks, pc, ip, at, data, m_idMasterThread>>
    BY <1>2 DEF BlockThreadExecHost, hostVars, accelerator, barrier
  <2>2. QED
    BY <2>1, QuietStep
<1>3. ASSUME WaitFuture PROVE CodeInv' /\ MemInv'
  <2>1. UNCHANGED <<kernel, m_gridBlockIdx, chunks, pc, ip, at, data, m_idMasterThread>>
    BY <1>3 DEF WaitFuture, hostVars, accelerator, barrier
  <2>2. QED
    BY <2>1, QuietStep
<1>4. ASSUME CleanUp PROVE CodeInv' /\ MemInv'
  <2>1. UNCHANGED <<kernel, m_gridBlockIdx, chunks, pc, ip, at, data, m_idMasterThread>>
    BY <1>4 DEF CleanUp, hostVars, accelerator, barrier
  <2>2. QED
    BY <2>1, QuietStep
<1>5. ASSUME Shutdown PROVE CodeInv' /\ MemInv'
  <2>1. UNCHANGED <<kernel, m_gridBlockIdx, chunks, pc, ip, at, data, m_idMasterThread>>
    BY <1>5 DEF Shutdown, hostVars, accelerator, barrier
  <2>2. QED
    BY <2>1, QuietStep
<1>6. ASSUME JoinAll PROVE CodeInv' /\ MemInv'
  <2>1. UNCHANGED <<kernel, m_gridBlockIdx, chunks, pc, ip, at, data, m_idMasterThread>>
    BY <1>6 DEF JoinAll, hostVars, accelerator, barrier
  <2>2. QED
    BY <2>1, QuietStep
<1>7. ASSUME SyncRelease PROVE CodeInv' /\ MemInv'
  <2>1. /\ \A w \in Workers : at[w] = "in" /\ at'[w] = "go"
        /\ UNCHANGED <<kernel, m_gridBlockIdx, chunks, pc, ip, data, task, m_idMasterThread>>
    BY <1>7 DEF SyncRelease, BS!Release, accelerator
  <2>2. code' = code /\ Known' = Known
    BY <2>1 DEF code, Known
  <2>3. \A w \in Workers : CodeOK(w) /\ ip[w] \in Nat
    BY DEF IInv, CodeInv, TypeOK
  <2>4. Len(code) \in Nat
    BY CodeLength DEF IInv
  <2>5. SharedVarsAgree'
    BY <2>1 DEF IInv, MemInv, SharedVarsAgree
  <2>6. ASSUME NEW i \in Nat, \A w \in Workers : pc[w] \in {"first", "sync", "afterAlloc"} /\ ip[w] = i,
               \A w \in Workers : CodeOK(w)'
        PROVE  CodeInv' /\ MemInv'
    <3>1. \A w \in Workers : Free(w)' /\ ~Allocating(w)' /\ Pos(w)' = i
      BY <2>1, <2>6 DEF Free, Allocating, Pos
    <3>2. \A k \in i..(i - 1) : FALSE
      OBVIOUS
    <3>3. QED
      BY <2>5, <2>6, <3>1, <3>2 DEF CodeInv, MemInv, Near
  <2>7. CASE \A w \in Workers : pc[w] = "first"
    <3>1. \A w \in Workers : ip[w] = 1
      BY <2>1, <2>7 DEF IInv, AccInv, AccOK, Past, Early
    <3>2. \A w \in Workers : CodeOK(w)'
      BY <2>1, <2>2, <2>4, <2>7, <3>1 DEF CodeOK
    <3>3. QED
      BY <2>6, <2>7, <3>1, <3>2
  <2>8. ASSUME NEW i \in Nat, \A w \in Workers : pc[w] = "sync" /\ ip[w] = i
        PROVE  CodeInv' /\ MemInv'
    <3>1. \A w \in Workers : CodeOK(w)'
      BY <2>1, <2>2, <2>3, <2>4, <2>8 DEF CodeOK
    <3>2. QED
      BY <2>6, <2>8, <3>1
  <2>9. ASSUME NEW i \in Nat, \A w \in Workers : pc[w] = "afterAlloc" /\ ip[w] = i
        PROVE  CodeInv' /\ MemInv'
    <3>1. PICK v \in Workers : TRUE
      BY GridAssumption
    <3>2. m_idMasterThread \in Workers
      BY <2>9, <3>1 DEF IInv, AccInv, AccOK, Past, Early, Idle
    <3>3. chunks # <<>> /\ chunks[Len(chunks)] = code[i]
      BY <2>1, <2>9, <3>2 DEF IInv, MemInv, Allocating
    <3>4. \A w \in Workers : CodeOK(w)'
      BY <2>1, <2>2, <2>3, <2>4, <2>9, <3>3 DEF CodeOK, Free, Allocating
    <3>5. QED
      BY <2>6, <2>9, <3>4
  <2>10. ASSUME NEW i \in Nat, \A w \in Workers : pc[w] = "beforeAlloc" /\ ip[w] = i
        PROVE  CodeInv' /\ MemInv'
    <3>1. \A w \in Workers : code[i] \notin Known
      BY <2>1, <2>3, <2>10 DEF CodeOK
    <3>2. \A w \in Workers : Allocating(w)' /\ ~Free(w)'
      BY <2>1, <2>10 DEF Free, Blocked, Allocating
    <3>3. \A w \in Workers : CodeOK(w)'
      BY <2>1, <2>2, <2>3, <2>4, <2>10, <3>1 DEF CodeOK, Free, Blocked, Allocating
    <3>4. QED
      BY <2>1, <2>2, <2>5, <2>10, <3>1, <3>2, <3>3 DEF CodeInv, MemInv, Near
  <2>11. CASE \A w \in Workers : pc[w] = "last"
    <3>1. \A w \in Workers : ~Allocating(w)' /\ ~Free(w)' /\ CodeOK(w)'
      BY <2>1, <2>2, <2>3, <2>11 DEF Free, Blocked, Allocating, CodeOK
    <3>2. QED
      BY <2>5, <3>1 DEF CodeInv, MemInv, Near
  <2>12. QED
    BY <2>1, <2>7, <2>8, <2>9, <2>10, <2>11, ReleaseCases
<1>8. ASSUME NEW w \in Workers, CheckShutdown(w) PROVE CodeInv' /\ MemInv'
  <2>1. UNCHANGED <<kernel, m_gridBlockIdx, chunks, at>>
    BY <1>8 DEF CheckShutdown, hostVars, accelerator, barrier
  <2>2. /\ \A u \in Workers : u # w => pc'[u] = pc[u] /\ ip'[u] = ip[u] /\ data'[u] = data[u]
        /\ data'[w] = data[w] \/ data'[w] = NoPointers
        /\ at[w] = "out" /\ Outside(w)' /\ ~Allocating(w)
    BY <1>8 DEF CheckShutdown, Goto, IInv, TypeOK, StageInv, Outside, Idle, Allocating, SyncLabels, hostVars, accelerator, barrier
  <2>3. \A u \in Workers : Allocating(u) => m_idMasterThread' = m_idMasterThread
    BY <1>8 DEF CheckShutdown, accelerator
  <2>4. QED
    BY <2>1, <2>2, <2>3, QuietStep
<1>9. ASSUME NEW w \in Workers, PopTask(w) PROVE CodeInv' /\ MemInv'
  <2>1. UNCHANGED <<kernel, m_gridBlockIdx, chunks, at>>
    BY <1>9 DEF PopTask, hostVars, accelerator, barrier
  <2>2. /\ \A u \in Workers : u # w => pc'[u] = pc[u] /\ ip'[u] = ip[u] /\ data'[u] = data[u]
        /\ data'[w] = data[w] \/ data'[w] = NoPointers
        /\ at[w] = "out" /\ Outside(w)' /\ ~Allocating(w)
    BY <1>9 DEF PopTask, Goto, IInv, TypeOK, StageInv, Outside, Idle, Allocating, SyncLabels, hostVars, accelerator, barrier
  <2>3. \A u \in Workers : Allocating(u) => m_idMasterThread' = m_idMasterThread
    BY <1>9 DEF PopTask, accelerator
  <2>4. QED
    BY <2>1, <2>2, <2>3, QuietStep
<1>10. ASSUME NEW w \in Workers, SetValue(w) PROVE CodeInv' /\ MemInv'
  <2>1. UNCHANGED <<kernel, m_gridBlockIdx, chunks, at>>
    BY <1>10 DEF SetValue, EndTask, hostVars, accelerator, barrier
  <2>2. /\ \A u \in Workers : u # w => pc'[u] = pc[u] /\ ip'[u] = ip[u] /\ data'[u] = data[u]
        /\ data'[w] = data[w] \/ data'[w] = NoPointers
        /\ at[w] = "out" /\ Outside(w)' /\ ~Allocating(w)
    BY <1>10 DEF SetValue, EndTask, Goto, IInv, TypeOK, StageInv, Outside, Idle, Allocating, SyncLabels, hostVars, accelerator, barrier
  <2>3. \A u \in Workers : Allocating(u) => m_idMasterThread' = m_idMasterThread
    BY <1>10 DEF SetValue, EndTask, accelerator
  <2>4. QED
    BY <2>1, <2>2, <2>3, QuietStep
<1>11. ASSUME NEW w \in Workers, SetException(w) PROVE CodeInv' /\ MemInv'
  <2>1. UNCHANGED <<kernel, m_gridBlockIdx, chunks, at>>
    BY <1>11 DEF SetException, EndTask, hostVars, accelerator, barrier
  <2>2. /\ \A u \in Workers : u # w => pc'[u] = pc[u] /\ ip'[u] = ip[u] /\ data'[u] = data[u]
        /\ data'[w] = data[w] \/ data'[w] = NoPointers
        /\ at[w] = "out" /\ Outside(w)' /\ ~Allocating(w)
    BY <1>11 DEF SetException, EndTask, Goto, IInv, TypeOK, StageInv, Outside, Idle, Allocating, SyncLabels, hostVars, accelerator, barrier
  <2>3. \A u \in Workers : Allocating(u) => m_idMasterThread' = m_idMasterThread
    BY <1>11 DEF SetException, EndTask, accelerator
  <2>4. QED
    BY <2>1, <2>2, <2>3, QuietStep
<1>12. ASSUME NEW w \in Workers, SetMaster(w) PROVE CodeInv' /\ MemInv'
  <2>1. UNCHANGED <<kernel, m_gridBlockIdx, chunks, at>>
    BY <1>12 DEF SetMaster, hostVars, accelerator, barrier
  <2>2. /\ \A u \in Workers : u # w => pc'[u] = pc[u] /\ ip'[u] = ip[u] /\ data'[u] = data[u]
        /\ data'[w] = data[w] \/ data'[w] = NoPointers
        /\ at[w] = "out" /\ Outside(w)' /\ ~Allocating(w)
    BY <1>12 DEF SetMaster, Goto, IInv, TypeOK, StageInv, Outside, Idle, Allocating, SyncLabels, hostVars, accelerator, barrier
  <2>3. \A u \in Workers : Allocating(u) => m_idMasterThread' = m_idMasterThread
    <3>1. Early(w)
      BY <1>12 DEF SetMaster, Early
    <3>2. \A u \in Workers : ~Past(u)
      BY <3>1 DEF IInv, StageInv
    <3>3. QED
      BY <3>2 DEF Past, Early, Idle, Allocating
  <2>4. QED
    BY <2>1, <2>2, <2>3, QuietStep
<1>13. ASSUME NEW w \in Workers, InsertIndex(w) PROVE CodeInv' /\ MemInv'
  <2>1. UNCHANGED <<kernel, m_gridBlockIdx, chunks, at>>
    BY <1>13 DEF InsertIndex, hostVars, accelerator, barrier
  <2>2. /\ \A u \in Workers : u # w => pc'[u] = pc[u] /\ ip'[u] = ip[u] /\ data'[u] = data[u]
        /\ data'[w] = data[w] \/ data'[w] = NoPointers
        /\ at[w] = "out" /\ Outside(w)' /\ ~Allocating(w)
    BY <1>13 DEF InsertIndex, Goto, IInv, TypeOK, StageInv, Outside, Idle, Allocating, SyncLabels, hostVars, accelerator, barrier
  <2>3. \A u \in Workers : Allocating(u) => m_idMasterThread' = m_idMasterThread
    BY <1>13 DEF InsertIndex, accelerator
  <2>4. QED
    BY <2>1, <2>2, <2>3, QuietStep
<1>14. ASSUME NEW w \in Workers, SyncBlockThreads(w) PROVE CodeInv' /\ MemInv'
  <2>1. UNCHANGED <<kernel, m_gridBlockIdx, chunks, pc, ip, data, m_idMasterThread>>
    BY <1>14 DEF SyncBlockThreads, accelerator
  <2>2. \A u \in Workers : at'[u] = "go" <=> at[u] = "go"
    BY <1>14 DEF SyncBlockThreads, BS!Enter, IInv, TypeOK
  <2>3. QED
    BY <2>1, <2>2, QuietStep
<1>15. ASSUME NEW w \in Workers, SyncReturns(w) PROVE CodeInv' /\ MemInv'
  <2>1. /\ UNCHANGED <<kernel, m_gridBlockIdx, chunks, m_idMasterThread, data>>
        /\ \A u \in Workers \ {w} : pc'[u] = pc[u] /\ ip'[u] = ip[u] /\ at'[u] = at[u]
        /\ at[w] = "go" /\ at'[w] = "out" /\ ip'[w] = ip[w] /\ ip[w] \in Nat
        /\ \/ pc[w] \in {"first", "sync"} /\ pc'[w] = "kernel"
           \/ pc[w] = "beforeAlloc" /\ pc'[w] = "alloc"
           \/ pc[w] = "afterAlloc" /\ pc'[w] = "getLatestVarPtr"
           \/ pc[w] = "last" /\ pc'[w] = "return"
    <3>1. UNCHANGED <<kernel, m_gridBlockIdx, chunks, m_idMasterThread, data>>
      BY <1>15 DEF SyncReturns, hostVars, accelerator
    <3>2. pc \in [Workers -> Labels] /\ ip \in [Workers -> Nat] /\ at \in [Workers -> {"out", "in", "go"}]
      BY DEF IInv, TypeOK
    <3>3. at[w] = "go" /\ at' = [at EXCEPT ![w] = "out"]
      BY <1>15, SyncReturnsCases
    <3>4. /\ \A u \in Workers \ {w} : pc'[u] = pc[u] /\ ip'[u] = ip[u]
          /\ ip'[w] = ip[w]
          /\ \/ pc[w] \in {"first", "sync"} /\ pc'[w] = "kernel"
             \/ pc[w] = "beforeAlloc" /\ pc'[w] = "alloc"
             \/ pc[w] = "afterAlloc" /\ pc'[w] = "getLatestVarPtr"
             \/ pc[w] = "last" /\ pc'[w] = "return"
      BY <1>15, <3>2, SyncReturnsCases DEF Moves
    <3>5. QED
      BY <3>1, <3>2, <3>3, <3>4
  <2>2. code' = code /\ Known' = Known /\ CodeOK(w)
    BY <2>1 DEF code, Known, IInv, CodeInv
  <2>3. CodeOK(w)'
    BY <2>1, <2>2 DEF CodeOK, Free, Blocked, Allocating
  <2>4. \/ ~Allocating(w) /\ ~Free(w)' /\ ~Allocating(w)'
        \/ Free(w) /\ Free(w)' /\ Pos(w) \in Nat /\ Pos(w)' = Pos(w)
        \/ Allocating(w) /\ Allocating(w)' /\ ip'[w] = ip[w]
    BY <2>1 DEF Free, Blocked, Allocating, Pos
  <2>5. CodeInv'
    BY <2>1, <2>3, <2>4, MoveInside, StaysNear
  <2>6. \A u \in Workers : Allocating(u)' <=> Allocating(u)
    BY <2>1 DEF Allocating
  <2>7. \A u \in Workers : Allocating(u) => (pc'[u] = "afterAlloc" <=> pc[u] = "afterAlloc") /\ ip'[u] = ip[u]
    BY <2>1 DEF Allocating
  <2>8. QED
    BY <2>1, <2>2, <2>5, <2>6, <2>7 DEF IInv, MemInv, SharedVarsAgree
<1>16. ASSUME NEW w \in Workers, KernelStep(w) PROVE CodeInv' /\ MemInv'
  <2>1. /\ UNCHANGED <<kernel, m_gridBlockIdx, chunks, m_idMasterThread, data, at>>
        /\ at[w] = "out" /\ ip[w] \in Nat
    BY <1>16 DEF KernelStep, IInv, TypeOK, StageInv, SyncLabels, hostVars, accelerator, barrier
  <2>2. /\ pc[w] = "kernel" /\ ip[w] \in 1..(Len(code) + 1) /\ Len(code) \in Nat
        /\ \A u \in Workers \ {w} : pc'[u] = pc[u] /\ ip'[u] = ip[u] /\ at'[u] = at[u]
        /\ \/ ip[w] = Len(code) + 1 /\ pc'[w] = "last" /\ ip'[w] = ip[w]
           \/ ip[w] \in 1..Len(code) /\ code[ip[w]] = "sync" /\ pc'[w] = "sync" /\ ip'[w] = ip[w] + 1
           \/ pc'[w] = "thrown"
           \/ ip[w] \in 1..Len(code) /\ code[ip[w]] = "throw" /\ pc'[w] = "kernel" /\ ip'[w] = ip[w] + 1
           \/ ip[w] \in 1..Len(code) /\ code[ip[w]] \in Vars /\ pc'[w] = "getVarPtr" /\ ip'[w] = ip[w]
    BY <1>16, <2>1, KernelStepCases DEF Moves, IInv, TypeOK
  <2>3. code' = code /\ Known' = Known
    BY <2>1 DEF code, Known
  <2>4. CodeOK(w)'
    BY <2>1, <2>2, <2>3 DEF CodeOK, Free, Blocked, Allocating
  <2>5. \/ ~Allocating(w) /\ ~Free(w)' /\ ~Allocating(w)'
        \/ /\ Free(w) /\ Free(w)' /\ Pos(w) \in Nat
           /\ Pos(w)' = Pos(w) \/ (Pos(w)' = Pos(w) + 1 /\ code[Pos(w)] \in Passed)
    BY <2>1, <2>2 DEF Free, Blocked, Allocating, Pos, Passed
  <2>6. CodeInv'
    BY <2>1, <2>2, <2>4, <2>5, MoveInside, StaysNear
  <2>7. \A u \in Workers : Allocating(u)' => Allocating(u) /\ u # w
    BY <2>1, <2>2 DEF Allocating
  <2>8. QED
    BY <2>1, <2>2, <2>3, <2>6, <2>7 DEF IInv, MemInv, SharedVarsAgree
<1>17. ASSUME NEW w \in Workers, GetVarPtr(w) PROVE CodeInv' /\ MemInv'
  <2>1. /\ UNCHANGED <<kernel, m_gridBlockIdx, chunks, m_idMasterThread, at>>
        /\ at[w] = "out" /\ ip[w] \in Nat /\ Len(code) \in Nat
        /\ pc[w] = "getVarPtr" /\ ip[w] \in 1..Len(code) /\ code[ip[w]] \in Vars
    BY <1>17, GetVarPtrCases, CodeLength DEF GetVarPtr, IInv, TypeOK, StageInv, SyncLabels, hostVars, accelerator, barrier
  <2>2. /\ \A u \in Workers \ {w} : pc'[u] = pc[u] /\ ip'[u] = ip[u] /\ at'[u] = at[u]
        /\ \/ code[ip[w]] \notin Known /\ pc'[w] = "beforeAlloc" /\ ip'[w] = ip[w]
           \/ code[ip[w]] \in Known /\ pc'[w] = "kernel" /\ ip'[w] = ip[w] + 1
    <3>1. pc \in [Workers -> Labels] /\ ip \in [Workers -> Nat]
      BY DEF IInv, TypeOK
    <3>2. CASE code[ip[w]] \notin Known /\ Moves(w, "beforeAlloc", ip[w])
      BY <2>1, <3>1, <3>2 DEF Moves
    <3>3. ASSUME NEW k \in 1..Len(chunks), chunks[k] = code[ip[w]], Moves(w, "kernel", ip[w] + 1)
          PROVE  /\ \A u \in Workers \ {w} : pc'[u] = pc[u] /\ ip'[u] = ip[u] /\ at'[u] = at[u]
                 /\ code[ip[w]] \in Known /\ pc'[w] = "kernel" /\ ip'[w] = ip[w] + 1
      <4>1. code[ip[w]] \in Known
        BY <3>3 DEF Known
      <4>2. QED
        BY <2>1, <3>1, <3>3, <4>1 DEF Moves
    <3>4. QED
      BY <1>17, <3>2, <3>3, GetVarPtrCases
  <2>3. code' = code /\ Known' = Known
    BY <2>1 DEF code, Known
  <2>4. ASSUME NEW k \in 1..Len(chunks), chunks[k] = code[ip[w]], data' = [data EXCEPT ![w][code[ip[w]]] = k]
        PROVE  SharedVarsAgree'
    <3>1. ASSUME NEW u \in Workers, NEW v \in Vars, data'[u][v] # 0
          PROVE  data'[u][v] \in DOMAIN chunks /\ chunks[data'[u][v]] = v
      <4>1. CASE u = w /\ v = code[ip[w]]
        BY <2>1, <2>4, <4>1, KnownVars DEF IInv, TypeOK
      <4>2. CASE u # w \/ v # code[ip[w]]
        <5>1. data'[u][v] = data[u][v]
          BY <2>4, <4>2 DEF IInv, TypeOK
        <5>2. QED
          BY <3>1, <5>1 DEF IInv, MemInv, SharedVarsAgree
      <4>3. QED
        BY <4>1, <4>2
    <3>2. QED
      BY <2>1, <3>1 DEF IInv, MemInv, SharedVarsAgree
  <2>5. SharedVarsAgree'
    <3>1. CASE UNCHANGED data
      BY <2>1, <3>1 DEF IInv, MemInv, SharedVarsAgree
    <3>2. QED
      BY <1>17, <2>4, <3>1, GetVarPtrCases
  <2>6. CodeOK(w)'
    BY <2>1, <2>2, <2>3 DEF CodeOK, Free, Blocked, Allocating
  <2>7. /\ Free(w) /\ Free(w)' /\ Pos(w) \in Nat
        /\ Pos(w)' = Pos(w) \/ (Pos(w)' = Pos(w) + 1 /\ code[Pos(w)] \in Passed)
    BY <2>1, <2>2 DEF Free, Blocked, Pos, Passed
  <2>8. CodeInv'
    BY <2>1, <2>2, <2>6, <2>7, MoveInside, StaysNear
  <2>9. \A u \in Workers : Allocating(u)' => Allocating(u) /\ u # w
    BY <2>1, <2>2 DEF Allocating
  <2>10. QED
    BY <2>1, <2>2, <2>3, <2>5, <2>8, <2>9 DEF IInv, MemInv
<1>18. ASSUME NEW w \in Workers, Alloc(w) PROVE CodeInv' /\ MemInv'
  <2>1. /\ UNCHANGED <<kernel, m_gridBlockIdx, m_idMasterThread, at, data>>
        /\ at[w] = "out" /\ ip[w] \in Nat /\ Len(code) \in Nat
        /\ pc[w] = "alloc" /\ ip[w] \in 1..Len(code) /\ code[ip[w]] \in Vars
        /\ chunks' = IF m_idMasterThread = w THEN Append(chunks, code[ip[w]]) ELSE chunks
    BY <1>18, AllocCases, CodeLength DEF Alloc, IInv, TypeOK, StageInv, SyncLabels, hostVars, accelerator, barrier
  <2>2. /\ \A u \in Workers \ {w} : pc'[u] = pc[u] /\ ip'[u] = ip[u] /\ at'[u] = at[u]
        /\ pc'[w] = "afterAlloc" /\ ip'[w] = ip[w] /\ code' = code
    BY <1>18, <2>1, AllocCases DEF Moves, code, IInv, TypeOK
  <2>3. \A u \in Workers : Allocating(u) /\ ip[u] = ip[w] /\ CodeOK(u) /\ Allocating(u)' /\ ~Free(u)'
    <3>1. \A u \in Workers : Allocating(u) /\ ip[u] = ip[w] /\ CodeOK(u)
      BY <2>1 DEF IInv, CodeInv, Near, Allocating
    <3>2. QED
      BY <2>1, <2>2, <3>1 DEF Allocating, Free, Blocked
  <2>4. \A u \in Workers : CodeOK(u)'
    <3>1. ASSUME NEW u \in Workers PROVE CodeOK(u)'
      <4>1. pc'[u] \in {"beforeAlloc", "alloc", "afterAlloc"} /\ ip'[u] = ip[w] /\ ~(pc'[u] = "beforeAlloc" /\ at'[u] # "go")
            /\ ~(pc'[u] = "afterAlloc" /\ at'[u] = "go")
        BY <2>1, <2>2, <2>3 DEF Allocating
      <4>2. QED
        BY <2>1, <2>2, <4>1 DEF CodeOK
    <3>2. QED
      BY <3>1
  <2>5. CodeInv'
    BY <2>2, <2>3, <2>4 DEF CodeInv, Near
  <2>6. CASE m_idMasterThread # w
    BY <2>1, <2>2, <2>3, <2>5, <2>6 DEF IInv, MemInv, SharedVarsAgree, Known
  <2>7. CASE m_idMasterThread = w
    <3>1. code[ip[w]] \notin Known
      BY <2>1, <2>3, <2>7 DEF IInv, MemInv
    <3>2. /\ Len(chunks) \in Nat /\ Len(chunks') = Len(chunks) + 1 /\ chunks' # <<>>
          /\ chunks'[Len(chunks) + 1] = code[ip[w]] /\ \A k \in 1..Len(chunks) : chunks'[k] = chunks[k]
          /\ DOMAIN chunks' = 1..(Len(chunks) + 1) /\ DOMAIN chunks = 1..Len(chunks)
      BY <2>1, <2>7, AppendProperties, LenProperties DEF IInv, TypeOK
    <3>3. \A k \in 1..Len(chunks) : chunks[k] # code[ip[w]]
      BY <3>1 DEF Known
    <3>4. SharedVarsAgree
      BY DEF IInv, MemInv
    <3>5. ASSUME NEW j \in DOMAIN chunks', NEW k \in DOMAIN chunks', chunks'[j] = chunks'[k] PROVE j = k
      BY <3>2, <3>3, <3>4, <3>5 DEF SharedVarsAgree
    <3>6. ASSUME NEW u \in Workers, NEW v \in Vars, data[u][v] # 0
          PROVE  data[u][v] \in DOMAIN chunks' /\ chunks'[data[u][v]] = v
      <4>1. data[u][v] \in 1..Len(chunks) /\ chunks[data[u][v]] = v
        BY <3>2, <3>4, <3>6 DEF SharedVarsAgree
      <4>2. QED
        BY <3>2, <4>1
    <3>7. SharedVarsAgree'
      BY <2>1, <3>5, <3>6 DEF SharedVarsAgree
    <3>8. QED
      BY <2>1, <2>2, <2>5, <2>7, <3>2, <3>7 DEF MemInv
  <2>8. QED
    BY <2>6, <2>7
<1>19. ASSUME NEW w \in Workers, GetLatestVarPtr(w) PROVE CodeInv' /\ MemInv'
  <2>1. /\ UNCHANGED <<kernel, m_gridBlockIdx, chunks, m_idMasterThread, at>>
        /\ at[w] = "out" /\ ip[w] \in Nat /\ Len(code) \in Nat
        /\ pc[w] = "getLatestVarPtr" /\ ip[w] \in 1..Len(code) /\ code[ip[w]] \in Vars
        /\ Len(chunks) \in 1..Len(chunks) /\ chunks[Len(chunks)] = code[ip[w]]
    BY <1>19, GetLatestVarPtrCases, CodeLength DEF GetLatestVarPtr, IInv, TypeOK, StageInv, SyncLabels, hostVars, accelerator, barrier
  <2>2. /\ \A u \in Workers \ {w} : pc'[u] = pc[u] /\ ip'[u] = ip[u] /\ at'[u] = at[u]
        /\ code[ip[w]] \in Known /\ pc'[w] = "kernel" /\ ip'[w] = ip[w] + 1
    BY <1>19, <2>1, GetLatestVarPtrCases DEF Moves, Known, IInv, TypeOK
  <2>3. code' = code /\ Known' = Known
    BY <2>1 DEF code, Known
  <2>4. ASSUME NEW k \in 1..Len(chunks), chunks[k] = code[ip[w]], data' = [data EXCEPT ![w][code[ip[w]]] = k]
        PROVE  SharedVarsAgree'
    <3>1. ASSUME NEW u \in Workers, NEW v \in Vars, data'[u][v] # 0
          PROVE  data'[u][v] \in DOMAIN chunks /\ chunks[data'[u][v]] = v
      <4>1. CASE u = w /\ v = code[ip[w]]
        BY <2>1, <2>4, <4>1, KnownVars DEF IInv, TypeOK
      <4>2. CASE u # w \/ v # code[ip[w]]
        <5>1. data'[u][v] = data[u][v]
          BY <2>4, <4>2 DEF IInv, TypeOK
        <5>2. QED
          BY <3>1, <5>1 DEF IInv, MemInv, SharedVarsAgree
      <4>3. QED
        BY <4>1, <4>2
    <3>2. QED
      BY <2>1, <3>1 DEF IInv, MemInv, SharedVarsAgree
  <2>5. SharedVarsAgree'
    BY <1>19, <2>1, <2>4, GetLatestVarPtrCases
  <2>6. CodeOK(w)'
    BY <2>1, <2>2, <2>3 DEF CodeOK, Free, Blocked, Allocating
  <2>7. /\ Free(w) /\ Free(w)' /\ Pos(w) \in Nat
        /\ Pos(w)' = Pos(w) + 1 /\ code[Pos(w)] \in Passed
    BY <2>1, <2>2 DEF Free, Blocked, Pos, Passed
  <2>8. CodeInv'
    BY <2>1, <2>2, <2>6, <2>7, MoveInside, StaysNear
  <2>9. \A u \in Workers : Allocating(u)' => Allocating(u) /\ u # w
    BY <2>1, <2>2 DEF Allocating
  <2>10. QED
    BY <2>1, <2>2, <2>3, <2>5, <2>8, <2>9 DEF IInv, MemInv
<1>20. ASSUME UNCHANGED vars PROVE CodeInv' /\ MemInv'
  <2>1. UNCHANGED <<kernel, m_gridBlockIdx, chunks, pc, ip, at, data, m_idMasterThread>>
    BY <1>20 DEF vars, hostVars, accelerator, barrier
  <2>2. QED
    BY <2>1, QuietStep
<1>21. QED
  BY <1>1, <1>2, <1>3, <1>4, <1>5, <1>6, <1>7, <1>8, <1>9, <1>10, <1>11, <1>12, <1>13,
     <1>14, <1>15, <1>16, <1>17, <1>18, <1>19, <1>20
     DEF Next, Host, Worker

\* A step of a thread that neither was nor is at the end of its kernel and has a task.
LEMMA EndFrame ==
  ASSUME EndInv, NEW w \in Workers, UNCHANGED <<kernel, host, futuresInBlock, m_gridBlockIdx>>,
         \A u \in Workers \ {w} : pc'[u] = pc[u] /\ at'[u] = at[u],
         pc[w] \notin Idle, ~Finishing(w), ~Finishing(w)',
         pc'[w] = "thrown" => Throws(m_gridBlockIdx)
  PROVE  EndInv'
<1>1. ~Ending
  BY DEF EndInv
<1>2. ~Ending'
  <2>1. \A u \in Workers : ~Finishing(u)'
    BY <1>1 DEF Ending, Finishing
  <2>2. QED
    BY <1>1, <2>1 DEF Ending
<1>3. Throws(m_gridBlockIdx)' <=> Throws(m_gridBlockIdx)
  BY DEF Throws
<1>4. (\E u \in Workers : pc'[u] = "thrown") \/ (\E i \in Indices : futuresInBlock'[i] = "exception") =>
        Throws(m_gridBlockIdx)
  BY DEF EndInv
<1>5. QED
  BY <1>2, <1>3, <1>4 DEF EndInv

\* A step of the host that leaves the threads of the block alone.
LEMMA EndHost ==
  ASSUME EndInv, UNCHANGED <<kernel, futuresInBlock, m_gridBlockIdx, m_qTasks, pc, at>>,
         host' \in {"wait", "cleanup"} => host \in {"wait", "cleanup"}
  PROVE  EndInv'
<1>1. (Ending' <=> Ending) /\ \A u \in Workers : Finishing(u)' <=> Finishing(u)
  BY DEF Ending, Finishing
<1>2. Throws(m_gridBlockIdx)' <=> Throws(m_gridBlockIdx)
  BY DEF Throws
<1>3. QED
  BY <1>1, <1>2 DEF EndInv

\* Nobody is through as long as a thread can still come too late.
LEMMA EndStep ==
  ASSUME IInv, EndInv, [Next]_vars
  PROVE  EndInv'
<1> USE DEF accelerator, barrier, hostVars
<1>0. /\ \A w \in Workers : at[w] # "out" => pc[w] \in SyncLabels
      /\ pc \in [Workers -> Labels] /\ at \in [Workers -> {"out", "in", "go"}]
      /\ futuresInBlock \in [Indices -> {"none", "pending", "value", "exception"}]
      /\ task \in [Workers -> Tasks \cup {None}]
  BY DEF IInv, StageInv, TypeOK
<1>1. ASSUME SetGridBlockIdx PROVE EndInv'
  <2>1. \A w \in Workers : pc[w] \in Idle
    BY <1>1, NobodyBusy DEF SetGridBlockIdx
  <2>2. \A i \in Indices : futuresInBlock[i] = "none"
    BY <1>1 DEF SetGridBlockIdx, IInv, HostInv
  <2>3. UNCHANGED <<pc, at, futuresInBlock>> /\ host' = "enqueue"
    BY <1>1 DEF SetGridBlockIdx
  <2>4. /\ \A w \in Workers : pc'[w] \notin {"last", "return", "thrown"}
        /\ \A i \in Indices : futuresInBlock'[i] \in {"none", "pending"}
    BY <2>1, <2>2, <2>3 DEF Idle
  <2>5. ~Ending'
    BY <2>4 DEF Ending, Finishing
  <2>6. QED
    BY <2>3, <2>4, <2>5 DEF EndInv
<1>2. ASSUME BlockThreadExecHost PROVE EndInv'
  <2>1. /\ host = "enqueue" /\ next \in Indices /\ UNCHANGED <<pc, at>>
        /\ futuresInBlock' = [futuresInBlock EXCEPT ![next] = "pending"]
        /\ IF next + 1 < blockThreadCount THEN host' = host ELSE host' = "wait"
    BY <1>2 DEF BlockThreadExecHost, IInv, HostInv
  <2>2. \A w \in Workers : ~Past(w)
    BY <2>1 DEF IInv, StageInv
  <2>3. \A i \in Indices : futuresInBlock[i] = IF i < next THEN "pending" ELSE "none"
    BY <2>1 DEF IInv, HostInv
  <2>4. /\ \A w \in Workers : pc'[w] \notin {"last", "return", "thrown"}
        /\ \A i \in Indices : futuresInBlock'[i] \in {"none", "pending"}
    BY <1>0, <2>1, <2>2, <2>3 DEF Past, Early, Idle
  <2>5. host' \in {"wait", "cleanup"} => \A i \in Indices : futuresInBlock'[i] # "none"
    <3>1. SUFFICES ASSUME host' \in {"wait", "cleanup"}, NEW i \in Indices PROVE futuresInBlock'[i] # "none"
      OBVIOUS
    <3>2. i = next \/ i < next
      BY <2>1, <3>1, CountFacts DEF Indices
    <3>3. QED
      BY <1>0, <2>1, <2>3, <3>2
  <2>6. ~Ending'
    BY <2>4 DEF Ending, Finishing
  <2>7. QED
    BY <2>4, <2>5, <2>6 DEF EndInv
<1>3. ASSUME WaitFuture PROVE EndInv'
  BY <1>3, EndHost DEF WaitFuture
<1>4. ASSUME CleanUp PROVE EndInv'
  <2>1. \A w \in Workers : pc[w] \in Idle
    BY <1>4, NobodyBusy DEF CleanUp
  <2>2. /\ futuresInBlock' = [i \in Indices |-> "none"] /\ UNCHANGED <<pc, at>>
        /\ host' \in {"begin", "shutdown"}
    BY <1>4 DEF CleanUp
  <2>3. /\ \A w \in Workers : pc'[w] \notin {"last", "return", "thrown"}
        /\ \A i \in Indices : futuresInBlock'[i] \in {"none", "pending"}
    BY <2>1, <2>2 DEF Idle
  <2>4. ~Ending'
    BY <2>3 DEF Ending, Finishing
  <2>5. QED
    BY <2>2, <2>3, <2>4 DEF EndInv
<1>5. ASSUME Shutdown PROVE EndInv'
  BY <1>5, EndHost DEF Shutdown
<1>6. ASSUME JoinAll PROVE EndInv'
  <2>1. m_qTasks = <<>>
    BY <1>6, NobodyBusy DEF JoinAll
  <2>2. QED
    BY <1>6, <2>1, EndHost DEF JoinAll
<1>7. ASSUME SyncRelease PROVE EndInv'
  <2>1. /\ \A w \in Workers : at[w] = "in" /\ at'[w] = "go" /\ pc[w] \in SyncLabels
        /\ UNCHANGED <<kernel, host, pc, m_qTasks, futuresInBlock, m_gridBlockIdx>>
    BY <1>0, <1>7 DEF SyncRelease, BS!Release
  <2>2. (\A i \in Indices : futuresInBlock[i] = "pending") /\ m_qTasks = <<>>
    BY <2>1, AllTaken DEF SyncLabels, Idle
  <2>3. (\A w \in Workers : Finishing(w)') \/ (\A w \in Workers : ~Finishing(w)')
    BY <2>1, ReleaseCases DEF Finishing
  <2>4. ~\E w \in Workers : pc'[w] = "thrown"
    BY <2>1 DEF SyncLabels
  <2>5. /\ \A i \in Indices : futuresInBlock'[i] = "pending"
        /\ m_qTasks' = <<>>
    BY <2>1, <2>2
  <2>6. Ending' => \A w \in Workers : Finishing(w)'
    BY <2>3, <2>5 DEF Ending
  <2>7. QED
    BY <2>4, <2>5, <2>6 DEF EndInv
<1>8. ASSUME NEW w \in Workers, pc[w] \in Idle, pc' = [pc EXCEPT ![w] = "loop"] \/ pc' = [pc EXCEPT ![w] = "pop"]
                                             \/ pc' = [pc EXCEPT ![w] = "exit"],
             UNCHANGED <<kernel, host, futuresInBlock, m_gridBlockIdx, m_qTasks, at>>
      PROVE  EndInv'
  <2>1. /\ \A u \in Workers : (Finishing(u)' <=> Finishing(u)) /\ (pc'[u] \in Idle <=> pc[u] \in Idle)
        /\ \A u \in Workers : pc'[u] = "thrown" <=> pc[u] = "thrown"
    BY <1>0, <1>8 DEF Finishing, Idle
  <2>2. Ending' <=> Ending
    BY <1>8, <2>1 DEF Ending
  <2>3. Throws(m_gridBlockIdx)' <=> Throws(m_gridBlockIdx)
    BY <1>8 DEF Throws
  <2>4. QED
    BY <1>8, <2>1, <2>2, <2>3 DEF EndInv
<1>9. ASSUME NEW w \in Workers, CheckShutdown(w) PROVE EndInv'
  <2>1. /\ pc[w] \in Idle /\ UNCHANGED <<kernel, host, futuresInBlock, m_gridBlockIdx, m_qTasks, at>>
        /\ pc' = [pc EXCEPT ![w] = "exit"] \/ pc' = [pc EXCEPT ![w] = "pop"]
    BY <1>9 DEF CheckShutdown, Goto, Idle
  <2>2. QED
    BY <1>8, <2>1
<1>10. ASSUME NEW w \in Workers, PopTask(w) PROVE EndInv'
  <2>1. CASE m_qTasks = <<>>
    <3>1. /\ pc[w] \in Idle /\ UNCHANGED <<kernel, host, futuresInBlock, m_gridBlockIdx, m_qTasks, at>>
          /\ pc' = [pc EXCEPT ![w] = "loop"]
      BY <1>10, <2>1 DEF PopTask, Goto, Idle
    <3>2. QED
      BY <1>8, <3>1
  <2>2. CASE m_qTasks # <<>>
    <3>1. /\ pc[w] = "pop" /\ pc' = [pc EXCEPT ![w] = "master"]
          /\ UNCHANGED <<kernel, host, futuresInBlock, m_gridBlockIdx, at>>
      BY <1>10, <2>2 DEF PopTask, Goto
    <3>2. ~Ending
      BY <2>2 DEF EndInv
    <3>3. /\ \A u \in Workers : Finishing(u)' <=> Finishing(u)
          /\ \A u \in Workers : pc'[u] = "thrown" <=> pc[u] = "thrown"
      BY <1>0, <3>1 DEF Finishing
    <3>4. ~Ending'
      BY <3>1, <3>2, <3>3 DEF Ending
    <3>5. Throws(m_gridBlockIdx)' <=> Throws(m_gridBlockIdx)
      BY <3>1 DEF Throws
    <3>6. QED
      BY <3>1, <3>3, <3>4, <3>5 DEF EndInv
  <2>3. QED
    BY <2>1, <2>2
<1>11. ASSUME NEW w \in Workers, SetValue(w) PROVE EndInv'
  <2>1. /\ pc[w] = "return" /\ pc' = [pc EXCEPT ![w] = "loop"]
        /\ futuresInBlock' = [futuresInBlock EXCEPT ![idx(w)] = "value"]
        /\ UNCHANGED <<kernel, host, m_gridBlockIdx, m_qTasks, at>>
    BY <1>11 DEF SetValue, EndTask, Goto, idx
  <2>2. Ending /\ Finishing(w)
    BY <2>1 DEF Ending, Finishing
  <2>3. \A u \in Workers : pc'[u] \in Idle \/ Finishing(u)'
    BY <1>0, <2>1, <2>2 DEF EndInv, Finishing, Idle
  <2>4. \A i \in Indices : futuresInBlock'[i] \in {"pending", "value"}
    BY <1>0, <2>1, <2>2 DEF EndInv
  <2>5. ~\E u \in Workers : pc'[u] = "thrown"
    BY <2>3 DEF Idle, Finishing
  <2>6. m_qTasks' = <<>>
    BY <2>1, <2>2 DEF EndInv
  <2>7. QED
    BY <2>3, <2>4, <2>5, <2>6 DEF EndInv
<1>12. ASSUME NEW w \in Workers, SetException(w) PROVE EndInv'
  <2>1. /\ pc[w] = "thrown" /\ pc' = [pc EXCEPT ![w] = "loop"]
        /\ futuresInBlock' = [futuresInBlock EXCEPT ![idx(w)] = "exception"]
        /\ UNCHANGED <<kernel, host, m_gridBlockIdx, m_qTasks, at>>
    BY <1>12 DEF SetException, EndTask, Goto, idx
  <2>2. Throws(m_gridBlockIdx) /\ ~Ending
    BY <2>1 DEF EndInv, Finishing, Idle
  <2>3. \A u \in Workers : ~Finishing(u)'
    BY <1>0, <2>1, <2>2 DEF Ending, Finishing
  <2>4. \A i \in Indices : futuresInBlock'[i] # "value"
    BY <1>0, <2>1, <2>2 DEF Ending
  <2>5. ~Ending'
    BY <2>3, <2>4 DEF Ending
  <2>6. Throws(m_gridBlockIdx)'
    BY <2>1, <2>2 DEF Throws
  <2>7. \A i \in Indices : futuresInBlock'[i] = "none" => futuresInBlock[i] = "none"
    BY <1>0, <2>1
  <2>8. QED
    BY <2>1, <2>5, <2>6, <2>7 DEF EndInv
<1>13. ASSUME NEW w \in Workers, SetMaster(w) PROVE EndInv'
  <2>1. /\ pc[w] = "master" /\ pc' = [pc EXCEPT ![w] = "insert"]
        /\ UNCHANGED <<kernel, host, futuresInBlock, m_gridBlockIdx, at>>
    BY <1>13 DEF SetMaster, Goto
  <2>2. QED
    BY <1>0, <2>1, EndFrame DEF Finishing, Idle
<1>14. ASSUME NEW w \in Workers, InsertIndex(w) PROVE EndInv'
  <2>1. /\ pc[w] = "insert" /\ pc' = [pc EXCEPT ![w] = "first"]
        /\ UNCHANGED <<kernel, host, futuresInBlock, m_gridBlockIdx, at>>
    BY <1>14 DEF InsertIndex, Goto
  <2>2. QED
    BY <1>0, <2>1, EndFrame DEF Finishing, Idle
<1>15. ASSUME NEW w \in Workers, SyncBlockThreads(w) PROVE EndInv'
  <2>1. /\ pc[w] \in SyncLabels /\ at[w] = "out" /\ at' = [at EXCEPT ![w] = "in"]
        /\ UNCHANGED <<kernel, host, futuresInBlock, m_gridBlockIdx, pc>>
    BY <1>15 DEF SyncBlockThreads, BS!Enter
  <2>2. QED
    BY <1>0, <2>1, EndFrame DEF Finishing, Idle, SyncLabels
<1>16. ASSUME NEW w \in Workers, SyncReturns(w) PROVE EndInv'
  <2>1. /\ at[w] = "go" /\ at' = [at EXCEPT ![w] = "out"]
        /\ UNCHANGED <<kernel, host, futuresInBlock, m_gridBlockIdx, m_qTasks>>
    BY <1>16, SyncReturnsCases DEF SyncReturns
  <2>2. CASE pc[w] = "last" /\ pc' = [pc EXCEPT ![w] = "return"]
    <3>1. /\ \A u \in Workers : (Finishing(u)' <=> Finishing(u)) /\ (pc'[u] \in Idle <=> pc[u] \in Idle)
          /\ \A u \in Workers : pc'[u] = "thrown" <=> pc[u] = "thrown"
      BY <1>0, <2>1, <2>2 DEF Finishing, Idle
    <3>2. Ending' <=> Ending
      BY <2>1, <3>1 DEF Ending
    <3>3. Throws(m_gridBlockIdx)' <=> Throws(m_gridBlockIdx)
      BY <2>1 DEF Throws
    <3>4. QED
      BY <2>1, <3>1, <3>2, <3>3 DEF EndInv
  <2>3. CASE /\ pc[w] \in {"first", "sync", "beforeAlloc", "afterAlloc"}
             /\ \E label \in {"kernel", "alloc", "getLatestVarPtr"} : pc' = [pc EXCEPT ![w] = label]
    BY <1>0, <2>1, <2>3, EndFrame DEF Finishing, Idle
  <2>4. QED
    BY <1>16, <2>2, <2>3, SyncReturnsCases DEF Moves
<1>17. ASSUME NEW w \in Workers, KernelStep(w) PROVE EndInv'
  <2>1. /\ pc[w] = "kernel" /\ at[w] = "out"
        /\ UNCHANGED <<kernel, host, futuresInBlock, m_gridBlockIdx, at>>
    BY <1>0, <1>17 DEF KernelStep, SyncLabels
  <2>2. \E label \in {"last", "sync", "kernel", "getVarPtr", "thrown"} :
          /\ pc' = [pc EXCEPT ![w] = label]
          /\ label = "thrown" => ip[w] \in 1..Len(code) /\ code[ip[w]] = "throw"
    BY <1>17, KernelStepCases DEF Moves
  <2>3. pc'[w] = "thrown" => Throws(m_gridBlockIdx)
    BY <1>0, <2>2 DEF Throws, code
  <2>4. QED
    BY <1>0, <2>1, <2>2, <2>3, EndFrame DEF Finishing, Idle
<1>18. ASSUME NEW w \in Workers, GetVarPtr(w) PROVE EndInv'
  <2>1. /\ pc[w] = "getVarPtr" /\ at[w] = "out"
        /\ UNCHANGED <<kernel, host, futuresInBlock, m_gridBlockIdx, at>>
        /\ \E label \in {"beforeAlloc", "kernel"} : pc' = [pc EXCEPT ![w] = label]
    BY <1>0, <1>18, GetVarPtrCases DEF GetVarPtr, SyncLabels, Moves
  <2>2. QED
    BY <1>0, <2>1, EndFrame DEF Finishing, Idle
<1>19. ASSUME NEW w \in Workers, Alloc(w) PROVE EndInv'
  <2>1. /\ pc[w] = "alloc" /\ pc' = [pc EXCEPT ![w] = "afterAlloc"]
        /\ UNCHANGED <<kernel, host, futuresInBlock, m_gridBlockIdx, at>>
    BY <1>19 DEF Alloc, Goto
  <2>2. QED
    BY <1>0, <2>1, EndFrame DEF Finishing, Idle
<1>20. ASSUME NEW w \in Workers, GetLatestVarPtr(w) PROVE EndInv'
  <2>1. /\ pc[w] = "getLatestVarPtr" /\ pc' = [pc EXCEPT ![w] = "kernel"]
        /\ UNCHANGED <<kernel, host, futuresInBlock, m_gridBlockIdx, at>>
    BY <1>20 DEF GetLatestVarPtr, Declared, Goto
  <2>2. QED
    BY <1>0, <2>1, EndFrame DEF Finishing, Idle
<1>21. ASSUME UNCHANGED vars PROVE EndInv'
  BY <1>21, EndHost DEF vars
<1>22. QED
  BY <1>1, <1>2, <1>3, <1>4, <1>5, <1>6, <1>7, <1>9, <1>10, <1>11, <1>12, <1>13,
     <1>14, <1>15, <1>16, <1>17, <1>18, <1>19, <1>20, <1>21
     DEF Next, Host, Worker

\* A step that leaves the host and the counts alone, and ends no kernel.
LEMMA CountFrame ==
  ASSUME CountInv, BlocksEndTogether,
         UNCHANGED <<kernel, host, next, futuresInBlock, m_gridBlockIdx, executed>>,
         \A u \in Workers : /\ pc'[u] = "return" <=> pc[u] = "return"
                            /\ pc[u] = "return" => task'[u] = task[u]
  PROVE  CountInv' /\ BlocksEndTogether'
<1>1. \A i \in Indices : Ended(i)' <=> Ended(i)
  BY DEF Ended, idx
<1>2. CountInv'
  BY <1>1 DEF CountInv
<1>3. BlocksEndTogether'
  BY DEF BlocksEndTogether, Left, Throws
<1>4. QED
  BY <1>2, <1>3

\* A step of the host that neither starts nor leaves a block.
LEMMA CountHost ==
  ASSUME CountInv, BlocksEndTogether, host # "begin", host' # "begin",
         UNCHANGED <<kernel, pc, task, m_gridBlockIdx, executed>>,
         \A i \in Indices : futuresInBlock'[i] = "value" <=> futuresInBlock[i] = "value",
         host' \in {"enqueue", "wait", "cleanup"} => host \in {"enqueue", "wait", "cleanup"},
         host' \in {"cleanup", "shutdown", "join", "done"} => host \in {"cleanup", "shutdown", "join", "done"}
  PROVE  CountInv' /\ BlocksEndTogether'
<1>1. \A i \in Indices : Ended(i)' <=> Ended(i)
  BY DEF Ended, idx
<1>2. CountInv'
  BY <1>1 DEF CountInv
<1>3. \A b \in Grid : Left(b)' => Left(b)
  BY DEF Left
<1>4. BlocksEndTogether'
  BY <1>3 DEF BlocksEndTogether, Throws
<1>5. QED
  BY <1>2, <1>4

\* When no future is pending the threads have all got to their end, or none has.
LEMMA AllOrNone ==
  ASSUME IInv, EndInv, CountInv, host \in {"wait", "cleanup"},
         \A i \in Indices : futuresInBlock[i] # "pending"
  PROVE  \/ \A i \in Indices : executed[<<m_gridBlockIdx, i>>] = 1
         \/ Throws(m_gridBlockIdx) /\ \A i \in Indices : executed[<<m_gridBlockIdx, i>>] = 0
<1>1. \A i \in Indices : futuresInBlock[i] \in {"value", "exception"}
  BY DEF EndInv, IInv, TypeOK
<1>2. \A w \in Workers : pc[w] \in Idle
  BY DEF IInv, TaskInv, Tasks, idx
<1>3. \A i \in Indices : Ended(i) <=> futuresInBlock[i] = "value"
  BY <1>2 DEF Ended, Idle
<1>4. CASE Ending
  <2>1. \A i \in Indices : futuresInBlock[i] = "value"
    BY <1>1, <1>4 DEF EndInv
  <2>2. QED
    BY <1>3, <2>1 DEF CountInv
<1>5. CASE ~Ending
  <2>1. \A i \in Indices : futuresInBlock[i] = "exception"
    BY <1>1, <1>5 DEF Ending
  <2>2. Throws(m_gridBlockIdx)
    BY <2>1, CountFacts DEF EndInv
  <2>3. QED
    BY <1>3, <2>1, <2>2 DEF CountInv
<1>6. QED
  BY <1>4, <1>5

\* A thread is counted when its kernel ends, in its block and for the first time.
LEMMA CountStep ==
  ASSUME IInv, EndInv, CountInv, BlocksEndTogether, [Next]_vars
  PROVE  CountInv' /\ BlocksEndTogether'
<1> USE DEF accelerator, barrier, hostVars
<1>0. /\ pc \in [Workers -> Labels] /\ task \in [Workers -> Tasks \cup {None}]
      /\ futuresInBlock \in [Indices -> {"none", "pending", "value", "exception"}]
      /\ executed \in [Grid \X Indices -> Nat]
      /\ m_gridBlockIdx \in Nat /\ m_gridBlockIdx \in Grid /\ next \in Nat /\ Grid \subseteq Nat
      /\ \A w \in Workers : pc[w] \notin Idle => /\ task[w].block = m_gridBlockIdx /\ idx(w) \in Indices
                                               /\ futuresInBlock[idx(w)] = "pending"
  BY DEF IInv, TypeOK, TaskInv, Tasks, Grid, idx
<1>1. ASSUME SetGridBlockIdx PROVE CountInv' /\ BlocksEndTogether'
  <2>1. /\ host = "begin" /\ m_gridBlockIdx' = next /\ next' = 0 /\ host' = "enqueue"
        /\ UNCHANGED <<kernel, futuresInBlock, pc, task, executed>>
    BY <1>1 DEF SetGridBlockIdx
  <2>2. /\ \A w \in Workers : pc[w] \in Idle
        /\ next \in Grid /\ \A i \in Indices : futuresInBlock[i] = "none"
    BY <2>1, NobodyBusy DEF IInv, HostInv
  <2>3. \A i \in Indices : ~Ended(i)'
    BY <2>1, <2>2 DEF Ended, Idle
  <2>4. \A i \in Indices : executed[<<next, i>>] = 0
    BY <1>0, <2>1, <2>2 DEF CountInv
  <2>5. \A b \in Grid, i \in Indices : b > next => executed[<<b, i>>] = 0
    BY <1>0, <2>1 DEF CountInv
  <2>6. CountInv'
    BY <2>1, <2>3, <2>4, <2>5 DEF CountInv
  <2>7. \A b \in Grid : Left(b)' => Left(b)
    BY <1>0, <2>1 DEF Left
  <2>8. BlocksEndTogether'
    BY <2>1, <2>7 DEF BlocksEndTogether, Throws
  <2>9. QED
    BY <2>6, <2>8
<1>2. ASSUME BlockThreadExecHost PROVE CountInv' /\ BlocksEndTogether'
  <2>1. /\ host = "enqueue" /\ next \in Indices /\ host' \in {"enqueue", "wait"}
        /\ futuresInBlock' = [futuresInBlock EXCEPT ![next] = "pending"]
        /\ UNCHANGED <<kernel, pc, task, m_gridBlockIdx, executed>>
    BY <1>2 DEF BlockThreadExecHost, IInv, HostInv
  <2>2. \A i \in Indices : futuresInBlock[i] # "value"
    BY <2>1 DEF IInv, HostInv
  <2>3. \A i \in Indices : futuresInBlock'[i] # "value"
    BY <1>0, <2>1, <2>2
  <2>4. QED
    BY <2>1, <2>2, <2>3, CountHost
<1>3. ASSUME WaitFuture PROVE CountInv' /\ BlocksEndTogether'
  <2>1. /\ host = "wait" /\ next \in Indices /\ futuresInBlock[next] # "pending"
        /\ UNCHANGED <<kernel, futuresInBlock, pc, task, m_gridBlockIdx, executed>>
        /\ IF next + 1 < blockThreadCount THEN host' = "wait" ELSE host' = "cleanup"
    BY <1>3 DEF WaitFuture, IInv, HostInv
  <2>2. CASE next + 1 < blockThreadCount
    BY <2>1, <2>2, CountHost
  <2>3. CASE ~(next + 1 < blockThreadCount)
    <3>1. \A i \in Indices : i = next \/ i < next
      BY <2>1, <2>3, CountFacts DEF Indices
    <3>2. \A i \in Indices : futuresInBlock[i] # "pending"
      BY <2>1, <3>1 DEF IInv, HostInv
    <3>3. \/ \A i \in Indices : executed[<<m_gridBlockIdx, i>>] = 1
          \/ Throws(m_gridBlockIdx) /\ \A i \in Indices : executed[<<m_gridBlockIdx, i>>] = 0
      BY <2>1, <3>2, AllOrNone
    <3>4. \A i \in Indices : Ended(i)' <=> Ended(i)
      BY <2>1 DEF Ended, idx
    <3>5. CountInv'
      BY <2>1, <2>3, <3>4 DEF CountInv
    <3>6. \A b \in Grid : Left(b)' => Left(b) \/ b = m_gridBlockIdx
      BY <2>1, <2>3 DEF Left
    <3>7. BlocksEndTogether'
      BY <2>1, <3>3, <3>6 DEF BlocksEndTogether, Throws
    <3>8. QED
      BY <3>5, <3>7
  <2>4. QED
    BY <2>2, <2>3
<1>4. ASSUME CleanUp PROVE CountInv' /\ BlocksEndTogether'
  <2>1. /\ host = "cleanup" /\ UNCHANGED <<kernel, m_gridBlockIdx, executed>>
        /\ \/ host' = "begin" /\ next' = m_gridBlockIdx + 1
           \/ host' = "shutdown"
    BY <1>4 DEF CleanUp
  <2>2. \A b \in Grid, i \in Indices : b > m_gridBlockIdx => executed[<<b, i>>] = 0
    BY DEF CountInv
  <2>3. CountInv'
    BY <1>0, <2>1, <2>2 DEF CountInv
  <2>4. \A b \in Grid : Left(b)' => Left(b)
    BY <1>0, <2>1 DEF Left
  <2>5. BlocksEndTogether'
    BY <2>1, <2>4 DEF BlocksEndTogether, Throws
  <2>6. QED
    BY <2>3, <2>5
<1>5. ASSUME Shutdown PROVE CountInv' /\ BlocksEndTogether'
  BY <1>5, CountHost DEF Shutdown
<1>6. ASSUME JoinAll PROVE CountInv' /\ BlocksEndTogether'
  BY <1>6, CountHost DEF JoinAll
<1>7. ASSUME SyncRelease PROVE CountInv' /\ BlocksEndTogether'
  BY <1>7, CountFrame DEF SyncRelease
<1>8. ASSUME NEW w \in Workers, CheckShutdown(w) PROVE CountInv' /\ BlocksEndTogether'
  <2>1. /\ pc[w] = "loop"
        /\ pc' = [pc EXCEPT ![w] = "exit"] \/ pc' = [pc EXCEPT ![w] = "pop"]
        /\ UNCHANGED <<kernel, host, next, futuresInBlock, m_gridBlockIdx, executed, task>>
    BY <1>8 DEF CheckShutdown, Goto
  <2>2. QED
    BY <1>0, <1>8, <2>1, CountFrame DEF CheckShutdown, Goto
<1>9. ASSUME NEW w \in Workers, PopTask(w) PROVE CountInv' /\ BlocksEndTogether'
  <2>1. /\ pc[w] = "pop" /\ \E label \in {"loop", "master"} : pc' = [pc EXCEPT ![w] = label]
        /\ UNCHANGED <<kernel, host, next, futuresInBlock, m_gridBlockIdx, executed>>
        /\ \A u \in Workers \ {w} : task'[u] = task[u]
    BY <1>0, <1>9 DEF PopTask, Goto
  <2>2. QED
    BY <1>0, <2>1, CountFrame
<1>10. ASSUME NEW w \in Workers, SetValue(w) PROVE CountInv' /\ BlocksEndTogether'
  <2>1. /\ pc[w] = "return" /\ pc' = [pc EXCEPT ![w] = "loop"]
        /\ futuresInBlock' = [futuresInBlock EXCEPT ![idx(w)] = "value"]
        /\ UNCHANGED <<kernel, host, next, m_gridBlockIdx, executed>>
        /\ \A u \in Workers \ {w} : pc'[u] = pc[u] /\ task'[u] = task[u]
    BY <1>0, <1>10 DEF SetValue, EndTask, Goto, idx
  <2>2. ASSUME NEW i \in Indices PROVE Ended(i)' <=> Ended(i)
    <3>1. CASE i = idx(w)
      BY <1>0, <2>1, <3>1 DEF Ended
    <3>2. CASE i # idx(w)
      <4>1. futuresInBlock'[i] = futuresInBlock[i]
        BY <1>0, <2>1, <3>2
      <4>2. \A u \in Workers : (pc'[u] = "return" /\ idx(u)' = i) <=> (pc[u] = "return" /\ idx(u) = i)
        BY <1>0, <2>1, <3>2 DEF idx
      <4>3. QED
        BY <4>1, <4>2 DEF Ended
    <3>3. QED
      BY <3>1, <3>2
  <2>3. CountInv'
    BY <2>1, <2>2 DEF CountInv
  <2>4. BlocksEndTogether'
    BY <2>1 DEF BlocksEndTogether, Left, Throws
  <2>5. QED
    BY <2>3, <2>4
<1>11. ASSUME NEW w \in Workers, SetException(w) PROVE CountInv' /\ BlocksEndTogether'
  <2>1. /\ pc[w] = "thrown" /\ pc' = [pc EXCEPT ![w] = "loop"]
        /\ futuresInBlock' = [futuresInBlock EXCEPT ![idx(w)] = "exception"]
        /\ UNCHANGED <<kernel, host, next, m_gridBlockIdx, executed>>
        /\ \A u \in Workers \ {w} : pc'[u] = pc[u] /\ task'[u] = task[u]
    BY <1>0, <1>11 DEF SetException, EndTask, Goto, idx
  <2>2. futuresInBlock[idx(w)] = "pending" /\ idx(w) \in Indices
    BY <1>0, <2>1 DEF Idle
  <2>3. ASSUME NEW i \in Indices PROVE Ended(i)' <=> Ended(i)
    <3>1. futuresInBlock'[i] = "value" <=> futuresInBlock[i] = "value"
      BY <1>0, <2>1, <2>2
    <3>2. \A u \in Workers : (pc'[u] = "return" /\ idx(u)' = i) <=> (pc[u] = "return" /\ idx(u) = i)
      BY <1>0, <2>1 DEF idx
    <3>3. QED
      BY <3>1, <3>2 DEF Ended
  <2>4. CountInv'
    BY <2>1, <2>3 DEF CountInv
  <2>5. BlocksEndTogether'
    BY <2>1 DEF BlocksEndTogether, Left, Throws
  <2>6. QED
    BY <2>4, <2>5
<1>12. ASSUME NEW w \in Workers, SetMaster(w) PROVE CountInv' /\ BlocksEndTogether'
  BY <1>0, <1>12, CountFrame DEF SetMaster, Goto
<1>13. ASSUME NEW w \in Workers, InsertIndex(w) PROVE CountInv' /\ BlocksEndTogether'
  BY <1>0, <1>13, CountFrame DEF InsertIndex, Goto
<1>14. ASSUME NEW w \in Workers, SyncBlockThreads(w) PROVE CountInv' /\ BlocksEndTogether'
  BY <1>14, CountFrame DEF SyncBlockThreads
<1>15. ASSUME NEW w \in Workers, SyncReturns(w) PROVE CountInv' /\ BlocksEndTogether'
  <2>1. /\ at[w] = "go" /\ UNCHANGED <<kernel, host, next, futuresInBlock, m_gridBlockIdx, task>>
        /\ \/ pc[w] = "last" /\ pc' = [pc EXCEPT ![w] = "return"]
           \/ /\ pc[w] \in {"first", "sync", "beforeAlloc", "afterAlloc"}
              /\ \E label \in {"kernel", "alloc", "getLatestVarPtr"} : pc' = [pc EXCEPT ![w] = label]
        /\ executed' = IF pc[w] = "last"
                         THEN [executed EXCEPT ![<<task[w].block, task[w].blockThreadIdx>>] = @ + 1]
                         ELSE executed
    BY <1>15, SyncReturnsCases DEF SyncReturns, Moves
  <2>2. CASE pc[w] # "last"
    BY <1>0, <2>1, <2>2, CountFrame
  <2>3. CASE pc[w] = "last"
    <3> DEFINE b == m_gridBlockIdx
               i == idx(w)
    <3>1. /\ task[w].block = b /\ i \in Indices /\ <<b, i>> \in Grid \X Indices
          /\ executed' = [executed EXCEPT ![<<b, i>>] = executed[<<b, i>>] + 1]
          /\ pc' = [pc EXCEPT ![w] = "return"] /\ host = "wait"
      BY <1>0, <2>1, <2>3 DEF Idle, idx, IInv, StageInv, Past, Early
    <3>2. ~Ended(i) /\ Ended(i)'
      <4>1. futuresInBlock[i] = "pending"
        BY <1>0, <2>3 DEF Idle
      <4>2. \A u \in Workers : pc[u] = "return" => u # w /\ idx(u) # i
        BY <2>3, TasksDiffer DEF IInv, Idle
      <4>3. pc'[w] = "return" /\ idx(w)' = i
        BY <1>0, <2>1, <3>1 DEF idx
      <4>4. QED
        BY <4>1, <4>2, <4>3 DEF Ended
    <3>3. \A j \in Indices \ {i} : Ended(j)' <=> Ended(j)
      BY <1>0, <2>1, <3>1 DEF Ended, idx
    <3>4. executed'[<<b, i>>] = 1
      BY <1>0, <3>1, <3>2 DEF CountInv
    <3>5. \A c \in Grid, j \in Indices : c # b \/ j # i => executed'[<<c, j>>] = executed[<<c, j>>]
      BY <1>0, <3>1
    <3>6. CountInv'
      <4>1. ASSUME NEW j \in Indices PROVE executed'[<<b, j>>] = IF Ended(j)' THEN 1 ELSE 0
        <5>1. CASE j = i
          <6>1. Ended(j)'
            BY <2>1, <3>2, <5>1 DEF Ended, idx
          <6>2. QED
            BY <3>4, <5>1, <6>1
        <5>2. CASE j # i
          <6>1. executed[<<b, j>>] = IF Ended(j) THEN 1 ELSE 0
            BY <3>1 DEF CountInv
          <6>2. executed'[<<b, j>>] = executed[<<b, j>>]
            BY <1>0, <3>5, <5>2
          <6>3. Ended(j)' <=> Ended(j)
            BY <3>3, <5>2
          <6>4. QED
            BY <6>1, <6>2, <6>3
        <5>3. QED
          BY <5>1, <5>2
      <4>2. ASSUME NEW c \in Grid, NEW j \in Indices, c > b PROVE executed'[<<c, j>>] = 0
        <5>1. executed[<<c, j>>] = 0
          BY <4>2 DEF CountInv
        <5>2. c # b
          BY <1>0, <4>2
        <5>3. QED
          BY <3>5, <5>1, <5>2
      <4>3. QED
        BY <2>1, <3>1, <4>1, <4>2 DEF CountInv
    <3>7. \A c \in Grid : (Left(c)' <=> Left(c)) /\ (Left(c) => c # b)
      BY <1>0, <2>1, <3>1 DEF Left
    <3>8. BlocksEndTogether'
      BY <2>1, <3>5, <3>7 DEF BlocksEndTogether, Throws
    <3>9. QED
      BY <3>6, <3>8
  <2>4. QED
    BY <2>2, <2>3
<1>16. ASSUME NEW w \in Workers, KernelStep(w) PROVE CountInv' /\ BlocksEndTogether'
  <2>1. /\ pc[w] = "kernel" /\ UNCHANGED <<kernel, host, next, futuresInBlock, m_gridBlockIdx, task, executed>>
        /\ \E label \in {"last", "sync", "kernel", "getVarPtr", "thrown"} : pc' = [pc EXCEPT ![w] = label]
    BY <1>16, KernelStepCases DEF KernelStep, Moves
  <2>2. QED
    BY <1>0, <2>1, CountFrame
<1>17. ASSUME NEW w \in Workers, GetVarPtr(w) PROVE CountInv' /\ BlocksEndTogether'
  <2>1. /\ pc[w] = "getVarPtr" /\ UNCHANGED <<kernel, host, next, futuresInBlock, m_gridBlockIdx, task, executed>>
        /\ \E label \in {"beforeAlloc", "kernel"} : pc' = [pc EXCEPT ![w] = label]
    BY <1>17, GetVarPtrCases DEF GetVarPtr, Moves
  <2>2. QED
    BY <1>0, <2>1, CountFrame
<1>18. ASSUME NEW w \in Workers, Alloc(w) PROVE CountInv' /\ BlocksEndTogether'
  BY <1>0, <1>18, CountFrame DEF Alloc, Goto
<1>19. ASSUME NEW w \in Workers, GetLatestVarPtr(w) PROVE CountInv' /\ BlocksEndTogether'
  BY <1>0, <1>19, CountFrame DEF GetLatestVarPtr, Declared, Goto
<1>20. ASSUME UNCHANGED vars PROVE CountInv' /\ BlocksEndTogether'
  BY <1>20, CountFrame DEF vars
<1>21. QED
  BY <1>1, <1>2, <1>3, <1>4, <1>5, <1>6, <1>7, <1>8, <1>9, <1>10, <1>11, <1>12, <1>13,
     <1>14, <1>15, <1>16, <1>17, <1>18, <1>19, <1>20
     DEF Next, Host, Worker

-----------------------------------------------------------------------------
(* The theorems                                                            *)

\* The types and the invariant hold in every state of the execution of a kernel.
THEOREM Invariance == Spec => []IInv
<1>1. Init => IInv
  <2>1. SUFFICES ASSUME Init PROVE IInv
    OBVIOUS
  <2>2. TypeOK
    <3>1. /\ data \in [Workers -> [Vars -> Nat]] /\ executed \in [Grid \X Indices -> Nat]
          /\ at \in [Workers -> {"out", "in", "go"}] /\ <<>> \in Seq(Tasks) /\ <<>> \in Seq(Vars)
      BY <2>1 DEF Init, NoPointers, BS!Init
    <3>2. QED
      BY <2>1, <3>1, CountFacts DEF Init, TypeOK, Empty, Labels
  <2>3. /\ \A w \in Workers : /\ pc[w] = "loop" /\ at[w] = "out" /\ ip[w] = 1
                              /\ m_threadToIndexMap[w] = None /\ \A v \in Vars : data[w][v] = 0
        /\ Len(m_qTasks) = 0 /\ chunks = <<>> /\ DOMAIN chunks = {}
    BY <2>1 DEF Init, Empty, NoPointers, BS!Init
  <2>4. HostInv
    BY <2>1, <2>3, CountFacts DEF Init, HostInv
  <2>5. TaskInv /\ AccInv /\ StageInv
    BY <2>3 DEF TaskInv, AccInv, AccOK, StageInv, Past, Early, Idle
  <2>6. CodeInv /\ MemInv
    <3>1. \A w \in Workers : ~Free(w) /\ ~Allocating(w)
      BY <2>3 DEF Free, Blocked, Allocating
    <3>2. \A w \in Workers : CodeOK(w)
      BY <2>3, <3>1 DEF CodeOK
    <3>3. QED
      BY <2>3, <3>1, <3>2 DEF CodeInv, Near, MemInv, SharedVarsAgree
  <2>7. QED
    BY <2>2, <2>4, <2>5, <2>6 DEF IInv
<1>2. IInv /\ [Next]_vars => IInv'
  BY TypeStep, HostStep, TaskStep, AccStep, StageStep, CodeStep DEF IInv
<1>3. QED
  BY <1>1, <1>2, PTL DEF Spec

\* A thread in the kernel is past the first synchronization.
LEMMA KernelIsPast ==
  ASSUME IInv, NEW w \in Workers, InKernel(w)
  PROVE  Past(w)
BY DEF InKernel, Past, Early, Idle

\* A thread in the kernel finds its own indices and the right master.
THEOREM ThreadsKnowThemselves == Spec => []OwnIndex
<1>1. IInv => OwnIndex
  <2>1. SUFFICES ASSUME IInv, NEW w \in Workers, InKernel(w)
                 PROVE  /\ m_threadToIndexMap[w] = task[w].blockThreadIdx
                        /\ m_gridBlockIdx = task[w].block
                        /\ m_idMasterThread = w <=> task[w].blockThreadIdx = 0
    BY DEF OwnIndex
  <2>2. Past(w) /\ pc[w] \notin Idle
    BY <2>1, KernelIsPast DEF Past
  <2>3. QED
    BY <2>1, <2>2 DEF IInv, AccInv, AccOK, TaskInv, idx
<1>2. QED
  BY <1>1, Invariance, PTL

\* Nobody writes to the accelerator while a kernel reads it.
THEOREM AcceleratorIsRaceFree == Spec => []NoRaceOnAccelerator
<1>1. IInv => NoRaceOnAccelerator
  BY KernelIsPast DEF NoRaceOnAccelerator, IInv, StageInv, Early
<1>2. QED
  BY <1>1, Invariance, PTL

\* Nobody looks into the shared memory while the master allocates.
THEOREM SharedMemIsRaceFree == Spec => []NoRaceOnSharedMem
<1>1. IInv => NoRaceOnSharedMem
  BY DEF NoRaceOnSharedMem, IInv, CodeInv, Near, Allocating
<1>2. QED
  BY <1>1, Invariance, PTL

\* All threads of all blocks agree on the shared variables.
THEOREM ThreadsShareVariables == Spec => []SharedVarsAgree
<1>1. IInv => SharedVarsAgree
  BY DEF IInv, MemInv
<1>2. QED
  BY <1>1, Invariance, PTL

\* No block is taken for executed when only some of its threads were: those the
\* host has left behind were executed by all their threads, each once, or they
\* throw and no thread got to its end.
THEOREM ThreadsEndTogether == Spec => []BlocksEndTogether
<1>1. Init => ExecInv
  <2>1. SUFFICES ASSUME Init PROVE ExecInv
    OBVIOUS
  <2>2. /\ host = "begin" /\ next = 0 /\ m_gridBlockIdx = 0
        /\ \A w \in Workers : pc[w] = "loop"
        /\ \A i \in Indices : futuresInBlock[i] = "none"
        /\ \A b \in Grid, i \in Indices : executed[<<b, i>>] = 0
    BY <2>1 DEF Init
  <2>3. EndInv
    BY <2>2 DEF EndInv, Ending, Finishing
  <2>4. CountInv
    BY <2>2 DEF CountInv
  <2>5. \A b \in Grid : ~Left(b)
    BY <2>2 DEF Left, Grid
  <2>6. QED
    BY <2>3, <2>4, <2>5 DEF ExecInv, BlocksEndTogether
<1>2. IInv /\ ExecInv /\ [Next]_vars => ExecInv'
  BY EndStep, CountStep DEF ExecInv
<1>3. ExecInv => BlocksEndTogether
  BY DEF ExecInv
<1>4. QED
  BY <1>1, <1>2, <1>3, Invariance, PTL DEF Spec
==============================================================================
