------------------------ MODULE TaskKernelCpuThreads ------------------------
(***************************************************************************)
(* Execution of a kernel by the thread accelerator                         *)
(* (kernel/TaskKernelCpuThreads.hpp): the host executes the blocks of the  *)
(* grid one after the other, each by handing one task per block thread to  *)
(* a pool of yielding threads, and all of them share one accelerator       *)
(* object whose members they fill in and read without further ado:         *)
(* m_gridBlockIdx, m_threadToIndexMap, m_idMasterThread and the memory of  *)
(* the block shared variables.                                             *)
(*                                                                         *)
(* The block synchronization is BlockSync, which BlockSyncBarrierThread    *)
(* implements.  A kernel is a sequence of statements: "sync" is a call of  *)
(* syncBlockThreads, a variable its declaration by declareSharedVar, and   *)
(* at "throw" each thread throws an exception or not, on data of its own.  *)
(* All threads of a block execute the same statements otherwise.           *)
(***************************************************************************)
EXTENDS Naturals, Sequences, FiniteSets

CONSTANTS Workers,   \* the threads of the pool, as many as a block has
          Blocks,    \* number of blocks in the grid
          Vars,      \* block shared variables
          Kernels,   \* what the threads of a block may do
          None       \* no thread, no index, no task

ASSUME GridAssumption == /\ IsFiniteSet(Workers) /\ Workers # {}
                         /\ Blocks \in Nat \ {0}
                         /\ Kernels \subseteq Seq(Vars \cup {"sync", "throw"})
                         /\ {"sync", "throw"} \cap Vars = {}

VARIABLES
  kernel,               \* the statements of each block
  host, next,           \* what the host does, and for which block thread
  m_qTasks,             \* the pool's tasks that no worker has taken
  m_bShutdownFlag,
  futuresInBlock,       \* of the current block
  m_gridBlockIdx, m_threadToIndexMap, m_idMasterThread,   \* of the accelerator
  chunks,               \* the shared variables in the order of their allocation
  pc, task, ip,         \* of every worker: label, task and statement
  data,                 \* pointers its kernel has got from declareVar
  executed,             \* how often each thread of each block got to its end
  at, op, given, value  \* the block synchronization

accelerator == <<m_gridBlockIdx, m_threadToIndexMap, m_idMasterThread>>
barrier == <<at, op, given, value>>
hostVars == <<host, next, futuresInBlock>>
vars == <<kernel, hostVars, m_qTasks, m_bShutdownFlag, accelerator, chunks,
          pc, task, ip, data, executed, barrier>>

blockThreadCount == Cardinality(Workers)
Indices == 0..(blockThreadCount - 1)
Grid == 0..(Blocks - 1)
Tasks == [block : Grid, blockThreadIdx : Indices]

NoPredicate(o, f, S) == 0
BS == INSTANCE BlockSync WITH Threads <- Workers, Combine <- NoPredicate

\* A pointer is the number of a chunk, 0 is nullptr.
NoPointers == [v \in Vars |-> 0]
Empty == [w \in Workers |-> None]

Init ==
  /\ kernel \in [Grid -> Kernels]
  /\ host = "begin" /\ next = 0
  /\ m_qTasks = <<>> /\ m_bShutdownFlag = FALSE
  /\ futuresInBlock = [i \in Indices |-> "none"]
  /\ m_gridBlockIdx = 0 /\ m_threadToIndexMap = Empty /\ m_idMasterThread = None
  /\ chunks = <<>>
  /\ pc = [w \in Workers |-> "loop"] /\ task = Empty /\ ip = [w \in Workers |-> 1]
  /\ data = [w \in Workers |-> NoPointers]
  /\ executed = [t \in Grid \X Indices |-> 0]
  /\ BS!Init

Goto(w, label) == pc' = [pc EXCEPT ![w] = label]

\* The statement a thread is at, and where it may go on from one.
Statement(w) == kernel[task[w].block][ip[w]]
GoesOn(s) == CASE s = "sync"  -> {"sync"}
               [] s = "throw" -> {"kernel", "thrown"}
               [] OTHER       -> {"getVarPtr"}

-----------------------------------------------------------------------------
(* Seeded faults: wrong versions of definitions below, each of which makes *)
(* one of the properties fail.  No specification uses them.                *)

KeepMap ==                \* the indices of the last block stay in the map
  /\ host = "cleanup"
  /\ futuresInBlock' = [i \in Indices |-> "none"]
  /\ IF m_gridBlockIdx + 1 < Blocks
       THEN host' = "begin" /\ next' = m_gridBlockIdx + 1
       ELSE host' = "shutdown" /\ next' = 0
  /\ UNCHANGED <<kernel, m_qTasks, m_bShutdownFlag, accelerator, chunks,
                 pc, task, ip, data, executed, barrier>>

StartAtOnce(w) ==         \* the kernel starts before all indices are known
  /\ pc[w] = "insert"
  /\ m_threadToIndexMap' =
       IF m_threadToIndexMap[w] = None
         THEN [m_threadToIndexMap EXCEPT ![w] = task[w].blockThreadIdx] ELSE m_threadToIndexMap
  /\ Goto(w, "kernel")
  /\ UNCHANGED <<kernel, hostVars, m_qTasks, m_bShutdownFlag, m_gridBlockIdx, m_idMasterThread,
                 chunks, task, ip, data, executed, barrier>>

AllocAtOnce(w) ==         \* the master allocates without waiting for the others
  /\ pc[w] = "getVarPtr"
  /\ Goto(w, "alloc")
  /\ UNCHANGED <<kernel, hostVars, m_qTasks, m_bShutdownFlag, accelerator, chunks,
                 task, ip, data, executed, barrier>>

EveryoneIsMaster(w) == TRUE

LostException(w) ==       \* nobody catches it for the future
  /\ pc[w] = "thrown"
  /\ Goto(w, "loop")
  /\ task' = [task EXCEPT ![w] = None] /\ ip' = [ip EXCEPT ![w] = 1]
  /\ data' = [data EXCEPT ![w] = NoPointers]
  /\ UNCHANGED <<kernel, hostVars, m_qTasks, m_bShutdownFlag, accelerator, chunks, executed, barrier>>

NoLastSync(w) ==          \* a thread returns from the kernel without waiting for the others
  /\ pc[w] = "kernel"
  /\ IF ip[w] > Len(kernel[task[w].block])
       THEN /\ Goto(w, "return") /\ UNCHANGED ip
            /\ executed' = [executed EXCEPT ![<<task[w].block, task[w].blockThreadIdx>>] = @ + 1]
       ELSE /\ ip' = IF Statement(w) \in Vars THEN ip ELSE [ip EXCEPT ![w] = @ + 1]
            /\ \E label \in GoesOn(Statement(w)) : Goto(w, label)
            /\ UNCHANGED executed
  /\ UNCHANGED <<kernel, hostVars, m_qTasks, m_bShutdownFlag, accelerator, chunks, task, data, barrier>>

-----------------------------------------------------------------------------
(* The host: operator(), gridBlockExecHost and blockThreadExecHost         *)

SetGridBlockIdx ==
  /\ host = "begin"
  /\ m_gridBlockIdx' = next
  /\ next' = 0 /\ host' = "enqueue"
  /\ UNCHANGED <<kernel, futuresInBlock, m_qTasks, m_bShutdownFlag, m_threadToIndexMap,
                 m_idMasterThread, chunks, pc, task, ip, data, executed, barrier>>

BlockThreadExecHost ==
  /\ host = "enqueue"
  /\ m_qTasks' = Append(m_qTasks, [block |-> m_gridBlockIdx, blockThreadIdx |-> next])
  /\ futuresInBlock' = [futuresInBlock EXCEPT ![next] = "pending"]
  /\ IF next + 1 < blockThreadCount
       THEN next' = next + 1 /\ UNCHANGED host
       ELSE next' = 0 /\ host' = "wait"
  /\ UNCHANGED <<kernel, m_bShutdownFlag, accelerator, chunks, pc, task, ip, data, executed, barrier>>

\* An exception ends the wait as a value does, and nobody looks at it.
WaitFuture ==
  /\ host = "wait" /\ futuresInBlock[next] \in {"value", "exception"}
  /\ IF next + 1 < blockThreadCount
       THEN next' = next + 1 /\ UNCHANGED host
       ELSE next' = 0 /\ host' = "cleanup"
  /\ UNCHANGED <<kernel, futuresInBlock, m_qTasks, m_bShutdownFlag, accelerator, chunks,
                 pc, task, ip, data, executed, barrier>>

\* freeSharedVars does nothing: the next block finds the variables allocated.
CleanUp ==
  /\ host = "cleanup"
  /\ futuresInBlock' = [i \in Indices |-> "none"]
  /\ m_threadToIndexMap' = Empty
  /\ IF m_gridBlockIdx + 1 < Blocks
       THEN host' = "begin" /\ next' = m_gridBlockIdx + 1
       ELSE host' = "shutdown" /\ next' = 0
  /\ UNCHANGED <<kernel, m_qTasks, m_bShutdownFlag, m_gridBlockIdx, m_idMasterThread, chunks,
                 pc, task, ip, data, executed, barrier>>

Shutdown ==
  /\ host = "shutdown"
  /\ m_bShutdownFlag' = TRUE
  /\ host' = "join"
  /\ UNCHANGED <<kernel, next, futuresInBlock, m_qTasks, accelerator, chunks,
                 pc, task, ip, data, executed, barrier>>

\* The pool and then the accelerator are destroyed.
JoinAll ==
  /\ host = "join" /\ \A w \in Workers : pc[w] = "exit"
  /\ host' = "done"
  /\ m_qTasks' = <<>>
  /\ UNCHANGED <<kernel, next, futuresInBlock, m_bShutdownFlag, accelerator, chunks,
                 pc, task, ip, data, executed, barrier>>

-----------------------------------------------------------------------------
(* The threads of the pool                                                 *)

CheckShutdown(w) ==
  /\ pc[w] = "loop"
  /\ Goto(w, IF m_bShutdownFlag THEN "exit" ELSE "pop")
  /\ UNCHANGED <<kernel, hostVars, m_qTasks, m_bShutdownFlag, accelerator, chunks,
                 task, ip, data, executed, barrier>>

PopTask(w) ==
  /\ pc[w] = "pop"
  /\ IF m_qTasks = <<>>
       THEN Goto(w, "loop") /\ UNCHANGED <<task, m_qTasks>>
       ELSE /\ Goto(w, "master")
            /\ task' = [task EXCEPT ![w] = Head(m_qTasks)]
            /\ m_qTasks' = Tail(m_qTasks)
  /\ UNCHANGED <<kernel, hostVars, m_bShutdownFlag, accelerator, chunks,
                 ip, data, executed, barrier>>

\* The task ends: its future is set and the locals of the kernel are gone.
EndTask(w, result) ==
  /\ Goto(w, "loop")
  /\ task' = [task EXCEPT ![w] = None] /\ ip' = [ip EXCEPT ![w] = 1]
  /\ data' = [data EXCEPT ![w] = NoPointers]
  /\ futuresInBlock' = [futuresInBlock EXCEPT ![task[w].blockThreadIdx] = result]
  /\ UNCHANGED <<kernel, host, next, m_qTasks, m_bShutdownFlag, accelerator, chunks, executed, barrier>>

SetValue(w) == pc[w] = "return" /\ EndTask(w, "value")
SetException(w) == pc[w] = "thrown" /\ EndTask(w, "exception")

-----------------------------------------------------------------------------
(* blockThreadExecAcc                                                      *)

SetMaster(w) ==
  /\ pc[w] = "master"
  /\ m_idMasterThread' = IF task[w].blockThreadIdx = 0 THEN w ELSE m_idMasterThread
  /\ Goto(w, "insert")
  /\ UNCHANGED <<kernel, hostVars, m_qTasks, m_bShutdownFlag, m_gridBlockIdx, m_threadToIndexMap,
                 chunks, task, ip, data, executed, barrier>>

\* emplace leaves an entry that is already there as it is.
InsertIndex(w) ==
  /\ pc[w] = "insert"
  /\ m_threadToIndexMap' =
       IF m_threadToIndexMap[w] = None
         THEN [m_threadToIndexMap EXCEPT ![w] = task[w].blockThreadIdx] ELSE m_threadToIndexMap
  /\ Goto(w, "first")
  /\ UNCHANGED <<kernel, hostVars, m_qTasks, m_bShutdownFlag, m_gridBlockIdx, m_idMasterThread,
                 chunks, task, ip, data, executed, barrier>>

\* The labels at which a worker calls syncBlockThreads, and where it goes on.
SyncLabels == {"first", "sync", "beforeAlloc", "afterAlloc", "last"}
After(label) == CASE label = "first"       -> "kernel"
                  [] label = "sync"        -> "kernel"
                  [] label = "beforeAlloc" -> "alloc"
                  [] label = "afterAlloc"  -> "getLatestVarPtr"
                  [] label = "last"        -> "return"

SyncBlockThreads(w) ==
  /\ pc[w] \in SyncLabels
  /\ BS!Enter(w, "sync", FALSE)
  /\ UNCHANGED <<kernel, hostVars, m_qTasks, m_bShutdownFlag, accelerator, chunks,
                 pc, task, ip, data, executed>>

SyncRelease ==
  /\ BS!Release
  /\ UNCHANGED <<kernel, hostVars, m_qTasks, m_bShutdownFlag, accelerator, chunks,
                 pc, task, ip, data, executed>>

SyncReturns(w) ==
  /\ pc[w] \in SyncLabels
  /\ BS!Leave(w)
  /\ Goto(w, After(pc[w]))
  /\ executed' = IF pc[w] = "last"
                   THEN [executed EXCEPT ![<<task[w].block, task[w].blockThreadIdx>>] = @ + 1]
                   ELSE executed
  /\ UNCHANGED <<kernel, hostVars, m_qTasks, m_bShutdownFlag, accelerator, chunks,
                 task, ip, data>>

\* The kernel goes on with its next statement or returns.
KernelStep(w) ==
  /\ pc[w] = "kernel"
  /\ IF ip[w] > Len(kernel[task[w].block]) THEN Goto(w, "last") /\ UNCHANGED ip
     ELSE /\ ip' = IF Statement(w) \in Vars THEN ip ELSE [ip EXCEPT ![w] = @ + 1]
          /\ \E label \in GoesOn(Statement(w)) : Goto(w, label)
  /\ UNCHANGED <<kernel, hostVars, m_qTasks, m_bShutdownFlag, accelerator, chunks,
                 task, data, executed, barrier>>

-----------------------------------------------------------------------------
(* declareVar of the block shared variables                                *)

\* The variable gets its pointer and the kernel goes on.
Declared(w, pointer) ==
  /\ data' = [data EXCEPT ![w][Statement(w)] = pointer]
  /\ ip' = [ip EXCEPT ![w] = @ + 1]
  /\ Goto(w, "kernel")

GetVarPtr(w) ==
  /\ pc[w] = "getVarPtr"
  /\ LET found == {k \in DOMAIN chunks : chunks[k] = Statement(w)}
     IN IF found = {} THEN Goto(w, "beforeAlloc") /\ UNCHANGED <<data, ip>>
                      ELSE Declared(w, CHOOSE k \in found : \A j \in found : k <= j)
  /\ UNCHANGED <<kernel, hostVars, m_qTasks, m_bShutdownFlag, accelerator, chunks,
                 task, executed, barrier>>

IsMasterThread(w) == m_idMasterThread = w

Alloc(w) ==
  /\ pc[w] = "alloc"
  /\ chunks' = IF IsMasterThread(w) THEN Append(chunks, Statement(w)) ELSE chunks
  /\ Goto(w, "afterAlloc")
  /\ UNCHANGED <<kernel, hostVars, m_qTasks, m_bShutdownFlag, accelerator,
                 task, ip, data, executed, barrier>>

GetLatestVarPtr(w) ==
  /\ pc[w] = "getLatestVarPtr"
  /\ Declared(w, Len(chunks))
  /\ UNCHANGED <<kernel, hostVars, m_qTasks, m_bShutdownFlag, accelerator, chunks,
                 task, executed, barrier>>

-----------------------------------------------------------------------------
Host == SetGridBlockIdx \/ BlockThreadExecHost \/ WaitFuture \/ CleanUp \/ Shutdown \/ JoinAll

Worker(w) == \/ CheckShutdown(w) \/ PopTask(w) \/ SetValue(w) \/ SetException(w)
             \/ SetMaster(w) \/ InsertIndex(w) \/ SyncBlockThreads(w) \/ SyncReturns(w)
             \/ KernelStep(w) \/ GetVarPtr(w) \/ Alloc(w) \/ GetLatestVarPtr(w)

Next == Host \/ SyncRelease \/ \E w \in Workers : Worker(w)

Spec == Init /\ [][Next]_vars

\* Host and threads are scheduled; that the synchronization releases the
\* threads and lets them return is what BlockSync promises.
FairSpec == Spec /\ WF_vars(Host) /\ WF_vars(SyncRelease) /\ \A w \in Workers : WF_vars(Worker(w))

-----------------------------------------------------------------------------
(* Properties                                                              *)

Labels == SyncLabels \cup {"loop", "pop", "master", "insert", "kernel", "getVarPtr", "alloc",
                           "getLatestVarPtr", "thrown", "return", "exit"}

\* The types of the variables.
TypeOK ==
  /\ kernel \in [Grid -> Kernels]
  /\ host \in {"begin", "enqueue", "wait", "cleanup", "shutdown", "join", "done"} /\ next \in Nat
  /\ m_qTasks \in Seq(Tasks)
  /\ m_bShutdownFlag \in BOOLEAN
  /\ futuresInBlock \in [Indices -> {"none", "pending", "value", "exception"}]
  /\ m_gridBlockIdx \in Grid
  /\ m_threadToIndexMap \in [Workers -> Indices \cup {None}]
  /\ m_idMasterThread \in Workers \cup {None}
  /\ chunks \in Seq(Vars)
  /\ pc \in [Workers -> Labels] /\ task \in [Workers -> Tasks \cup {None}] /\ ip \in [Workers -> Nat]
  /\ data \in [Workers -> [Vars -> Nat]]
  /\ executed \in [Grid \X Indices -> Nat]
  /\ at \in [Workers -> {"out", "in", "go"}]

\* A worker executes the kernel.
InKernel(w) == \/ pc[w] \in {"kernel", "sync", "getVarPtr", "beforeAlloc", "alloc", "afterAlloc",
                             "getLatestVarPtr"}
               \/ pc[w] = "first" /\ at[w] = "go"
               \/ pc[w] = "last" /\ at[w] # "go"

\* A thread in the kernel finds its own block and thread index in the
\* accelerator, and the thread with index zero, no other, is the master: though
\* the pool's threads take the tasks of each block in any order and the
\* accelerator is the same for all blocks.
OwnIndex ==
  \A w \in Workers : InKernel(w) =>
    /\ m_threadToIndexMap[w] = task[w].blockThreadIdx
    /\ m_gridBlockIdx = task[w].block
    /\ m_idMasterThread = w <=> task[w].blockThreadIdx = 0

\* "Sync all threads so that the maps with thread id's are complete and not
\* changed after here": while a thread is in the kernel, where it reads the map,
\* the master and the block index without a lock, nobody is about to write them.
NoRaceOnAccelerator ==
  \A w \in Workers : InKernel(w) => /\ host \notin {"begin", "cleanup"}
                                   /\ \A u \in Workers : pc[u] \notin {"master", "insert"}

\* A thread that looks up or takes a shared variable does so without a lock:
\* never while the master is about to allocate one.
NoRaceOnSharedMem ==
  \A w, u \in Workers : pc[w] = "alloc" /\ IsMasterThread(w) =>
                          pc[u] \notin {"getVarPtr", "getLatestVarPtr"}

\* All threads of all blocks get the same chunk for the same variable, and
\* different ones for different variables.
SharedVarsAgree ==
  /\ \A w \in Workers, v \in Vars : data[w][v] # 0 => /\ data[w][v] \in DOMAIN chunks
                                                     /\ chunks[data[w][v]] = v
  /\ \A j, k \in DOMAIN chunks : chunks[j] = chunks[k] => j = k

\* A block the host has left behind was executed by all its threads, each once, or
\* it throws and none of them got to its end: a thread that throws skips the last
\* synchronization, so that the others cannot return, the host cannot go on, and no
\* block is ever taken for executed when only some of its threads were.
Left(b) == \/ b < m_gridBlockIdx
           \/ b = m_gridBlockIdx /\ host \in {"cleanup", "shutdown", "join", "done"}
           \/ b < next /\ host = "begin"
Throws(b) == \E k \in 1..Len(kernel[b]) : kernel[b][k] = "throw"
BlocksEndTogether ==
  \A b \in Grid : Left(b) => \/ \A i \in Indices : executed[<<b, i>>] = 1
                             \/ Throws(b) /\ \A i \in Indices : executed[<<b, i>>] = 0

\* The execution of the kernel ends, also of one that throws, unless a thread of a
\* block throws while another waits for it in a synchronization.
Deserted == /\ \E i \in Indices : futuresInBlock[i] = "exception"
            /\ \E w \in Workers : at[w] = "in"
KernelCompletes == []~Deserted => <>(host = "done")

\* The same for whatever the threads do.  It does not hold: the other threads and
\* the host wait for ever.
AlwaysCompletes == <>(host = "done")
=============================================================================
