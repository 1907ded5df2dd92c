------------------------------ MODULE GridExec ------------------------------
(***************************************************************************)
(* A kernel on a CPU accelerator other than that of threads, from the      *)
(* extent of the elements to the last element: getValidWorkDiv divides the *)
(* work, the task distributes the blocks (one after the other, or over the *)
(* threads of OpenMP or TBB), the threads of a block find their indices    *)
(* and the kernel computes the elements they lead to                       *)
(* (kernel/TaskKernelCpu*.hpp, idx/Accessors.hpp).                         *)
(***************************************************************************)
EXTENDS WorkDivHelpers

CONSTANTS Workers,      \* the threads of the OpenMP or TBB runtime
          Inputs,       \* the kernels that are launched, see below
          LaunchBound,  \* at most so many threads in a grid whose execution is followed
          Required      \* are equal extents that divide the grid among what is claimed

SingleThreadBlocks == {"Serial", "Omp2Blocks", "TbbBlocks"}
ParallelBlocks == {"Omp2Blocks", "TbbBlocks"}
Accs == SingleThreadBlocks \cup {"Omp2Threads", "Fibers"}

\* What the code asserts of its arguments, and what getAccDevProps returns: a block
\* has no more threads in one dimension than in all.  The limits of the grid and of
\* the elements of a thread, for a CPU the maxima of TIdx, are never the tighter
\* ones: the code does not look at the former and asserts the latter.
ASSUME InputsAssumption ==
  /\ Workers # {}
  /\ \A i \in Inputs :
       LET Extents == [1..Len(i.gridElemExtent) -> Nat \ {0}]
           props == i.accDevProps
       IN /\ i.acc \in Accs /\ Len(i.gridElemExtent) \in Nat \ {0}
          /\ i.gridElemExtent \in Extents /\ i.threadElemExtent \in Extents
          /\ props.gridBlockExtentMax \in Extents /\ props.gridBlockCountMax \in Nat \ {0}
          /\ props.blockThreadExtentMax \in Extents /\ props.blockThreadCountMax \in Nat \ {0}
          /\ props.threadElemExtentMax \in Extents /\ props.threadElemCountMax \in Nat \ {0}
          /\ \A d \in DOMAIN i.gridElemExtent :
               /\ i.gridElemExtent[d] <= props.gridBlockExtentMax[d]
               /\ props.blockThreadExtentMax[d] <= props.blockThreadCountMax
               /\ props.blockThreadExtentMax[d] <= props.threadElemExtentMax[d]
          /\ prod(i.gridElemExtent) <= props.gridBlockCountMax
          /\ props.blockThreadCountMax <= props.threadElemCountMax

VARIABLES in,       \* acc, gridElemExtent, threadElemExtent, accDevProps, requireDivide, restrictions
          pc,       \* of the host: "divide", "launch", "run", "done", "thrown"
          workDiv,
          todo,     \* what nobody has taken of the loop over the blocks
          busy,     \* is a worker in a block,
          left,     \* and the threads of its block that have still to run the kernel
          gridBlockIdx,  \* m_gridBlockIdx of an accelerator, empty before its first block
          visits    \* how often the kernel has computed an element

vars == <<in, pc, workDiv, todo, busy, left, gridBlockIdx, visits>>

NoWorkDiv == [gridBlockExtent |-> <<>>, blockThreadExtent |-> <<>>, threadElemExtent |-> <<>>]

Init ==
  /\ in \in Inputs
  /\ pc = "divide"
  /\ workDiv = NoWorkDiv
  /\ todo = {}
  /\ busy = [w \in Workers |-> FALSE]
  /\ left = [w \in Workers |-> {}]
  /\ gridBlockIdx = [w \in Workers |-> <<>>]
  /\ visits = [e \in IndexSet(in.gridElemExtent) |-> 0]

-----------------------------------------------------------------------------
(* Seeded faults: wrong versions of definitions below, each of which makes *)
(* one of the properties fail.  No specification uses them.                *)

OneAcc(w) ==                \* the accelerator is made outside of the parallel region
  CHOOSE u \in Workers : TRUE

-----------------------------------------------------------------------------
numBlocksInGrid == prod(workDiv.gridBlockExtent)
blockThreadCount == prod(workDiv.blockThreadExtent)

\* Blocks in parallel and the threads of OpenMP are numbered; other loops go over
\* the indices themselves.
blockLoop ==
  IF in.acc \in ParallelBlocks THEN 0..(numBlocksInGrid - 1) ELSE IndexSet(workDiv.gridBlockExtent)
threadLoop ==
  IF in.acc = "Fibers" THEN IndexSet(workDiv.blockThreadExtent) ELSE 0..(blockThreadCount - 1)

GetValidWorkDiv ==
  /\ pc = "divide"
  /\ workDiv' \in subDivideGridElems(in.gridElemExtent, in.threadElemExtent, in.accDevProps,
                                     in.requireDivide, in.restrictions)
  /\ pc' = "launch"
  /\ UNCHANGED <<in, todo, busy, left, gridBlockIdx, visits>>

\* operator() of the task up to its loop over the blocks.
Launch ==
  /\ pc = "launch" /\ numBlocksInGrid * blockThreadCount <= LaunchBound
  /\ IF in.acc \in SingleThreadBlocks /\ blockThreadCount # 1
       THEN pc' = "thrown" /\ UNCHANGED todo
       ELSE pc' = "run" /\ todo' = blockLoop
  /\ UNCHANGED <<in, workDiv, busy, left, gridBlockIdx, visits>>

\* The blocks run one after the other in one place, or wherever the schedule of
\* OpenMP (of whatever kind and chunk size) or TBB puts them.
MayTake(w, p) ==
  IF in.acc \in ParallelBlocks THEN TRUE
  ELSE p = ndLoopIncIdx(todo) /\ \A u \in Workers : ~busy[u]

\* The accelerator a worker runs its block on: every OpenMP thread makes one, the
\* TBB loop makes one for every block, otherwise one lives as long as the task.
accOf(w) == IF in.acc \in ParallelBlocks THEN w ELSE CHOOSE u \in Workers : TRUE

\* The index of the block a round of the loop is for.
blockAt(p) == IF in.acc \in ParallelBlocks THEN mapIdx(p, workDiv.gridBlockExtent) ELSE p

\* getIdx<Block, Threads>: zero, from the number of the OpenMP thread, or as the
\* loop that made the fiber stored it.
blockThreadIdx(j) ==
  IF in.acc = "Omp2Threads" THEN mapIdx(j, workDiv.blockThreadExtent)
  ELSE IF in.acc = "Fibers" THEN j
  ELSE [d \in DOMAIN workDiv.blockThreadExtent |-> 0]

TakeBlock(w, p) ==
  /\ pc = "run" /\ ~busy[w]
  /\ p \in todo /\ MayTake(w, p)
  /\ todo' = todo \ {p}
  /\ busy' = [busy EXCEPT ![w] = TRUE]
  /\ left' = [left EXCEPT ![w] = threadLoop]
  /\ gridBlockIdx' = [gridBlockIdx EXCEPT ![accOf(w)] = blockAt(p)]
  /\ UNCHANGED <<in, pc, workDiv, visits>>

\* The elements of a thread: those from getIdxThreadFirstElem on that are in the grid.
elements(b, j) ==
  LET t == blockThreadIdx(j)
      first == [d \in DOMAIN b |-> (b[d] * workDiv.blockThreadExtent[d] + t[d]) * workDiv.threadElemExtent[d]]
  IN {e \in DOMAIN visits : \A d \in DOMAIN e : /\ first[d] <= e[d]
                                                /\ e[d] < first[d] + workDiv.threadElemExtent[d]}

\* A thread runs the kernel, which asks its accelerator which block it is in.
RunThread(w, j) ==
  /\ busy[w] /\ j \in left[w]
  /\ LET E == elements(gridBlockIdx[accOf(w)], j)
     IN visits' = [e \in DOMAIN visits |-> IF e \in E THEN visits[e] + 1 ELSE visits[e]]
  /\ left' = [left EXCEPT ![w] = @ \ {j}]
  /\ UNCHANGED <<in, pc, workDiv, todo, busy, gridBlockIdx>>

\* All threads of the block have ended.  freeSharedVars does nothing on a CPU: the
\* next block of the accelerator finds the variables of this one.
FinishBlock(w) ==
  /\ busy[w] /\ left[w] = {}
  /\ busy' = [busy EXCEPT ![w] = FALSE]
  /\ UNCHANGED <<in, pc, workDiv, todo, left, gridBlockIdx, visits>>

\* The parallel region or loop ends when all of its threads have.
Return ==
  /\ pc = "run" /\ todo = {} /\ \A w \in Workers : ~busy[w]
  /\ pc' = "done"
  /\ UNCHANGED <<in, workDiv, todo, busy, left, gridBlockIdx, visits>>

Next == \/ GetValidWorkDiv \/ Launch \/ Return
        \/ \E w \in Workers : \/ \E p \in todo : TakeBlock(w, p)
                              \/ \E j \in left[w] : RunThread(w, j)
                              \/ FinishBlock(w)

Spec == Init /\ [][Next]_vars

-----------------------------------------------------------------------------
(* Properties                                                              *)

Claimed == Required \/ ~(in.requireDivide /\ in.restrictions = EqualExtent)

\* subDivideGridElems keeps to the maxima of the device, gives nobody an empty
\* extent, makes blocks that divide the grid and are equal where that is asked
\* for, and covers all elements without a block that has none.  The maxima of the
\* grid are kept by the assumption on the inputs, not by the code.
ValidWorkDiv ==
  pc # "divide" /\ Claimed =>
    LET b == workDiv.blockThreadExtent
        g == Map2(ceilDiv, in.gridElemExtent, workDiv.threadElemExtent)
    IN /\ isValidWorkDiv(in.accDevProps, workDiv)
       /\ \A d \in DOMAIN b : /\ workDiv.threadElemExtent[d] \in 1..in.threadElemExtent[d]
                              /\ workDiv.gridBlockExtent[d] * b[d] >= g[d]
                              /\ (workDiv.gridBlockExtent[d] - 1) * b[d] < g[d]
                              /\ in.requireDivide => g[d] % b[d] = 0
                              /\ in.restrictions = EqualExtent => b[d] = b[1]

\* When the task returns the kernel has computed every element of the grid
\* exactly once, whatever the extents, the division and the order of the blocks.
EveryElementOnce == pc = "done" => \A e \in DOMAIN visits : visits[e] = 1
=============================================================================
