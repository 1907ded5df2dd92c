# A TLA+ development for alpaka

alpaka is a header-only C++17 library for kernels that run on many back-ends.
Most of it is compile-time plumbing. What runs at run time and is hard to get
right is the part of the library that *schedules*: the CPU queues and their
thread pools, events, device-wide waits, block synchronization, the kernels that
run a grid on a CPU and the division of work they start from, atomic operations,
the thread that runs host tasks for CUDA/HIP queues, the queues and events of
SYCL, and the counters from which the random number engines of different threads
draw. This directory specifies that part, checks it with TLC and proves the
properties that matter most with TLAPS. Paths below are relative to
`src/include/alpaka/` unless they start with `src/`.

## 1. The system

### Components, state, operations

| component | state | operations |
|---|---|---|
| thread pool (`core/ConcurrentExecPool.hpp`), waiting form | `m_qTasks`, `m_numActiveTasks`, `m_mtxWakeup`, `m_cvWakeup`, `m_bShutdownFlag`, `m_bDetachedFlag`, `m_self`, the worker threads | `enqueueTask`, `isIdle`, `detach`, `takeDetachHandle`, `concurrentExecFn`, destructor |
| thread pool, yielding form | `m_qTasks`, `m_bShutdownFlag`, `m_numActiveTasks` | the same without detach; workers poll and yield |
| non-blocking CPU queue (`queue/QueueGenericThreadsNonBlocking.hpp`) | a pool with one worker | enqueue task or event, wait, empty, end of life |
| blocking CPU queue (`queue/QueueGenericThreadsBlocking.hpp`) | `m_mutex`, `m_bCurrentlyExecutingTask` | the same, run by the caller |
| device handle (`dev/DevCpu.hpp`, `dev/common/QueueRegistry.hpp`) | weak references to its queues; a static list of exit-time cleaners | register, list, wait(dev), wait(dev, event), registerCleanup |
| CPU event (`event/EventGenericThreads.hpp`) | `m_future`, `m_enqueueCount`, `m_LastReadyEnqueueCount` under a mutex | enqueue, isComplete, wait(event), wait(queue, event) |
| block synchronization of threads (`core/BarrierThread.hpp`, `block/sync/`) | two barriers: count and generation each, two result slots, mutex and condition variable | `syncBlockThreads`, `syncBlockThreadsPredicate` |
| thread kernel and accelerator (`kernel/TaskKernelCpuThreads.hpp`, `acc/AccCpuThreads.hpp`) | `m_gridBlockIdx`, `m_threadToIndexMap`, `m_idMasterThread`, the futures of the block | loop over blocks, one task per block thread |
| static shared memory (`block/shared/st/`) | the chunks allocated so far | `declareSharedVar` |
| CUDA/HIP host tasks (`queue/cuda_hip/QueueUniformCudaHipRt.hpp`, `core/CallbackThread.hpp`) | `m_tasks`, `m_stop`, mutex, condition variable; per task `CallbackSynchronizationData` | enqueue of a host task, the worker's loop, the host function, destruction |

| division of work (`workdiv/WorkDivHelpers.hpp`, `idx/MapIdx.hpp`, `meta/NdLoop.hpp`) | none | `getValidWorkDiv`, `isValidWorkDiv`, `mapIdx`, the loop over blocks |
| other CPU kernels (`kernel/TaskKernelCpuSerial.hpp`, `...Omp2Blocks`, `...Omp2Threads`, `...TbbBlocks`, `...Fibers`) | an accelerator with `m_gridBlockIdx` per task, OpenMP thread or block | run a grid |
| block synchronization of OpenMP threads and fibers (`block/sync/BlockSyncBarrierOmp.hpp`, `BlockSyncBarrierFiber.hpp`) | generation, two result slots, a count; a barrier of the runtime | the same two operations |
| atomics (`atomic/`) | the words themselves; a table of mutexes, critical regions, a ticket lock | eleven operations |
| SYCL queue, event, device (`queue/sycl/QueueGenericSyclBase.hpp`, `event/EventGenericSycl.hpp`, `dev/DevGenericSycl.hpp`) | `m_dependencies`, `m_last_event`; a copied `sycl::event`; weak pointers to queues under a shared mutex | enqueue, event, waits of all kinds, creation, destruction |
| Philox engines (`rand/Philox/`) | a 128 bit counter, four results, a position | construction from subsequence and offset, draw |

Everything else (CUDA/HIP events and devices, OpenMP 5, OpenACC, SYCL kernels,
buffers, distributions, mathematics, metaprogramming, platforms) is listed with
its reason under "components" in `PROJECT.json` and in section 8.

### How the parts interact

* A non-blocking queue *owns* a pool; host threads call `enqueueTask`, the pool's
  worker calls the tasks. When the last copy of the queue goes away on any thread,
  the pool is handed to itself (`detach`) and lives on until its worker finds it
  idle, or until the cleaner registered for it runs at program exit.
* An event enqueued into a non-blocking queue is a task that marks the event; a
  queue told to wait for an event gets a task that blocks its worker on the
  event's future. In a blocking queue the calling thread does both.
* `wait(dev)` lists the queues registered on one handle, puts an event of its own
  into each, and waits for them one after the other.
* A thread kernel runs on its own yielding pool. The pool's threads share one
  accelerator object without locks; block synchronization is the only thing that
  orders their accesses.
* The other CPU kernels divide the grid among the threads of OpenMP, TBB or one
  thread with fibers. What orders their block threads is a barrier of that runtime.
* Kernels of all kinds share memory with atomics only; which implementation they get
  depends on the accelerator.
* A SYCL queue hands commands to an in-order queue of the runtime, with the events
  that `wait(queue, event)` collected since the last command; an alpaka event is the
  runtime's event of the last command.
* A host task in a CUDA/HIP queue is enqueued twice, into the stream (as a host
  function) and into the queue's callback thread (as a packaged task). The two
  meet through the shared `CallbackSynchronizationData`.

### What is hard

Steps of several threads between a check and a wait (lost wake-ups); counters
changed outside the lock that guards what they count; objects destroyed by a
thread other than the one that is still leaving a member function; plain members
read without a lock; events that are enqueued again while they are unfinished;
workers that block on each other's futures; generations that wrap around; tasks
and kernels that throw. The hazards are listed at their lines in `PROJECT.json`
("hazards"), those no property covers yet with the reason. Nothing is persisted
and nothing is sent over a network, so there are no crashes with recovery and no
lost messages; "exit" of the program is modelled where the code handles it.

### What makes each component correct

* pool: no task is lost, none is broken before exit, tasks start first in, first
  out, `isIdle` is right, the pool dies exactly once and nobody uses it afterwards.
* events and queues: a wait that returns has waited for what it names; tasks run
  after what their queue was told to wait for; no wait lasts for ever.
* block synchronization: nobody leaves before all have entered, all leave with the
  same combination of predicates, everybody leaves.
* thread kernel: each thread sees its own index, the same master, the same shared
  variables, and nobody writes what another thread reads unlocked.
* host tasks: they run in stream order and the stream does not overtake them.
* division of work and kernels: the limits of the device are kept, and every element
  is computed exactly once.
* atomics: an operation takes effect in one step and returns what it found.
* SYCL queues: commands run after what their queue was told to wait for; waits cover
  what they name, and return.
* Philox: an engine gives out successive numbers, two subsequences share none.

## 2. Modules

| module | models | remarks |
|---|---|---|
| `TaskPool` | *abstract*: what a pool of `Size` executors promises | accepted, ordered, started first in first out, completed or broken |
| `ConcurrentExecPool` | the waiting pool and the end of life of a non-blocking queue | implements `TaskPool` |
| `ConcurrentExecPool_proofs` | theorems about it | |
| `EventGenericThreads` | CPU queues, events, devices | takes a pool at its specification (FIFO, one executor) |
| `EventGenericThreads_proofs` | theorems about them | |
| `BlockSync` | *abstract*: block synchronization | `Enter`, `Release`, `Leave` |
| `BlockSyncBarrierThread` | the two thread barriers side by side | implements `BlockSync` |
| `BlockOps` | the operations that combine predicates | used by all synchronizations |
| `BlockSyncBarrierTeam` | the synchronizations of OpenMP threads and of fibers | implements `BlockSync`; the barrier below is external |
| `BlockSyncBarriers` | the synchronizations side by side | no behaviour of its own: names the variables of the team apart from those of the threads |
| `BlockSyncBarriers_proofs` | theorems about all of them | |
| `TaskKernelCpuThreads` | thread kernel, accelerator, shared variables, the yielding pool | uses the actions of `BlockSync` for synchronization |
| `TaskKernelCpuThreads_proofs` | theorems about it | |
| `WorkDivHelpers` | division of work, mapping of indices | functions only, no state |
| `GridExec` | a kernel on the other CPU accelerators, from the extents to the last element | extends `WorkDivHelpers` |
| `GridExec_proofs` | theorems about both | |
| `AtomicOps` | *abstract*: `Call`, `Execute` in one step, `Return` | with the function objects of `atomic/Op.hpp` |
| `Atomics` | the implementations of all back-ends | implements `AtomicOps` |
| `QueueUniformCudaHipRt` | host tasks of CUDA/HIP queues | the stream is external |
| `QueueUniformCudaHipRt_proofs` | theorems about them | |
| `QueueGenericSycl` | queues, events and the device of SYCL | the runtime is external |
| `QueueGenericSycl_proofs` | theorems about them | |
| `Philox` | the counting of two engines side by side | |
| `AtomicsAndPhilox_proofs` | that the implementations do, and theorems about the engines | the two components share no names, the specification of the engines is `PhiloxSpec` |
| `MC...` | constants, definitions and symmetry for TLC | no new behaviour |

Composition follows the code: `TaskKernelCpuThreads` INSTANCEs `BlockSync`, which
`BlockSyncBarrierThread` is proved to implement; `EventGenericThreads` uses a queue
that is what `TaskPool` with `Size = 1` says, which `ConcurrentExecPool` is proved
to implement.

Each module has a section "Seeded faults" with wrong versions of its own
definitions (a forgotten increment, a lock not taken, a missing reset). No
specification uses them; replacing the right definition by one of them makes the
property it is paired with in `PROJECT.json` ("mutants") fail, which shows that the
property depends on the code.

### How state and actions correspond to the code

**ConcurrentExecPool.** Variables carry the names of the members. `refs` is the set
of holders of a strong reference (the queue, the pool itself through `m_self`, a
worker or the cleaner that took the handle), `owners` the producers that still
have a copy of the queue, `future` what the future of each task says. `pc[t]` is
where a thread is: workers run `WorkerLoop` (loop condition), `WorkerPop`
(`popTask`), `WorkerRun`/`WorkerThrow` (the function object), `WorkerDecrement` (the
decrement bound to it by `invokeBothReturnFirst`), `WorkerSetValue` (the promise),
`WorkerCheck` (the locked checks for detach and shutdown), `WorkerBlock` and
`WorkerWake` (`m_cvWakeup.wait`). A producer's `enqueueTask` is `EnqueueCount`,
`EnqueuePush`, `EnqueueNotify`; the end of the queue is `ReleaseQueue`,
`RegisterCleanup`, `DetachSelf`, `DetachFlag`, `DetachNotify`. The destructor is
`DropHandle`, `DtorShutdown`, `DtorNotifyAll`, `DtorJoin`, `DtorDrain`, run by
whichever thread dropped the last reference. A critical section in which nothing
blocks is one step; check-then-wait is two with the mutex held in between, so that
an unlocked change can get between them. Spurious wake-ups are steps.

**EventGenericThreads.** A queue is its waiting items `fifo[q]` and the item its
worker is working on `cur[q]`; items are tasks, events (with their enqueue count)
and waits. Under an event's mutex everything is one step. The future an enqueue
makes is named by event and count, and is in `ready` once its promise is set.
`EventGenericThreadsImpl::wait` is a loop of `WaitCopy` (copy the future, release
the mutex) and `WaitGet` (the future is ready) until `~Waiting`. `wait(dev)` and
`wait(dev, event)` list the queues (`ListQueues`) and then go through the list one
queue per step. Blocking queues hold `m_mutex` while the caller runs the task. Ghost
variables (`before, fence, follows, due, released`, and `submitted`) record what a wait or
a task has to come after. `due` is what a wait has to wait for: the queue's tasks for
`wait(queue)`, and for `wait(dev)` every task enqueued to any queue so far, since all handles
of the device are equal. What the client does is limited in two ways, `Usage` (when it
enqueues an event again) and `DeviceUse` (when it waits for the device: `any`, or only
`inReach` of the handle, while all unfinished tasks are in queues that exist and were made on
it). `MayWaitDev`, which states the second, reads `submitted`; no other guard reads a ghost.

**BlockSyncBarrierThread.** Suffix 1 is `BarrierThread` (spin), 2 is
`BarrierThreadWithPredicate`. Each access to an atomic is a step: reading the
generation, the decrement, the reset of the count, the increment of the generation
are four steps of one `wait`. The slots of `m_result` start with any value, as the
code does not initialize them.

**TaskKernelCpuThreads.** `host` walks through `gridBlockExecHost`:
`SetGridBlockIdx`, `BlockThreadExecHost` per thread, `WaitFuture`, `CleanUp` (map and
futures), and after the last block the pool's destructor (`Shutdown`, `JoinAll`).
Workers take tasks (`CheckShutdown`, `PopTask`), run `blockThreadExecAcc`
(`SetMaster`, `InsertIndex`, synchronization, `KernelStep`..., synchronization)
and end with `SetValue` or `SetException`. A kernel is a sequence of statements; at
`"throw"` each thread throws or goes on by itself, whatever the others do (`GoesOn`), and one
that throws skips every synchronization that is left to it, the last one included;
the declaration of a shared variable is `getVarPtr` and, when it finds nothing,
synchronization, `Alloc` by the master, synchronization, `GetLatestVarPtr`.

**QueueUniformCudaHipRt.** `enqueue` is `LaunchHostFunc`, `Submit`, `SubmitNotify`,
and, for a blocking queue, `EnqueueReturns` when the future is ready. The callback
thread is `WorkerLock` ... `WorkerSetValue`, the runtime's thread
`HostFuncBegins` ... `HostFuncWakes`. `m_event[t]` is the set of threads asleep on the
condition variable of task t. Destroying the queue is `DropHandle`, `DtorStop`,
`DtorNotify`, `DtorJoin`.

**BlockSyncBarrierTeam.** The round of OpenMP threads is `Single` (which ends in a
barrier), `CombineOmp`, `Arrive` (the second barrier), `Return`. A fiber runs until it
waits (`Scheduled`), so the whole first half of its call, `CombineFiber`, is
undisturbed. `RuntimeBarrier` is the barrier of the runtime: the last to arrive lets all
out at once.

**WorkDivHelpers, GridExec.** `subDivideGridElems` gives the *set* of work divisions the
function may return, because the truncated `std::pow` may miss an exact root and because
the code reads before the end of a set that may be empty. Vectors are sequences, the
slowest dimension first. The host of `GridExec` divides (`GetValidWorkDiv`), refuses blocks
of more than one thread where the accelerator cannot run them and otherwise starts
(`Launch`) the loop over the blocks (`blockLoop`: numbers where `mapIdx` maps them, otherwise
the indices of `ndLoopIncIdx`); a worker takes a block from it (`TakeBlock`), which sets
`m_gridBlockIdx` of *its accelerator* (`accOf`: one per OpenMP thread, per TBB block, or per
task), and the threads of the block (`threadLoop`) ask that accelerator where they are
(`RunThread`). All schedules of OpenMP are one: any free thread takes any block that is left.
What a loop of the code computes is a recursive function over the number of its rounds
(`hyperPlanes`, `Clip`), so that it can be reasoned about.

**Atomics.** An implementation takes one of three ways, and several of them take
different ways for different operations (`Ways`): one step (`Capture`); load, compute,
compare-and-exchange, repeat (`Load`, `CompareExchange`); or read and write in two steps
under a lock, which is a mutex found by hashing the address, a named critical region
(`Lock`, `Unlock`) or a ticket lock (`TakeTicket`, `Served`, `Serve`). SYCL's `Cas` and
`CasWithCondition` are as they are written. The operation takes effect, in the sense of
`AtomicOps`, when the value is stored.

**QueueGenericSycl.** A command is a number; `queueOf`, `dependsOn`, `running` and `done` are
the runtime's. What a queue does under its mutex is one step. The loops over the queues of
the device hold the device's mutex shared, lock one weak pointer at a time (`NextQueue`),
wait or register the dependency, and let go of it (`LeaveQueue`), possibly as the last owner.
`covered`, `awaited`, `must` and `goal` record what is expected and are read by no guard. The
wait of a blocking queue ends when the commands up to its own are done; the code's waits for
commands that others enqueue in the meantime, too.

**Philox.** Two engines of one kind and seed draw in turn. Limbs have `Base` values; a result
is its counter and position, since the shuffle maps the counters of one key to results one
to one.

## 3. Runs

| run | instance | states | shows |
|---|---|---|---|
| `pool_queue` | 1 worker, 2 owners, 3 tasks, one may throw | 8.6 k | all safety and liveness properties of the pool and that it implements `TaskPool` |
| `events_host` | 2 hosts with 2 calls each of any kind, one queue of each kind, 2 handles, 1 event, 1 task | 339 k | waits with an event moving between queues of both kinds; `wait(dev)`, `wait(dev, event)` racing with queues that are made, filled and destroyed |
| `events_requeue` | 1 host with 5 calls, 2 non-blocking queues, 3 enqueues | 208 k | order, and re-enqueueing an event behind its unfinished self |
| `block_sync` | 3 threads, generations modulo 2 | 380 k | both barriers implement `BlockSync`, with its liveness; so do the OpenMP and fiber versions |
| `kernel_threads` | 3 pool threads, 2 blocks, 5 kernels, 2 variables; every thread throws or not by itself | 503 k | indices, master, shared variables, races, blocks left by all threads or by none, termination |
| `host_task` | 1 producer, 3 host tasks (one may throw), 1 device operation, both kinds of queue | 56 k | order, lifetime and progress of host tasks |
| `host_task_destroy` | 1 producer, 1 task | (violation) | finding 1 |
| `grid_kernel` | extents up to 4 (3 in three dimensions), 1 or 2 elements per thread, all restrictions, 5 accelerators, 2 workers | 379 k | the division is valid and every element is computed once |
| `atomics` | 2 threads, 1 word of 2 bits, all operations, 7 implementations, tickets modulo 4 | 195 k | all implementations but SYCL's implement `AtomicOps`; the ticket lock is fair |
| `sycl_queues` | 2 hosts with 5 calls together, 3 queues of which one blocks and one is made later, 3 commands, 1 event | 490 k | order, coverage and return of all waits |
| `philox_streams` | limbs of 4 values, all pairs of 16 subsequences, 3 offsets, 72 numbers each | 33 k | successive numbers, disjoint subsequences |
| `philox_offset` | all 16 subsequences and offsets | (violation) | finding 2 |

### Bounds and why they are enough

* *One worker* in `pool_queue` is what a queue uses. `NothingRunsPastExit` and the
  FIFO order of a queue rest on it. The proofs below are for any number of workers, but for
  `NothingRunsPastExit`.
* *Two owners* let one thread release the queue while another enqueues; *three
  tasks* let one run, one wait, and one be handed in.
* `MaxOps` bounds calls per host, `MaxEnqueue` the enqueues per event. Both are
  guards of the calls only: what has begun always goes on. Two hosts with two calls,
  or one host with five, include every pair of racing calls, an event enqueued
  three times, and a queue waiting for an event in another one. `Usage` says when a
  host enqueues an event that is still in a queue: `complete` (never), `behind`
  (behind itself in the same queue, while that queue is not waiting for it),
  `sameQueue`, `any`. Only the first two are used in runs that hold; the findings
  show what the others do. `DeviceUse` is `inReach` in `events_host`: a host calls `wait(dev)`
  only while all that is unfinished is in the reach of the handle; what other hosts enqueue,
  create, destroy or move during the wait is not limited. Finding 9 shows `any`.
* *Three threads* in the barriers give a last, a first and a middle one, so that a
  fast thread can be a whole synchronization ahead while a slow one has not left.
  *Generations = 2* makes the counters wrap at every second synchronization, the
  hardest even width there is.
* *Two blocks* let the second one find what the first left in the map, the master
  and the shared memory; *the five kernels* have none, one or two variables, with and
  without synchronization between them, and exceptions: between two uses of a variable, at
  the end and before an allocation. All threads of a block have the same statements, as block
  synchronization demands, but each decides for itself whether it throws.
* *Three host tasks and a device operation* let one be in its hand-shake, one wait in
  the callback thread's queue, and one in the stream behind device work.

* *Generations of the team barriers* wrap like those of the thread barriers; the count of the
  fibers has to be reset by the first one to come back, which needs a second round.
* *Extents up to 4 in one and two dimensions, 3 in three*, against limits of 1, 2, 3, 4 and 8
  threads, give full and partial blocks in every dimension, primes, extents below the limit,
  and products above it. Executions are followed for grids of up to `LaunchBound` = 4 threads,
  the division is checked for all. `Required` says whether divisions that are to be equal and
  to divide the grid are claimed to be valid too; see section 5.
* *Words of two bits* let `Add` and `Sub` overflow and `Inc` and `Dec` reset; one operand, 2, is
  below, at and above the values found. More tickets than threads is an assumption
  (`AtomicsAssumption`), as it is in the code with 2^32.
* *Three SYCL commands in three queues* let one depend on a second one across queues while a
  third follows it in its queue. `MaxOps` bounds the calls of all hosts together.
* *Limbs of four values* make every carry of the 128 bit counter happen within 72 draws, the last
  number of a subsequence (4 * 16 numbers) and the first of the next included.

`CHECK_DEADLOCK FALSE` stands where the system really stops: after the grid has been
executed and the host is done (`kernel_threads`); after the queue is destroyed or a
host task has thrown, which leaves the stream waiting (`host_task`, `host_task_destroy`);
when the grid has been computed or the engines have drawn all they may (`grid_kernel`,
`philox_streams`, `philox_offset`); and when the hosts have used up their calls
(`sycl_queues`). The other runs check deadlock, with an explicit stuttering step for the
ends that are meant.

### Fairness

Threads inside the library are scheduled (weak fairness of each thread's steps),
and tasks return. No call is ever owed: nothing makes a host enqueue, wait, release
a queue or end the program, and spurious wake-ups are never owed. In
`QueueUniformCudaHipRt` one producer's `Submit` has strong fairness: it needs a mutex
that the callback thread takes again after every spurious wake-up, and an operating
system's mutex does not keep a thread out for ever. In `TaskKernelCpuThreads` the
fairness of the synchronization (`SyncRelease`, and the return of each thread) is
what `BlockSync!Fairness` promises and `block_sync` checks (`EverybodyGetsOut`). In `Atomics`
every thread inside an operation goes on; only the ticket lock makes a promise out of it
(`EveryTicketIsServed`), since a compare-and-exchange loop may lose again and again and a mutex
may be given to others first. That promise needs weak fairness of each OpenACC worker that
holds a ticket. OpenACC does not give it: its workers have no guarantee of progress relative
to each other, and on a device that runs them in lockstep a worker that spins may keep the one
it waits for from running. It is what the code presumes and not what the platform warrants:
`criticalOp` (`atomic/AtomicOaccExtended.hpp:58`) spins until the holders of the earlier tickets have
passed, which makes sense only where these run meanwhile. `EveryTicketIsServed` says that on such
a platform (a CPU target with one thread per worker, a GPU with independent scheduling) the
lock adds no starvation of its own, at the wrap of the counters either; the mutual exclusion in
`ImplementsAtomicOps` needs no fairness. In `QueueGenericSycl` the runtime starts and completes commands
and threads inside a call go on. `GridExec` and `Philox` are checked for safety only, and so are
the OpenMP and fiber barriers, whose progress is the runtime's.

## 4. Properties

* `ConcurrentExecPool`: `TypeOK`; `IdleMeansNothingLeft` and `FinishedMeansIdle` (the
  two directions in which an unlocked counter may be wrong); `BrokenOnlyAtExit`;
  `NothingRunsPastExit`; `AliveWhileUsed` (the destructor runs once, in one thread,
  after the last reference is gone, while nobody else is inside the pool, apart from
  finding 1); `EveryTaskFinishes` (no lost wake-up); `ReleasedPoolDies` (no lost
  detach handle); `ImplementsTaskPool`.
* `EventGenericThreads`: `WaitMeansCompleted`; `CompleteMeansCompleted`; `StartsInOrder`;
  `WaitCoversQueues` (`wait(dev)`: all tasks enqueued to the device, for the client that
  `DeviceUse` describes; for others see finding 9); `WaitsReturn`; `QueuesDrain`.
* `BlockSyncBarrierThread`: `TypeOK` (unsigned counts never wrap);
  `NoRaceOnGeneration`; `ImplementsBlockSync`; `EverybodyGetsOut`. With
  `BlockSyncBarrierTeam`: `TeamImplementsBlockSync`.
* `TaskKernelCpuThreads`: `OwnIndex`; `NoRaceOnAccelerator`; `NoRaceOnSharedMem`;
  `SharedVarsAgree`; `BlocksEndTogether` (a block that the host has left was executed by all
  its threads, or some threw and then none of the others got to its end); `KernelCompletes`
  (the host returns, unless some threads of a block threw and left others at a
  synchronization, see finding 10).
* `QueueUniformCudaHipRt`: `RunsInItsTurn`; `CompletedMeansRan`; `DataOutlivesHostFunc`;
  `DestroyedMeansDone`; `EveryTaskRuns`.
* `GridExec`: `ValidWorkDiv` (limits, coverage, no empty extent or block, what was required; the
  limits of the grid hold by `InputsAssumption`, by which the extents of the grid are within
  them: `getAccDevProps` returns the maximum of the index type, and the code never reads
  `gridBlockExtentMax`);
  `EveryElementOnce`.
* `Atomics`: `ImplementsAtomicOps` (linearizability with the operation's own read);
  `EveryTicketIsServed`.
* `QueueGenericSycl`: `StartsAfterDependencies`; `WaitsCover`; `CallsReturn`.
* `Philox`: `Consecutive`; `SubsequencesAreDisjoint`.

Each is stated in words above its definition.

## 5. Findings

Where the code and what is written about it disagree, with a run that shows it:

1. `core/CallbackThread.hpp:30`: `m_stop` is set and notified without the mutex; the
   wake-up can be lost and `join` never returns (`host_task_destroy`).
2. `rand/Philox/PhiloxSingle.hpp:134`: the constructor's `skip(offset)` is followed by
   `advanceState()`, which resets the position: offsets 0 to 3 start with the same number. In
   `skip4` (`PhiloxBaseCommon.hpp:79`) the upper carries compare the wrong limbs, so that an
   offset can change the subsequence (`philox_offset`).

Met on the way, each reproduced by a configuration that is kept beside the runs and that
TLC finds violated (`tlc -config <cfg> <module>`):

3. `core/ConcurrentExecPool.hpp:531`: `detach` notifies after it has released the mutex. An
   awake worker can take the handle in between and delete the pool, so the notification goes
   to a destroyed condition variable (`MCConcurrentExecPool_detach.cfg`).
4. `event/EventGenericThreads.hpp:53`: a wait for an earlier enqueue ends when the latest one
   is ready. If an unfinished event is enqueued again into a faster queue, a waiter is
   released before the tasks it waited for are done (`MCEventGenericThreads_early.cfg`).
5. `event/EventGenericThreads.hpp:163`: the task of an earlier enqueue does nothing once the
   event has been enqueued again. `enqueue(q, e); wait(q, e); enqueue(q, e)` on a busy queue
   leaves its worker waiting for an item behind itself (`MCEventGenericThreads_stuck.cfg`).
6. `queue/cuda_hip/QueueUniformCudaHipRt.hpp:253`: launch and submit are separate steps; two
   producers can order them differently, and callback thread and stream wait for each other
   (`MCQueueUniformCudaHipRt_producers.cfg`).
7. `workdiv/WorkDivHelpers.hpp:73`: `allDivisorsLessOrEqual` returns the quotients, which are the
   large divisors. Equal extents that must divide the grid get blocks of (2, 2) threads on a
   device for one; in one dimension the set is empty and the value read is undefined
   (`MCGridExec_equal.cfg`). `ValidWorkDiv` in `grid_kernel` leaves this combination out.
8. `atomic/AtomicOmpBuiltIn.hpp:303`: before OpenMP 5.1 a critical region does not exclude the
   atomic constructs, nor the region of `Cas` that of the others: an `Add` between the read and
   the write of a `Min` is lost (`MCAtomics_omp.cfg`). The claim in `atomics` is for kernels that do
   not mix the groups on one word (`Careful`).
9. `dev/common/QueueRegistry.hpp:45`: `dev/cpu/Wait.hpp:22` says of `wait(dev)` "Blocks until the
   device has completed all preceding requested tasks.", and all handles of the CPU compare
   equal (`dev/DevCpu.hpp:68`). The wait asks the registry of its handle only. A queue made with
   another handle is not in it, and neither is a queue that was destroyed with work in flight,
   whose detached pool goes on working: in both cases `wait(dev)` returns while preceding tasks
   are unfinished (`MCEventGenericThreads_device.cfg`; with one handle in `Devs` it shows the
   destroyed queue). The claim in `events_host` is for clients that wait for the device while all
   that is unfinished is in existing queues of the handle (`DeviceUse = "inReach"`).
10. `kernel/TaskKernelCpuThreads.hpp:232`: a kernel that throws in some threads of a block only
   takes these past the last synchronization, or any earlier one they had still to come to. The
   others spin there for ever, and the host waits for their futures
   (`MCTaskKernelCpuThreads_throw.cfg`, `AlwaysCompletes`). When all throw, or none, the kernel
   completes; `KernelCompletes` in `kernel_threads` excepts exactly the desertion.

And seen by reading, expressed in the models but with no configuration of their own: the
`Dec` of `AtomicAtomicRef` (`:165`) is not that of `Op.hpp` (`Result`); SYCL's
`casWithCondition` (`AtomicGenericSycl.hpp:195`) takes the success flag of an exchange for the
value found, and its `Cas` (`:301`) returns a value loaded before, which is why `Sycl` is among
`Impls` and not among `Trusted`; a SYCL event does not cover a `wait(queue, event)` that no
command has followed (`Transitive = TRUE` makes `WaitsCover` fail); `isValidWorkDiv` (`:393`)
reads the threads per block as the elements per thread; `PhiloxStateless::nRounds` does one round
more than `numRounds()`; `freeSharedVars` does nothing on CPU accelerators, so that a later block
finds the shared variables of an earlier one where the accelerator is the same.

## 6. Proofs

All theorems hold for every value of the constants that satisfies the named
assumptions in the modules; no step is left without proof.

**ConcurrentExecPool_proofs**, from `ThreadsAssumption` (finite non-empty sets of
workers and producers, finite tasks, all names distinct; any number of workers).
`AliveWhileUsed` and `IdleMeansNothingLeft` are not inductive: they say nothing of the
references and of where a task is. The invariant `IInv` has four parts:

* `TypeOK`;
* `PlaceInv`: an unfinished task package is in the queue once or in the hands of
  exactly one thread;
* `CountInv`: `m_numActiveTasks` is the number of tasks that have a future and have
  not been counted down (a task that throws or is broken never is), hence it is never
  decremented at zero;
* `RefInv`: which strong reference belongs to which place in the code (`OwnerInv`,
  `HolderInv`), and that the destructor runs in one thread, after all references are
  gone, with all other workers gone from the drain on (`DtorInv`).

`RefStep`, `PlaceStep`, `TypeStep` and `CountStep` show, one step per action, that each
part is kept. From `Invariance` follow `TypeCorrect`, `PoolOutlivesItsUsers`
(`AliveWhileUsed`), `IdleIsReliable` (`IdleMeansNothingLeft`: a task that waits or runs
is in the counted set, so the count is not zero) and `DetachedPoolFinishesItsWork`
(`BrokenOnlyAtExit`). `FlagInv` (the shutdown flag is set when nobody holds the pool, and
tasks are broken when the workers are gone) and `PendingInv` (a task with a pending future
is in the queue or in somebody's hands) extend it to `FullInv`, which gives
`WaitedForMeansIdle` (`FinishedMeansIdle`) and `Refinement` (`ImplementsTaskPool`): popping a
package is `Start`, setting its future `Complete` and so on, everything else is invisible.
`QueueEndsWithTheProgram` (`NothingRunsPastExit`) is for a pool of one worker
(`SingleWorker`), which is what a queue has; with more, a worker that has popped a task may
outlive the cleaner. It needs `HandleInv` (the detach handle changes hands with its flag, and
goes to the worker when nothing is left to do) and `EndInv`.

**BlockSyncBarriers_proofs**, from `BlockAssumption` (a finite non-empty set of
threads) and `WidthAssumption` (an even number of generations, which every power of two
from 2 on is; with an odd number a wrap would repeat a result slot). For the thread barriers
the idea is to count: the threads *missing* from `m_curThreadCount` are exactly those that
have decremented it and are still waiting or opening the barrier (`Counted1`, `Counted2`).
When the count reaches zero, everybody is counted, so nobody can be between reading
the generation and decrementing, nor still inside the previous wait. `IInv` adds
to `TypeOK`: `Entered` (what a thread read on entering is still the current generation
until it is counted), `Together` (threads inside one synchronization called the same
operation), `Count1` and `Count2`, and `Result` (the slot of the current generation holds
the combination of the predicates counted so far; those let out find theirs in the
other slot). From `Invariance` follow `TypeCorrect`, `NoDataRace`
(`NoRaceOnGeneration`) and `Refinement` (`ImplementsBlockSync`): the step that increments a
generation is `Release`, a call is `Enter`, a return is `Leave`, everything else is
invisible.

For OpenMP threads and fibers the barrier below does the counting, and what is left is the
result. `TeamInv` says that the slot of `m_generation` holds the combination of the threads
that have `Contributed` (`TeamResult`), that behind the end of the single region is everybody
or nobody (`TeamPhase`), that the fibers' count is that of the contributors or a full or
untouched one (`TeamCount`), and that the results still to be taken are in the other slot as
soon as a round has begun (`TeamOld`). `TeamInvariance` proves it, `TeamRefinement` proves
`TeamImplementsBlockSync` from it.

**AtomicsAndPhilox_proofs, atomics**, from `AtomicsAssumption` (finitely many threads, more ticket numbers
than threads). `OperationsAreAtomic` is `ImplementsAtomicOps` under two hypotheses that
say where it is true: SYCL's implementation is not `Trusted` (it does not return what it
found, see section 5), and either the kernels are `Careful` or none of
`AtomicRef`, `OmpBuiltIn` and `OaccExtended` is trusted, where operations of different
groups on one address do not exclude each other. The heart is `ReadInv`: an operation that
writes in a step of its own finds the value it has read. Others are kept out by the mutex of
the address or the critical region (`LockInv`), by the ticket being served (`TicketInv`: the
tickets that are out are a window of the cyclic numbers, all different, which is why there
have to be more numbers than threads), or by the care of the kernel (`RespectInv`).

**TaskKernelCpuThreads_proofs**, from `GridAssumption`, for blocks, grids and kernels of any
size. The invariant goes by the phases of a block. Before the first synchronization threads
take tasks, elect the master and insert their indices; a release of that synchronization
finds as many different indices as there are threads (a counting argument), so no task is
left, every index is in the map, and nobody is before the synchronization any more
(`StageInv`). `CodeInv` says how far apart two threads may be in the kernel: what lies between
them is only variables that are allocated already, or they are at the same allocation.
`HostInv` follows the host through its loop, `TaskInv` the tasks of the block, `MemInv` the
shared variables. Threads may throw one by one, so threads of one block may be at different
places although they have the same statements: a `"throw"` that a thread has passed is like an
allocated variable, something it gets past without the others (`Passed`). The theorems are
`ThreadsKnowThemselves` (`OwnIndex`), `AcceleratorIsRaceFree`, `SharedMemIsRaceFree`,
`ThreadsShareVariables` (`SharedVarsAgree`) and `ThreadsEndTogether` (`BlocksEndTogether`). For the
last, `CountInv` ties what was executed to where the threads are, and `EndInv` says that a
thread beyond the last synchronization has all others beyond it too, as it takes every thread
of the block to release it and one that has thrown never comes (`AllOrNone`); together they
are `ExecInv`, which TLC checked on the instance of `kernel_threads` before it was proved.

**QueueUniformCudaHipRt_proofs**, from `TasksAssumption`, tasks that throw included. A host
task is in two places: its host function is an item of the stream, its packaged task is on
the way to the callback thread. `StreamInv` says what `m_state` knows of the first, `TaskInv`
what the future knows of the second, `DataInv` how the mutex of the shared data ties the two,
`ShutdownInv` why nothing is left when the destructor returns. From them follow
`TasksRunInTheirTurn` (`RunsInItsTurn`), `WaitCountsHostTasks` (`CompletedMeansRan`),
`PointersAreValid` (`DataOutlivesHostFunc`) and `NothingIsLeft` (`DestroyedMeansDone`).

**QueueGenericSycl_proofs**, from `SyclAssumption` and the hypothesis `~Transitive`: an event
covers the commands before it in its queue, and not the waits that no command has
followed (with `Transitive` the theorems are false, see section 5). `Covers(f, b)` says that
`b` is complete when `f` is. `AwaitInv`: whatever a queue was told to wait for is complete,
covered by a dependency it still has, or by one that it gave to an earlier command. That
survives an enqueue, which clears the dependencies, and the removal of complete events.
`HostInv` follows the loops over the device's queues. The theorems are `CommandsWait`
(`StartsAfterDependencies`), an invariant, and `WaitsAreComplete` (`WaitsCover`), an action
property.

**EventGenericThreads_proofs**, from `SetsAssumption`, for any number of queues of either
kind, events, hosts, handles of the device and calls. `PoolInv`: in the queue of a pool every
item comes after all it needs, which is done, or given by an item before it or by the one in
work; a task gives itself, a wait gives what the event covers. `WorkerInv`, `BlockingInv` and
`HostInv` do the same for workers, blocking queues and the loops of `wait(queue)` and
`wait(dev)`; `EventInv` says that a ready event is done and, for events used in an orderly
way, that a later enqueue covers all earlier ones or these are done (`ChainOK`), so that a wait
for an earlier enqueue may end by a later one. `CompleteIsCompleted`
(`CompleteMeansCompleted`) is for any client. `WaitsAreComplete` (`WaitCoversQueues`) is for a client
that waits for the device within the reach of the handle (`DeviceUse # "any"`), and is false for
others (finding 9): all the tasks that are unfinished at the call are then in existing queues of
the handle, `RegisteredInv` says that these are registered, `ExistingLists` that the list has them,
and `HostInv` that each task a host is due (`Due`) is done, or in a queue still on the list, or
covered by an event it still waits for.
`WaitIsForAll` (`WaitMeansCompleted`) and `TasksRunInOrder` (`StartsInOrder`) need clients that
enqueue an unfinished event again only behind itself (`Usage # "any"`); for others they are
false (section 5).

**AtomicsAndPhilox_proofs, engines**, from `PhiloxAssumption`, for limbs of any number of values greater than
one (2^32 in the code) and any number of draws. `CarriesAddOne`: `advanceCounter` adds one to a number
of four digits. `PhiloxInv`: the numbers given out, and the one that comes next, have the place
that follows from where the engine began (`PlaceInv`), across the intermediate results of
`PhiloxSingle` (`FrontInv`). From it follow `NumbersAreConsecutive` (`Consecutive`) and, with
`SkipKeepsApart` (two subsequences begin a multiple of the length of a subsequence apart,
though the carries of `skip4` are computed from the wrong limbs), `StreamsAreDisjoint`
(`SubsequencesAreDisjoint`).

**GridExec_proofs**, from `InputsAssumption`, for any number of dimensions, extents, device
limits and workers. The assumption says what the code asserts of its arguments (positive
extents) and what `getAccDevProps` of a CPU returns: a block may have as many threads in all as
in one dimension, and the limits of the grid and of the elements of a thread are those of the
index type. The argument has three parts.

* *Numbers.* The library's induction takes an operator, which the provers cannot instantiate;
  `Induction` and `Iteration` say the same with sets, from a least counterexample, and give
  what the recursive functions compute. `hyperPlanes` are then the weights of a number system
  with one base per dimension and `mapIdx` yields the digits, hence `MapIdxIsOneToOne`: the
  numbers below `prod(extent)` and the indices correspond one to one.
* *Division.* `Divided` is what `subDivideGridElems` returns: always a grid that covers all
  elements with no superfluous block, and a block within the limits that divides and is equal
  as required, unless both are (section 5). The delicate part is the clipping: every round
  halves a component that is greater than one (`HalvesMoreThanOne`; the search leaves the last
  component out, and if all others were one the product would be within the limit already), so
  the product falls in every round (`ClipOnceLowers`), the loop ends (`ClipEnds`) and no extent
  becomes zero. `DivInv` carries this through a behaviour; `WorkDivIsValid` is `ValidWorkDiv`
  under `~Required`, which leaves out the combination for which it is false.
* *Execution.* `EveryElementOnce` speaks of the end only. `ExecInv` says of every state that an
  element has been computed once, unless its block is still in the loop or its thread has not
  run (`Waiting`), and then not at all. It is inductive because every element falls to one
  thread of one block (`ElementsOf`, by division and remainder), the loops visit every index
  once (`Loops`, from the first part), and workers are in blocks of their own, each with an
  accelerator nobody else sets (`RunInv`). One lemma per action keeps it (`LaunchExec`,
  `TakeBlockExec`, `RunThreadExec`, `FinishBlockExec`, `HostExec`). `ElementsComputedOnce` is
  `EveryElementOnce` without any hypothesis: the equal blocks that break the limits compute
  every element once as well, if the device runs them. TLC checked `ExecInv` on the instance of
  `grid_kernel` before it was proved.

**Model-checked only.** Liveness (`EveryTaskFinishes`, `ReleasedPoolDies`,
`EverybodyGetsOut`, `WaitsReturn`, `QueuesDrain`, `KernelCompletes`, `EveryTaskRuns`,
`EveryTicketIsServed`, `CallsReturn`): temporal reasoning with fairness and ENABLED is out of
this prover's reach. All other properties of the passing runs are theorems.

## 7. Limits of the models

* Memory is sequentially consistent. Unlocked accesses to plain members are made
  visible as races (`NoRace...`), not as weak-memory outcomes; the library's atomics all
  use the default ordering.
* A task is executed in one step (two where its end matters). Tasks of
  `ConcurrentExecPool` do not themselves own queues; tasks of
  `QueueUniformCudaHipRt` neither, so the abort in `~CallbackThread` when a task destroys
  its own queue does not occur.
* `EventGenericThreads` has no exceptions and no program exit; `ConcurrentExecPool` has
  both.
* `empty(queue)` of a non-blocking queue is `isIdle`; that of a blocking queue
  (`m_bCurrentlyExecutingTask`) is not modelled, since it may answer false at any time.
* Barriers are modelled for the default build, not with
  `ALPAKA_THREAD_BARRIER_DISABLE_SPINLOCK`.
* Numbers of `WorkDivHelpers` are exact: extents beyond 2^53, where the code's doubles are
  not, are outside, and so are products that wrap.
* `GridExec` has no shared variables, no exceptions and no parallel region opened by the
  program, in which the task would return without waiting (`TaskKernelCpuOmp2Blocks.hpp:853`).
* `Atomics` has one word per address and unsigned operands; memory orders are not told apart.
* Tasks in SYCL queues do not call alpaka, and the runtime reports no errors. A host task that
  makes a queue while `wait(dev)` waits for it would wait for the mutex `wait(dev)` holds.
* Shared memory is a sequence of variables; bytes, alignment and the asserted capacity
  are left out.

## 8. Not modelled

* *OpenACC, OpenMP 5, SYCL kernels, CUDA/HIP events, devices and kernels*: wrappers of an
  external API or compiler; their host side uses the queues and events modelled here.
* *Buffers, views, copies*: work inside one task of a queue, without control state.
* *Fences*: order memory below the interleaving semantics of TLA+.
* *The Philox shuffle, distributions, other generators, mathematics, intrinsics, warps, time*:
  numeric or stateless.
* *Metaprogramming, traits*: compile time only. *Vendored Catch2, examples, build files*:
  not part of the library. Catch2 alone is more than half of the code in the repository; of the
  library's own headers, the larger part is traits, overloads per back-end and forwarding.

## 9. Plan

Done, in this order: pool and its abstract specification; events and devices; block
synchronization and its refinement; thread kernel; CUDA/HIP host tasks; atomics and their
abstract specification; division of work and the other CPU kernels; the other block
synchronizations; SYCL queues; Philox counters.

Then the proofs: pool and thread barriers; the refinement of the pool; host tasks; atomics;
thread kernel; SYCL queues; events; Philox; the barriers of teams; the division of work and the
other CPU kernels.

Left: the build of `BarrierThread` without the spin lock; enqueueing into the yielding pool
from several threads.
