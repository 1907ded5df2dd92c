----------------------- MODULE QueueUniformCudaHipRt -----------------------
(***************************************************************************)
(* Host tasks in a CUDA or HIP queue.  A host task is enqueued twice: as a *)
(* host function into the stream, which keeps the order of the queue       *)
(* (queue/cuda_hip/QueueUniformCudaHipRt.hpp), and as a packaged task into *)
(* the queue's own thread, which runs it (core/CallbackThread.hpp).  The   *)
(* two meet in a handshake over data they share: the host function tells   *)
(* the thread that it is the task's turn and waits until it is finished.   *)
(*                                                                         *)
(* External is the runtime: it executes the items of a stream one after    *)
(* the other, calls host functions on a thread of its own, and goes on     *)
(* after streamDestroy until the stream is empty.  wait(queue) returns,    *)
(* and empty(queue) is true, once the items enqueued so far have left it.  *)
(***************************************************************************)
EXTENDS Naturals, Sequences

CONSTANTS Producers,  \* host threads that hold the queue
          HostTasks, DeviceOps,   \* what they enqueue, each once
          MayThrow,   \* host tasks that may throw
          None        \* no task

ASSUME TasksAssumption == /\ MayThrow \subseteq HostTasks /\ HostTasks \cap DeviceOps = {}
                          /\ None \notin HostTasks

VARIABLES
  TBlocking,      \* the kind of queue
  stream,         \* the items the stream has not completed
  hostFunc,       \* the runtime's thread: label in uniformCudaHipRtHostFunc
  m_state, m_mutexData, m_event,         \* CallbackSynchronizationData of each host task
  m_tasks, m_mutex, m_cond, m_stop,      \* CallbackThread; m_cond: is its thread asleep
  worker, task,   \* the thread: label and local variable
  pc, enqueuing,  \* of every producer: label and the task it enqueues
  future,         \* of each host task
  ran             \* the host tasks that have run to their end

data == <<m_state, m_mutexData, m_event>>
thread == <<m_tasks, m_mutex, m_cond, m_stop>>
workerVars == <<worker, task>>
producerVars == <<pc, enqueuing>>
vars == <<TBlocking, stream, hostFunc, data, thread, workerVars, producerVars, future, ran>>

Elements(s) == {s[i] : i \in DOMAIN s}

Init ==
  /\ TBlocking \in BOOLEAN
  /\ stream = <<>> /\ hostFunc = "idle"
  /\ m_state = [t \in HostTasks |-> "none"]
  /\ m_mutexData = [t \in HostTasks |-> FALSE]
  /\ m_event = [t \in HostTasks |-> {}]
  /\ m_tasks = <<>> /\ m_mutex = FALSE /\ m_cond = FALSE /\ m_stop = FALSE
  /\ worker = "none" /\ task = None
  /\ pc = [p \in Producers |-> "idle"] /\ enqueuing = [p \in Producers |-> None]
  /\ future = [t \in HostTasks |-> "none"]
  /\ ran = {}

Goto(p, label) == pc' = [pc EXCEPT ![p] = label]

\* m_event.notify_one() for the data of t, which may wake nobody.
NotifyOne(t) == \/ m_event[t] = {} /\ UNCHANGED m_event
                \/ \E s \in m_event[t] : m_event' = [m_event EXCEPT ![t] = @ \ {s}]

\* The data of t is alive while a shared_ptr to it is: in the enqueue that made
\* it, in the packaged task, wherever that is, and in the host function.
Alive(t) == \/ \E p \in Producers : enqueuing[p] = t
            \/ t \in Elements(m_tasks) \/ task = t
            \/ hostFunc # "idle" /\ Head(stream) = t

-----------------------------------------------------------------------------
(* Seeded faults: wrong versions of definitions below, each of which makes *)
(* one of the properties fail.  No specification uses them.                *)

RunAtOnce ==              \* the thread does not wait for its turn
  /\ worker = "data" /\ ~m_mutexData[task]
  /\ m_mutexData' = [m_mutexData EXCEPT ![task] = TRUE]
  /\ worker' = "run"
  /\ UNCHANGED <<TBlocking, stream, hostFunc, m_state, m_event, thread, task, producerVars, future, ran>>

DropAtOnce ==             \* the thread forgets a task whose turn it is not
  /\ worker = "data" /\ ~m_mutexData[task]
  /\ IF m_state[task] = "notified"
       THEN worker' = "run" /\ m_mutexData' = [m_mutexData EXCEPT ![task] = TRUE] /\ UNCHANGED task
       ELSE worker' = "lock" /\ task' = None /\ UNCHANGED m_mutexData
  /\ UNCHANGED <<TBlocking, stream, hostFunc, m_state, m_event, thread, producerVars, future, ran>>

NotifyOnly ==             \* the host function does not wait for the task
  /\ hostFunc = "check" /\ ~m_mutexData[Head(stream)]
  /\ stream' = Tail(stream) /\ hostFunc' = "idle"
  /\ UNCHANGED <<TBlocking, data, thread, workerVars, producerVars, future, ran>>

StopAtOnce ==             \* the thread stops with tasks left
  /\ worker = "lock" /\ ~m_mutex
  /\ IF m_stop THEN worker' = "exit" /\ task' = None /\ UNCHANGED <<m_tasks, m_mutex>>
     ELSE IF m_tasks = <<>> THEN worker' = "block" /\ m_mutex' = TRUE /\ UNCHANGED <<task, m_tasks>>
     ELSE /\ worker' = "data" /\ task' = Head(m_tasks) /\ m_tasks' = Tail(m_tasks)
          /\ UNCHANGED m_mutex
  /\ UNCHANGED <<TBlocking, stream, hostFunc, data, m_cond, m_stop, producerVars, future, ran>>

ForgetFinished ==         \* the task does not tell the host function
  /\ worker = "run"
  /\ ran' = ran \cup {task}
  /\ m_mutexData' = [m_mutexData EXCEPT ![task] = FALSE]
  /\ worker' = "signal"
  /\ UNCHANGED <<TBlocking, stream, hostFunc, m_state, m_event, thread, task, producerVars, future>>

-----------------------------------------------------------------------------
(* Producers: enqueue and CallbackThread::submit                           *)

\* make_shared and launchHostFunc
LaunchHostFunc(p, t) ==
  /\ pc[p] = "idle" /\ m_state[t] = "none"
  /\ m_state' = [m_state EXCEPT ![t] = "enqueued"]
  /\ stream' = Append(stream, t)
  /\ enqueuing' = [enqueuing EXCEPT ![p] = t]
  /\ Goto(p, "submit")
  /\ UNCHANGED <<TBlocking, hostFunc, m_mutexData, m_event, thread, workerVars, future, ran>>

\* The lock of submit; the first task starts the thread.
Submit(p) ==
  /\ pc[p] = "submit" /\ ~m_mutex
  /\ m_tasks' = Append(m_tasks, enqueuing[p])
  /\ future' = [future EXCEPT ![enqueuing[p]] = "pending"]
  /\ worker' = IF worker = "none" THEN "lock" ELSE worker
  /\ Goto(p, "notify")
  /\ UNCHANGED <<TBlocking, stream, hostFunc, data, m_mutex, m_cond, m_stop, task, enqueuing, ran>>

SubmitNotify(p) ==
  /\ pc[p] = "notify"
  /\ m_cond' = FALSE
  /\ Goto(p, "wait")
  /\ UNCHANGED <<TBlocking, stream, hostFunc, data, m_tasks, m_mutex, m_stop, workerVars,
                 enqueuing, future, ran>>

\* if constexpr(TBlocking) f.wait(), and enqueue returns
EnqueueReturns(p) ==
  /\ pc[p] = "wait"
  /\ TBlocking => future[enqueuing[p]] # "pending"
  /\ Goto(p, "idle")
  /\ enqueuing' = [enqueuing EXCEPT ![p] = None]
  /\ UNCHANGED <<TBlocking, stream, hostFunc, data, thread, workerVars, future, ran>>

\* Any other operation goes into the stream only.
LaunchDeviceOp(p, o) ==
  /\ pc[p] = "idle" /\ o \notin Elements(stream) /\ o \notin ran
  /\ stream' = Append(stream, o)
  /\ UNCHANGED <<TBlocking, hostFunc, data, thread, workerVars, producerVars, future, ran>>

\* A handle of the queue goes away.  The last one destroys the stream, which
\* waits for nothing, and then the callback thread.
DropHandle(p) ==
  /\ pc[p] = "idle"
  /\ Goto(p, IF \A q \in Producers \ {p} : pc[q] = "gone" THEN "destroy" ELSE "gone")
  /\ UNCHANGED <<TBlocking, stream, hostFunc, data, thread, workerVars, enqueuing, future, ran>>

\* m_stop is set without the mutex.
DtorStop(p) ==
  /\ pc[p] = "destroy"
  /\ m_stop' = TRUE
  /\ Goto(p, "notifyStop")
  /\ UNCHANGED <<TBlocking, stream, hostFunc, data, m_tasks, m_mutex, m_cond, workerVars,
                 enqueuing, future, ran>>

DtorNotify(p) ==
  /\ pc[p] = "notifyStop"
  /\ m_cond' = FALSE
  /\ Goto(p, "join")
  /\ UNCHANGED <<TBlocking, stream, hostFunc, data, m_tasks, m_mutex, m_stop, workerVars,
                 enqueuing, future, ran>>

DtorJoin(p) ==
  /\ pc[p] = "join" /\ worker \in {"none", "exit"}
  /\ Goto(p, "gone")
  /\ UNCHANGED <<TBlocking, stream, hostFunc, data, thread, workerVars, enqueuing, future, ran>>

-----------------------------------------------------------------------------
(* The callback thread                                                     *)

\* Lock, look at the condition, and with it fulfilled take a task or stop; the
\* assignment to task destroys the last one.
WorkerLock ==
  /\ worker = "lock" /\ ~m_mutex
  /\ IF m_tasks = <<>>
       THEN IF m_stop THEN worker' = "exit" /\ task' = None /\ UNCHANGED <<m_tasks, m_mutex>>
                      ELSE worker' = "block" /\ m_mutex' = TRUE /\ UNCHANGED <<task, m_tasks>>
       ELSE /\ worker' = "data" /\ task' = Head(m_tasks) /\ m_tasks' = Tail(m_tasks)
            /\ UNCHANGED m_mutex
  /\ UNCHANGED <<TBlocking, stream, hostFunc, data, m_cond, m_stop, producerVars, future, ran>>

\* The condition was not fulfilled: release the mutex and sleep.
WorkerBlock ==
  /\ worker = "block"
  /\ worker' = "asleep" /\ m_cond' = TRUE /\ m_mutex' = FALSE
  /\ UNCHANGED <<TBlocking, stream, hostFunc, data, m_tasks, m_stop, task, producerVars, future, ran>>

WorkerWake ==
  /\ worker = "asleep" /\ ~m_cond
  /\ worker' = "lock"
  /\ UNCHANGED <<TBlocking, stream, hostFunc, data, thread, task, producerVars, future, ran>>

\* The packaged task locks its data and waits until it has been notified.
WorkerWait ==
  /\ worker = "data" /\ ~m_mutexData[task]
  /\ IF m_state[task] = "notified"
       THEN /\ worker' = "run" /\ m_mutexData' = [m_mutexData EXCEPT ![task] = TRUE]
            /\ UNCHANGED m_event
       ELSE /\ worker' = "dataAsleep" /\ m_event' = [m_event EXCEPT ![task] = @ \cup {"worker"}]
            /\ UNCHANGED m_mutexData
  /\ UNCHANGED <<TBlocking, stream, hostFunc, m_state, thread, task, producerVars, future, ran>>

WorkerNotified ==
  /\ worker = "dataAsleep" /\ "worker" \notin m_event[task]
  /\ worker' = "data"
  /\ UNCHANGED <<TBlocking, stream, hostFunc, data, thread, task, producerVars, future, ran>>

\* task(), with the mutex of the data held
WorkerRun ==
  /\ worker = "run"
  /\ ran' = ran \cup {task}
  /\ m_state' = [m_state EXCEPT ![task] = "finished"]
  /\ m_mutexData' = [m_mutexData EXCEPT ![task] = FALSE]
  /\ worker' = "signal"
  /\ UNCHANGED <<TBlocking, stream, hostFunc, m_event, thread, task, producerVars, future>>

\* The exception goes into the future, past the notification.
WorkerThrow ==
  /\ worker = "run" /\ task \in MayThrow
  /\ m_mutexData' = [m_mutexData EXCEPT ![task] = FALSE]
  /\ future' = [future EXCEPT ![task] = "exception"]
  /\ worker' = "lock"
  /\ UNCHANGED <<TBlocking, stream, hostFunc, m_state, m_event, thread, task, producerVars, ran>>

WorkerSignal ==
  /\ worker = "signal"
  /\ NotifyOne(task)
  /\ worker' = "setValue"
  /\ UNCHANGED <<TBlocking, stream, hostFunc, m_state, m_mutexData, thread, task, producerVars, future, ran>>

WorkerSetValue ==
  /\ worker = "setValue"
  /\ future' = [future EXCEPT ![task] = "value"]
  /\ worker' = "lock"
  /\ UNCHANGED <<TBlocking, stream, hostFunc, data, thread, task, producerVars, ran>>

-----------------------------------------------------------------------------
(* The stream and uniformCudaHipRtHostFunc                                 *)

ExecDeviceOp ==
  /\ hostFunc = "idle" /\ stream # <<>> /\ Head(stream) \in DeviceOps
  /\ stream' = Tail(stream)
  /\ ran' = ran \cup {Head(stream)}
  /\ UNCHANGED <<TBlocking, hostFunc, data, thread, workerVars, producerVars, future>>

\* shared_from_this
HostFuncBegins ==
  /\ hostFunc = "idle" /\ stream # <<>> /\ Head(stream) \in HostTasks
  /\ hostFunc' = "notify"
  /\ UNCHANGED <<TBlocking, stream, data, thread, workerVars, producerVars, future, ran>>

HostFuncNotify ==
  /\ hostFunc = "notify" /\ ~m_mutexData[Head(stream)]
  /\ m_state' = [m_state EXCEPT ![Head(stream)] = "notified"]
  /\ hostFunc' = "signal"
  /\ UNCHANGED <<TBlocking, stream, m_mutexData, m_event, thread, workerVars, producerVars, future, ran>>

HostFuncSignal ==
  /\ hostFunc = "signal"
  /\ NotifyOne(Head(stream))
  /\ hostFunc' = "check"
  /\ UNCHANGED <<TBlocking, stream, m_state, m_mutexData, thread, workerVars, producerVars, future, ran>>

HostFuncCheck ==
  /\ hostFunc = "check" /\ ~m_mutexData[Head(stream)]
  /\ IF m_state[Head(stream)] = "finished"
       THEN stream' = Tail(stream) /\ hostFunc' = "idle" /\ UNCHANGED m_event
       ELSE /\ hostFunc' = "asleep"
            /\ m_event' = [m_event EXCEPT ![Head(stream)] = @ \cup {"hostFunc"}]
            /\ UNCHANGED stream
  /\ UNCHANGED <<TBlocking, m_state, m_mutexData, thread, workerVars, producerVars, future, ran>>

HostFuncWakes ==
  /\ hostFunc = "asleep" /\ "hostFunc" \notin m_event[Head(stream)]
  /\ hostFunc' = "check"
  /\ UNCHANGED <<TBlocking, stream, data, thread, workerVars, producerVars, future, ran>>

SpuriousWakeup ==
  /\ \/ m_cond /\ m_cond' = FALSE /\ UNCHANGED m_event
     \/ \E t \in HostTasks, s \in {"worker", "hostFunc"} :
          /\ s \in m_event[t] /\ m_event' = [m_event EXCEPT ![t] = @ \ {s}]
          /\ UNCHANGED m_cond
  /\ UNCHANGED <<TBlocking, stream, hostFunc, m_state, m_mutexData, m_tasks, m_mutex, m_stop,
                 workerVars, producerVars, future, ran>>

-----------------------------------------------------------------------------
Call(p) == \/ \E t \in HostTasks : LaunchHostFunc(p, t)
           \/ \E o \in DeviceOps : LaunchDeviceOp(p, o)
           \/ DropHandle(p)

Continue(p) == \/ Submit(p) \/ SubmitNotify(p) \/ EnqueueReturns(p)
               \/ DtorStop(p) \/ DtorNotify(p) \/ DtorJoin(p)

Worker == \/ WorkerLock \/ WorkerBlock \/ WorkerWake \/ WorkerWait \/ WorkerNotified
          \/ WorkerRun \/ WorkerThrow \/ WorkerSignal \/ WorkerSetValue

Stream == \/ ExecDeviceOp \/ HostFuncBegins \/ HostFuncNotify \/ HostFuncSignal
          \/ HostFuncCheck \/ HostFuncWakes

Next == Worker \/ Stream \/ SpuriousWakeup \/ \E p \in Producers : Call(p) \/ Continue(p)

Spec == Init /\ [][Next]_vars

\* Threads are scheduled, the runtime goes on with the stream, a producer
\* finishes the call it has begun, and it gets a mutex that is free again and
\* again however often the callback thread wakes up for nothing.
FairSpec == /\ Spec /\ WF_vars(Worker) /\ WF_vars(Stream)
            /\ \A p \in Producers : WF_vars(Continue(p)) /\ SF_vars(Submit(p))

-----------------------------------------------------------------------------
(* Properties                                                              *)

\* The types of the variables.
TypeOK ==
  /\ TBlocking \in BOOLEAN
  /\ stream \in Seq(HostTasks \cup DeviceOps)
  /\ hostFunc \in {"idle", "notify", "signal", "check", "asleep"}
  /\ m_state \in [HostTasks -> {"none", "enqueued", "notified", "finished"}]
  /\ m_mutexData \in [HostTasks -> BOOLEAN]
  /\ m_event \in [HostTasks -> SUBSET {"worker", "hostFunc"}]
  /\ m_tasks \in Seq(HostTasks)
  /\ m_mutex \in BOOLEAN /\ m_cond \in BOOLEAN /\ m_stop \in BOOLEAN
  /\ worker \in {"none", "lock", "block", "asleep", "data", "dataAsleep", "run", "signal",
                 "setValue", "exit"}
  /\ task \in HostTasks \cup {None}
  /\ pc \in [Producers -> {"idle", "submit", "notify", "wait", "destroy", "notifyStop", "join", "gone"}]
  /\ enqueuing \in [Producers -> HostTasks \cup {None}]
  /\ future \in [HostTasks -> {"none", "pending", "value", "exception"}]
  /\ ran \subseteq HostTasks \cup DeviceOps

\* A host task runs in its turn: everything enqueued before it has left the
\* stream, and the stream is in its host function while it runs.
RunsInItsTurn ==
  worker = "run" => /\ stream # <<>> /\ Head(stream) = task
                    /\ hostFunc \in {"signal", "check", "asleep"}

\* "before it executes the next task in the queue": what has left the stream
\* has run, so wait(queue) and empty(queue) count host tasks as well.
CompletedMeansRan ==
  \A t \in HostTasks : m_state[t] # "none" /\ t \notin Elements(stream) => t \in ran

\* The host function gets a plain pointer to the data: somebody still holds the
\* data of every host function the stream has yet to call.
DataOutlivesHostFunc == \A t \in HostTasks \cap Elements(stream) : Alive(t)

\* ~CallbackThread runs the tasks that are left before it returns.
DestroyedMeansDone ==
  (\A p \in Producers : pc[p] = "gone") =>
    \A t \in HostTasks : m_state[t] # "none" => t \in ran \/ future[t] = "exception"

\* Every enqueued host task runs, unless one before it throws.
EveryTaskRuns ==
  \A t \in HostTasks :
    m_state[t] # "none" ~> t \in ran \/ \E u \in MayThrow : future[u] = "exception"

\* The destructor of the queue returns.
DestructorReturns == \A p \in Producers : pc[p] = "destroy" ~> pc[p] = "gone"
=============================================================================
