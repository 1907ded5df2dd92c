------------------------ MODULE EventGenericThreads ------------------------
(***************************************************************************)
(* The CPU queues and events of one device: host threads enqueue tasks,    *)
(* enqueue and re-enqueue events, and wait for events, queues and the      *)
(* whole device (event/EventGenericThreads.hpp, the two queue classes and  *)
(* dev/common/QueueRegistry.hpp).                                          *)
(*                                                                         *)
(* The pool of a non-blocking queue is taken at its specification: one     *)
(* executor that runs its items first in, first out (ConcurrentExecPool    *)
(* implements TaskPool).  Everything an operation does under the mutex of  *)
(* an event is one step.  Enqueue number n of event e makes one future,    *)
(* named <<e, n>>; since m_future and m_enqueueCount are assigned together *)
(* under the event's mutex, the future in m_future is <<e, m_enqueueCount>>.*)
(*                                                                         *)
(* Ghost state: submitted, before, fence, follows, due, released.  Only    *)
(* MayWaitDev, which limits the client and not the code, reads it.         *)
(***************************************************************************)
EXTENDS Naturals, Sequences, FiniteSets, SequencesExt

CONSTANTS NonBlocking, Blocking,   \* the queues of either kind
          Events,                  \* the events the hosts share
          Hosts, Tasks,
          Devs,                    \* handles of the device, as getDevByIdx returns them
          Ops,                     \* the operations the hosts use in this instance
          Usage,                   \* when a host enqueues an event that is in a queue
          DeviceUse,               \* when a host waits for the device
          Existing,                \* the queues made before the behaviour begins
          MaxOps, MaxEnqueue,      \* bounds on calls per host, enqueues per event
          None

Queues == NonBlocking \cup Blocking
\* The events that wait(queue) and wait(dev) make for themselves.
LocalEvents == Hosts \X Queues
AllEvents == Events \cup LocalEvents
Counts == 1..MaxEnqueue

ASSUME SetsAssumption ==
  /\ NonBlocking \cap Blocking = {}
  /\ Existing \subseteq Queues /\ IsFiniteSet(Existing)
  /\ Hosts \cap Queues = {} /\ None \notin Hosts /\ Events \cap LocalEvents = {} /\ Devs # {}
  /\ Usage \in {"complete", "behind", "sameQueue", "any"}
  /\ DeviceUse \in {"inReach", "any"}
  /\ MaxOps \in Nat /\ MaxEnqueue \in Nat \ {0}

VARIABLES
  fifo,        \* the items waiting in the pool of a non-blocking queue
  cur,         \* the item its worker is working on
  m_mutex,     \* the host inside a task of a blocking queue
  m_queues,    \* QueueRegistry: the queues registered on a handle, in order
  alive, gone, \* queues whose implementation object exists, and existed
  m_enqueueCount, m_LastReadyEnqueueCount, ready,   \* per event; futures that are set
  pc, cont, todo, held, waits, target, got,               \* control of hosts and workers
  calls, done,                                      \* calls made, tasks that have finished
  submitted, before, fence, follows, due, released

queueVars == <<fifo, cur, m_mutex>>
regVars == <<m_queues, alive, gone>>
eventVars == <<m_enqueueCount, m_LastReadyEnqueueCount, ready>>
ctrlVars == <<pc, cont, todo, held, waits, target, got>>
ghostVars == <<submitted, before, fence, follows, due, released>>
vars == <<queueVars, regVars, eventVars, ctrlVars, calls, done, ghostVars>>

Item(kind, x, n) == [kind |-> kind, what |-> x, count |-> n]
NoItem == Item("none", None, 0)

DevOf(q) == CHOOSE d \in Devs : Contains(m_queues[d], q)
Usable(q) == q \in alive

\* A call in progress holds a shared pointer to the queues it works on.
InUse(q) == \/ q \in Blocking /\ m_mutex[q] # None
            \/ \E h \in Hosts : q \in held[h]

\* The tasks handed to a queue and to the device up to this moment: all handles
\* are equal, and a queue that is gone has had its tasks of the device too.
OnQueue(q) == submitted[q]
Everything == UNION {submitted[q] : q \in Queues}

\* getAllExistingQueues: locks the weak pointers and drops the dead ones.
getAllExistingQueues(d) ==
  LET locked[i \in 0..Len(m_queues[d])] ==
        IF i = 0 THEN <<>>
        ELSE IF m_queues[d][i] \in alive THEN Append(locked[i - 1], m_queues[d][i])
        ELSE locked[i - 1]
  IN locked[Len(m_queues[d])]
ListQueues(h, d) == /\ todo' = [todo EXCEPT ![h] = getAllExistingQueues(d)]
                    /\ held' = [held EXCEPT ![h] = Range(getAllExistingQueues(d))]
                    /\ m_queues' = [m_queues EXCEPT ![d] = getAllExistingQueues(d)]
                    /\ UNCHANGED <<alive, gone>>

\* isReady, with the event's mutex held.
isReady(e) == m_LastReadyEnqueueCount[e] = m_enqueueCount[e]

\* What an event stands for now: the tasks before its latest enqueue.
Covers(e) == IF m_enqueueCount[e] = 0 THEN {} ELSE before[<<e, m_enqueueCount[e]>>]

Waits(q, e) == \/ \E i \in 1..Len(fifo[q]) : fifo[q][i].kind = "wait" /\ fifo[q][i].what = e
               \/ cur[q].kind = "wait" /\ cur[q].what = e

\* The client's side: when it enqueues an event.  Always when it is complete; in
\* the way of the unit tests also behind its unfinished self in the same queue,
\* either only while that queue does not wait for the event, or at any time.
MayEnqueue(e, q) ==
  \/ isReady(e)
  \/ Usage = "any"
  \/ /\ Usage \in {"behind", "sameQueue"} /\ q \in NonBlocking
     /\ Contains(fifo[q], Item("event", e, m_enqueueCount[e]))
     /\ Usage = "behind" => ~Waits(q, e)

\* When it waits for the device: at any time, or only while all unfinished tasks
\* are in queues that still exist and were made on the handle it waits for, as
\* wait(dev) looks into no others.
MayWaitDev(d) ==
  \/ DeviceUse = "any"
  \/ \A q \in Queues : submitted[q] \subseteq done \/ (q \in alive /\ DevOf(q) = d)

Init ==
  /\ fifo = [q \in NonBlocking |-> <<>>]
  /\ cur = [q \in NonBlocking |-> NoItem]
  /\ m_mutex = [q \in Blocking |-> None]
  /\ m_queues = [d \in Devs |-> IF d = (CHOOSE c \in Devs : TRUE) THEN SetToSeq(Existing)
                                                                ELSE <<>>]
  /\ alive = Existing
  /\ gone = {}
  /\ m_enqueueCount = [e \in AllEvents |-> 0]
  /\ m_LastReadyEnqueueCount = [e \in AllEvents |-> 0]
  /\ ready = {}
  /\ pc = [x \in Hosts \cup NonBlocking |-> "idle"]
  /\ cont = [h \in Hosts |-> "return"]
  /\ todo = [h \in Hosts |-> <<>>]
  /\ held = [h \in Hosts |-> {}]
  /\ waits = [h \in Hosts |-> <<>>]
  /\ target = [x \in Hosts \cup NonBlocking |-> <<None, 0>>]
  /\ got = [x \in Hosts \cup NonBlocking |-> 0]
  /\ calls = [h \in Hosts |-> 0]
  /\ done = {}
  /\ submitted = [q \in Queues |-> {}]
  /\ before = [x \in AllEvents \X Counts |-> {}]
  /\ fence = [q \in Queues |-> {}]
  /\ follows = [t \in Tasks |-> {}]
  /\ due = [h \in Hosts |-> {}]
  /\ released = {}

-----------------------------------------------------------------------------
(* A host call begins; within the bound on calls.                          *)
Call(h, op) == /\ pc[h] = "idle" /\ op \in Ops /\ calls[h] < MaxOps
               /\ calls' = [calls EXCEPT ![h] = @ + 1]

Goto(x, label) == pc' = [pc EXCEPT ![x] = label]

\* Ghost: what a task handed in now has to come after.
Submit(q, t) ==
  /\ submitted' = [submitted EXCEPT ![q] = @ \cup {t}]
  /\ follows' = [follows EXCEPT ![t] = fence[q] \cup OnQueue(q)]
  /\ UNCHANGED <<before, fence, due, released>>

-----------------------------------------------------------------------------
(* Seeded faults: wrong versions of definitions below, each of which makes *)
(* one of the properties fail.  No specification uses them.                *)

OffByOneWaiting(x) ==       \* the loop ends one enqueue too early
  pc[x] = "check" /\ target[x][2] > m_LastReadyEnqueueCount[target[x][1]] + 1

MarkNever(q) ==             \* the event's task does not mark the event
  /\ pc[q] = "mark"
  /\ Goto(q, "signal")
  /\ UNCHANGED <<queueVars, regVars, eventVars, cont, todo, held, waits, target, got,
                 calls, done, ghostVars>>

SignalNever(q) ==           \* the future of the event is not fulfilled
  /\ pc[q] = "signal"
  /\ cur' = [cur EXCEPT ![q] = NoItem]
  /\ Goto(q, "idle")
  /\ UNCHANGED <<fifo, m_mutex, regVars, eventVars,
                 cont, todo, held, waits, target, got, calls, done, ghostVars>>

ForgetfulWaiter(q, e) ==    \* the waiting task is never put into the queue
  /\ fence' = [fence EXCEPT ![q] = @ \cup Covers(e)]
  /\ UNCHANGED <<queueVars, eventVars>>

UnlockedMark(q, e) ==       \* the event does not wait for the queue's mutex
  LET n == m_enqueueCount[e] + 1 IN
  /\ n \in Counts
  /\ m_enqueueCount' = [m_enqueueCount EXCEPT ![e] = n]
  /\ m_LastReadyEnqueueCount' = [m_LastReadyEnqueueCount EXCEPT ![e] = n]
  /\ before' = [before EXCEPT ![<<e, n>>] = OnQueue(q)]
  /\ UNCHANGED <<queueVars, ready>>

NoDevWait(h) ==             \* wait(dev) returns once the events are enqueued
  /\ pc[h] = "devEnqueue" /\ todo[h] = <<>>
  /\ waits' = [waits EXCEPT ![h] = <<>>]
  /\ Goto(h, "return")
  /\ UNCHANGED <<queueVars, regVars, eventVars, cont, todo, held, target, got, calls, done, ghostVars>>

-----------------------------------------------------------------------------
\* The constructor of a queue registers it on the handle it was given.
CreateQueue(h, d, q) ==
  /\ Call(h, "create")
  /\ q \notin alive \cup gone
  /\ m_queues' = [m_queues EXCEPT ![d] = Append(@, q)]
  /\ alive' = alive \cup {q}
  /\ UNCHANGED <<gone, queueVars, eventVars, ctrlVars, done, ghostVars>>

\* The last copy of the queue goes away; its pool keeps working (detach).
DestroyQueue(h, q) ==
  /\ Call(h, "destroy")
  /\ Usable(q) /\ ~InUse(q)
  /\ alive' = alive \ {q}
  /\ gone' = gone \cup {q}
  /\ UNCHANGED <<m_queues, queueVars, eventVars, ctrlVars, done, ghostVars>>

\* enqueue(queue, task), non-blocking: hand the task to the pool.
EnqueueTaskNonBlocking(h, q, t) ==
  /\ Call(h, "task")
  /\ Usable(q) /\ t \notin Everything
  /\ fifo' = [fifo EXCEPT ![q] = Append(@, Item("task", t, 0))]
  /\ Submit(q, t)
  /\ UNCHANGED <<cur, m_mutex, regVars, eventVars, ctrlVars, done>>

\* enqueue(queue, task), blocking: run it under the queue's mutex.
EnqueueTaskBlocking(h, q, t) ==
  /\ Call(h, "task")
  /\ Usable(q) /\ t \notin Everything
  /\ m_mutex[q] = None
  /\ m_mutex' = [m_mutex EXCEPT ![q] = h]
  /\ target' = [target EXCEPT ![h] = <<t, 0>>]
  /\ Goto(h, "task")
  /\ Submit(q, t)
  /\ UNCHANGED <<fifo, cur, regVars, eventVars, cont, todo, held, waits, got, done>>

TaskReturns(h, q) ==
  /\ pc[h] = "task" /\ m_mutex[q] = h
  /\ done' = done \cup {target[h][1]}
  /\ m_mutex' = [m_mutex EXCEPT ![q] = None]
  /\ Goto(h, "idle")
  /\ UNCHANGED <<fifo, cur, regVars, eventVars, cont, todo, held, waits, target, got, calls, ghostVars>>

-----------------------------------------------------------------------------
(* Enqueueing an event                                                     *)

\* Non-blocking: count, and hand the pool a task that will mark the event.
EnqueueEventInto(q, e) ==
  LET n == m_enqueueCount[e] + 1 IN
  /\ n \in Counts
  /\ m_enqueueCount' = [m_enqueueCount EXCEPT ![e] = n]
  /\ fifo' = [fifo EXCEPT ![q] = Append(@, Item("event", e, n))]
  /\ before' = [before EXCEPT ![<<e, n>>] = OnQueue(q)]
  /\ UNCHANGED <<cur, m_mutex, m_LastReadyEnqueueCount, ready>>

\* Blocking: count and mark at once, under both mutexes; the promise is set
\* after they have been released.
MarkEventIn(q, e) ==
  LET n == m_enqueueCount[e] + 1 IN
  /\ n \in Counts
  /\ m_mutex[q] = None
  /\ m_enqueueCount' = [m_enqueueCount EXCEPT ![e] = n]
  /\ m_LastReadyEnqueueCount' = [m_LastReadyEnqueueCount EXCEPT ![e] = n]
  /\ before' = [before EXCEPT ![<<e, n>>] = OnQueue(q)]
  /\ UNCHANGED <<queueVars, ready>>

EnqueueEventNonBlocking(h, q, e) ==
  /\ Call(h, "event")
  /\ Usable(q) /\ MayEnqueue(e, q)
  /\ EnqueueEventInto(q, e)
  /\ UNCHANGED <<regVars, ctrlVars, done,
                 submitted, fence, follows, due, released>>

EnqueueEventBlocking(h, q, e) ==
  /\ Call(h, "event")
  /\ Usable(q) /\ MayEnqueue(e, q)
  /\ MarkEventIn(q, e)
  /\ target' = [target EXCEPT ![h] = <<e, m_enqueueCount'[e]>>]
  /\ Goto(h, "promise")
  /\ UNCHANGED <<regVars, cont, todo, held, waits, got, done,
                 submitted, fence, follows, due, released>>

\* promise.set_value(), after which the loop over a device's queues goes on.
SetPromise(h) ==
  /\ pc[h] \in {"promise", "devPromise"}
  /\ ready' = ready \cup {target[h]}
  /\ Goto(h, IF pc[h] = "promise" THEN "idle" ELSE "devEnqueue")
  /\ UNCHANGED <<queueVars, regVars, m_enqueueCount, m_LastReadyEnqueueCount,
                 cont, todo, held, waits, target, got, calls, done, ghostVars>>

-----------------------------------------------------------------------------
(* The worker of a non-blocking queue                                      *)

WorkerPop(q) ==
  /\ cur[q] = NoItem /\ fifo[q] # <<>>
  /\ cur' = [cur EXCEPT ![q] = Head(fifo[q])]
  /\ fifo' = [fifo EXCEPT ![q] = Tail(@)]
  /\ LET item == Head(fifo[q]) IN
       /\ target' = [target EXCEPT ![q] = <<item.what, item.count>>]
       /\ Goto(q, CASE item.kind = "task" -> "run"
                    [] item.kind = "event" -> "mark"
                    [] item.kind = "wait" -> "check")
  /\ UNCHANGED <<m_mutex, regVars, eventVars, cont, todo, held, waits, got, calls, done, ghostVars>>

WorkerRun(q) ==
  /\ pc[q] = "run"
  /\ done' = done \cup {cur[q].what}
  /\ cur' = [cur EXCEPT ![q] = NoItem]
  /\ Goto(q, "idle")
  /\ UNCHANGED <<fifo, m_mutex, regVars, eventVars, cont, todo, held, waits, target, got, calls, ghostVars>>

\* The event's task: nothing to do if the event has been enqueued again.
WorkerMark(q) ==
  /\ pc[q] = "mark"
  /\ LET e == cur[q].what IN
       m_LastReadyEnqueueCount' =
         IF cur[q].count = m_enqueueCount[e]
           THEN [m_LastReadyEnqueueCount EXCEPT ![e] = m_enqueueCount[e]]
           ELSE m_LastReadyEnqueueCount
  /\ Goto(q, "signal")
  /\ UNCHANGED <<queueVars, regVars, m_enqueueCount, ready, cont, todo, held, waits, target, got,
                 calls, done, ghostVars>>

\* The pool fulfils the promise of the event's task.
WorkerSignal(q) ==
  /\ pc[q] = "signal"
  /\ ready' = ready \cup {target[q]}
  /\ cur' = [cur EXCEPT ![q] = NoItem]
  /\ Goto(q, "idle")
  /\ UNCHANGED <<fifo, m_mutex, regVars, m_enqueueCount, m_LastReadyEnqueueCount,
                 cont, todo, held, waits, target, got, calls, done, ghostVars>>

-----------------------------------------------------------------------------
(* EventGenericThreadsImpl::wait, by a worker or by a host                 *)

Waiting(x) == pc[x] = "check" /\ target[x][2] > m_LastReadyEnqueueCount[target[x][1]]

\* The awaited enqueue is not ready: copy the future and release the mutex.
WaitCopy(x) ==
  /\ Waiting(x)
  /\ got' = [got EXCEPT ![x] = m_enqueueCount[target[x][1]]]
  /\ Goto(x, "get")
  /\ UNCHANGED <<queueVars, regVars, eventVars, cont, todo, held, waits, target, calls, done, ghostVars>>

\* future.get() returns and the loop condition is looked at again.
WaitGet(x) ==
  /\ pc[x] = "get"
  /\ <<target[x][1], got[x]>> \in ready
  /\ Goto(x, "check")
  /\ UNCHANGED <<queueVars, regVars, eventVars, cont, todo, held, waits, target, got, calls, done, ghostVars>>

WorkerWaitEnds(q) ==
  /\ pc[q] = "check" /\ ~Waiting(q)
  /\ cur' = [cur EXCEPT ![q] = NoItem]
  /\ released' = released \cup {target[q]}
  /\ Goto(q, "idle")
  /\ UNCHANGED <<fifo, m_mutex, regVars, eventVars, cont, todo, held, waits, target, got, calls, done,
                 submitted, before, fence, follows, due>>

\* A host goes on with the next event of its list, the next queue, or returns.
HostWaitEnds(h) ==
  /\ pc[h] = "check" /\ ~Waiting(h)
  /\ released' = released \cup {target[h]}
  /\ IF waits[h] # <<>>
       THEN /\ target' = [target EXCEPT ![h] = <<Head(waits[h]), m_enqueueCount[Head(waits[h])]>>]
            /\ waits' = [waits EXCEPT ![h] = Tail(@)]
            /\ UNCHANGED pc
       ELSE Goto(h, cont[h]) /\ UNCHANGED <<target, waits>>
  /\ UNCHANGED <<queueVars, regVars, eventVars, cont, todo, held, got, calls, done,
                 submitted, before, fence, follows, due>>

\* The call returns to its caller; what it promised is looked at before.
Return(h) ==
  /\ pc[h] = "return"
  /\ due' = [due EXCEPT ![h] = {}]
  /\ held' = [held EXCEPT ![h] = {}]
  /\ Goto(h, "idle")
  /\ UNCHANGED <<queueVars, regVars, eventVars, cont, todo, waits, target, got, calls, done,
                 submitted, before, fence, follows, released>>

-----------------------------------------------------------------------------
(* wait(event), wait(queue, event), wait(queue)                            *)

WaitEvent(h, e) ==
  /\ Call(h, "waitEvent")
  /\ target' = [target EXCEPT ![h] = <<e, m_enqueueCount[e]>>]
  /\ Goto(h, "check")
  /\ UNCHANGED <<queueVars, regVars, eventVars, cont, todo, held, waits, got, done, ghostVars>>

\* A waiting task goes into the queue unless the event is ready.
AddWaiter(q, e) ==
  /\ fifo' = IF isReady(e) THEN fifo
             ELSE [fifo EXCEPT ![q] = Append(@, Item("wait", e, m_enqueueCount[e]))]
  /\ fence' = [fence EXCEPT ![q] = @ \cup Covers(e)]
  /\ UNCHANGED <<cur, m_mutex, eventVars>>

QueueWaitNonBlocking(h, q, e) ==
  /\ Call(h, "queueWait")
  /\ Usable(q)
  /\ AddWaiter(q, e)
  /\ UNCHANGED <<regVars, ctrlVars, done,
                 submitted, before, follows, due, released>>

\* A blocking queue lets the calling thread wait.
QueueWaitBlocking(h, q, e) ==
  /\ Call(h, "queueWait")
  /\ Usable(q)
  /\ target' = [target EXCEPT ![h] = <<e, m_enqueueCount[e]>>]
  /\ Goto(h, "check")
  /\ UNCHANGED <<queueVars, regVars, eventVars, cont, todo, held, waits, got, done, ghostVars>>

\* wait(queue), non-blocking: an event of its own, enqueued and waited for.
WaitQueueNonBlocking(h, q) ==
  /\ Call(h, "waitQueue")
  /\ Usable(q)
  /\ EnqueueEventInto(q, <<h, q>>)
  /\ target' = [target EXCEPT ![h] = <<<<h, q>>, m_enqueueCount'[<<h, q>>]>>]
  /\ due' = [due EXCEPT ![h] = OnQueue(q)]
  /\ held' = [held EXCEPT ![h] = {q}]
  /\ Goto(h, "check")
  /\ UNCHANGED <<regVars, cont, todo, waits, got, done,
                 submitted, fence, follows, released>>

\* wait(queue), blocking: lock and unlock the queue's mutex.
WaitQueueBlocking(h, q) ==
  /\ Call(h, "waitQueue")
  /\ Usable(q) /\ m_mutex[q] = None
  /\ due' = [due EXCEPT ![h] = OnQueue(q)]
  /\ held' = [held EXCEPT ![h] = {q}]
  /\ Goto(h, "return")
  /\ UNCHANGED <<queueVars, regVars, eventVars, cont, todo, waits, target, got, done,
                 submitted, before, fence, follows, released>>

-----------------------------------------------------------------------------
(* wait(dev) and wait(dev, event): one queue after the other               *)

WaitDev(h, d) ==
  /\ Call(h, "waitDev")
  /\ MayWaitDev(d)
  /\ ListQueues(h, d)
  /\ due' = [due EXCEPT ![h] = Everything]
  /\ Goto(h, "devEnqueue")
  /\ UNCHANGED <<queueVars, eventVars, cont, waits, target, got, done,
                 submitted, before, fence, follows, released>>

DevEnqueueNonBlocking(h) ==
  /\ pc[h] = "devEnqueue" /\ todo[h] # <<>> /\ Head(todo[h]) \in NonBlocking
  /\ EnqueueEventInto(Head(todo[h]), <<h, Head(todo[h])>>)
  /\ waits' = [waits EXCEPT ![h] = Append(@, <<h, Head(todo[h])>>)]
  /\ todo' = [todo EXCEPT ![h] = Tail(@)]
  /\ UNCHANGED <<regVars, pc, cont, held, target, got, calls, done,
                 submitted, fence, follows, due, released>>

DevEnqueueBlocking(h) ==
  /\ pc[h] = "devEnqueue" /\ todo[h] # <<>> /\ Head(todo[h]) \in Blocking
  /\ MarkEventIn(Head(todo[h]), <<h, Head(todo[h])>>)
  /\ target' = [target EXCEPT ![h] = <<<<h, Head(todo[h])>>, m_enqueueCount'[<<h, Head(todo[h])>>]>>]
  /\ waits' = [waits EXCEPT ![h] = Append(@, <<h, Head(todo[h])>>)]
  /\ todo' = [todo EXCEPT ![h] = Tail(@)]
  /\ Goto(h, "devPromise")
  /\ UNCHANGED <<regVars, cont, held, got, calls, done,
                 submitted, fence, follows, due, released>>

\* Every queue has its event: wait for the first, then for the others.
DevEnqueueEnds(h) ==
  /\ pc[h] = "devEnqueue" /\ todo[h] = <<>>
  /\ IF waits[h] = <<>>
       THEN Goto(h, "return") /\ UNCHANGED <<waits, target>>
       ELSE /\ target' = [target EXCEPT ![h] = <<Head(waits[h]), m_enqueueCount[Head(waits[h])]>>]
            /\ waits' = [waits EXCEPT ![h] = Tail(@)]
            /\ Goto(h, "check")
  /\ UNCHANGED <<queueVars, regVars, eventVars, cont, todo, held, got, calls, done, ghostVars>>

WaitDevForEvent(h, d, e) ==
  /\ Call(h, "devWait")
  /\ ListQueues(h, d)
  /\ target' = [target EXCEPT ![h] = <<e, 0>>]
  /\ cont' = [cont EXCEPT ![h] = "devWait"]
  /\ Goto(h, "devWait")
  /\ UNCHANGED <<queueVars, eventVars, waits, got, done,
                 submitted, before, fence, follows, due, released>>

DevWaitNonBlocking(h) ==
  /\ pc[h] = "devWait" /\ todo[h] # <<>> /\ Head(todo[h]) \in NonBlocking
  /\ AddWaiter(Head(todo[h]), target[h][1])
  /\ todo' = [todo EXCEPT ![h] = Tail(@)]
  /\ UNCHANGED <<regVars, pc, cont, held, waits, target, got, calls, done,
                 submitted, before, follows, due, released>>

DevWaitBlocking(h) ==
  /\ pc[h] = "devWait" /\ todo[h] # <<>> /\ Head(todo[h]) \in Blocking
  /\ target' = [target EXCEPT ![h] = <<@[1], m_enqueueCount[@[1]]>>]
  /\ todo' = [todo EXCEPT ![h] = Tail(@)]
  /\ Goto(h, "check")
  /\ UNCHANGED <<queueVars, regVars, eventVars, cont, held, waits, got, calls, done, ghostVars>>

DevWaitEnds(h) ==
  /\ pc[h] = "devWait" /\ todo[h] = <<>>
  /\ cont' = [cont EXCEPT ![h] = "return"]
  /\ held' = [held EXCEPT ![h] = {}]
  /\ Goto(h, "idle")
  /\ UNCHANGED <<queueVars, regVars, eventVars, todo, waits, target, got, calls, done,
                 submitted, before, fence, follows, due, released>>

-----------------------------------------------------------------------------
HostCall(h) ==
  \/ \E d \in Devs : \/ WaitDev(h, d)
                    \/ \E q \in Queues : CreateQueue(h, d, q)
                    \/ \E e \in Events : WaitDevForEvent(h, d, e)
  \/ \E q \in Queues : DestroyQueue(h, q)
  \/ \E q \in NonBlocking : \/ WaitQueueNonBlocking(h, q)
                           \/ \E t \in Tasks : EnqueueTaskNonBlocking(h, q, t)
                           \/ \E e \in Events : \/ EnqueueEventNonBlocking(h, q, e)
                                               \/ QueueWaitNonBlocking(h, q, e)
  \/ \E q \in Blocking : \/ WaitQueueBlocking(h, q)
                        \/ \E t \in Tasks : EnqueueTaskBlocking(h, q, t)
                        \/ \E e \in Events : \/ EnqueueEventBlocking(h, q, e)
                                            \/ QueueWaitBlocking(h, q, e)
  \/ \E e \in Events : WaitEvent(h, e)

HostStep(h) ==
  \/ \E q \in Blocking : TaskReturns(h, q)
  \/ SetPromise(h) \/ WaitCopy(h) \/ WaitGet(h) \/ HostWaitEnds(h) \/ Return(h)
  \/ DevEnqueueNonBlocking(h) \/ DevEnqueueBlocking(h) \/ DevEnqueueEnds(h)
  \/ DevWaitNonBlocking(h) \/ DevWaitBlocking(h) \/ DevWaitEnds(h)

WorkerStep(q) ==
  \/ WorkerPop(q) \/ WorkerRun(q) \/ WorkerMark(q) \/ WorkerSignal(q)
  \/ WaitCopy(q) \/ WaitGet(q) \/ WorkerWaitEnds(q)

Quiescent == /\ \A h \in Hosts : pc[h] = "idle"
             /\ \A q \in NonBlocking : fifo[q] = <<>> /\ cur[q] = NoItem

\* The hosts may stop calling when nothing is in progress.
Terminated == Quiescent /\ UNCHANGED vars

Next == \/ \E h \in Hosts : HostCall(h) \/ HostStep(h)
        \/ \E q \in NonBlocking : WorkerStep(q)
        \/ Terminated

Spec == Init /\ [][Next]_vars

\* Threads are scheduled and tasks end; nobody has to call.
FairSpec == /\ Spec
            /\ \A h \in Hosts : WF_vars(HostStep(h))
            /\ \A q \in NonBlocking : WF_vars(WorkerStep(q))

-----------------------------------------------------------------------------
(* Properties                                                              *)

\* The types of the queues, the events and the control state.
TypeOK ==
  /\ \A q \in NonBlocking :
       /\ \A i \in 1..Len(fifo[q]) : fifo[q][i].kind \in {"task", "event", "wait"}
       /\ cur[q].kind = "none" <=> pc[q] = "idle"
       /\ pc[q] \in {"idle", "run", "mark", "signal", "check", "get"}
  /\ m_mutex \in [Blocking -> Hosts \cup {None}]
  /\ alive \subseteq Queues /\ gone \subseteq Queues \ alive
  /\ m_enqueueCount \in [AllEvents -> 0..MaxEnqueue]
  /\ m_LastReadyEnqueueCount \in [AllEvents -> 0..MaxEnqueue]
  /\ ready \subseteq AllEvents \X Counts
  /\ \A h \in Hosts : pc[h] \in {"idle", "task", "promise", "devPromise", "check", "get",
                               "devEnqueue", "devWait", "return"}
  /\ calls \in [Hosts -> 0..MaxOps]
  /\ done \subseteq Tasks

\* "Waits until the event itself and therefore all tasks preceding it in the
\* queue it is enqueued to have been completed": a wait for an event that has
\* returned, in a host thread or in a queue, waited for all of them.
WaitMeansCompleted == \A x \in released : x[2] > 0 => before[x] \subseteq done

\* isComplete speaks of the most recent enqueue: a complete event has no
\* unfinished task before it in the queue it was last enqueued to, whatever
\* queue that is and however often it was enqueued.
CompleteMeansCompleted == \A e \in Events : isReady(e) => Covers(e) \subseteq done

Starts(t) == \/ \E q \in NonBlocking : pc[q] = "run" /\ cur[q].what = t
             \/ \E h \in Hosts : pc[h] = "task" /\ target[h][1] = t

\* A task runs after every task before it in its queue and after everything the
\* events cover that its queue was told to wait for before the task came.
StartsInOrder == \A t \in Tasks : Starts(t) => follows[t] \subseteq done

\* wait(queue) returns after the tasks enqueued to the queue, and wait(dev) after
\* all tasks enqueued to the device, through any handle and also to queues that are
\* gone, up to the call: "blocks until the device has completed all preceding
\* requested tasks".  It holds for a client that waits for the device while all it
\* has to wait for is in the reach of the handle (DeviceUse), and not for any.
WaitCoversQueues == \A h \in Hosts : pc[h] = "return" => due[h] \subseteq done

\* Every queue works off what it was given and every wait returns: queues and
\* hosts that wait for each other's events never wait in a circle.
QueuesDrain == \A q \in NonBlocking : (fifo[q] # <<>>) ~> (fifo[q] = <<>> /\ cur[q] = NoItem)
WaitsReturn == \A h \in Hosts : (pc[h] # "idle") ~> (pc[h] = "idle")
=============================================================================
