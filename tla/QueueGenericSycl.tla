-------------------------- MODULE QueueGenericSycl --------------------------
(***************************************************************************)
(* Queues, events and the device of the SYCL back-end                      *)
(* (queue/sycl/QueueGenericSyclBase.hpp, event/EventGenericSycl.hpp,       *)
(* dev/DevGenericSycl.hpp).  A queue keeps the event of its last command   *)
(* and the events its next command has to wait for; an alpaka event is a   *)
(* copy of the former.                                                     *)
(*                                                                         *)
(* Below is the SYCL runtime: commands of one queue run in order, after    *)
(* the events they depend on.  A SYCL event is the number of its command;  *)
(* 0 is a default-constructed one, which is complete.  What a queue does   *)
(* under its mutex is one step.  Hosts may be threads of a program; tasks  *)
(* do not call alpaka.                                                     *)
(***************************************************************************)
EXTENDS Naturals, Sequences, SequencesExt

CONSTANTS Hosts, Queues, Blocking, Events,
          Existing,           \* the queues made before the behaviour begins
          Transitive,         \* should an event cover the waits before it in its queue
          MaxCommands, MaxOps, \* bounds on all commands, on all calls of the hosts
          None

ASSUME SyclAssumption == /\ Blocking \subseteq Queues /\ None \notin Queues
                         /\ Existing \subseteq Queues /\ IsFiniteSet(Existing)

VARIABLES m_dependencies, m_last_event,   \* of a queue
          m_queues,      \* of the device: the queues registered, as weak pointers,
          m_mutex,       \* the hosts that hold its mutex shared
          m_event,       \* of an event
          alive, gone,   \* queues that the program still has, or has let go of
          queueOf, dependsOn, running, done,   \* the commands of the runtime
          pc, target, todo, held, dep,         \* of a host
          calls,
          covered, awaited, must, goal         \* what is expected, see the properties

queueVars == <<m_dependencies, m_last_event>>
runtime == <<queueOf, dependsOn, running, done>>
expected == <<covered, awaited, must, goal>>
vars == <<queueVars, m_queues, m_mutex, m_event, alive, gone, runtime,
          pc, target, todo, held, dep, calls, expected>>

Commands == 1..Len(queueOf)
Of(q) == {c \in Commands : queueOf[c] = q}
isComplete(event) == event = 0 \/ event \in done

\* A weak pointer can be locked while the program or a host in a loop has the queue.
Expired(q) == q \notin alive /\ \A h \in Hosts : held[h] # q

InLoop(h) == pc[h] \in {"devWait", "devDependency"}

Init ==
  /\ m_dependencies = [q \in Queues |-> {}]
  /\ m_last_event = [q \in Queues |-> 0]
  /\ m_queues = SetToSeq(Existing)
  /\ m_mutex = {}
  /\ m_event = [e \in Events |-> 0]
  /\ alive = Existing /\ gone = {}
  /\ queueOf = <<>> /\ dependsOn = <<>> /\ running = {} /\ done = {}
  /\ pc = [h \in Hosts |-> "idle"]
  /\ target = [h \in Hosts |-> {}]
  /\ todo = [h \in Hosts |-> <<>>]
  /\ held = [h \in Hosts |-> None]
  /\ dep = [h \in Hosts |-> 0]
  /\ calls = 0
  /\ covered = [e \in Events |-> {}]
  /\ awaited = [q \in Queues |-> {}]
  /\ must = <<>>
  /\ goal = [h \in Hosts |-> {}]

-----------------------------------------------------------------------------
(* The SYCL runtime                                                        *)

Start(c) ==
  /\ c \in Commands \ (running \cup done)
  /\ \A b \in Of(queueOf[c]) : b < c => b \in done
  /\ dependsOn[c] \subseteq done
  /\ running' = running \cup {c}
  /\ UNCHANGED <<queueVars, m_queues, m_mutex, m_event, alive, gone, queueOf, dependsOn, done,
                 pc, target, todo, held, dep, calls, expected>>

Complete(c) ==
  /\ c \in running
  /\ running' = running \ {c}
  /\ done' = done \cup {c}
  /\ UNCHANGED <<queueVars, m_queues, m_mutex, m_event, alive, gone, queueOf, dependsOn,
                 pc, target, todo, held, dep, calls, expected>>

-----------------------------------------------------------------------------
(* What most calls of a host begin with                                    *)

Call(h) == /\ pc[h] = "idle" /\ calls < MaxOps
           /\ calls' = calls + 1
Wait(h, q, C) == /\ pc' = [pc EXCEPT ![h] = "wait"]
                 /\ target' = [target EXCEPT ![h] = C]
                 /\ goal' = [goal EXCEPT ![h] = C]
                 /\ held' = [held EXCEPT ![h] = q]

-----------------------------------------------------------------------------
(* Seeded faults: wrong versions of definitions below, each of which makes *)
(* one of the properties fail.  No specification uses them.                *)

Forgetful(q) == {}                \* the dependencies are cleared before the submission

FirstEvent(h, q, e) ==            \* an event stays with the queue it was enqueued to first
  /\ Call(h) /\ q \in alive
  /\ m_event' = [m_event EXCEPT ![e] = IF @ = 0 THEN m_last_event[q] ELSE @]
  /\ covered' = [covered EXCEPT ![e] = Of(q) \cup (IF Transitive THEN awaited[q] ELSE {})]
  /\ UNCHANGED <<queueVars, m_queues, m_mutex, alive, gone, runtime, pc, target, todo, held, dep,
                 awaited, must, goal>>

OnlyIfBusy(h) ==                  \* a wait does not return when there is nothing to wait for
  /\ pc[h] = "wait" /\ target[h] # {} /\ target[h] \subseteq done
  /\ pc' = [pc EXCEPT ![h] = "idle"]
  /\ target' = [target EXCEPT ![h] = {}]
  /\ goal' = [goal EXCEPT ![h] = {}]
  /\ held' = [held EXCEPT ![h] = None]
  /\ UNCHANGED <<queueVars, m_queues, m_mutex, m_event, alive, gone, runtime, todo, dep, calls,
                 covered, awaited, must>>

-----------------------------------------------------------------------------
(* Queues and events                                                       *)

clean_dependencies(q) == {c \in m_dependencies[q] : ~isComplete(c)}

\* enqueue: submit a command after all dependencies, and wait if the queue blocks.
Enqueue(h, q) ==
  /\ Call(h) /\ q \in alive /\ Len(queueOf) < MaxCommands
  /\ queueOf' = Append(queueOf, q)
  /\ dependsOn' = Append(dependsOn, clean_dependencies(q))
  /\ must' = Append(must, Of(q) \cup awaited[q])
  /\ m_last_event' = [m_last_event EXCEPT ![q] = Len(queueOf) + 1]
  /\ m_dependencies' = [m_dependencies EXCEPT ![q] = {}]
  /\ IF q \in Blocking THEN Wait(h, q, Of(q) \cup {Len(queueOf) + 1})
                      ELSE UNCHANGED <<pc, target, goal, held>>
  /\ UNCHANGED <<m_queues, m_mutex, m_event, alive, gone, running, done, todo, dep, covered, awaited>>

\* setEvent(get_last_event())
EnqueueEvent(h, q, e) ==
  /\ Call(h) /\ q \in alive
  /\ m_event' = [m_event EXCEPT ![e] = m_last_event[q]]
  /\ covered' = [covered EXCEPT ![e] = Of(q) \cup (IF Transitive THEN awaited[q] ELSE {})]
  /\ UNCHANGED <<queueVars, m_queues, m_mutex, alive, gone, runtime, pc, target, todo, held, dep,
                 awaited, must, goal>>

\* register_dependency: a complete event is as good as none.
Registered(q, event) ==
  m_dependencies' = [m_dependencies EXCEPT ![q] = clean_dependencies(q) \cup ({event} \ {0})]

QueueWait(h, q, e) ==
  /\ Call(h) /\ q \in alive
  /\ Registered(q, m_event[e])
  /\ awaited' = [awaited EXCEPT ![q] = @ \cup covered[e]]
  /\ UNCHANGED <<m_last_event, m_queues, m_mutex, m_event, alive, gone, runtime,
                 pc, target, todo, held, dep, covered, must, goal>>

\* wait_and_throw of a queue, and of an event.
WaitQueue(h, q) ==
  /\ Call(h) /\ q \in alive
  /\ Wait(h, q, Of(q))
  /\ UNCHANGED <<queueVars, m_queues, m_mutex, m_event, alive, gone, runtime, todo, dep,
                 covered, awaited, must>>

WaitEvent(h, e) ==
  /\ Call(h)
  /\ pc' = [pc EXCEPT ![h] = "wait"]
  /\ target' = [target EXCEPT ![h] = {m_event[e]} \ {0}]
  /\ goal' = [goal EXCEPT ![h] = covered[e]]
  /\ UNCHANGED <<queueVars, m_queues, m_mutex, m_event, alive, gone, runtime, todo, held, dep,
                 covered, awaited, must>>

\* The program lets go of a queue it is not using.  The destructor waits too, in
\* whoever lets go of the queue last.
DestroyQueue(h, q) ==
  /\ Call(h) /\ q \in alive /\ \A i \in Hosts : held[i] = q => InLoop(i)
  /\ alive' = alive \ {q} /\ gone' = gone \cup {q}
  /\ IF \A i \in Hosts : held[i] # q THEN Wait(h, None, Of(q)) ELSE UNCHANGED <<pc, target, goal, held>>
  /\ UNCHANGED <<queueVars, m_queues, m_mutex, m_event, runtime, todo, dep, covered, awaited, must>>

WaitEnds(h) ==
  /\ pc[h] = "wait" /\ target[h] \subseteq done
  /\ pc' = [pc EXCEPT ![h] = "idle"]
  /\ target' = [target EXCEPT ![h] = {}]
  /\ goal' = [goal EXCEPT ![h] = {}]
  /\ held' = [held EXCEPT ![h] = None]
  /\ UNCHANGED <<queueVars, m_queues, m_mutex, m_event, alive, gone, runtime, todo, dep, calls,
                 covered, awaited, must>>

-----------------------------------------------------------------------------
(* The device                                                              *)

\* The constructor of a queue registers it, which takes the mutex exclusively.
CreateQueue(h, q) ==
  /\ Call(h) /\ q \notin alive \cup gone \cup {held[i] : i \in Hosts}
  /\ pc' = [pc EXCEPT ![h] = "register"]
  /\ held' = [held EXCEPT ![h] = q]
  /\ UNCHANGED <<queueVars, m_queues, m_mutex, m_event, alive, gone, runtime, target, todo, dep, expected>>

\* The registered queues that have not expired: kept[i] of the first i of them.
clean_queues ==
  LET kept[i \in 0..Len(m_queues)] == IF i = 0 THEN <<>>
                                      ELSE IF Expired(m_queues[i]) THEN kept[i - 1]
                                      ELSE Append(kept[i - 1], m_queues[i])
  IN kept[Len(m_queues)]

register_queue(h) ==
  /\ pc[h] = "register" /\ m_mutex = {}
  /\ m_queues' = Append(clean_queues, held[h])
  /\ alive' = alive \cup {held[h]}
  /\ held' = [held EXCEPT ![h] = None]
  /\ pc' = [pc EXCEPT ![h] = "idle"]
  /\ UNCHANGED <<queueVars, m_mutex, m_event, gone, runtime, target, todo, dep, calls, expected>>

\* wait(dev), and wait(dev, event) with the event it copied.
CallDev(h, label, event, expectation) ==
  /\ Call(h)
  /\ m_mutex' = m_mutex \cup {h}
  /\ pc' = [pc EXCEPT ![h] = label]
  /\ todo' = [todo EXCEPT ![h] = m_queues]
  /\ dep' = [dep EXCEPT ![h] = event]
  /\ goal' = [goal EXCEPT ![h] = expectation]
  /\ UNCHANGED <<queueVars, m_queues, m_event, alive, gone, runtime, target, held, covered, awaited, must>>

WaitDev(h) == CallDev(h, "devWait", 0, UNION {Of(q) : q \in alive})
WaitDevForEvent(h, e) == CallDev(h, "devDependency", m_event[e], covered[e])

BetweenQueues(h) == InLoop(h) /\ held[h] = None /\ target[h] = {}

\* The next queue that has not expired is waited for, or gets the dependency.
NextQueue(h) ==
  /\ BetweenQueues(h) /\ todo[h] # <<>>
  /\ todo' = [todo EXCEPT ![h] = Tail(@)]
  /\ LET q == Head(todo[h]) IN
       IF Expired(q) THEN UNCHANGED <<held, target, m_dependencies>>
       ELSE /\ held' = [held EXCEPT ![h] = q]
            /\ IF pc[h] = "devWait"
                 THEN target' = [target EXCEPT ![h] = Of(q)] /\ UNCHANGED m_dependencies
                 ELSE Registered(q, dep[h]) /\ UNCHANGED target
  /\ UNCHANGED <<m_last_event, m_queues, m_mutex, m_event, alive, gone, runtime, pc, dep, calls, expected>>

\* The shared pointer goes away, and the queue with it if it was the last one.
LeaveQueue(h) ==
  /\ InLoop(h) /\ ~BetweenQueues(h) /\ target[h] \subseteq done
  /\ held' = [held EXCEPT ![h] = None]
  /\ LET q == held[h]
         last == q # None /\ q \notin alive /\ \A i \in Hosts \ {h} : held[i] # q
     IN target' = [target EXCEPT ![h] = IF last THEN Of(q) ELSE {}]
  /\ UNCHANGED <<queueVars, m_queues, m_mutex, m_event, alive, gone, runtime, pc, todo, dep, calls, expected>>

ReturnDev(h) ==
  /\ BetweenQueues(h) /\ todo[h] = <<>>
  /\ m_mutex' = m_mutex \ {h}
  /\ pc' = [pc EXCEPT ![h] = "idle"]
  /\ awaited' = IF pc[h] = "devWait" THEN awaited
                ELSE [q \in Queues |-> IF q \in alive THEN awaited[q] \cup goal[h] ELSE awaited[q]]
  /\ goal' = [goal EXCEPT ![h] = {}]
  /\ dep' = [dep EXCEPT ![h] = 0]
  /\ UNCHANGED <<queueVars, m_queues, m_event, alive, gone, runtime, target, todo, held,
                 calls, covered, must>>

-----------------------------------------------------------------------------
Continue(h) == WaitEnds(h) \/ register_queue(h) \/ NextQueue(h) \/ LeaveQueue(h) \/ ReturnDev(h)

Program(h) ==
  \/ \E q \in Queues : \/ Enqueue(h, q) \/ WaitQueue(h, q) \/ CreateQueue(h, q) \/ DestroyQueue(h, q)
                       \/ \E e \in Events : EnqueueEvent(h, q, e) \/ QueueWait(h, q, e)
  \/ \E e \in Events : WaitEvent(h, e) \/ WaitDevForEvent(h, e)
  \/ WaitDev(h)

Next == \/ \E h \in Hosts : Program(h) \/ Continue(h)
        \/ \E c \in Commands : Start(c) \/ Complete(c)

\* The runtime makes progress, and so do threads inside a call.
Spec == /\ Init /\ [][Next]_vars
        /\ \A h \in Hosts : WF_vars(Continue(h))
        /\ \A c \in 1..MaxCommands : WF_vars(c \in Commands /\ (Start(c) \/ Complete(c)))

-----------------------------------------------------------------------------
(* Properties: covered is the set of commands that precede an event in its *)
(* queue, awaited that of commands a queue has been told to wait for, must *)
(* that of commands before a command, goal what a call waits for.          *)

\* A command runs only after all commands that were enqueued to its queue before
\* it, and after those of every event that wait(queue, event) or wait(dev, event)
\* made its queue wait for, although a queue forgets its dependencies with each
\* submission, drops complete ones and is filled by several threads.
StartsAfterDependencies == \A c \in running \cup done : must[c] \subseteq done

\* When a wait for a queue, an event or the device returns, or the enqueue of a
\* blocking queue or the destructor of a queue, what it waited for is complete;
\* for the device that is what was in the queues that exist before and after.
WaitsCover ==
  [][\A h \in Hosts : pc[h] \in {"wait", "devWait"} /\ pc'[h] = "idle" =>
       \A c \in goal[h] : c \in done \/ (pc[h] = "devWait" /\ queueOf[c] \notin alive)]_vars

\* Every call returns: dependencies have no cycles, and wait(dev), which holds
\* the mutex of the device all the time, keeps out new queues for a time only.
CallsReturn == \A h \in Hosts : pc[h] # "idle" ~> pc[h] = "idle"
=============================================================================
