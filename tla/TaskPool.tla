------------------------------ MODULE TaskPool ------------------------------
(***************************************************************************)
(* What a pool of Size executors promises to those who hand it tasks       *)
(* (the comments on enqueueTask and on ~ConcurrentExecPool): a task that   *)
(* was accepted waits in FIFO order, at most Size tasks run at a time, a   *)
(* started task completes with a value or an exception, and a task is      *)
(* broken only while the pool is closed and nothing runs any more.  It is  *)
(* a specification to be implemented, not a model of code.                 *)
(***************************************************************************)
EXTENDS Naturals, Sequences, FiniteSets

CONSTANTS Tasks, Size

VARIABLES waiting,   \* accepted tasks in the order in which they will start
          running,   \* tasks that have started and not completed
          outcome,   \* what the future of each task says
          closed     \* the pool is being destroyed

vars == <<waiting, running, outcome, closed>>

Init == /\ waiting = <<>>
        /\ running = {}
        /\ outcome = [t \in Tasks |-> "none"]
        /\ closed = FALSE

\* A task gets a future.
Accept(t) == /\ ~closed
             /\ outcome[t] = "none"
             /\ outcome' = [outcome EXCEPT ![t] = "pending"]
             /\ UNCHANGED <<waiting, running, closed>>

\* An accepted task gets its place in the order.
Order(t) == /\ ~closed
            /\ outcome[t] = "pending" /\ t \notin running
            /\ \A i \in 1..Len(waiting) : waiting[i] # t
            /\ waiting' = Append(waiting, t)
            /\ UNCHANGED <<running, outcome, closed>>

\* Tasks start first in, first out, unless the pool has begun to break them.
Start == /\ waiting # <<>>
         /\ Cardinality(running) < Size
         /\ \A t \in Tasks : outcome[t] # "broken"
         /\ running' = running \cup {Head(waiting)}
         /\ waiting' = Tail(waiting)
         /\ UNCHANGED <<outcome, closed>>

Complete(t, result) == /\ t \in running
                       /\ outcome[t] = "pending"
                       /\ running' = running \ {t}
                       /\ outcome' = [outcome EXCEPT ![t] = result]
                       /\ UNCHANGED <<waiting, closed>>

Close == /\ ~closed
         /\ closed' = TRUE
         /\ UNCHANGED <<waiting, running, outcome>>

Break == /\ closed /\ running = {} /\ waiting # <<>>
         /\ outcome[Head(waiting)] = "pending"
         /\ outcome' = [outcome EXCEPT ![Head(waiting)] = "broken"]
         /\ waiting' = Tail(waiting)
         /\ UNCHANGED <<running, closed>>

Next == \/ \E t \in Tasks : \/ Accept(t) \/ Order(t)
                            \/ \E r \in {"value", "exception"} : Complete(t, r)
        \/ Start \/ Close \/ Break

Spec == Init /\ [][Next]_vars
=============================================================================
