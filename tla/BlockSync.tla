----------------------------- MODULE BlockSync -----------------------------
(***************************************************************************)
(* What syncBlockThreads and syncBlockThreadsPredicate promise to the      *)
(* threads of a block (block/sync/Traits.hpp): nobody leaves a             *)
(* synchronization before everybody has entered it, and everybody leaves   *)
(* it with the same combination of the predicates of all threads.  A       *)
(* thread may enter the next synchronization while others have still to    *)
(* leave the last one.                                                     *)
(***************************************************************************)
CONSTANTS Threads,
          Combine(_, _, _)  \* of an operation, predicates and the threads that gave them

Ops == {"sync", "BlockCount", "BlockAnd", "BlockOr"}

VARIABLES at,       \* where a thread is: "out", "in" or on its way out, "go"
          op,       \* the operation a thread entered its synchronization with
          given,    \* the predicate it entered with
          value     \* the combined value a thread on its way out takes with it

vars == <<at, op, given, value>>

Init ==
  /\ at = [t \in Threads |-> "out"]
  /\ op = [t \in Threads |-> "sync"]
  /\ given = [t \in Threads |-> FALSE]
  /\ value = [t \in Threads |-> 0]

\* The threads of a block come to the same synchronizations in the same order.
Enter(t, o, v) ==
  /\ at[t] = "out"
  /\ \A u \in Threads : at[u] = "in" => op[u] = o
  /\ at' = [at EXCEPT ![t] = "in"]
  /\ op' = [op EXCEPT ![t] = o]
  /\ given' = [given EXCEPT ![t] = v]
  /\ UNCHANGED value

Release ==
  /\ \A t \in Threads : at[t] = "in"
  /\ at' = [t \in Threads |-> "go"]
  /\ value' = [t \in Threads |-> Combine(op[t], given, Threads)]
  /\ UNCHANGED <<op, given>>

Leave(t) ==
  /\ at[t] = "go"
  /\ at' = [at EXCEPT ![t] = "out"]
  /\ op' = [op EXCEPT ![t] = "sync"]
  /\ given' = [given EXCEPT ![t] = FALSE]
  /\ value' = [value EXCEPT ![t] = 0]

Next == \/ \E t \in Threads, o \in Ops, v \in BOOLEAN : Enter(t, o, v)
        \/ Release
        \/ \E t \in Threads : Leave(t)

Spec == Init /\ [][Next]_vars
Fairness == WF_vars(Release) /\ \A t \in Threads : WF_vars(Leave(t))
=============================================================================
