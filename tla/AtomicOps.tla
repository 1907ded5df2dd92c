------------------------------ MODULE AtomicOps ------------------------------
(***************************************************************************)
(* What atomicOp promises (atomic/Traits.hpp: "Executes the given          *)
(* operation atomically"): between its call and its return an operation    *)
(* takes effect in one step, computes what its function object in          *)
(* atomic/Op.hpp computes, and returns the value it found.                 *)
(***************************************************************************)
EXTENDS Integers

CONSTANTS Threads,
          Addresses,
          Bits        \* the width of the unsigned type T

Values == 0..(2^Bits - 1)
Ops == {"Add", "Sub", "Min", "Max", "Exch", "Inc", "Dec", "And", "Or", "Xor", "Cas"}

BitsOf(v) == {i \in 0..(Bits - 1) : (v \div 2^i) % 2 = 1}
Number(S) == CHOOSE v \in Values : BitsOf(v) = S

\* The value the function object of operation o stores over old.
Apply(o, old, compare, value) ==
  CASE o = "Add"  -> (old + value) % 2^Bits
    [] o = "Sub"  -> (old - value) % 2^Bits
    [] o = "Min"  -> IF value < old THEN value ELSE old
    [] o = "Max"  -> IF old < value THEN value ELSE old
    [] o = "Exch" -> value
    [] o = "Inc"  -> IF old >= value THEN 0 ELSE old + 1
    [] o = "Dec"  -> IF old = 0 \/ old > value THEN value ELSE old - 1
    [] o = "And"  -> Number(BitsOf(old) \cap BitsOf(value))
    [] o = "Or"   -> Number(BitsOf(old) \cup BitsOf(value))
    [] o = "Xor"  -> Number((BitsOf(old) \cup BitsOf(value)) \ (BitsOf(old) \cap BitsOf(value)))
    [] o = "Cas"  -> IF old = compare THEN value ELSE old

Calls == [op : Ops, addr : Addresses, compare : Values, value : Values]
NoCall == [op |-> "Add", addr |-> CHOOSE a \in Addresses : TRUE, compare |-> 0, value |-> 0]

VARIABLES mem,    \* the values at the addresses
          at,     \* is a thread "idle", "called" or "done" with its operation
          call,   \* what it called
          ret     \* what its operation returns

vars == <<mem, at, call, ret>>

Init ==
  /\ mem \in [Addresses -> Values]
  /\ at = [t \in Threads |-> "idle"]
  /\ call = [t \in Threads |-> NoCall]
  /\ ret = [t \in Threads |-> 0]

Call(t) ==
  /\ at[t] = "idle"
  /\ at' = [at EXCEPT ![t] = "called"]
  /\ \E c \in Calls : call' = [call EXCEPT ![t] = c]
  /\ UNCHANGED <<mem, ret>>

Execute(t) ==
  /\ at[t] = "called"
  /\ LET c == call[t] IN
       /\ mem' = [mem EXCEPT ![c.addr] = Apply(c.op, @, c.compare, c.value)]
       /\ ret' = [ret EXCEPT ![t] = mem[c.addr]]
  /\ at' = [at EXCEPT ![t] = "done"]
  /\ UNCHANGED call

Return(t) ==
  /\ at[t] = "done"
  /\ at' = [at EXCEPT ![t] = "idle"]
  /\ call' = [call EXCEPT ![t] = NoCall]
  /\ ret' = [ret EXCEPT ![t] = 0]
  /\ UNCHANGED mem

Next == \E t \in Threads : Call(t) \/ Execute(t) \/ Return(t)

Spec == Init /\ [][Next]_vars
=============================================================================
