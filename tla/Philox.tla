------------------------------- MODULE Philox -------------------------------
(***************************************************************************)
(* The counting of the Philox engines (rand/Philox/PhiloxBaseCommon.hpp,   *)
(* PhiloxSingle.hpp, PhiloxVector.hpp): two engines of one kind and seed,  *)
(* made for some subsequence and offset, give out numbers in turn.  A limb *)
(* has Base values instead of 2^32.  The shuffle nRounds maps counters of  *)
(* one key to results one to one; here a result is its counter itself.     *)
(***************************************************************************)
EXTENDS Integers, Sequences

CONSTANTS Base,      \* the number of values of a limb of the counter
          Inputs,    \* [kind, subsequence, offset], the latter two for both engines
          MaxDraws   \* bound on what an engine gives out

Engines == {1, 2}

\* Subsequences and offsets have two limbs.
ASSUME PhiloxAssumption ==
  /\ Base \in Nat /\ Base > 1 /\ MaxDraws \in Nat
  /\ \A i \in Inputs : /\ i.kind \in {"Single", "Vector"}
                       /\ \A e \in Engines : /\ i.subsequence[e] \in 0..(Base * Base - 1)
                                             /\ i.offset[e] \in 0..(Base * Base - 1)

VARIABLES in,        \* the arguments of the constructors
          state,     \* of the engines: counter, result, position
          drawn      \* what they have given out

philoxVars == <<in, state, drawn>>

lowBits(x) == x % Base
highBits(x) == (x \div Base) % Base

-----------------------------------------------------------------------------
(* Seeded faults: wrong versions of definitions below, each of which makes *)
(* one of the properties fail.  No specification uses them.                *)

CarryTwice(counter) ==               \* the carries are computed as in an addition of one
  LET c0 == (counter[1] + 1) % Base
      c1 == (counter[2] + (IF c0 = 0 THEN 1 ELSE 0)) % Base
      c2 == (counter[3] + (IF c1 = 0 THEN 1 ELSE 0)) % Base
      c3 == (counter[4] + (IF c2 = 0 THEN 1 ELSE 0)) % Base
  IN <<c0, c1, c2, c3>>

LowHalfOnly(counter, subsequence) ==    \* the high half of the number is dropped
  [counter EXCEPT ![3] = (@ + lowBits(subsequence)) % Base]

-----------------------------------------------------------------------------
advanceCounter(counter) ==
  LET carry(i) == \A j \in 1..(i - 1) : counter[j] = Base - 1
  IN [i \in 1..4 |-> IF carry(i) THEN (counter[i] + 1) % Base ELSE counter[i]]

\* The last two carries compare the sum in the first limb with other limbs.
skip4(counter, offset) ==
  LET c0 == (counter[1] + lowBits(offset)) % Base
      less(i) == IF c0 < counter[i] THEN 1 ELSE 0
  IN <<c0, (counter[2] + highBits(offset) + less(1)) % Base,
       (counter[3] + less(2)) % Base, (counter[4] + less(3)) % Base>>

skipSubsequence(counter, subsequence) ==
  LET c2 == (counter[3] + lowBits(subsequence)) % Base
  IN [counter EXCEPT ![3] = c2,
        ![4] = (@ + highBits(subsequence) + (IF c2 < counter[3] THEN 1 ELSE 0)) % Base]

\* The numbers of one counter.
nRounds(counter) == [i \in 1..4 |-> <<counter, i - 1>>]

\* Give the next numbers to the front; the last one stays.
Shift(result) == <<result[2], result[3], result[4], result[4]>>
Shifted(result, n) == LET s[i \in 0..n] == IF i = 0 THEN result ELSE Shift(s[i - 1]) IN s[n]

advanceState(s) ==
  LET c == advanceCounter(s.counter) IN [counter |-> c, result |-> nRounds(c), position |-> 0]

\* PhiloxSingle::skip
skip(s, offset) ==
  LET p == s.position + (offset % 4)
      position == IF p < 4 THEN p ELSE p - 4
      skipped == (IF p < 4 THEN offset ELSE offset + 4) % (Base * Base)
  IN [counter |-> skip4(s.counter, skipped \div 4), result |-> Shifted(s.result, position),
      position |-> position]

\* The constructors.
Start == [counter |-> <<0, 0, 0, 0>>, result |-> <<0, 0, 0, 0>>, position |-> 0]
PhiloxSingle(subsequence, offset) ==
  advanceState(skip([Start EXCEPT !.counter = skipSubsequence(@, subsequence)], offset))
PhiloxVector(subsequence, offset) ==
  [Start EXCEPT !.counter = advanceCounter(skip4(skipSubsequence(@, subsequence), offset))]

nextNumber(s) ==
  IF s.position + 1 = 4 THEN advanceState(s)
  ELSE [counter |-> s.counter, result |-> Shift(s.result), position |-> s.position + 1]

PhiloxInit ==
  /\ in \in Inputs
  /\ state = [e \in Engines |-> IF in.kind = "Single" THEN PhiloxSingle(in.subsequence[e], in.offset[e])
                                ELSE PhiloxVector(in.subsequence[e], in.offset[e])]
  /\ drawn = [e \in Engines |-> <<>>]

DrawNumber ==
  /\ in.kind = "Single" /\ Len(drawn[1]) < MaxDraws
  /\ drawn' = [e \in Engines |-> Append(drawn[e], state[e].result[1])]
  /\ state' = [e \in Engines |-> nextNumber(state[e])]
  /\ UNCHANGED in

\* nextVector
DrawVector ==
  /\ in.kind = "Vector" /\ Len(drawn[1]) + 4 <= MaxDraws
  /\ LET c == [e \in Engines |-> advanceCounter(state[e].counter)]
     IN /\ drawn' = [e \in Engines |-> drawn[e] \o nRounds(c[e])]
        /\ state' = [e \in Engines |-> [state[e] EXCEPT !.counter = c[e]]]
  /\ UNCHANGED in

PhiloxNext == DrawNumber \/ DrawVector

PhiloxSpec == PhiloxInit /\ [][PhiloxNext]_philoxVars

-----------------------------------------------------------------------------
(* Properties                                                              *)

\* The place of a counter among all counters, and that of a number in the
\* sequence of all numbers of a seed, of which a subsequence is a part.
CounterPlace(c) == c[1] + Base * (c[2] + Base * (c[3] + Base * c[4]))
Place(n) == n[2] + 4 * CounterPlace(n[1])
Period == 4 * (Base * (Base * (Base * Base)))
SubsequenceLength == 4 * (Base * Base)

\* An engine gives out successive numbers of the sequence, none twice and none
\* left out, across all carries and reloads of the intermediate result.
Consecutive ==
  \A e \in Engines : \A k \in 2..Len(drawn[e]) :
    Place(drawn[e][k]) = (Place(drawn[e][k - 1]) + 1) % Period

\* Two engines of different subsequences and one offset do not give out a
\* number of the other before either has used up its subsequence.
SubsequencesAreDisjoint ==
  in.subsequence[1] # in.subsequence[2] /\ in.offset[1] = in.offset[2] =>
    \A k \in 1..Len(drawn[1]), m \in 1..Len(drawn[2]) :
      k <= SubsequenceLength /\ m <= SubsequenceLength => drawn[1][k] # drawn[2][m]

\* "Skip offset numbers form the start of the subsequence": an engine made with
\* an offset begins with the number that one without it gives out after so many.
OffsetSkipsNumbers ==
  in.subsequence[1] = in.subsequence[2] /\ in.offset[1] = 0 /\ Len(drawn[1]) > in.offset[2] =>
    drawn[1][in.offset[2] + 1] = drawn[2][1]
=============================================================================
