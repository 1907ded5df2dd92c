------------------------------ MODULE MCPhilox ------------------------------
(* Philox for TLC.                                                         *)
EXTENDS Philox

Numbers == 0..(Base * Base - 1)   \* those of two limbs, like subsequences and offsets

\* Any two subsequences, with the same offset.
TwoSubsequences ==
  {[kind |-> k, subsequence |-> <<s, t>>, offset |-> <<o, o>>] :
     k \in {"Single", "Vector"}, s \in Numbers, t \in Numbers, o \in {0, 5, Base * Base - 1}}
MCInputs == {i \in TwoSubsequences : i.subsequence[1] < i.subsequence[2]}

\* One subsequence, with and without an offset.
WithOffset ==
  {[kind |-> "Single", subsequence |-> <<s, s>>, offset |-> <<0, o>>] : s \in Numbers, o \in Numbers}
=============================================================================
