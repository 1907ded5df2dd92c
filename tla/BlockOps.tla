------------------------------ MODULE BlockOps ------------------------------
(***************************************************************************)
(* The operations of syncBlockThreadsPredicate (block/sync/Traits.hpp),    *)
(* one predicate at a time and all at once.                                *)
(***************************************************************************)
EXTENDS FiniteSets, Naturals

PredicateOps == {"BlockCount", "BlockAnd", "BlockOr"}
InitialValue(o) == IF o = "BlockAnd" THEN 1 ELSE 0

\* result += value, result &= value and result |= value for a value of 0 or 1.
AtomicOp(o, result, value) ==
  CASE o = "BlockCount" -> IF value THEN result + 1 ELSE result
    [] o = "BlockAnd"   -> IF value THEN result % 2 ELSE 0
    [] o = "BlockOr"    -> IF value THEN result + 1 - (result % 2) ELSE result

\* What the operations make of the predicates f[t], t \in S.
Ones(f, S) == {t \in S : f[t]}
Combine(o, f, S) ==
  CASE o = "BlockCount" -> Cardinality(Ones(f, S))
    [] o = "BlockAnd"   -> IF Ones(f, S) = S THEN 1 ELSE 0
    [] o = "BlockOr"    -> IF Ones(f, S) = {} THEN 0 ELSE 1
    [] OTHER            -> 0
=============================================================================
