--------------------------- MODULE WorkDivHelpers ---------------------------
(***************************************************************************)
(* The arithmetic that spreads a grid of elements over blocks and threads: *)
(* subDivideGridElems and isValidWorkDiv (workdiv/WorkDivHelpers.hpp), the *)
(* mapping of indices (idx/MapIdx.hpp) and the nested loop                 *)
(* (meta/NdLoop.hpp).  A vector is a sequence; its first component is the  *)
(* slowest dimension.                                                      *)
(***************************************************************************)
EXTENDS Integers, FiniteSets, Sequences, SequencesExt, FiniteSetsExt

\* The products of the fastest dimensions of a vector, of none to all of them.
hyperPlanes(v) ==
  LET h[k \in 0..Len(v)] == IF k = 0 THEN 1 ELSE v[Len(v) - k + 1] * h[k - 1] IN h
prod(v) == hyperPlanes(v)[Len(v)]

min(a, b) == IF b < a THEN b ELSE a
Map2(F(_, _), v, w) == [i \in DOMAIN v |-> F(v[i], w[i])]
ceilDiv(a, b) == (a + b - 1) \div b

Unrestricted == "Unrestricted"
EqualExtent == "EqualExtent"
CloseToEqualExtent == "CloseToEqualExtent"

-----------------------------------------------------------------------------
(* Seeded faults: wrong versions of definitions below, each of which makes *)
(* one of the properties of GridExec fail.  No specification uses them.    *)

FloorGrid(a, b) == a \div b        \* the last block is lost when it is not full

-----------------------------------------------------------------------------
(* subDivideGridElems                                                      *)

\* The largest divisor up to maxDivisor.
nextDivisorLowerOrEqual(dividend, maxDivisor) == Max({d \in 1..maxDivisor : dividend % d = 0})

\* The quotients of val by its divisors up to maxDivisor, not those divisors.
allDivisorsLessOrEqual(val, maxDivisor) ==
  {val \div i : i \in {j \in 1..min(val, maxDivisor) : val % j = 0}}

\* Restricted by the device, by the grid, and for equal extents to the smallest.
InitialBlockThreadExtent(blockThreadExtentMax, gridThreadExtent, restrictions) ==
  LET b == Map2(min, blockThreadExtentMax, gridThreadExtent)
  IN IF restrictions = EqualExtent THEN [i \in DOMAIN b |-> Min(Range(b))] ELSE b

\* std::pow of the count and 1 / dim, truncated: rounding may miss an exact root.
NthRoots(count, dim) ==
  LET power(r) == prod([d \in 1..dim |-> r])
      root == Max({r \in 1..count : power(r) <= count})
  IN IF dim > 2 /\ root > 1 /\ power(root) = count THEN {root, root - 1} ELSE {root}

\* The component the clipping halves: the first of the largest ones, or the first
\* of the smallest ones apart from ones, searched up to but not at the last.
ComponentToHalve(b, restrictions) ==
  LET n == Len(b)
      key(i) == IF restrictions = CloseToEqualExtent THEN -b[i]
                ELSE IF b[i] = 1 THEN Max(Range(b)) + 1 ELSE b[i]
      searched == IF restrictions = CloseToEqualExtent \/ n = 1 THEN 1..n ELSE 1..(n - 1)
  IN CHOOSE i \in searched : \A j \in searched : key(i) < key(j) \/ (key(i) = key(j) /\ i <= j)

\* while(blockThreadExtent.prod() > blockThreadCountMax) halve a component; every
\* round lowers the product.
ClipOnce(b, countMax, restrictions) ==
  LET i == ComponentToHalve(b, restrictions)
  IN IF prod(b) > countMax THEN [b EXCEPT ![i] = @ \div 2] ELSE b

Clip(b, countMax, restrictions) ==
  LET clipped[k \in 0..prod(b)] ==
        IF k = 0 THEN b ELSE ClipOnce(clipped[k - 1], countMax, restrictions)
  IN clipped[prod(b)]

ClippedBlockThreadExtents(b, countMax, restrictions) ==
  IF prod(b) <= countMax THEN {b}
  ELSE IF restrictions = EqualExtent
    THEN {[i \in DOMAIN b |-> r] : r \in NthRoots(countMax, Len(b))}
    ELSE {Clip(b, countMax, restrictions)}

\* The set intersected last is that of the first and the last dimension, because
\* every round starts from the first again; in one dimension it is empty.  The
\* value before the end of an empty set is undefined.
MaxCommonDivisors(g, b) ==
  LET divisors(i) == allDivisorsLessOrEqual(g[i], b[i])
      intersects == IF Len(g) = 1 THEN {} ELSE divisors(1) \cap divisors(Len(g))
  IN IF intersects = {} THEN 1..Max(Range(g)) ELSE {Max(intersects)}

DividingBlockThreadExtents(g, b, restrictions) ==
  IF restrictions = EqualExtent
    THEN {[i \in DOMAIN b |-> c] : c \in MaxCommonDivisors(g, b)}
    ELSE {Map2(nextDivisorLowerOrEqual, g, b)}

gridBlockExtent(gridThreadExtent, blockThreadExtent) == ceilDiv(gridThreadExtent, blockThreadExtent)

\* All work divisions the function may return for one input: the square root and
\* an empty set of divisors leave a choice.
subDivideGridElems(gridElemExtent, threadElemExtent, accDevProps, requireDivide, restrictions) ==
  LET elems == Map2(min, threadElemExtent, gridElemExtent)
      g == Map2(ceilDiv, gridElemExtent, elems)
      b0 == InitialBlockThreadExtent(accDevProps.blockThreadExtentMax, g, restrictions)
      clipped == ClippedBlockThreadExtents(b0, accDevProps.blockThreadCountMax, restrictions)
      blocks == IF requireDivide
                  THEN UNION {DividingBlockThreadExtents(g, b, restrictions) : b \in clipped}
                  ELSE clipped
  IN {[gridBlockExtent |-> Map2(gridBlockExtent, g, b), blockThreadExtent |-> b,
       threadElemExtent |-> elems] : b \in blocks}

\* The extents of the elements per thread are read as those of the threads per
\* block, so that the former are not looked at and the latter are compared twice.
isValidWorkDiv(accDevProps, workDiv) ==
  LET g == workDiv.gridBlockExtent
      b == workDiv.blockThreadExtent
      within(v, countMax, extentMax) ==
        prod(v) <= countMax /\ \A i \in DOMAIN v : 1 <= v[i] /\ v[i] <= extentMax[i]
  IN /\ within(g, accDevProps.gridBlockCountMax, accDevProps.gridBlockExtentMax)
     /\ within(b, accDevProps.blockThreadCountMax, accDevProps.blockThreadExtentMax)
     /\ within(b, accDevProps.threadElemCountMax, accDevProps.threadElemExtentMax)

-----------------------------------------------------------------------------
(* Mapping indices                                                         *)

\* From one dimension to those of extent; the slowest is not reduced.
mapIdx(i, extent) ==
  LET hyperPlanesBefore(d) == hyperPlanes(extent)[Len(extent) - d]
  IN [d \in DOMAIN extent |->
        IF d = 1 THEN i \div hyperPlanesBefore(1) ELSE (i \div hyperPlanesBefore(d)) % extent[d]]

IndexSet(extent) == {v \in [DOMAIN extent -> 0..(Max(Range(extent)) - 1)] :
                       \A d \in DOMAIN extent : v[d] < extent[d]}

\* The index ndLoopIncIdx visits first of those still to visit: the last dimension
\* runs fastest.
ndLoopIncIdx(unvisited) ==
  LET before(v, w) == \E d \in DOMAIN v : v[d] < w[d] /\ \A e \in 1..(d - 1) : v[e] = w[e]
  IN CHOOSE v \in unvisited : \A w \in unvisited \ {v} : before(v, w)
=============================================================================
