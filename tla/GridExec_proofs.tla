--------------------------- MODULE GridExec_proofs ---------------------------
(***************************************************************************)
(* Proofs about GridExec for kernels in any number of dimensions, with any *)
(* extents, limits of the device and number of workers.                    *)
(*                                                                         *)
(* What the recursive functions compute is found by induction, which has   *)
(* to be over sets here (Induction, Iteration).  From it, hyperPlanes are  *)
(* the weights of a number system with one base for every dimension, in    *)
(* which mapIdx yields the digits: a number below the product of all bases *)
(* has one index, and every index one number (MapIdxIsOneToOne).           *)
(*                                                                         *)
(* The clipping halves a component greater than one in every round, so the *)
(* product falls below the limit in time and no extent gets empty          *)
(* (HalvesMoreThanOne, ClipEnds); this needs that a block may have as many *)
(* threads in all as in one dimension.  Divided says of a work division    *)
(* what ValidWorkDiv claims and, where that does not hold, that the blocks *)
(* cover the elements all the same (DivInv).                               *)
(*                                                                         *)
(* An element falls to one thread of one block, by division and remainder  *)
(* (ElementsOf).  ExecInv says that an element has been computed once      *)
(* unless its block has not been taken or its thread has not run: taking a *)
(* block moves what waits from the loop to the worker, running a thread    *)
(* computes what waits for it, and the two never meet, because workers are *)
(* in blocks of their own and the accelerator of a worker that is in a     *)
(* block is not overwritten.                                               *)
(***************************************************************************)
EXTENDS GridExec, NaturalsInduction, WellFoundedInduction, TLAPS

-----------------------------------------------------------------------------
(* Induction over numbers and definition by recursion                      *)

\* A nonempty set of numbers has a least element.
LEMMA LeastNatural ==
  ASSUME NEW T, T \subseteq Nat, T # {}
  PROVE  \E m \in T : \A n \in T : m <= n
<1> DEFINE R == OpToRel(<, Nat)
<1>1. IsWellFoundedOn(R, Nat)
  BY NatLessThanWellFounded DEF OpToRel
<1>2. PICK m \in T : \A n \in T : ~(<<n, m>> \in R)
  BY <1>1, WFMin, Zenon
<1>3. m \in Nat
  BY <1>2
<1>4. ASSUME NEW n \in T PROVE m <= n
  <2>1. n \in Nat
    OBVIOUS
  <2>2. ~(<<n, m>> \in R)
    BY <1>2
  <2>3. ~(n < m)
    BY <1>3, <2>1, <2>2 DEF OpToRel
  <2>4. QED
    BY <1>3, <2>1, <2>3
<1>5. QED
  BY <1>4

\* What holds of zero and is passed on holds up to the end.
LEMMA Induction ==
  ASSUME NEW n \in Nat, NEW G, 0 \in G, \A k \in 0..n : k + 1 \in 0..n /\ k \in G => k + 1 \in G
  PROVE  \A k \in 0..n : k \in G
<1> DEFINE T == {k \in 0..n : k \notin G}
<1>1. SUFFICES ASSUME T # {} PROVE FALSE
  OBVIOUS
<1>2. T \subseteq Nat
  OBVIOUS
<1>3. PICK m \in T : \A k \in T : m <= k
  BY <1>1, <1>2, LeastNatural, Zenon
<1>4. m \in 0..n /\ m \notin G /\ m # 0
  BY <1>3
<1>5. m - 1 \in 0..n /\ (m - 1) + 1 = m
  BY <1>4
<1>6. m - 1 \notin T
  BY <1>3, <1>5
<1>7. m - 1 \in G
  BY <1>5, <1>6
<1>8. QED
  BY <1>4, <1>5, <1>7

\* The steps F from a on, n of them, which are what a recursive function computes.
Runs(n, S, a, F) == {f \in [0..n -> S] : f[0] = a /\ \A k \in 1..n : f[k] = F[<<k, f[k - 1]>>]}

\* They can be taken.
LEMMA Iteration ==
  ASSUME NEW n \in Nat, NEW S, NEW a \in S, NEW F \in [(1..n) \X S -> S]
  PROVE  \E f : f \in Runs(n, S, a, F)
<1> DEFINE Part(m) == {f \in [0..m -> S] : f[0] = a /\ \A k \in 1..m : f[k] = F[<<k, f[k - 1]>>]}
           G == {m \in 0..n : Part(m) # {}}
<1>1. 0 \in G
  <2>1. [i \in 0..0 |-> a] \in Part(0)
    OBVIOUS
  <2>2. QED
    BY <2>1
<1>2. ASSUME NEW m \in 0..n, m + 1 \in 0..n, m \in G PROVE m + 1 \in G
  <2>1. PICK f : f \in Part(m)
    BY <1>2
  <2>2. f \in [0..m -> S] /\ f[0] = a /\ \A k \in 1..m : f[k] = F[<<k, f[k - 1]>>]
    BY <2>1
  <2>3. m + 1 \in 1..n /\ f[m] \in S
    BY <1>2, <2>2
  <2>4. PICK x \in S : x = F[<<m + 1, f[m]>>]
    BY <2>3
  <2> DEFINE g == [i \in 0..(m + 1) |-> IF i = m + 1 THEN x ELSE f[i]]
  <2>5. g \in [0..(m + 1) -> S]
    BY <2>2, <2>4
  <2>6. g[0] = a
    BY <2>2
  <2>7. ASSUME NEW k \in 1..(m + 1) PROVE g[k] = F[<<k, g[k - 1]>>]
    <3>1. CASE k = m + 1
      <4>1. g[k] = x /\ g[k - 1] = f[m]
        BY <3>1
      <4>2. QED
        BY <2>4, <3>1, <4>1
    <3>2. CASE k \in 1..m
      <4>1. g[k] = f[k] /\ g[k - 1] = f[k - 1]
        BY <3>2
      <4>2. QED
        BY <2>2, <3>2, <4>1
    <3>3. QED
      BY <3>1, <3>2
  <2>8. g \in Part(m + 1)
    BY <2>5, <2>6, <2>7
  <2>9. QED
    BY <1>2, <2>8
<1>3. n \in 0..n
  OBVIOUS
<1> HIDE DEF G
<1>4. n \in G
  BY <1>1, <1>2, <1>3, Induction
<1>5. QED
  BY <1>4 DEF G, Runs

-----------------------------------------------------------------------------
(* Vectors of positive extents and their products                          *)

Pos == Nat \ {0}

\* A function over positions is a sequence.
LEMMA VectorLen ==
  ASSUME NEW n \in Nat, NEW S, NEW v \in [1..n -> S]
  PROVE  v \in Seq(S) /\ Len(v) = n /\ DOMAIN v = 1..n
<1>1. v \in Seq(S)
  OBVIOUS
<1>2. QED
  BY <1>1

\* The product of positive numbers.
LEMMA Product ==
  ASSUME NEW a \in Pos, NEW b \in Pos
  PROVE  a * b \in Pos /\ a <= a * b /\ b <= a * b
<1>1. PICK c \in Nat : a = c + 1
  BY DEF Pos
<1>2. PICK d \in Nat : b = d + 1
  BY DEF Pos
<1>3. c * d \in Nat /\ (c + 1) * (d + 1) = c * d + c + d + 1
  OBVIOUS
<1>4. QED
  BY <1>1, <1>2, <1>3 DEF Pos

\* A product of numbers that are not smaller is not smaller,
LEMMA ProductGrows ==
  ASSUME NEW a \in Nat, NEW b \in Nat, NEW c \in Nat, NEW d \in Nat, a <= c, b <= d
  PROVE  a * b <= c * d
<1>1. PICK x \in Nat : c = a + x
  OBVIOUS
<1>2. PICK y \in Nat : d = b + y
  OBVIOUS
<1>3. (a + x) * (b + y) = a * b + a * y + x * b + x * y
  OBVIOUS
<1>4. a * b \in Nat /\ a * y \in Nat /\ x * b \in Nat /\ x * y \in Nat
  OBVIOUS
<1>5. QED
  BY <1>1, <1>2, <1>3, <1>4

\* and with a larger one it is larger.
LEMMA ProductGrowsStrictly ==
  ASSUME NEW a \in Pos, NEW b \in Pos, NEW c \in Pos, NEW d \in Pos, a <= c, b <= d, a < c \/ b < d
  PROVE  a * b < c * d
<1>1. CASE a < c
  <2>1. (a + 1) * b <= c * d
    BY <1>1, ProductGrows DEF Pos
  <2>2. (a + 1) * b = a * b + b /\ a * b \in Nat /\ c * d \in Nat
    BY DEF Pos
  <2>3. QED
    BY <2>1, <2>2 DEF Pos
<1>2. CASE b < d
  <2>1. a * (b + 1) <= c * d
    BY <1>2, ProductGrows DEF Pos
  <2>2. a * (b + 1) = a * b + a /\ a * b \in Nat /\ c * d \in Nat
    BY DEF Pos
  <2>3. QED
    BY <2>1, <2>2 DEF Pos
<1>3. QED
  BY <1>1, <1>2

\* hyperPlanes computes what its recursion says.
LEMMA HyperPlanes ==
  ASSUME NEW n \in Nat, NEW v \in [1..n -> Pos]
  PROVE  /\ hyperPlanes(v) \in [0..n -> Pos] /\ hyperPlanes(v)[0] = 1
         /\ \A k \in 1..n : hyperPlanes(v)[k] = v[n - k + 1] * hyperPlanes(v)[k - 1]
         /\ prod(v) = hyperPlanes(v)[n] /\ prod(v) \in Pos
<1>1. Len(v) = n
  BY VectorLen
<1> DEFINE F == [x \in (1..n) \X Pos |-> v[n - x[1] + 1] * x[2]]
           P(h) == h = [k \in 0..n |-> IF k = 0 THEN 1 ELSE v[n - k + 1] * h[k - 1]]
<1>2. F \in [(1..n) \X Pos -> Pos]
  <2>1. ASSUME NEW x \in (1..n) \X Pos PROVE v[n - x[1] + 1] * x[2] \in Pos
    <3>1. v[n - x[1] + 1] \in Pos /\ x[2] \in Pos
      OBVIOUS
    <3>2. QED
      BY <3>1, Product
  <2>2. QED
    BY <2>1
<1>3. 1 \in Pos
  BY DEF Pos
<1>4. PICK D \in [(1..n) \X Pos -> Pos] : \A k \in 1..n, x \in Pos : D[<<k, x>>] = v[n - k + 1] * x
  <2>1. \A k \in 1..n, x \in Pos : F[<<k, x>>] = v[n - k + 1] * x
    OBVIOUS
  <2>2. QED
    BY <1>2, <2>1
<1> HIDE DEF F
<1>5. PICK f \in [0..n -> Pos] : f[0] = 1 /\ \A k \in 1..n : f[k] = v[n - k + 1] * f[k - 1]
  <2>0. PICK f : f \in Runs(n, Pos, 1, D)
    BY <1>3, Iteration
  <2>1. f \in [0..n -> Pos] /\ f[0] = 1 /\ \A k \in 1..n : f[k] = D[<<k, f[k - 1]>>]
    BY <2>0 DEF Runs
  <2>2. \A k \in 1..n : f[k - 1] \in Pos
    BY <2>1
  <2>3. QED
    BY <1>4, <2>1, <2>2
<1>6. P(f)
  BY <1>5
<1>7. hyperPlanes(v) = CHOOSE h : P(h)
  BY <1>1 DEF hyperPlanes
<1>8. P(hyperPlanes(v))
  BY <1>6, <1>7
<1> DEFINE h == hyperPlanes(v)
<1>9. h = [k \in 0..n |-> IF k = 0 THEN 1 ELSE v[n - k + 1] * h[k - 1]]
  BY <1>8
<1> HIDE DEF h, P
<1>10. h[0] = 1 /\ \A k \in 1..n : h[k] = v[n - k + 1] * h[k - 1]
  BY <1>9
<1>11. h = [k \in 0..n |-> h[k]]
  BY <1>9
<1> DEFINE G == {k \in 0..n : h[k] \in Pos}
<1>12. 0 \in G
  BY <1>3, <1>10
<1>13. ASSUME NEW k \in 0..n, k + 1 \in 0..n, k \in G PROVE k + 1 \in G
  <2>1. h[k + 1] = v[n - (k + 1) + 1] * h[k]
    BY <1>10, <1>13
  <2>2. v[n - (k + 1) + 1] \in Pos /\ h[k] \in Pos
    BY <1>13
  <2>3. QED
    BY <1>13, <2>1, <2>2, Product
<1>14. \A k \in 0..n : h[k] \in Pos
  <2> HIDE DEF G
  <2>1. \A k \in 0..n : k \in G
    BY <1>12, <1>13, Induction
  <2>2. QED
    BY <2>1 DEF G
<1>15. h \in [0..n -> Pos]
  BY <1>11, <1>14
<1>16. prod(v) = h[n] /\ n \in 0..n
  BY <1>1 DEF prod, h
<1>17. QED
  BY <1>10, <1>15, <1>16 DEF h

\* The products of more dimensions are multiples of those of fewer.
LEMMA PlaneMultiple ==
  ASSUME NEW n \in Nat, NEW v \in [1..n -> Pos], NEW i \in 0..n
  PROVE  \A k \in 0..n : i <= k => \E c \in Pos : hyperPlanes(v)[k] = c * hyperPlanes(v)[i]
<1> DEFINE h == hyperPlanes(v)
           G == {k \in 0..n : i <= k => \E c \in Pos : h[k] = c * h[i]}
<1>1. h \in [0..n -> Pos] /\ \A k \in 1..n : h[k] = v[n - k + 1] * h[k - 1]
  BY HyperPlanes
<1> HIDE DEF h
<1>2. i \in G
  <2>1. 1 \in Pos /\ h[i] = 1 * h[i]
    BY <1>1 DEF Pos
  <2>2. QED
    BY <2>1
<1>3. 0 \in G
  <2>1. CASE i = 0
    BY <1>2, <2>1
  <2>2. CASE i # 0
    BY <2>2
  <2>3. QED
    BY <2>1, <2>2
<1>4. ASSUME NEW k \in 0..n, k + 1 \in 0..n, k \in G PROVE k + 1 \in G
  <2>1. CASE i <= k
    <3>1. PICK c \in Pos : h[k] = c * h[i]
      BY <1>4, <2>1
    <3>2. v[n - (k + 1) + 1] \in Pos
      BY <1>4
    <3>3. PICK a \in Pos : a = v[n - (k + 1) + 1]
      BY <3>2
    <3>4. h[k + 1] = a * h[k]
      BY <1>1, <1>4, <3>3
    <3>5. PICK x \in Pos : x = h[i]
      BY <1>1
    <3>6. a * (c * x) = (a * c) * x
      BY DEF Pos
    <3>7. a * c \in Pos
      BY Product
    <3>8. h[k + 1] = (a * c) * h[i]
      BY <3>1, <3>4, <3>5, <3>6
    <3>9. QED
      BY <1>4, <3>7, <3>8
  <2>2. CASE i = k + 1
    BY <1>2, <2>2
  <2>3. CASE i > k + 1
    BY <1>4, <2>3
  <2>4. QED
    BY <2>1, <2>2, <2>3
<1>5. \A k \in 0..n : k \in G
  <2> HIDE DEF G
  <2>1. QED
    BY <1>3, <1>4, Induction
<1>6. QED
  BY <1>5 DEF h

\* No component exceeds the product.
LEMMA ComponentBound ==
  ASSUME NEW n \in Nat, NEW v \in [1..n -> Pos], NEW d \in 1..n
  PROVE  v[d] <= prod(v)
<1> DEFINE h == hyperPlanes(v)
           k == n - d + 1
<1>1. /\ h \in [0..n -> Pos] /\ \A i \in 1..n : h[i] = v[n - i + 1] * h[i - 1]
      /\ prod(v) = h[n]
  BY HyperPlanes
<1>2. k \in 1..n /\ n - k + 1 = d /\ k - 1 \in 0..n /\ k \in 0..n /\ n \in 0..n /\ k <= n
  OBVIOUS
<1>3. PICK c \in Pos : h[n] = c * h[k]
  BY <1>2, PlaneMultiple
<1> HIDE DEF h, k
<1>4. h[k] = v[d] * h[k - 1] /\ h[k - 1] \in Pos /\ v[d] \in Pos /\ h[k] \in Pos
  BY <1>1, <1>2
<1>5. v[d] <= h[k] /\ h[k] <= h[n] /\ h[n] \in Pos
  BY <1>1, <1>2, <1>3, <1>4, Product
<1>6. \A x, y, z \in Pos : x <= y /\ y <= z => x <= z
  BY DEF Pos
<1>7. v[d] <= h[n]
  BY <1>4, <1>5, <1>6
<1>8. QED
  BY <1>1, <1>7

\* The product grows with the components, and strictly if one of them does.
LEMMA ProdGrows ==
  ASSUME NEW n \in Nat, NEW v \in [1..n -> Pos], NEW w \in [1..n -> Pos],
         \A d \in 1..n : w[d] <= v[d]
  PROVE  /\ prod(w) <= prod(v)
         /\ \A i \in 1..n : w[i] < v[i] => prod(w) < prod(v)
<1> DEFINE h == hyperPlanes(v)
           l == hyperPlanes(w)
           G == {k \in 0..n : l[k] <= h[k]}
<1>1. /\ h \in [0..n -> Pos] /\ h[0] = 1 /\ \A i \in 1..n : h[i] = v[n - i + 1] * h[i - 1]
      /\ prod(v) = h[n]
  BY HyperPlanes
<1>2. /\ l \in [0..n -> Pos] /\ l[0] = 1 /\ \A i \in 1..n : l[i] = w[n - i + 1] * l[i - 1]
      /\ prod(w) = l[n]
  BY HyperPlanes
<1> HIDE DEF h, l
<1>3. \A k \in 0..n : k \in G
  <2>1. 0 \in G
    BY <1>1, <1>2
  <2>2. ASSUME NEW k \in 0..n, k + 1 \in 0..n, k \in G PROVE k + 1 \in G
    <3>1. n - (k + 1) + 1 \in 1..n
      BY <2>2
    <3>2. PICK a \in Pos, b \in Pos : a = w[n - (k + 1) + 1] /\ b = v[n - (k + 1) + 1] /\ a <= b
      BY <3>1
    <3>3. l[k + 1] = a * l[k] /\ h[k + 1] = b * h[k]
      BY <1>1, <1>2, <2>2, <3>2
    <3>4. l[k] \in Pos /\ h[k] \in Pos /\ l[k] <= h[k]
      BY <1>1, <1>2, <2>2
    <3>5. a * l[k] <= b * h[k]
      BY <3>2, <3>4, ProductGrows DEF Pos
    <3>6. QED
      BY <2>2, <3>3, <3>5
  <2> HIDE DEF G
  <2>3. QED
    BY <2>1, <2>2, Induction
<1>4. n \in 0..n
  OBVIOUS
<1>5. prod(w) <= prod(v)
  BY <1>1, <1>2, <1>3, <1>4
<1>6. ASSUME NEW i \in 1..n, w[i] < v[i] PROVE prod(w) < prod(v)
  <2> DEFINE j == n - i + 1
             L == {k \in 0..n : j <= k => l[k] < h[k]}
  <2>1. j \in 1..n /\ n - j + 1 = i
    OBVIOUS
  <2> HIDE DEF j
  <2>2. 0 \in L
    BY <2>1
  <2>3. ASSUME NEW k \in 0..n, k + 1 \in 0..n, k \in L PROVE k + 1 \in L
    <3>1. n - (k + 1) + 1 \in 1..n
      BY <2>3
    <3>2. PICK a \in Pos, b \in Pos : a = w[n - (k + 1) + 1] /\ b = v[n - (k + 1) + 1] /\ a <= b
      BY <3>1
    <3>3. l[k + 1] = a * l[k] /\ h[k + 1] = b * h[k]
      BY <1>1, <1>2, <2>3, <3>2
    <3>4. l[k] \in Pos /\ h[k] \in Pos /\ l[k] <= h[k]
      BY <1>1, <1>2, <1>3
    <3>5. CASE j <= k + 1
      <4>1. a < b \/ l[k] < h[k]
        <5>1. CASE j = k + 1
          <6>1. n - (k + 1) + 1 = i
            BY <2>1, <5>1
          <6>2. QED
            BY <1>6, <3>2, <6>1
        <5>2. CASE j <= k
          BY <2>3, <5>2
        <5>3. QED
          BY <2>1, <3>5, <5>1, <5>2
      <4>2. a * l[k] < b * h[k]
        BY <3>2, <3>4, <4>1, ProductGrowsStrictly
      <4>3. QED
        BY <2>3, <3>3, <4>2
    <3>6. CASE ~(j <= k + 1)
      BY <2>3, <3>6
    <3>7. QED
      BY <3>5, <3>6
  <2>4. \A k \in 0..n : k \in L
    <3> HIDE DEF L
    <3>1. QED
      BY <2>2, <2>3, Induction
  <2>5. j <= n
    BY <2>1
  <2>6. l[n] < h[n]
    BY <1>4, <2>4, <2>5
  <2>7. QED
    BY <1>1, <1>2, <2>6
<1>7. QED
  BY <1>5, <1>6

\* Ones do not count.
LEMMA ProdOfOnes ==
  ASSUME NEW n \in Pos, NEW v \in [1..n -> Pos], \A d \in 1..(n - 1) : v[d] = 1
  PROVE  prod(v) = v[n]
<1> DEFINE h == hyperPlanes(v)
           G == {k \in 0..n : k > 0 => h[k] = v[n]}
<1>0. n \in Nat /\ n > 0
  BY DEF Pos
<1>1. /\ h \in [0..n -> Pos] /\ h[0] = 1 /\ \A i \in 1..n : h[i] = v[n - i + 1] * h[i - 1]
      /\ prod(v) = h[n]
  BY <1>0, HyperPlanes
<1> HIDE DEF h
<1>2. 0 \in G
  BY <1>0
<1>3. ASSUME NEW k \in 0..n, k + 1 \in 0..n, k \in G PROVE k + 1 \in G
  <2>1. h[k + 1] = v[n - (k + 1) + 1] * h[k] /\ h[k] \in Pos
    BY <1>0, <1>1, <1>3
  <2>2. CASE k = 0
    <3>1. n - (k + 1) + 1 = n /\ v[n] \in Pos
      BY <1>0, <2>2
    <3>2. h[k + 1] = v[n] * 1
      BY <1>1, <2>1, <2>2, <3>1
    <3>3. QED
      BY <1>3, <3>1, <3>2 DEF Pos
  <2>3. CASE k > 0
    <3>1. n - (k + 1) + 1 \in 1..(n - 1)
      BY <1>0, <1>3, <2>3
    <3>2. h[k + 1] = 1 * h[k]
      BY <2>1, <3>1
    <3>3. QED
      BY <1>3, <2>1, <2>3, <3>2 DEF Pos
  <2>4. QED
    BY <1>0, <2>2, <2>3
<1>4. \A k \in 0..n : k \in G
  <2> HIDE DEF G
  <2>1. QED
    BY <1>0, <1>2, <1>3, Induction
<1>5. QED
  BY <1>0, <1>1, <1>4

-----------------------------------------------------------------------------
(* Largest and smallest elements                                           *)

\* Max is the largest element of a bounded set.
LEMMA MaxIsLargest ==
  ASSUME NEW m \in Nat, NEW S, S \subseteq 0..m, S # {}
  PROVE  Max(S) \in S /\ \A y \in S : y <= Max(S)
<1> DEFINE T == {m - x : x \in S}
<1>0. \A x \in S : m - x \in Nat
  OBVIOUS
<1>1. T \subseteq Nat /\ T # {}
  BY <1>0, Zenon
<1>2. PICK t \in T : \A u \in T : t <= u
  <2> HIDE DEF T
  <2>1. QED
    BY <1>1, LeastNatural, Zenon
<1>3. PICK x \in S : t = m - x
  BY <1>2
<1>4. ASSUME NEW y \in S PROVE x >= y
  <2>1. m - x <= m - y
    BY <1>2, <1>3
  <2>2. x \in 0..m /\ y \in 0..m
    OBVIOUS
  <2>3. QED
    BY <2>1, <2>2
<1>5. Max(S) \in S /\ \A y \in S : Max(S) >= y
  BY <1>4 DEF Max
<1>6. ASSUME NEW y \in S PROVE y <= Max(S)
  <2>1. y \in 0..m /\ Max(S) \in 0..m /\ Max(S) >= y
    BY <1>5
  <2>2. QED
    BY <2>1
<1>7. QED
  BY <1>5, <1>6

\* Min is the smallest element.
LEMMA MinIsSmallest ==
  ASSUME NEW S, S \subseteq Nat, S # {}
  PROVE  Min(S) \in S /\ \A y \in S : Min(S) <= y
<1>1. PICK t \in S : \A u \in S : t <= u
  BY LeastNatural, Zenon
<1>2. QED
  BY <1>1 DEF Min

\* The components of a vector lie between their smallest and their largest.
LEMMA Components ==
  ASSUME NEW n \in Pos, NEW v \in [1..n -> Pos]
  PROVE  /\ Min(Range(v)) \in Pos /\ \A d \in 1..n : Min(Range(v)) <= v[d]
         /\ Max(Range(v)) \in Pos /\ \A d \in 1..n : v[d] <= Max(Range(v))
<1>1. n \in Nat /\ n > 0 /\ 1 \in 1..n
  BY DEF Pos
<1>2. Range(v) = {v[d] : d \in 1..n}
  BY DEF Range
<1>3. PICK m \in Nat : m = prod(v)
  BY <1>1, HyperPlanes DEF Pos
<1>4. Range(v) \subseteq 0..m
  <2>1. ASSUME NEW d \in 1..n PROVE v[d] \in 0..m
    <3>1. v[d] <= m /\ v[d] \in Pos
      BY <1>1, <1>3, ComponentBound
    <3>2. QED
      BY <3>1 DEF Pos
  <2>2. QED
    BY <1>2, <2>1
<1>5. Range(v) # {} /\ Range(v) \subseteq Pos
  BY <1>1, <1>2
<1>6. Range(v) \subseteq Nat
  BY <1>5 DEF Pos
<1>7. /\ Max(Range(v)) \in Range(v) /\ \A y \in Range(v) : y <= Max(Range(v))
      /\ Min(Range(v)) \in Range(v) /\ \A y \in Range(v) : Min(Range(v)) <= y
  <2>1. Max(Range(v)) \in Range(v) /\ \A y \in Range(v) : y <= Max(Range(v))
    BY <1>4, <1>5, MaxIsLargest, Zenon
  <2>2. Min(Range(v)) \in Range(v) /\ \A y \in Range(v) : Min(Range(v)) <= y
    BY <1>5, <1>6, MinIsSmallest, Zenon
  <2>3. QED
    BY <2>1, <2>2
<1>8. \A d \in 1..n : v[d] \in Range(v)
  BY <1>2
<1>9. QED
  BY <1>5, <1>7, <1>8, Zenon

\* IndexSet holds the indices below the extent in every dimension.
LEMMA Indices ==
  ASSUME NEW n \in Pos, NEW v \in [1..n -> Pos]
  PROVE  IndexSet(v) = {w \in [1..n -> Nat] : \A d \in 1..n : w[d] < v[d]}
<1>1. DOMAIN v = 1..n
  OBVIOUS
<1>2. PICK m \in Pos : m = Max(Range(v)) /\ \A d \in 1..n : v[d] <= m
  BY Components
<1>3. IndexSet(v) = {w \in [1..n -> 0..(m - 1)] : \A d \in 1..n : w[d] < v[d]}
  BY <1>1, <1>2 DEF IndexSet
<1>4. ASSUME NEW w \in [1..n -> Nat], \A d \in 1..n : w[d] < v[d] PROVE w \in [1..n -> 0..(m - 1)]
  <2>1. ASSUME NEW d \in 1..n PROVE w[d] \in 0..(m - 1)
    <3>1. w[d] \in Nat /\ v[d] \in Nat /\ m \in Nat /\ w[d] < v[d] /\ v[d] <= m
      BY <1>2, <1>4 DEF Pos
    <3>2. QED
      BY <3>1
  <2>2. QED
    BY <2>1
<1>5. [1..n -> 0..(m - 1)] \subseteq [1..n -> Nat]
  BY <1>2 DEF Pos
<1>6. QED
  BY <1>3, <1>4, <1>5

-----------------------------------------------------------------------------
(* mapIdx numbers the indices                                              *)

\* Division with remainder.
LEMMA DivMod ==
  ASSUME NEW n \in Pos, NEW x \in Nat
  PROVE  /\ x = n * (x \div n) + (x % n) /\ x % n \in 0..(n - 1)
         /\ x \div n \in Nat /\ x % n \in Nat
  BY DEF Pos

\* A smaller quotient is too small, a larger one too large.
LEMMA DivModUnique ==
  ASSUME NEW n \in Pos, NEW a \in Nat, NEW b \in Nat, NEW r \in 0..(n - 1), NEW s \in 0..(n - 1),
         n * a + r = n * b + s
  PROVE  a = b /\ r = s
<1>0. n \in Nat /\ n > 0 /\ n * a \in Nat /\ n * b \in Nat
  BY DEF Pos
<1>1. CASE a = b
  BY <1>0, <1>1
<1>2. CASE a < b
  <2>1. n * (a + 1) <= n * b
    BY <1>0, <1>2, ProductGrows
  <2>2. n * (a + 1) = n * a + n
    BY <1>0
  <2>3. QED
    BY <1>0, <2>1, <2>2
<1>3. CASE b < a
  <2>1. n * (b + 1) <= n * a
    BY <1>0, <1>3, ProductGrows
  <2>2. n * (b + 1) = n * b + n
    BY <1>0
  <2>3. QED
    BY <1>0, <2>1, <2>2
<1>4. QED
  BY <1>1, <1>2, <1>3

\* The quotient and the remainder of a multiple and a small number.
LEMMA Quotient ==
  ASSUME NEW n \in Pos, NEW q \in Nat, NEW r \in 0..(n - 1), NEW x \in Nat, x = n * q + r
  PROVE  x \div n = q /\ x % n = r
<1>1. x = n * (x \div n) + (x % n) /\ x % n \in 0..(n - 1) /\ x \div n \in Nat
  BY DivMod
<1>2. QED
  BY <1>1, DivModUnique

\* A quotient is below the factor that its dividend is below.
LEMMA QuotientBound ==
  ASSUME NEW n \in Pos, NEW m \in Pos, NEW x \in Nat, x < n * m
  PROVE  x \div n < m
<1>1. PICK q \in Nat, r \in Nat : q = x \div n /\ x = n * q + r
  BY DivMod
<1>2. n \in Nat /\ m \in Nat /\ n * q \in Nat /\ n * m \in Nat
  BY DEF Pos
<1>3. CASE m <= q
  <2>1. n * m <= n * q
    BY <1>2, <1>3, ProductGrows
  <2>2. QED
    BY <1>1, <1>2, <2>1
<1>4. QED
  BY <1>1, <1>2, <1>3

\* The digits of the faster dimensions do not depend on those of slower ones.
LEMMA DigitKept ==
  ASSUME NEW a \in Pos, NEW m \in Pos, NEW c \in Nat, NEW p \in Nat, NEW x \in Nat,
         x = c * (m * a) + p
  PROVE  (x \div a) % m = (p \div a) % m
<1>0. a \in Nat /\ m \in Nat
  BY DEF Pos
<1>1. PICK q \in Nat, r \in 0..(a - 1) : q = p \div a /\ p = a * q + r
  BY DivMod
<1>2. PICK s \in Nat, t \in 0..(m - 1) : t = q % m /\ q = m * s + t
  BY DivMod
<1>3. PICK y \in Nat : y = m * (c + s) + t
  BY <1>0
<1>4. y = m * c + q
  <2>1. m * (c + s) = m * c + m * s
    BY <1>0
  <2>2. m * c \in Nat /\ m * s \in Nat /\ t \in Nat
    BY <1>0
  <2>3. y = m * c + m * s + t
    BY <1>3, <2>1, <2>2
  <2>4. q = m * s + t
    BY <1>2
  <2>5. \A x1, x2, x3 \in Nat : x1 + x2 + x3 = x1 + (x2 + x3)
    OBVIOUS
  <2>6. QED
    BY <2>2, <2>3, <2>4, <2>5
<1>5. x = a * y + r
  <2>1. a * y = a * (m * c) + a * q
    BY <1>0, <1>4
  <2>2. a * (m * c) = c * (m * a)
    BY <1>0
  <2>3. a * (m * c) \in Nat /\ a * q \in Nat
    BY <1>0
  <2>4. QED
    BY <1>1, <2>1, <2>2, <2>3
<1>6. x \div a = y
  BY <1>5, Quotient
<1>7. c + s \in Nat
  OBVIOUS
<1>8. y % m = t
  BY <1>3, <1>7, Quotient
<1>9. QED
  BY <1>1, <1>2, <1>6, <1>8

\* Digit i of p, counted from the fastest one.
Digit(v, n, p, i) == (p \div hyperPlanes(v)[i - 1]) % v[n - i + 1]

\* The k fastest digits of p are those of p % hyperPlanes(v)[k].
LEMMA LowDigits ==
  ASSUME NEW n \in Pos, NEW v \in [1..n -> Pos], NEW k \in 0..n, NEW i \in 1..k,
         NEW c \in Nat, NEW p \in Nat, NEW x \in Nat, x = c * hyperPlanes(v)[k] + p
  PROVE  Digit(v, n, x, i) = Digit(v, n, p, i)
<1> DEFINE h == hyperPlanes(v)
<1>0. n \in Nat /\ n > 0
  BY DEF Pos
<1>1. h \in [0..n -> Pos] /\ \A j \in 1..n : h[j] = v[n - j + 1] * h[j - 1]
  BY <1>0, HyperPlanes
<1>2. i \in 1..n /\ i \in 0..n /\ i - 1 \in 0..n /\ i <= k /\ n - i + 1 \in 1..n
  BY <1>0
<1>3. PICK e \in Pos : h[k] = e * h[i]
  BY <1>0, <1>2, PlaneMultiple
<1> HIDE DEF h
<1>4. PICK a \in Pos, m \in Pos : a = h[i - 1] /\ m = v[n - i + 1]
  BY <1>1, <1>2
<1>5. h[i] = m * a
  BY <1>1, <1>2, <1>4
<1>6. x = c * (e * (m * a)) + p
  BY <1>3, <1>5 DEF h
<1>7. c * (e * (m * a)) = (c * e) * (m * a) /\ c * e \in Nat
  BY DEF Pos
<1>8. x = (c * e) * (m * a) + p
  BY <1>6, <1>7
<1>9. (x \div a) % m = (p \div a) % m
  BY <1>7, <1>8, DigitKept
<1>10. QED
  BY <1>4, <1>9 DEF Digit, h

\* Some number has the digits of an index.
LEMMA DigitsExist ==
  ASSUME NEW n \in Pos, NEW v \in [1..n -> Pos], NEW w \in IndexSet(v)
  PROVE  \E p \in 0..(hyperPlanes(v)[n] - 1) : \A i \in 1..n : Digit(v, n, p, i) = w[n - i + 1]
<1> DEFINE h == hyperPlanes(v)
           Has(k) == \E p \in 0..(h[k] - 1) : \A i \in 1..k : Digit(v, n, p, i) = w[n - i + 1]
           G == {k \in 0..n : Has(k)}
<1>0. n \in Nat /\ n > 0
  BY DEF Pos
<1>1. h \in [0..n -> Pos] /\ h[0] = 1 /\ \A j \in 1..n : h[j] = v[n - j + 1] * h[j - 1]
  BY <1>0, HyperPlanes
<1>2. w \in [1..n -> Nat] /\ \A d \in 1..n : w[d] < v[d]
  BY Indices
<1>3. 0 \in G
  <2>1. 0 \in 0..(h[0] - 1) /\ \A i \in 1..0 : Digit(v, n, 0, i) = w[n - i + 1]
    BY <1>1
  <2>2. Has(0) /\ 0 \in 0..n
    BY <1>0, <2>1
  <2>3. QED
    BY <2>2
<1>4. ASSUME NEW k \in 0..n, k + 1 \in 0..n, k \in G PROVE k + 1 \in G
  <2>1. PICK p \in 0..(h[k] - 1) : \A i \in 1..k : Digit(v, n, p, i) = w[n - i + 1]
    BY <1>4
  <2>2. n - (k + 1) + 1 \in 1..n /\ k + 1 \in 1..n
    BY <1>0, <1>4
  <2>3. PICK c \in Nat, m \in Pos, a \in Pos :
          c = w[n - (k + 1) + 1] /\ m = v[n - (k + 1) + 1] /\ a = h[k] /\ c < m
    BY <1>1, <1>2, <2>2
  <2>4. h[k + 1] = m * a
    BY <1>1, <2>2, <2>3
  <2>5. p \in 0..(a - 1) /\ p \in Nat /\ a \in Nat /\ m \in Nat
    BY <2>1, <2>3 DEF Pos
  <2>6. PICK x \in Nat : x = c * a + p
    BY <2>5
  <2>7. x \in 0..(m * a - 1)
    <3>0. c + 1 \in Nat /\ c + 1 <= m /\ a <= a
      BY <2>3, <2>5
    <3>1. (c + 1) * a <= m * a
      BY <2>5, <3>0, ProductGrows
    <3>2. (c + 1) * a = c * a + a /\ c * a \in Nat /\ m * a \in Nat
      BY <2>5
    <3>3. QED
      BY <2>5, <2>6, <3>1, <3>2
  <2>8. ASSUME NEW i \in 1..k PROVE Digit(v, n, x, i) = w[n - i + 1]
    <3>1. x = c * hyperPlanes(v)[k] + p
      BY <2>3, <2>6
    <3>2. Digit(v, n, x, i) = Digit(v, n, p, i)
      BY <2>5, <3>1, LowDigits
    <3>3. QED
      BY <2>1, <3>2
  <2>9. Digit(v, n, x, k + 1) = w[n - (k + 1) + 1]
    <3>1. a * c = c * a
      BY <2>5
    <3>2. x \div a = c
      BY <2>5, <2>6, <3>1, Quotient
    <3>3. c \in 0..(m - 1) /\ c = m * 0 + c
      BY <2>3, <2>5
    <3>4. c % m = c
      BY <3>3, Quotient
    <3>5. Digit(v, n, x, k + 1) = (x \div a) % m
      <4>1. (k + 1) - 1 = k
        BY <1>0
      <4>2. QED
        BY <2>3, <4>1 DEF Digit
    <3>6. QED
      BY <2>3, <3>2, <3>4, <3>5
  <2>10. \A i \in 1..(k + 1) : Digit(v, n, x, i) = w[n - i + 1]
    <3>1. \A i \in 1..(k + 1) : i \in 1..k \/ i = k + 1
      BY <1>0
    <3>2. QED
      BY <2>8, <2>9, <3>1
  <2>11. Has(k + 1)
    BY <2>4, <2>7, <2>10
  <2>12. QED
    BY <1>4, <2>11
<1>5. n \in G
  <2> HIDE DEF G
  <2>1. \A k \in 0..n : k \in G
    BY <1>0, <1>3, <1>4, Induction
  <2>2. QED
    BY <1>0, <2>1
<1>6. QED
  BY <1>5

\* No other number has them.
LEMMA DigitsUnique ==
  ASSUME NEW n \in Pos, NEW v \in [1..n -> Pos],
         NEW p \in 0..(hyperPlanes(v)[n] - 1), NEW q \in 0..(hyperPlanes(v)[n] - 1),
         \A i \in 1..n : Digit(v, n, p, i) = Digit(v, n, q, i)
  PROVE  p = q
<1> DEFINE h == hyperPlanes(v)
           Same(x, y, k) == \A i \in 1..k : Digit(v, n, x, i) = Digit(v, n, y, i)
           G == {k \in 0..n : \A x, y \in 0..(h[k] - 1) : Same(x, y, k) => x = y}
<1>0. n \in Nat /\ n > 0
  BY DEF Pos
<1>1. h \in [0..n -> Pos] /\ h[0] = 1 /\ \A j \in 1..n : h[j] = v[n - j + 1] * h[j - 1]
  BY <1>0, HyperPlanes
<1>2. 0 \in G
  <2>1. \A x, y \in 0..(h[0] - 1) : x = y
    BY <1>1
  <2>2. 0 \in 0..n
    BY <1>0
  <2>3. QED
    BY <2>1, <2>2, Zenon
<1>3. ASSUME NEW k \in 0..n, k + 1 \in 0..n, k \in G PROVE k + 1 \in G
  <2>1. SUFFICES ASSUME NEW x \in 0..(h[k + 1] - 1), NEW y \in 0..(h[k + 1] - 1), Same(x, y, k + 1)
                 PROVE  x = y
    BY <1>3
  <2>2. n - (k + 1) + 1 \in 1..n /\ k + 1 \in 1..n /\ (k + 1) - 1 = k
    BY <1>0, <1>3
  <2>3. PICK m \in Pos, a \in Pos : m = v[n - (k + 1) + 1] /\ a = h[k]
    BY <1>1, <2>2
  <2>4. h[k + 1] = m * a
    BY <1>1, <2>2, <2>3
  <2>5. x \in Nat /\ y \in Nat /\ x < m * a /\ y < m * a /\ m * a = a * m /\ m \in Nat /\ a \in Nat
    BY <2>4, Product DEF Pos
  <2>6. PICK b \in Nat, r \in 0..(a - 1) : b = x \div a /\ x = a * b + r
    BY <2>5, DivMod
  <2>7. PICK c \in Nat, s \in 0..(a - 1) : c = y \div a /\ y = a * c + s
    BY <2>5, DivMod
  <2>8. b < m /\ c < m
    BY <2>5, <2>6, <2>7, QuotientBound
  <2>9. b = c
    <3>1. Digit(v, n, x, k + 1) = Digit(v, n, y, k + 1)
      BY <2>1, <2>2
    <3>2. Digit(v, n, x, k + 1) = b % m
      BY <2>2, <2>3, <2>6 DEF Digit
    <3>3. Digit(v, n, y, k + 1) = c % m
      BY <2>2, <2>3, <2>7 DEF Digit
    <3>4. b \in 0..(m - 1) /\ c \in 0..(m - 1) /\ b = m * 0 + b /\ c = m * 0 + c
      BY <2>5, <2>8
    <3>5. b % m = b
      BY <3>4, Quotient
    <3>6. c % m = c
      BY <3>4, Quotient
    <3>7. QED
      BY <3>1, <3>2, <3>3, <3>5, <3>6
  <2>10. Same(r, s, k)
    <3>1. SUFFICES ASSUME NEW i \in 1..k PROVE Digit(v, n, r, i) = Digit(v, n, s, i)
      OBVIOUS
    <3>2. x = b * hyperPlanes(v)[k] + r /\ y = c * hyperPlanes(v)[k] + s /\ r \in Nat /\ s \in Nat
      <4>1. a * b = b * a /\ a * c = c * a /\ r \in Nat /\ s \in Nat
        BY <2>5
      <4>2. QED
        BY <2>3, <2>6, <2>7, <4>1
    <3>3. Digit(v, n, x, i) = Digit(v, n, r, i)
      <4>1. x \in Nat /\ r \in Nat /\ x = b * hyperPlanes(v)[k] + r
        BY <2>5, <3>2
      <4> HIDE DEF h
      <4>2. QED
        BY <4>1, LowDigits
    <3>4. Digit(v, n, y, i) = Digit(v, n, s, i)
      <4>1. y \in Nat /\ s \in Nat /\ y = c * hyperPlanes(v)[k] + s
        BY <2>5, <3>2
      <4> HIDE DEF h
      <4>2. QED
        BY <4>1, LowDigits
    <3>5. i \in 1..(k + 1)
      BY <1>0
    <3>6. QED
      BY <2>1, <3>3, <3>4, <3>5
  <2>11. r = s
    <3>1. r \in 0..(h[k] - 1) /\ s \in 0..(h[k] - 1)
      BY <2>3
    <3>2. QED
      BY <1>3, <2>10, <3>1
  <2>12. QED
    BY <2>6, <2>7, <2>9, <2>11
<1>4. n \in G
  <2> HIDE DEF G
  <2>1. \A k \in 0..n : k \in G
    BY <1>0, <1>2, <1>3, Induction
  <2>2. QED
    BY <1>0, <2>1
<1>5. QED
  BY <1>4

\* mapIdx takes the digits: what it does not reduce in the slowest dimension is small.
LEMMA MapIdxDigits ==
  ASSUME NEW n \in Pos, NEW v \in [1..n -> Pos], NEW p \in 0..(prod(v) - 1)
  PROVE  /\ mapIdx(p, v) = [d \in 1..n |-> Digit(v, n, p, n - d + 1)]
         /\ mapIdx(p, v) \in IndexSet(v)
<1> DEFINE h == hyperPlanes(v)
<1>0. n \in Nat /\ n > 0
  BY DEF Pos
<1>1. /\ h \in [0..n -> Pos] /\ \A j \in 1..n : h[j] = v[n - j + 1] * h[j - 1]
      /\ prod(v) = h[n]
  BY <1>0, HyperPlanes
<1>2. Len(v) = n /\ DOMAIN v = 1..n
  BY <1>0, VectorLen
<1>3. p \in Nat
  BY <1>1
<1>4. mapIdx(p, v) = [d \in 1..n |-> IF d = 1 THEN p \div h[n - 1] ELSE (p \div h[n - d]) % v[d]]
  BY <1>2 DEF mapIdx
<1>5. ASSUME NEW d \in 1..n
      PROVE  Digit(v, n, p, n - d + 1) = (p \div h[n - d]) % v[d] /\ (p \div h[n - d]) % v[d] \in 0..(v[d] - 1)
  <2>1. (n - d + 1) - 1 = n - d /\ n - (n - d + 1) + 1 = d /\ n - d \in 0..n
    BY <1>0
  <2>2. PICK m \in Pos, a \in Pos : m = v[d] /\ a = h[n - d]
    BY <1>1, <2>1
  <2>3. (p \div a) % m \in 0..(m - 1)
    BY <1>3, DivMod
  <2>4. QED
    BY <2>1, <2>2, <2>3 DEF Digit
<1>6. (p \div h[n - 1]) % v[1] = p \div h[n - 1]
  <2>1. n \in 1..n /\ 1 \in 1..n /\ n - 1 \in 0..n /\ n - n + 1 = 1
    BY <1>0
  <2>2. PICK m \in Pos, a \in Pos : m = v[1] /\ a = h[n - 1]
    BY <1>1, <2>1
  <2>3. h[n] = m * a
    BY <1>1, <2>1, <2>2
  <2>4. m * a = a * m /\ a * m \in Nat /\ m \in Nat
    BY DEF Pos
  <2>5. p < a * m
    BY <1>1, <2>3, <2>4
  <2>6. p \div a < m /\ p \div a \in Nat
    BY <1>3, <2>5, QuotientBound, DivMod
  <2>7. PICK b \in 0..(m - 1) : b = p \div a
    BY <2>4, <2>6
  <2>8. b = m * 0 + b /\ b \in Nat
    BY <2>4
  <2>9. b % m = b
    BY <2>8, Quotient
  <2>10. QED
    BY <2>2, <2>7, <2>9
<1>7. mapIdx(p, v) = [d \in 1..n |-> (p \div h[n - d]) % v[d]]
  BY <1>4, <1>6
<1>8. mapIdx(p, v) = [d \in 1..n |-> Digit(v, n, p, n - d + 1)]
  BY <1>5, <1>7
<1>9. mapIdx(p, v) \in IndexSet(v)
  <2>1. ASSUME NEW d \in 1..n
        PROVE  (p \div h[n - d]) % v[d] \in Nat /\ (p \div h[n - d]) % v[d] < v[d]
    <3>1. v[d] \in Nat
      BY DEF Pos
    <3>2. QED
      BY <1>5, <3>1
  <2>2. mapIdx(p, v) \in [1..n -> Nat] /\ \A d \in 1..n : mapIdx(p, v)[d] < v[d]
    BY <1>7, <2>1
  <2>3. QED
    BY <2>2, Indices
<1>10. QED
  BY <1>8, <1>9

\* mapIdx, with which blocks and threads that only have a number find their index,
\* maps the numbers below the product of the extents to the indices one to one.
THEOREM MapIdxIsOneToOne ==
  ASSUME NEW n \in Pos, NEW v \in [1..n -> Pos]
  PROVE  /\ \A p \in 0..(prod(v) - 1) : mapIdx(p, v) \in IndexSet(v)
         /\ \A w \in IndexSet(v) : \E p \in 0..(prod(v) - 1) : mapIdx(p, v) = w
         /\ \A p, q \in 0..(prod(v) - 1) : mapIdx(p, v) = mapIdx(q, v) => p = q
<1>0. n \in Nat /\ n > 0
  BY DEF Pos
<1>1. prod(v) = hyperPlanes(v)[n]
  BY <1>0, HyperPlanes
<1>2. \A p \in 0..(prod(v) - 1) : mapIdx(p, v) \in IndexSet(v)
  BY MapIdxDigits
<1>3. ASSUME NEW w \in IndexSet(v) PROVE \E p \in 0..(prod(v) - 1) : mapIdx(p, v) = w
  <2>1. PICK p \in 0..(prod(v) - 1) : \A i \in 1..n : Digit(v, n, p, i) = w[n - i + 1]
    BY <1>1, DigitsExist
  <2>2. w \in [1..n -> Nat]
    BY Indices
  <2>3. ASSUME NEW d \in 1..n PROVE Digit(v, n, p, n - d + 1) = w[d]
    <3>1. n - d + 1 \in 1..n /\ n - (n - d + 1) + 1 = d
      BY <1>0
    <3>2. QED
      BY <2>1, <3>1
  <2>4. mapIdx(p, v) = [d \in 1..n |-> Digit(v, n, p, n - d + 1)]
    BY MapIdxDigits
  <2>5. mapIdx(p, v) = w
    BY <2>2, <2>3, <2>4
  <2>6. QED
    BY <2>5
<1>4. ASSUME NEW p \in 0..(prod(v) - 1), NEW q \in 0..(prod(v) - 1), mapIdx(p, v) = mapIdx(q, v)
      PROVE  p = q
  <2>1. /\ mapIdx(p, v) = [d \in 1..n |-> Digit(v, n, p, n - d + 1)]
        /\ mapIdx(q, v) = [d \in 1..n |-> Digit(v, n, q, n - d + 1)]
    BY MapIdxDigits
  <2>2. ASSUME NEW i \in 1..n PROVE Digit(v, n, p, i) = Digit(v, n, q, i)
    <3>1. n - i + 1 \in 1..n /\ n - (n - i + 1) + 1 = i
      BY <1>0
    <3>2. mapIdx(p, v)[n - i + 1] = mapIdx(q, v)[n - i + 1]
      BY <1>4
    <3>3. QED
      BY <2>1, <3>1, <3>2
  <2>3. QED
    BY <1>1, <2>2, DigitsUnique
<1>5. QED
  BY <1>2, <1>3, <1>4

-----------------------------------------------------------------------------
(* The parts of subDivideGridElems                                         *)

\* The quotient rounded up: blocks enough for all threads, and none of them empty.
LEMMA CeilDiv ==
  ASSUME NEW a \in Pos, NEW b \in Pos
  PROVE  /\ ceilDiv(a, b) \in Pos /\ ceilDiv(a, b) <= a
         /\ ceilDiv(a, b) * b >= a /\ (ceilDiv(a, b) - 1) * b < a
<1>0. a \in Nat /\ b \in Nat /\ a > 0 /\ b > 0 /\ a + b - 1 \in Nat
  BY DEF Pos
<1>1. PICK q \in Nat, r \in 0..(b - 1) : q = (a + b - 1) \div b /\ a + b - 1 = b * q + r
  BY <1>0, DivMod
<1>2. ceilDiv(a, b) = q
  BY <1>1 DEF ceilDiv
<1>3. a + b - 1 = b * q + r
  BY <1>1
<1>4. b * q = q * b /\ q * b \in Nat /\ (q - 1) * b = q * b - b
  BY <1>0
<1>5. q * b >= a /\ (q - 1) * b < a
  BY <1>0, <1>3, <1>4
<1>6. q # 0
  <2>1. CASE q = 0
    <3>1. q * b = 0
      BY <1>0, <2>1
    <3>2. QED
      BY <1>0, <1>5, <3>1
  <2>2. QED
    BY <2>1
<1>7. q <= a
  <2>1. CASE q = 1
    BY <1>0, <2>1
  <2>2. CASE q > 1
    <3>1. q - 1 \in Pos
      BY <2>2 DEF Pos
    <3>2. q - 1 <= (q - 1) * b
      BY <3>1, Product
    <3>3. QED
      BY <1>0, <1>4, <1>5, <3>2
  <2>3. QED
    BY <1>6, <2>1, <2>2
<1>8. QED
  BY <1>2, <1>5, <1>6, <1>7 DEF Pos

\* A vector of n extents, one that is nowhere larger than another, one that is the
\* same in all dimensions, one that divides another.
Sized(n, v) == v \in [1..n -> Pos]
AtMost(n, v, w) == \A d \in 1..n : v[d] <= w[d]
AllEqual(n, v) == \A d \in 1..n : v[d] = v[1]
Divides(n, v, w) == \A d \in 1..n : w[d] % v[d] = 0

\* nextDivisorLowerOrEqual finds a divisor: one is one.
LEMMA NextDivisor ==
  ASSUME NEW a \in Pos, NEW b \in Pos
  PROVE  /\ nextDivisorLowerOrEqual(a, b) \in Pos /\ nextDivisorLowerOrEqual(a, b) <= b
         /\ a % nextDivisorLowerOrEqual(a, b) = 0
<1> DEFINE S == {d \in 1..b : a % d = 0}
<1>1. b \in Nat /\ b > 0 /\ a \in Nat
  BY DEF Pos
<1>2. 1 \in S
  BY <1>1
<1>3. S \subseteq 0..b /\ S # {}
  BY <1>1, <1>2
<1>4. Max(S) \in S
  <2> HIDE DEF S
  <2>1. QED
    BY <1>1, <1>3, MaxIsLargest
<1>5. nextDivisorLowerOrEqual(a, b) \in S
  BY <1>4 DEF nextDivisorLowerOrEqual
<1>6. QED
  BY <1>1, <1>5 DEF Pos

\* The block the division begins with is within the device and the grid.
LEMMA InitialBlock ==
  ASSUME NEW n \in Pos, NEW m, NEW g, NEW r, NEW b, Sized(n, m), Sized(n, g),
         b = InitialBlockThreadExtent(m, g, r)
  PROVE  Sized(n, b) /\ AtMost(n, b, m) /\ AtMost(n, b, g) /\ (r = EqualExtent => AllEqual(n, b))
<1> USE DEF Sized, AtMost, AllEqual
<1> DEFINE c == Map2(min, m, g)
<1>0. n \in Nat /\ n > 0 /\ 1 \in 1..n
  BY DEF Pos
<1>1. c = [d \in 1..n |-> IF g[d] < m[d] THEN g[d] ELSE m[d]]
  BY DEF Map2, min
<1>2. ASSUME NEW d \in 1..n PROVE c[d] \in Pos /\ c[d] <= m[d] /\ c[d] <= g[d]
  <2>1. m[d] \in Pos /\ g[d] \in Pos
    OBVIOUS
  <2>2. c[d] = IF g[d] < m[d] THEN g[d] ELSE m[d]
    BY <1>1
  <2>3. QED
    BY <2>1, <2>2 DEF Pos
<1>3. c \in [1..n -> Pos]
  BY <1>1, <1>2
<1>4. b = IF r = EqualExtent THEN [i \in DOMAIN c |-> Min(Range(c))] ELSE c
  BY DEF InitialBlockThreadExtent
<1> HIDE DEF c
<1>5. CASE r # EqualExtent
  BY <1>2, <1>3, <1>4, <1>5
<1>6. CASE r = EqualExtent
  <2>1. PICK x \in Pos : x = Min(Range(c)) /\ \A d \in 1..n : x <= c[d]
    BY <1>3, Components
  <2>2. b = [i \in 1..n |-> x]
    BY <1>3, <1>4, <1>6, <2>1
  <2>3. ASSUME NEW d \in 1..n PROVE x <= m[d] /\ x <= g[d]
    <3>1. x \in Nat /\ c[d] \in Nat /\ m[d] \in Nat /\ g[d] \in Nat
      BY <1>2 DEF Pos
    <3>2. QED
      BY <1>2, <2>1, <3>1
  <2>4. QED
    BY <1>0, <2>1, <2>2, <2>3
<1>7. QED
  BY <1>5, <1>6

\* Blocks with the root in every dimension do not have too many threads, nor do
\* those with one less.
LEMMA Roots ==
  ASSUME NEW n \in Pos, NEW count \in Pos, NEW r \in NthRoots(count, n)
  PROVE  r \in Pos /\ [d \in 1..n |-> r] \in [1..n -> Pos] /\ prod([d \in 1..n |-> r]) <= count
<1> DEFINE power(x) == prod([d \in 1..n |-> x])
           S == {x \in 1..count : power(x) <= count}
           root == Max(S)
<1>0. n \in Nat /\ n > 0 /\ 1 \in 1..n /\ n \in 1..n /\ count \in Nat /\ count > 0
  BY DEF Pos
<1>1. 1 \in S
  <2>0. 1 \in Pos
    BY DEF Pos
  <2>1. PICK v \in [1..n -> Pos] : v = [d \in 1..n |-> 1]
    BY <2>0
  <2>2. prod(v) = v[n]
    <3>1. \A d \in 1..(n - 1) : v[d] = 1
      BY <1>0, <2>1
    <3>2. QED
      BY <3>1, ProdOfOnes
  <2>3. power(1) = 1
    BY <1>0, <2>1, <2>2
  <2>4. QED
    BY <1>0, <2>3
<1>2. S \subseteq 0..count /\ S # {}
  <2>1. \A x \in 1..count : x \in 0..count
    BY <1>0
  <2>2. QED
    BY <1>1, <2>1, Zenon
<1>3. root \in S
  <2> HIDE DEF S
  <2>1. QED
    BY <1>0, <1>2, MaxIsLargest
<1>4. root \in 1..count /\ power(root) <= count
  BY <1>3
<1>5. r = root \/ (r = root - 1 /\ root > 1)
  <2>1. NthRoots(count, n) = IF n > 2 /\ root > 1 /\ power(root) = count THEN {root, root - 1} ELSE {root}
    BY DEF NthRoots
  <2> HIDE DEF root, power
  <2>2. QED
    BY <2>1
<1> HIDE DEF root, S
<1>6. CASE r = root
  <2>1. r \in Pos
    BY <1>0, <1>4, <1>6 DEF Pos
  <2>2. QED
    BY <1>4, <1>6, <2>1
<1>7. CASE r = root - 1 /\ root > 1
  <2>1. r \in Pos /\ root \in Pos /\ r <= root /\ root \in Nat
    BY <1>0, <1>4, <1>7 DEF Pos
  <2>2. PICK v \in [1..n -> Pos] : v = [d \in 1..n |-> root]
    BY <2>1
  <2>3. PICK w \in [1..n -> Pos] : w = [d \in 1..n |-> r]
    BY <2>1
  <2>4. prod(w) <= prod(v)
    <3>1. \A d \in 1..n : w[d] <= v[d]
      BY <2>1, <2>2, <2>3
    <3>2. QED
      BY <1>0, <3>1, ProdGrows
  <2>5. prod(w) \in Nat /\ prod(v) \in Nat
    BY <1>0, HyperPlanes DEF Pos
  <2>6. prod(v) <= count
    BY <1>4, <2>2
  <2>7. prod(w) <= count
    BY <1>0, <2>4, <2>5, <2>6
  <2>8. QED
    BY <2>1, <2>3, <2>7
<1>8. QED
  BY <1>5, <1>6, <1>7

\* Of the positions with the smallest key there is a first one.
LEMMA FirstOfLeast ==
  ASSUME NEW n \in Nat, NEW I, I \subseteq 1..n, I # {}, NEW key \in [I -> Int], NEW lo \in Int,
         \A i \in I : lo <= key[i]
  PROVE  \E i \in I : \A j \in I : key[i] < key[j] \/ (key[i] = key[j] /\ i <= j)
<1> DEFINE T == {key[i] - lo : i \in I}
           U(t) == {i \in I : key[i] - lo = t}
<1>1. \A i \in I : key[i] - lo \in Nat /\ key[i] \in Int
  OBVIOUS
<1>2. T \subseteq Nat /\ T # {}
  BY <1>1, Zenon
<1>3. PICK t \in T : \A u \in T : t <= u
  <2> HIDE DEF T
  <2>1. QED
    BY <1>2, LeastNatural, Zenon
<1>4. t \in Nat /\ \A i \in I : t <= key[i] - lo
  BY <1>2, <1>3
<1>5. U(t) # {}
  BY <1>3
<1>6. U(t) \subseteq Nat
  <2>1. \A i \in I : i \in Nat
    OBVIOUS
  <2>2. QED
    BY <2>1, Zenon
<1>7. PICK m \in U(t) : \A j \in U(t) : m <= j
  <2> HIDE DEF U
  <2>1. QED
    BY <1>5, <1>6, LeastNatural, Zenon
<1>8. m \in I /\ key[m] - lo = t
  BY <1>7
<1>9. ASSUME NEW j \in I PROVE key[m] < key[j] \/ (key[m] = key[j] /\ m <= j)
  <2>1. key[m] <= key[j]
    BY <1>1, <1>4, <1>8
  <2>2. CASE key[m] = key[j]
    <3>1. j \in U(t)
      BY <1>8, <2>2
    <3>2. QED
      BY <1>7, <2>2, <3>1
  <2>3. CASE key[m] # key[j]
    BY <1>1, <1>8, <2>1, <2>3
  <2>4. QED
    BY <2>2, <2>3
<1>10. QED
  BY <1>8, <1>9

\* What the clipping halves is no one, because the last dimension alone is within
\* the limit.
LEMMA HalvesMoreThanOne ==
  ASSUME NEW n \in Pos, NEW b \in [1..n -> Pos], NEW count \in Pos, NEW r,
         b[n] <= count, prod(b) > count
  PROVE  ComponentToHalve(b, r) \in 1..n /\ b[ComponentToHalve(b, r)] > 1
<1> DEFINE M == Max(Range(b))
           close == r = CloseToEqualExtent
           searched == IF close \/ n = 1 THEN 1..n ELSE 1..(n - 1)
           key == [i \in searched |-> IF close THEN -b[i] ELSE IF b[i] = 1 THEN M + 1 ELSE b[i]]
           First(i) == \A j \in searched : key[i] < key[j] \/ (key[i] = key[j] /\ i <= j)
           c == ComponentToHalve(b, r)
<1>0. n \in Nat /\ n > 0 /\ count \in Nat /\ count > 0 /\ Len(b) = n /\ n \in 1..n
  BY VectorLen DEF Pos
<1>1. M \in Pos /\ \A i \in 1..n : b[i] <= M
  BY Components
<1>2. searched \subseteq 1..n /\ searched # {}
  <2>1. CASE n = 1
    BY <1>0, <2>1
  <2>2. CASE n > 1
    <3>1. 1..n \subseteq 1..n /\ 1..(n - 1) \subseteq 1..n /\ 1 \in 1..n /\ 1 \in 1..(n - 1)
      BY <1>0, <2>2
    <3>2. QED
      BY <3>1
  <2>3. QED
    BY <1>0, <2>1, <2>2
<1>3. \A i \in 1..n : b[i] \in Int /\ b[i] > 0 /\ b[i] <= M /\ M \in Int
  BY <1>1 DEF Pos
<1> HIDE DEF M
<1>4. key \in [searched -> Int] /\ \A i \in searched : -M <= key[i]
  BY <1>2, <1>3
<1>5. \E i \in searched : First(i)
  <2>1. PICK K \in [searched -> Int] : K = key
    BY <1>4
  <2>2. -M \in Int /\ \A i \in searched : -M <= K[i]
    BY <1>2, <1>3, <1>4, <2>1
  <2>3. PICK s : s = searched
    OBVIOUS
  <2>4. \E i \in s : \A j \in s : K[i] < K[j] \/ (K[i] = K[j] /\ i <= j)
    <3>1. s \subseteq 1..n /\ s # {} /\ K \in [s -> Int] /\ \A i \in s : -M <= K[i]
      BY <1>2, <2>1, <2>2, <2>3
    <3>2. QED
      BY <1>0, <2>2, <3>1, FirstOfLeast
  <2>5. QED
    BY <2>1, <2>3, <2>4
<1>6. c = CHOOSE i \in searched : First(i)
  BY <1>0 DEF ComponentToHalve, M
<1>7. c \in searched /\ First(c)
  BY <1>5, <1>6
<1> HIDE DEF c
<1>8. c \in 1..n
  BY <1>2, <1>7
<1>9. ASSUME b[c] = 1 PROVE FALSE
  <2>1. ASSUME NEW j \in searched PROVE b[j] = 1
    <3>1. key[c] <= key[j]
      <4>1. key[c] < key[j] \/ key[c] = key[j]
        BY <1>7, Zenon
      <4>2. key[c] \in Int /\ key[j] \in Int
        <5> HIDE DEF key
        <5>1. QED
          BY <1>4, <1>7
      <4> HIDE DEF key
      <4>3. QED
        BY <4>1, <4>2
    <3>2. b[j] \in Int /\ b[j] > 0 /\ b[j] <= M /\ M \in Int
      BY <1>2, <1>3
    <3>3. CASE close
      <4>1. key[c] = -1 /\ key[j] = -b[j]
        BY <1>7, <1>9, <3>3
      <4>2. QED
        BY <3>1, <3>2, <4>1
    <3>4. CASE ~close /\ b[j] # 1
      <4>1. key[c] = M + 1 /\ key[j] = b[j]
        BY <1>7, <1>9, <3>4
      <4>2. QED
        BY <3>1, <3>2, <4>1
    <3>5. QED
      BY <3>3, <3>4
  <2>2. \A d \in 1..(n - 1) : d \in searched
    BY <1>0
  <2>3. prod(b) = b[n]
    <3>1. \A d \in 1..(n - 1) : b[d] = 1
      BY <2>1, <2>2
    <3>2. QED
      BY <3>1, ProdOfOnes
  <2>4. b[n] \in Nat
    BY <1>0 DEF Pos
  <2>5. QED
    BY <1>0, <2>3, <2>4
<1>10. b[c] > 1
  BY <1>3, <1>8, <1>9
<1>11. QED
  BY <1>8, <1>10 DEF c

\* One round of the clipping loop keeps the block within what it was, with no
\* empty extent, and lowers the product.
LEMMA ClipOnceLowers ==
  ASSUME NEW n \in Pos, NEW b \in [1..n -> Pos], NEW count \in Pos, NEW r, b[n] <= count,
         NEW w, w = ClipOnce(b, count, r)
  PROVE  /\ w \in [1..n -> Pos] /\ \A d \in 1..n : w[d] <= b[d]
         /\ prod(b) <= count => w = b
         /\ prod(b) > count => prod(w) < prod(b)
<1>0. n \in Nat /\ count \in Nat
  BY DEF Pos
<1>1. PICK p \in Nat : p = prod(b)
  BY <1>0, HyperPlanes DEF Pos
<1>2. CASE p <= count
  <2>1. w = b
    BY <1>0, <1>1, <1>2 DEF ClipOnce
  <2>2. \A d \in 1..n : b[d] <= b[d]
    BY DEF Pos
  <2>3. QED
    BY <1>0, <1>1, <1>2, <2>1, <2>2
<1>3. CASE p > count
  <2>1. PICK i \in 1..n : i = ComponentToHalve(b, r) /\ b[i] > 1
    BY <1>1, <1>3, HalvesMoreThanOne
  <2>2. PICK x \in Nat : x = b[i] /\ x > 1
    BY <2>1 DEF Pos
  <2>3. x \div 2 \in Pos /\ x \div 2 < x
    BY <2>2 DEF Pos
  <2>4. w = [b EXCEPT ![i] = x \div 2]
    BY <1>1, <1>3, <2>1, <2>2 DEF ClipOnce
  <2>5. w \in [1..n -> Pos] /\ w[i] = x \div 2 /\ \A d \in 1..n : d # i => w[d] = b[d]
    BY <2>3, <2>4
  <2>6. \A d \in 1..n : w[d] <= b[d]
    <3>1. SUFFICES ASSUME NEW d \in 1..n PROVE w[d] <= b[d]
      OBVIOUS
    <3>2. CASE d = i
      BY <2>2, <2>3, <2>5, <3>2
    <3>3. CASE d # i
      <4>1. w[d] = b[d] /\ b[d] \in Nat
        BY <2>5, <3>3 DEF Pos
      <4>2. QED
        BY <4>1
    <3>4. QED
      BY <3>2, <3>3
  <2>7. w[i] < b[i]
    BY <2>2, <2>3, <2>5
  <2>8. prod(w) < prod(b)
    BY <1>0, <2>5, <2>6, <2>7, ProdGrows
  <2>9. QED
    BY <1>0, <1>1, <1>3, <2>5, <2>6, <2>8
<1>4. QED
  BY <1>0, <1>1, <1>2, <1>3

\* The clipping loop ends with a block within the one it began with that does not
\* have too many threads.
LEMMA ClipEnds ==
  ASSUME NEW n \in Pos, NEW b \in [1..n -> Pos], NEW count \in Pos, NEW r, b[n] <= count,
         NEW w, w = Clip(b, count, r)
  PROVE  w \in [1..n -> Pos] /\ (\A d \in 1..n : w[d] <= b[d]) /\ prod(w) <= count
<1> DEFINE S == {x \in [1..n -> Pos] : \A d \in 1..n : x[d] <= b[d]}
           once(x) == ClipOnce(x, count, r)
<1>0. n \in Nat /\ n \in 1..n /\ count \in Nat
  BY DEF Pos
<1>1. PICK p \in Pos : p = prod(b)
  BY <1>0, HyperPlanes
<1>2. p \in Nat
  BY DEF Pos
<1>3. ASSUME NEW x \in S
      PROVE  /\ once(x) \in S /\ prod(x) \in Nat /\ prod(once(x)) \in Nat /\ x \in [1..n -> Pos]
             /\ prod(x) <= count => once(x) = x
             /\ prod(x) > count => prod(once(x)) < prod(x)
  <2>1. x \in [1..n -> Pos] /\ \A d \in 1..n : x[d] <= b[d]
    OBVIOUS
  <2>2. x[n] <= count
    <3>1. x[n] \in Nat /\ b[n] \in Nat /\ x[n] <= b[n]
      BY <1>0, <2>1 DEF Pos
    <3>2. QED
      BY <1>0, <3>1
  <2>3. PICK y : y = once(x)
    OBVIOUS
  <2>4. /\ y \in [1..n -> Pos] /\ \A d \in 1..n : y[d] <= x[d]
        /\ prod(x) <= count => y = x
        /\ prod(x) > count => prod(y) < prod(x)
    BY <2>1, <2>2, <2>3, ClipOnceLowers
  <2>5. y \in S
    <3>1. ASSUME NEW d \in 1..n PROVE y[d] <= b[d]
      <4>1. y[d] \in Nat /\ x[d] \in Nat /\ b[d] \in Nat /\ y[d] <= x[d] /\ x[d] <= b[d]
        BY <2>1, <2>4 DEF Pos
      <4>2. QED
        BY <4>1
    <3>2. QED
      BY <2>4, <3>1
  <2>6. prod(x) \in Nat /\ prod(y) \in Nat
    BY <1>0, <2>1, <2>4, HyperPlanes DEF Pos
  <2>7. QED
    BY <2>1, <2>3, <2>4, <2>5, <2>6
<1>4. b \in S
  BY DEF Pos
<1> DEFINE P(f) == f = [k \in 0..p |-> IF k = 0 THEN b ELSE once(f[k - 1])]
<1> HIDE DEF S, once
<1>5. \E f : P(f)
  <2> DEFINE D == [x \in (1..p) \X S |-> once(x[2])]
  <2>1. D \in [(1..p) \X S -> S] /\ \A k \in 1..p, x \in S : D[<<k, x>>] = once(x)
    BY <1>3
  <2>2. PICK C \in [(1..p) \X S -> S] : \A k \in 1..p, x \in S : C[<<k, x>>] = once(x)
    BY <2>1
  <2> HIDE DEF D
  <2>3. PICK f : f \in Runs(p, S, b, C)
    BY <1>2, <1>4, Iteration
  <2>4. f \in [0..p -> S] /\ f[0] = b /\ \A k \in 1..p : f[k] = C[<<k, f[k - 1]>>]
    BY <2>3 DEF Runs
  <2>5. ASSUME NEW k \in 1..p PROVE f[k] = once(f[k - 1])
    <3>1. f[k - 1] \in S
      BY <1>2, <2>4
    <3>2. QED
      BY <2>2, <2>4, <3>1
  <2>6. P(f)
    BY <2>4, <2>5
  <2>7. QED
    BY <2>6
<1> DEFINE g == CHOOSE f : P(f)
<1>6. g = [k \in 0..p |-> IF k = 0 THEN b ELSE once(g[k - 1])]
  BY <1>5
<1>7. w = g[p]
  BY <1>1 DEF Clip, once
<1> HIDE DEF g, P
<1>8. g[0] = b /\ \A k \in 1..p : g[k] = once(g[k - 1])
  BY <1>6, <1>2
<1> DEFINE G == {k \in 0..p : g[k] \in S /\ (prod(g[k]) <= count \/ prod(g[k]) + k <= p)}
<1>9. 0 \in G
  BY <1>1, <1>2, <1>4, <1>8
<1>10. ASSUME NEW k \in 0..p, k + 1 \in 0..p, k \in G PROVE k + 1 \in G
  <2>1. PICK x \in S : x = g[k] /\ (prod(x) <= count \/ prod(x) + k <= p)
    BY <1>10
  <2>2. g[k + 1] = once(x)
    BY <1>2, <1>8, <1>10, <2>1
  <2>3. PICK y \in S : y = once(x)
    BY <1>3
  <2>4. PICK px \in Nat, py \in Nat : px = prod(x) /\ py = prod(y)
    BY <1>3, <2>3
  <2>5. py <= count \/ py + (k + 1) <= p
    <3>1. CASE px <= count
      <4>1. y = x
        BY <1>3, <2>3, <2>4, <3>1
      <4>2. QED
        BY <2>4, <3>1, <4>1
    <3>2. CASE px > count
      <4>1. py < px
        BY <1>3, <2>3, <2>4, <3>2
      <4>2. px + k <= p
        BY <1>0, <2>1, <2>4, <3>2
      <4>3. QED
        BY <1>2, <4>1, <4>2
    <3>3. QED
      BY <1>0, <3>1, <3>2
  <2>6. QED
    BY <1>10, <2>2, <2>3, <2>4, <2>5
<1>11. p \in G
  <2> HIDE DEF G
  <2>1. \A k \in 0..p : k \in G
    BY <1>2, <1>9, <1>10, Induction
  <2>2. QED
    BY <1>2, <2>1
<1>12. w \in S /\ (prod(w) <= count \/ prod(w) + p <= p)
  BY <1>7, <1>11
<1>13. w \in [1..n -> Pos] /\ \A d \in 1..n : w[d] <= b[d]
  BY <1>12 DEF S
<1>14. prod(w) \in Nat /\ prod(w) # 0
  BY <1>0, <1>13, HyperPlanes DEF Pos
<1>15. QED
  BY <1>2, <1>12, <1>13, <1>14

\* The block that is clipped if need be.
LEMMA Clipped ==
  ASSUME NEW n \in Pos, NEW b, NEW count \in Pos, NEW r, Sized(n, b), b[n] <= count,
         r = EqualExtent => AllEqual(n, b), NEW w \in ClippedBlockThreadExtents(b, count, r)
  PROVE  Sized(n, w) /\ AtMost(n, w, b) /\ prod(w) <= count /\ (r = EqualExtent => AllEqual(n, w))
<1> USE DEF Sized, AtMost, AllEqual
<1>0. n \in Nat /\ 1 \in 1..n /\ Len(b) = n /\ DOMAIN b = 1..n /\ count \in Nat
  BY VectorLen DEF Pos
<1>1. PICK p \in Nat : p = prod(b)
  BY <1>0, HyperPlanes DEF Pos
<1>2. CASE p <= count
  <2>1. w = b
    BY <1>1, <1>2 DEF ClippedBlockThreadExtents
  <2>2. \A d \in 1..n : b[d] <= b[d]
    BY DEF Pos
  <2>3. QED
    BY <1>1, <1>2, <2>1, <2>2
<1>3. CASE ~(p <= count) /\ r # EqualExtent
  <2>1. w = Clip(b, count, r)
    BY <1>1, <1>3 DEF ClippedBlockThreadExtents
  <2>2. QED
    BY <1>3, <2>1, ClipEnds
<1>4. CASE ~(p <= count) /\ r = EqualExtent
  <2>1. PICK x \in NthRoots(count, n) : w = [d \in 1..n |-> x]
    BY <1>0, <1>1, <1>4 DEF ClippedBlockThreadExtents
  <2>2. x \in Pos /\ w \in [1..n -> Pos] /\ prod(w) <= count
    BY <2>1, Roots
  <2>3. PICK y \in Pos : y = b[1]
    BY <1>0
  <2>4. \A d \in 1..n : b[d] = y /\ w[d] = x
    BY <1>4, <2>1, <2>3
  <2>5. x <= y
    <3>1. SUFFICES ASSUME ~(x <= y) PROVE FALSE
      OBVIOUS
    <3>2. \A d \in 1..n : b[d] <= w[d]
      BY <2>2, <2>4, <3>1 DEF Pos
    <3>3. prod(b) <= prod(w)
      BY <1>0, <2>2, <3>2, ProdGrows
    <3>4. prod(w) \in Nat
      BY <1>0, <2>2, HyperPlanes DEF Pos
    <3>5. QED
      BY <1>0, <1>1, <1>4, <2>2, <3>3, <3>4
  <2>6. QED
    BY <1>0, <2>2, <2>4, <2>5
<1>5. QED
  BY <1>2, <1>3, <1>4

\* The common divisor that equal extents get is no zero, whatever set it is taken
\* from; more is not claimed of it.
LEMMA CommonDivisor ==
  ASSUME NEW n \in Pos, NEW g \in [1..n -> Pos], NEW b, NEW c \in MaxCommonDivisors(g, b)
  PROVE  c \in Pos
<1> DEFINE divisors(i) == allDivisorsLessOrEqual(g[i], b[i])
           intersects == IF Len(g) = 1 THEN {} ELSE divisors(1) \cap divisors(Len(g))
<1>1. PICK M \in Pos : M = Max(Range(g))
  BY Components
<1>2. MaxCommonDivisors(g, b) = IF intersects = {} THEN 1..M ELSE {Max(intersects)}
  BY <1>1 DEF MaxCommonDivisors
<1>3. PICK a \in Pos : a = g[1]
  <2>1. 1 \in 1..n
    BY DEF Pos
  <2>2. QED
    BY <2>1
<1>4. divisors(1) \subseteq Pos /\ divisors(1) \subseteq 0..a
  <2>1. SUFFICES ASSUME NEW i \in 1..min(a, b[1]), a % i = 0 PROVE a \div i \in Pos /\ a \div i \in 0..a
    BY <1>3 DEF allDivisorsLessOrEqual
  <2>2. a \in Nat /\ a # 0 /\ i \in Int /\ i > 0
    BY DEF Pos
  <2>3. PICK x \in Pos : x = i
    BY <2>2 DEF Pos
  <2>4. PICK q \in Nat : q = a \div x /\ a = x * q + (a % x)
    BY <2>2, DivMod
  <2>5. a = x * q + 0
    BY <2>1, <2>3, <2>4
  <2>6. x \in Nat /\ x * q \in Nat
    BY DEF Pos
  <2>7. a = x * q
    BY <2>5, <2>6
  <2>8. q # 0
    <3>1. CASE q = 0
      <4>1. x * q = 0
        BY <2>6, <3>1
      <4>2. QED
        BY <2>2, <2>7, <4>1
    <3>2. QED
      BY <3>1
  <2>9. q \in Pos
    BY <2>8 DEF Pos
  <2>10. q <= a
    BY <2>7, <2>9, Product
  <2>11. QED
    BY <2>2, <2>3, <2>4, <2>9, <2>10
<1>5. CASE intersects = {}
  <2>1. c \in 1..M
    BY <1>2, <1>5
  <2>2. QED
    BY <2>1 DEF Pos
<1>6. CASE intersects # {}
  <2>1. intersects \subseteq divisors(1)
    BY <1>6
  <2>2. c = Max(intersects)
    BY <1>2, <1>6
  <2> HIDE DEF intersects, divisors
  <2>3. intersects \subseteq 0..a /\ intersects \subseteq Pos /\ a \in Nat
    BY <1>4, <2>1 DEF Pos
  <2>4. c \in intersects
    BY <1>6, <2>2, <2>3, MaxIsLargest, Zenon
  <2>5. QED
    BY <2>3, <2>4
<1>7. QED
  BY <1>5, <1>6

\* The block made to divide the grid.
LEMMA Dividing ==
  ASSUME NEW n \in Pos, NEW g, NEW b, NEW r, Sized(n, g), Sized(n, b),
         NEW w \in DividingBlockThreadExtents(g, b, r)
  PROVE  Sized(n, w) /\ (r # EqualExtent => AtMost(n, w, b) /\ Divides(n, w, g))
<1> USE DEF Sized, AtMost, Divides
<1>0. DOMAIN b = 1..n /\ DOMAIN g = 1..n
  OBVIOUS
<1>1. CASE r = EqualExtent
  <2>1. PICK c \in MaxCommonDivisors(g, b) : w = [i \in 1..n |-> c]
    BY <1>0, <1>1 DEF DividingBlockThreadExtents
  <2>2. c \in Pos
    BY CommonDivisor
  <2>3. QED
    BY <1>1, <2>1, <2>2
<1>2. CASE r # EqualExtent
  <2>1. w = [d \in 1..n |-> nextDivisorLowerOrEqual(g[d], b[d])]
    BY <1>0, <1>2 DEF DividingBlockThreadExtents, Map2
  <2>2. ASSUME NEW d \in 1..n
        PROVE  /\ nextDivisorLowerOrEqual(g[d], b[d]) \in Pos
               /\ nextDivisorLowerOrEqual(g[d], b[d]) <= b[d]
               /\ g[d] % nextDivisorLowerOrEqual(g[d], b[d]) = 0
    <3>1. g[d] \in Pos /\ b[d] \in Pos
      OBVIOUS
    <3>2. QED
      BY <3>1, NextDivisor
  <2>3. QED
    BY <1>2, <2>1, <2>2
<1>3. QED
  BY <1>1, <1>2

\* What subDivideGridElems returns for an input i: always a grid that covers all
\* elements without an empty block, and a block that keeps to the limits and the
\* requirements unless it must both divide the grid and be equal.
Divided(i, wd) ==
  LET n == Len(i.gridElemExtent)
      b == wd.blockThreadExtent
      g(d) == ceilDiv(i.gridElemExtent[d], wd.threadElemExtent[d])
  IN /\ wd.gridBlockExtent \in [1..n -> Pos] /\ b \in [1..n -> Pos]
     /\ wd.threadElemExtent \in [1..n -> Pos]
     /\ \A d \in 1..n : /\ wd.threadElemExtent[d] <= i.threadElemExtent[d]
                        /\ wd.gridBlockExtent[d] <= i.gridElemExtent[d]
                        /\ wd.gridBlockExtent[d] * b[d] >= g(d)
                        /\ (wd.gridBlockExtent[d] - 1) * b[d] < g(d)
     /\ ~(i.requireDivide /\ i.restrictions = EqualExtent) =>
          /\ prod(b) <= i.accDevProps.blockThreadCountMax
          /\ \A d \in 1..n : /\ b[d] <= i.accDevProps.blockThreadExtentMax[d]
                             /\ i.requireDivide => g(d) % b[d] = 0
                             /\ i.restrictions = EqualExtent => b[d] = b[1]

\* What is assumed of an input, with the number of its dimensions at hand.
LEMMA InputFacts ==
  ASSUME NEW i \in Inputs
  PROVE  \E n \in Pos :
           /\ Len(i.gridElemExtent) = n
           /\ i.gridElemExtent \in [1..n -> Pos] /\ i.threadElemExtent \in [1..n -> Pos]
           /\ i.accDevProps.gridBlockExtentMax \in [1..n -> Pos]
           /\ i.accDevProps.blockThreadExtentMax \in [1..n -> Pos]
           /\ i.accDevProps.threadElemExtentMax \in [1..n -> Pos]
           /\ i.accDevProps.gridBlockCountMax \in Pos
           /\ i.accDevProps.blockThreadCountMax \in Pos
           /\ i.accDevProps.threadElemCountMax \in Pos
           /\ \A d \in 1..n :
                /\ i.gridElemExtent[d] <= i.accDevProps.gridBlockExtentMax[d]
                /\ i.accDevProps.blockThreadExtentMax[d] <= i.accDevProps.blockThreadCountMax
                /\ i.accDevProps.blockThreadExtentMax[d] <= i.accDevProps.threadElemExtentMax[d]
           /\ prod(i.gridElemExtent) <= i.accDevProps.gridBlockCountMax
           /\ i.accDevProps.blockThreadCountMax <= i.accDevProps.threadElemCountMax
<1>1. PICK n \in Pos : n = Len(i.gridElemExtent)
  BY InputsAssumption DEF Pos
<1>2. i.gridElemExtent \in [1..n -> Pos]
  BY <1>1, InputsAssumption DEF Pos
<1>3. DOMAIN i.gridElemExtent = 1..n
  BY <1>2
<1>4. /\ i.threadElemExtent \in [1..n -> Pos]
      /\ i.accDevProps.gridBlockExtentMax \in [1..n -> Pos]
      /\ i.accDevProps.blockThreadExtentMax \in [1..n -> Pos]
      /\ i.accDevProps.threadElemExtentMax \in [1..n -> Pos]
      /\ i.accDevProps.gridBlockCountMax \in Pos
      /\ i.accDevProps.blockThreadCountMax \in Pos
      /\ i.accDevProps.threadElemCountMax \in Pos
      /\ prod(i.gridElemExtent) <= i.accDevProps.gridBlockCountMax
      /\ i.accDevProps.blockThreadCountMax <= i.accDevProps.threadElemCountMax
  BY <1>1, InputsAssumption DEF Pos
<1>5. \A d \in 1..n :
        /\ i.gridElemExtent[d] <= i.accDevProps.gridBlockExtentMax[d]
        /\ i.accDevProps.blockThreadExtentMax[d] <= i.accDevProps.blockThreadCountMax
        /\ i.accDevProps.blockThreadExtentMax[d] <= i.accDevProps.threadElemExtentMax[d]
  BY <1>3, InputsAssumption
<1>6. QED
  BY <1>1, <1>2, <1>4, <1>5

\* At most is transitive.
LEMMA AtMostTransitive ==
  ASSUME NEW n, NEW u, NEW v, NEW w, Sized(n, u), Sized(n, v), Sized(n, w),
         AtMost(n, u, v), AtMost(n, v, w)
  PROVE  AtMost(n, u, w)
<1>1. ASSUME NEW d \in 1..n PROVE u[d] <= w[d]
  <2>1. u[d] \in Nat /\ v[d] \in Nat /\ w[d] \in Nat /\ u[d] <= v[d] /\ v[d] <= w[d]
    BY DEF Sized, AtMost, Pos
  <2>2. QED
    BY <2>1
<1>2. QED
  BY <1>1 DEF AtMost

\* subDivideGridElems divides.
LEMMA SubDivides ==
  ASSUME NEW i \in Inputs,
         NEW wd \in subDivideGridElems(i.gridElemExtent, i.threadElemExtent, i.accDevProps,
                                       i.requireDivide, i.restrictions)
  PROVE  Divided(i, wd)
<1>1. PICK n \in Pos :
        /\ Len(i.gridElemExtent) = n
        /\ i.gridElemExtent \in [1..n -> Pos] /\ i.threadElemExtent \in [1..n -> Pos]
        /\ i.accDevProps.blockThreadExtentMax \in [1..n -> Pos]
        /\ i.accDevProps.blockThreadCountMax \in Pos
        /\ \A d \in 1..n : i.accDevProps.blockThreadExtentMax[d] <= i.accDevProps.blockThreadCountMax
  BY InputFacts
<1>2. PICK e, t, mx, count, q, r :
        /\ e = i.gridElemExtent /\ t = i.threadElemExtent
        /\ mx = i.accDevProps.blockThreadExtentMax /\ count = i.accDevProps.blockThreadCountMax
        /\ q = i.requireDivide /\ r = i.restrictions
  OBVIOUS
<1>3. Sized(n, e) /\ Sized(n, t) /\ Sized(n, mx) /\ count \in Pos /\ \A d \in 1..n : mx[d] <= count
  BY <1>1, <1>2 DEF Sized
<1>4. PICK m, g, b0, C :
        /\ m = [d \in 1..n |-> min(t[d], e[d])] /\ g = [d \in 1..n |-> ceilDiv(e[d], m[d])]
        /\ b0 = InitialBlockThreadExtent(mx, g, r)
        /\ C = ClippedBlockThreadExtents(b0, count, r)
  OBVIOUS
<1>5. Sized(n, m) /\ Sized(n, g) /\ AtMost(n, m, t) /\ AtMost(n, g, e)
  <2> USE DEF Sized, AtMost
  <2>1. m = [d \in 1..n |-> IF e[d] < t[d] THEN e[d] ELSE t[d]]
    BY <1>4 DEF min
  <2>2. ASSUME NEW d \in 1..n PROVE m[d] \in Pos /\ m[d] <= t[d]
    <3>1. e[d] \in Pos /\ t[d] \in Pos /\ m[d] = IF e[d] < t[d] THEN e[d] ELSE t[d]
      BY <1>3, <2>1
    <3>2. QED
      BY <3>1 DEF Pos
  <2>3. ASSUME NEW d \in 1..n PROVE ceilDiv(e[d], m[d]) \in Pos /\ ceilDiv(e[d], m[d]) <= e[d]
    <3>1. e[d] \in Pos /\ m[d] \in Pos
      BY <1>3, <2>2
    <3>2. QED
      BY <3>1, CeilDiv
  <2>4. QED
    BY <1>4, <2>1, <2>2, <2>3
<1>6. /\ Sized(n, b0) /\ AtMost(n, b0, mx) /\ AtMost(n, b0, g)
      /\ r = EqualExtent => AllEqual(n, b0)
  BY <1>3, <1>4, <1>5, InitialBlock
<1>7. PICK b \in IF q THEN UNION {DividingBlockThreadExtents(g, c, r) : c \in C} ELSE C :
        wd = [gridBlockExtent |-> [d \in 1..n |-> gridBlockExtent(g[d], b[d])],
              blockThreadExtent |-> b, threadElemExtent |-> m]
  BY <1>1, <1>2, <1>4 DEF subDivideGridElems, Map2
<1>9. n \in 1..n /\ n \in Nat /\ count \in Nat
  BY <1>3 DEF Pos
<1>10. b0[n] <= count
  <2>1. b0[n] \in Nat /\ mx[n] \in Nat /\ b0[n] <= mx[n] /\ mx[n] <= count
    BY <1>3, <1>6, <1>9 DEF Sized, AtMost, Pos
  <2>2. QED
    BY <1>9, <2>1
<1>11. ASSUME NEW c \in C
       PROVE  /\ Sized(n, c) /\ AtMost(n, c, mx) /\ prod(c) <= count
              /\ r = EqualExtent => AllEqual(n, c)
  <2>1. c \in ClippedBlockThreadExtents(b0, count, r)
    BY <1>4
  <2>2. /\ Sized(n, c) /\ AtMost(n, c, b0) /\ prod(c) <= count
        /\ r = EqualExtent => AllEqual(n, c)
    BY <1>3, <1>6, <1>10, <2>1, Clipped
  <2>3. AtMost(n, c, mx)
    BY <1>3, <1>6, <2>2, AtMostTransitive
  <2>4. QED
    BY <2>2, <2>3
<1>12. /\ Sized(n, b)
       /\ ~(q /\ r = EqualExtent) =>
            /\ prod(b) <= count /\ AtMost(n, b, mx)
            /\ q => Divides(n, b, g)
            /\ r = EqualExtent => AllEqual(n, b)
  <2>1. CASE ~q
    <3>1. b \in C
      BY <2>1
    <3>2. QED
      BY <1>11, <2>1, <3>1
  <2>2. CASE q
    <3>1. PICK c \in C : b \in DividingBlockThreadExtents(g, c, r)
      BY <2>2
    <3>2. Sized(n, c) /\ AtMost(n, c, mx) /\ prod(c) <= count
      BY <1>11
    <3>3. Sized(n, b) /\ (r # EqualExtent => AtMost(n, b, c) /\ Divides(n, b, g))
      BY <1>5, <3>1, <3>2, Dividing
    <3>4. CASE r # EqualExtent
      <4>1. prod(b) <= prod(c)
        BY <1>9, <3>2, <3>3, <3>4, ProdGrows DEF Sized, AtMost
      <4>2. prod(b) \in Nat /\ prod(c) \in Nat
        BY <1>9, <3>2, <3>3, HyperPlanes DEF Pos, Sized
      <4>3. prod(b) <= count
        BY <1>9, <3>2, <4>1, <4>2
      <4>4. AtMost(n, b, mx)
        BY <1>3, <3>2, <3>3, <3>4, AtMostTransitive
      <4>5. QED
        BY <3>3, <3>4, <4>3, <4>4
    <3>5. CASE r = EqualExtent
      BY <2>2, <3>3, <3>5
    <3>6. QED
      BY <3>4, <3>5
  <2>3. QED
    BY <2>1, <2>2
<1>13. PICK gb : gb = [d \in 1..n |-> ceilDiv(g[d], b[d])]
  OBVIOUS
<1>14. /\ wd.gridBlockExtent = gb /\ wd.blockThreadExtent = b /\ wd.threadElemExtent = m
  BY <1>7, <1>13 DEF gridBlockExtent
<1>15. ASSUME NEW d \in 1..n
       PROVE  /\ gb[d] \in Pos /\ gb[d] <= e[d]
              /\ gb[d] * b[d] >= g[d] /\ (gb[d] - 1) * b[d] < g[d]
  <2>1. g[d] \in Pos /\ b[d] \in Pos /\ e[d] \in Pos /\ g[d] <= e[d]
    BY <1>3, <1>5, <1>12 DEF Sized, AtMost
  <2>2. gb[d] = ceilDiv(g[d], b[d])
    BY <1>13
  <2>3. /\ gb[d] \in Pos /\ gb[d] <= g[d]
        /\ gb[d] * b[d] >= g[d] /\ (gb[d] - 1) * b[d] < g[d]
    BY <2>1, <2>2, CeilDiv
  <2>4. gb[d] <= e[d]
    BY <2>1, <2>3 DEF Pos
  <2>5. QED
    BY <2>3, <2>4
<1>16. gb \in [1..n -> Pos]
  BY <1>13, <1>15
<1>17. ASSUME NEW d \in 1..n
       PROVE  /\ m[d] <= t[d] /\ gb[d] <= e[d] /\ g[d] = ceilDiv(e[d], m[d])
              /\ gb[d] * b[d] >= ceilDiv(e[d], m[d]) /\ (gb[d] - 1) * b[d] < ceilDiv(e[d], m[d])
  <2>1. g[d] = ceilDiv(e[d], m[d])
    BY <1>4
  <2>2. m[d] <= t[d]
    BY <1>5 DEF AtMost
  <2>3. QED
    BY <1>15, <2>1, <2>2
<1>18. ~(q /\ r = EqualExtent) =>
         /\ prod(b) <= count
         /\ \A d \in 1..n : /\ b[d] <= mx[d]
                            /\ q => ceilDiv(e[d], m[d]) % b[d] = 0
                            /\ r = EqualExtent => b[d] = b[1]
  BY <1>12, <1>17 DEF AtMost, Divides, AllEqual
<1>19. m \in [1..n -> Pos] /\ b \in [1..n -> Pos]
  BY <1>5, <1>12 DEF Sized
<1>20. QED
  BY <1>1, <1>2, <1>14, <1>16, <1>17, <1>18, <1>19 DEF Divided

-----------------------------------------------------------------------------
(* The work division is valid                                              *)

\* The host only goes on with what subDivideGridElems returned.
DivInv ==
  /\ in \in Inputs /\ pc \in {"divide", "launch", "run", "done", "thrown"}
  /\ pc # "divide" => Divided(in, workDiv)

\* It stays so.
LEMMA DivInvHolds == Spec => []DivInv
<1>1. Init => DivInv
  BY DEF Init, DivInv
<1>2. DivInv /\ [Next]_vars => DivInv'
  <2> SUFFICES ASSUME DivInv, [Next]_vars PROVE DivInv'
    OBVIOUS
  <2>1. CASE GetValidWorkDiv
    <3>1. PICK wd \in subDivideGridElems(in.gridElemExtent, in.threadElemExtent, in.accDevProps,
                                         in.requireDivide, in.restrictions) : workDiv' = wd
      BY <2>1 DEF GetValidWorkDiv
    <3>2. in \in Inputs /\ in' = in /\ pc' = "launch"
      BY <2>1 DEF GetValidWorkDiv, DivInv
    <3>3. PICK i \in Inputs : i = in
      BY <3>2
    <3>4. Divided(i, wd)
      BY <3>1, <3>3, SubDivides
    <3>5. Divided(in', workDiv')
      BY <3>1, <3>2, <3>3, <3>4
    <3>6. Divided(in, workDiv)'
      BY <3>5 DEF Divided
    <3>7. QED
      BY <3>2, <3>6 DEF DivInv
  <2>2. CASE ~GetValidWorkDiv
    <3>1. in' = in /\ workDiv' = workDiv
      BY <2>2 DEF Next, Launch, Return, TakeBlock, RunThread, FinishBlock, vars
    <3>2. pc' = pc \/ (pc # "divide" /\ pc' \in {"run", "thrown", "done"})
      BY <2>2 DEF Next, Launch, Return, TakeBlock, RunThread, FinishBlock, vars
    <3>3. Divided(in, workDiv)' <=> Divided(in, workDiv)
      BY <3>1 DEF Divided
    <3>4. QED
      BY <3>1, <3>2, <3>3 DEF DivInv
  <2>3. QED
    BY <2>1, <2>2
<1>3. QED
  BY <1>1, <1>2, PTL DEF Spec

\* A division that keeps to the requirements is valid by what isValidWorkDiv looks at.
LEMMA DividedIsValid ==
  ASSUME NEW i \in Inputs, NEW wd, Divided(i, wd), ~(i.requireDivide /\ i.restrictions = EqualExtent)
  PROVE  isValidWorkDiv(i.accDevProps, wd)
<1>1. PICK n \in Pos :
        /\ Len(i.gridElemExtent) = n /\ i.gridElemExtent \in [1..n -> Pos]
        /\ i.accDevProps.gridBlockExtentMax \in [1..n -> Pos]
        /\ i.accDevProps.blockThreadExtentMax \in [1..n -> Pos]
        /\ i.accDevProps.threadElemExtentMax \in [1..n -> Pos]
        /\ i.accDevProps.gridBlockCountMax \in Pos
        /\ i.accDevProps.blockThreadCountMax \in Pos
        /\ i.accDevProps.threadElemCountMax \in Pos
        /\ \A d \in 1..n :
             /\ i.gridElemExtent[d] <= i.accDevProps.gridBlockExtentMax[d]
             /\ i.accDevProps.blockThreadExtentMax[d] <= i.accDevProps.threadElemExtentMax[d]
        /\ prod(i.gridElemExtent) <= i.accDevProps.gridBlockCountMax
        /\ i.accDevProps.blockThreadCountMax <= i.accDevProps.threadElemCountMax
  BY InputFacts
<1>2. PICK e, gx, bx, tx, gc, bc, tc, g, b :
        /\ e = i.gridElemExtent /\ gx = i.accDevProps.gridBlockExtentMax
        /\ bx = i.accDevProps.blockThreadExtentMax /\ tx = i.accDevProps.threadElemExtentMax
        /\ gc = i.accDevProps.gridBlockCountMax /\ bc = i.accDevProps.blockThreadCountMax
        /\ tc = i.accDevProps.threadElemCountMax
        /\ g = wd.gridBlockExtent /\ b = wd.blockThreadExtent
  OBVIOUS
<1>3. /\ e \in [1..n -> Pos] /\ gx \in [1..n -> Pos] /\ bx \in [1..n -> Pos] /\ tx \in [1..n -> Pos]
      /\ gc \in Nat /\ bc \in Nat /\ tc \in Nat
      /\ \A d \in 1..n : e[d] <= gx[d] /\ bx[d] <= tx[d]
      /\ prod(e) <= gc /\ bc <= tc
  BY <1>1, <1>2 DEF Pos
<1>4. /\ g \in [1..n -> Pos] /\ b \in [1..n -> Pos]
      /\ \A d \in 1..n : g[d] <= e[d] /\ b[d] <= bx[d]
      /\ prod(b) <= bc
  BY <1>1, <1>2 DEF Divided
<1>5. n \in Nat
  BY DEF Pos
<1>6. prod(g) <= gc
  <2>1. prod(g) <= prod(e)
    BY <1>3, <1>4, <1>5, ProdGrows
  <2>2. prod(g) \in Nat /\ prod(e) \in Nat
    BY <1>3, <1>4, <1>5, HyperPlanes DEF Pos
  <2>3. QED
    BY <1>3, <2>1, <2>2
<1>7. prod(b) <= tc
  <2>1. prod(b) \in Nat
    BY <1>4, <1>5, HyperPlanes DEF Pos
  <2>2. QED
    BY <1>3, <1>4, <2>1
<1>8. ASSUME NEW d \in 1..n
      PROVE  1 <= g[d] /\ g[d] <= gx[d] /\ 1 <= b[d] /\ b[d] <= bx[d] /\ b[d] <= tx[d]
  <2>1. /\ g[d] \in Nat /\ b[d] \in Nat /\ e[d] \in Nat /\ gx[d] \in Nat /\ bx[d] \in Nat /\ tx[d] \in Nat
        /\ g[d] # 0 /\ b[d] # 0
    BY <1>3, <1>4 DEF Pos
  <2>2. g[d] <= e[d] /\ e[d] <= gx[d] /\ b[d] <= bx[d] /\ bx[d] <= tx[d]
    BY <1>3, <1>4
  <2>3. QED
    BY <2>1, <2>2
<1>9. DOMAIN g = 1..n /\ DOMAIN b = 1..n
  BY <1>4
<1>10. QED
  BY <1>2, <1>4, <1>6, <1>7, <1>8, <1>9 DEF isValidWorkDiv

\* getValidWorkDiv returns divisions within all limits that cover the grid and meet
\* the requirements, for grids of any extents, any number of dimensions and any
\* device; only equal extents that must divide the grid are left out.
THEOREM WorkDivIsValid == ~Required => (Spec => []ValidWorkDiv)
<1>0. SUFFICES ASSUME ~Required PROVE Spec => []ValidWorkDiv
  OBVIOUS
<1>1. DivInv => ValidWorkDiv
  <2>0. HAVE DivInv
  <2>1. SUFFICES ASSUME pc # "divide", ~(in.requireDivide /\ in.restrictions = EqualExtent)
                 PROVE  ValidWorkDiv
    BY <1>0 DEF ValidWorkDiv, Claimed
  <2>2. PICK i, wd : i \in Inputs /\ i = in /\ wd = workDiv /\ Divided(i, wd)
    BY <2>0, <2>1 DEF DivInv
  <2>3. isValidWorkDiv(i.accDevProps, wd)
    BY <2>1, <2>2, DividedIsValid
  <2>4. PICK n \in Pos : n = Len(i.gridElemExtent) /\ i.gridElemExtent \in [1..n -> Pos]
                         /\ i.threadElemExtent \in [1..n -> Pos]
    BY <2>2, InputFacts
  <2>5. PICK e, t, m, g, b : /\ e = i.gridElemExtent /\ t = i.threadElemExtent
                             /\ m = wd.threadElemExtent /\ g = wd.gridBlockExtent
                             /\ b = wd.blockThreadExtent
    OBVIOUS
  <2>6. /\ m \in [1..n -> Pos] /\ b \in [1..n -> Pos] /\ e \in [1..n -> Pos] /\ t \in [1..n -> Pos]
        /\ \A d \in 1..n : /\ m[d] <= t[d] /\ g[d] * b[d] >= ceilDiv(e[d], m[d])
                           /\ (g[d] - 1) * b[d] < ceilDiv(e[d], m[d])
                           /\ i.requireDivide => ceilDiv(e[d], m[d]) % b[d] = 0
                           /\ i.restrictions = EqualExtent => b[d] = b[1]
    BY <2>1, <2>2, <2>4, <2>5 DEF Divided
  <2>7. \A d \in 1..n : m[d] \in 1..t[d]
    <3>1. SUFFICES ASSUME NEW d \in 1..n PROVE m[d] \in 1..t[d]
      OBVIOUS
    <3>2. m[d] \in Nat /\ m[d] # 0 /\ t[d] \in Nat /\ m[d] <= t[d]
      BY <2>6 DEF Pos
    <3>3. QED
      BY <3>2
  <2>8. PICK q : q = [d \in 1..n |-> ceilDiv(e[d], m[d])]
    OBVIOUS
  <2>9. Map2(ceilDiv, e, m) = q
    BY <2>6, <2>8 DEF Map2
  <2>10. DOMAIN b = 1..n /\ \A d \in 1..n : q[d] = ceilDiv(e[d], m[d])
    BY <2>6, <2>8
  <2>11. \A d \in 1..n : /\ m[d] \in 1..t[d] /\ g[d] * b[d] >= q[d] /\ (g[d] - 1) * b[d] < q[d]
                         /\ i.requireDivide => q[d] % b[d] = 0
                         /\ i.restrictions = EqualExtent => b[d] = b[1]
    BY <2>6, <2>7, <2>10
  <2>12. QED
    BY <2>2, <2>3, <2>5, <2>9, <2>10, <2>11 DEF ValidWorkDiv
<1>2. QED
  BY <1>1, DivInvHolds, PTL

-----------------------------------------------------------------------------
(* Every element is computed once                                          *)

\* The block and the thread that an element falls to.
blockOf(e) == [d \in DOMAIN e |-> (e[d] \div workDiv.threadElemExtent[d]) \div workDiv.blockThreadExtent[d]]
threadOf(e) == [d \in DOMAIN e |-> (e[d] \div workDiv.threadElemExtent[d]) % workDiv.blockThreadExtent[d]]

\* The block that the threads of a worker take themselves to be in.
blockIn(w) == gridBlockIdx[accOf(w)]

\* The block of an element has not been taken, or its thread has not run.
Waiting(e) ==
  \/ \E p \in todo : blockAt(p) = blockOf(e)
  \/ \E w \in Workers : /\ busy[w] /\ blockIn(w) = blockOf(e)
                        /\ \E j \in left[w] : blockThreadIdx(j) = threadOf(e)

\* While the kernel runs, a worker is in a block of its own that is not in the loop
\* any more, and exactly the elements that do not wait have been computed, once.
RunInv ==
  /\ in.acc \in SingleThreadBlocks => blockThreadCount = 1
  /\ todo \subseteq blockLoop
  /\ \A w \in Workers : busy[w] => /\ left[w] \subseteq threadLoop
                                   /\ blockIn(w) \in IndexSet(workDiv.gridBlockExtent)
                                   /\ \A p \in todo : blockAt(p) # blockIn(w)
  /\ \A w, u \in Workers : busy[w] /\ busy[u] /\ w # u =>
       in.acc \in ParallelBlocks /\ blockIn(w) # blockIn(u)
  /\ \A e \in DOMAIN visits : visits[e] = IF Waiting(e) THEN 0 ELSE 1

ExecInv ==
  /\ visits \in [IndexSet(in.gridElemExtent) -> Nat]
  /\ busy \in [Workers -> BOOLEAN] /\ DOMAIN left = Workers /\ DOMAIN gridBlockIdx = Workers
  /\ pc \in {"divide", "launch", "thrown"} =>
       /\ todo = {} /\ \A w \in Workers : ~busy[w]
       /\ \A e \in DOMAIN visits : visits[e] = 0
  /\ pc = "done" => todo = {} /\ \A w \in Workers : ~busy[w]
  /\ pc \in {"run", "done"} => RunInv

\* In one dimension, an element is among those of a thread if and only if the
\* quotients lead to that thread.
LEMMA OwnerOfElement ==
  ASSUME NEW x \in Nat, NEW m \in Pos, NEW b \in Pos, NEW B \in Nat, NEW T \in Nat, T < b
  PROVE  ((B * b + T) * m <= x /\ x < (B * b + T) * m + m)
           <=> ((x \div m) \div b = B /\ (x \div m) % b = T)
<1>0. m \in Nat /\ b \in Nat /\ m > 0 /\ b > 0
  BY DEF Pos
<1>1. PICK y \in Nat, r \in 0..(m - 1) : y = x \div m /\ x = m * y + r
  BY DivMod
<1>2. PICK z \in Nat : z = B * b + T
  BY <1>0
<1>3. (z * m <= x /\ x < z * m + m) <=> y = z
  <2>1. z * m = m * z /\ m * z \in Nat /\ m * y \in Nat /\ r \in Nat
    BY <1>0
  <2>2. x = m * y + r
    BY <1>1
  <2>3. ASSUME z * m <= x, x < z * m + m PROVE y = z
    <3>1. PICK s \in 0..(m - 1) : x = m * z + s
      <4>1. x - m * z \in 0..(m - 1) /\ x = m * z + (x - m * z)
        BY <1>0, <2>1, <2>3
      <4>2. QED
        BY <4>1
    <3>2. m * y + r = m * z + s
      BY <2>2, <3>1
    <3>3. QED
      BY <3>2, DivModUnique
  <2>4. ASSUME y = z PROVE z * m <= x /\ x < z * m + m
    BY <1>0, <2>1, <2>2, <2>4
  <2>5. QED
    BY <2>3, <2>4
<1>4. y = z <=> (y \div b = B /\ y % b = T)
  <2>1. B * b = b * B /\ b * B \in Nat /\ T \in 0..(b - 1)
    BY <1>0
  <2>2. z = b * B + T
    BY <1>2, <2>1
  <2>3. ASSUME y = z PROVE y \div b = B /\ y % b = T
    <3>1. y = b * B + T
      BY <2>2, <2>3
    <3>2. QED
      BY <2>1, <3>1, Quotient
  <2>4. ASSUME y \div b = B, y % b = T PROVE y = z
    <3>1. y = b * (y \div b) + (y % b)
      BY DivMod
    <3>2. QED
      BY <2>2, <2>4, <3>1
  <2>5. QED
    BY <2>3, <2>4
<1>5. QED
  BY <1>1, <1>2, <1>3, <1>4

\* In one dimension, every element falls to one of the blocks.
LEMMA BlockOfElement ==
  ASSUME NEW x \in Nat, NEW e \in Pos, NEW m \in Pos, NEW b \in Pos, NEW g \in Pos, x < e,
         g * b >= ceilDiv(e, m)
  PROVE  /\ (x \div m) \div b \in Nat /\ (x \div m) \div b < g
         /\ (x \div m) % b \in Nat /\ (x \div m) % b < b
<1>0. m \in Nat /\ b \in Nat /\ e \in Nat /\ g \in Nat
  BY DEF Pos
<1>1. PICK c \in Pos : c = ceilDiv(e, m) /\ c * m >= e
  BY CeilDiv
<1>2. c \in Nat /\ c * m \in Nat /\ c * m = m * c
  BY <1>0 DEF Pos
<1>3. PICK y \in Nat : y = x \div m
  BY DivMod
<1>4. y < c
  <2>1. x < m * c
    BY <1>0, <1>1, <1>2
  <2>2. QED
    BY <1>3, <2>1, QuotientBound
<1>5. y < b * g
  <2>1. g * b = b * g /\ g * b \in Nat
    BY <1>0
  <2>2. QED
    BY <1>1, <1>2, <1>4, <2>1
<1>6. y \div b < g
  BY <1>5, QuotientBound
<1>7. y \div b \in Nat /\ y % b \in Nat /\ y % b \in 0..(b - 1)
  BY DivMod
<1>8. y \div b \in Nat /\ y \div b < g /\ y % b \in Nat /\ y % b < b
  <2>1. PICK s \in 0..(b - 1) : s = y % b
    BY <1>7
  <2>2. s \in Nat /\ s < b
    BY <1>0
  <2>3. QED
    BY <1>6, <1>7, <2>1, <2>2
<1>9. QED
  BY <1>3, <1>8

\* The loops over the blocks and the threads visit every index once.
LEMMA Loops ==
  ASSUME DivInv, pc # "divide", in.acc \in SingleThreadBlocks => blockThreadCount = 1
  PROVE  /\ \A p \in blockLoop : blockAt(p) \in IndexSet(workDiv.gridBlockExtent)
         /\ \A x \in IndexSet(workDiv.gridBlockExtent) : \E p \in blockLoop : blockAt(p) = x
         /\ \A p, q \in blockLoop : blockAt(p) = blockAt(q) => p = q
         /\ \A j \in threadLoop : blockThreadIdx(j) \in IndexSet(workDiv.blockThreadExtent)
         /\ \A x \in IndexSet(workDiv.blockThreadExtent) : \E j \in threadLoop : blockThreadIdx(j) = x
         /\ \A j, k \in threadLoop : blockThreadIdx(j) = blockThreadIdx(k) => j = k
<1>1. PICK n \in Pos : n = Len(in.gridElemExtent)
  BY InputFacts DEF DivInv
<1>2. PICK g \in [1..n -> Pos], b \in [1..n -> Pos] :
        g = workDiv.gridBlockExtent /\ b = workDiv.blockThreadExtent
  BY <1>1 DEF DivInv, Divided
<1>3. /\ \A p \in 0..(prod(g) - 1) : mapIdx(p, g) \in IndexSet(g)
      /\ \A x \in IndexSet(g) : \E p \in 0..(prod(g) - 1) : mapIdx(p, g) = x
      /\ \A p, q \in 0..(prod(g) - 1) : mapIdx(p, g) = mapIdx(q, g) => p = q
  BY MapIdxIsOneToOne
<1>4. /\ \A p \in 0..(prod(b) - 1) : mapIdx(p, b) \in IndexSet(b)
      /\ \A x \in IndexSet(b) : \E p \in 0..(prod(b) - 1) : mapIdx(p, b) = x
      /\ \A p, q \in 0..(prod(b) - 1) : mapIdx(p, b) = mapIdx(q, b) => p = q
  BY MapIdxIsOneToOne
<1>5. /\ \A p \in blockLoop : blockAt(p) \in IndexSet(g)
      /\ \A x \in IndexSet(g) : \E p \in blockLoop : blockAt(p) = x
      /\ \A p, q \in blockLoop : blockAt(p) = blockAt(q) => p = q
  <2>1. CASE in.acc \in ParallelBlocks
    <3>1. blockLoop = 0..(prod(g) - 1) /\ \A p : blockAt(p) = mapIdx(p, g)
      BY <1>2, <2>1 DEF blockLoop, blockAt, numBlocksInGrid
    <3>2. QED
      BY <1>3, <3>1
  <2>2. CASE in.acc \notin ParallelBlocks
    <3>1. blockLoop = IndexSet(g) /\ \A p : blockAt(p) = p
      BY <1>2, <2>2 DEF blockLoop, blockAt
    <3>2. QED
      BY <3>1
  <2>3. QED
    BY <2>1, <2>2
<1>6. /\ \A j \in threadLoop : blockThreadIdx(j) \in IndexSet(b)
      /\ \A x \in IndexSet(b) : \E j \in threadLoop : blockThreadIdx(j) = x
      /\ \A j, k \in threadLoop : blockThreadIdx(j) = blockThreadIdx(k) => j = k
  <2>1. CASE in.acc = "Omp2Threads"
    <3>1. threadLoop = 0..(prod(b) - 1) /\ \A p : blockThreadIdx(p) = mapIdx(p, b)
      BY <1>2, <2>1 DEF threadLoop, blockThreadIdx, blockThreadCount
    <3>2. QED
      BY <1>4, <3>1
  <2>2. CASE in.acc = "Fibers"
    <3>1. threadLoop = IndexSet(b) /\ \A p : blockThreadIdx(p) = p
      BY <1>2, <2>2 DEF threadLoop, blockThreadIdx
    <3>2. QED
      BY <3>1
  <2>3. CASE in.acc \in SingleThreadBlocks
    <3>1. prod(b) = 1
      BY <1>2, <2>3 DEF blockThreadCount
    <3>2. threadLoop = {0} /\ \A p : blockThreadIdx(p) = [d \in 1..n |-> 0]
      <4>1. in.acc # "Omp2Threads" /\ in.acc # "Fibers"
        BY <2>3 DEF SingleThreadBlocks
      <4>2. threadLoop = 0..(1 - 1)
        BY <1>2, <3>1, <4>1 DEF threadLoop, blockThreadCount
      <4>3. 0..(1 - 1) = {0}
        OBVIOUS
      <4>4. \A p : blockThreadIdx(p) = [d \in 1..n |-> 0]
        BY <1>2, <4>1 DEF blockThreadIdx
      <4>5. QED
        BY <4>2, <4>3, <4>4
    <3>3. \A d \in 1..n : b[d] = 1
      <4>1. SUFFICES ASSUME NEW d \in 1..n PROVE b[d] = 1
        OBVIOUS
      <4>2. b[d] <= 1 /\ b[d] \in Pos
        BY <3>1, ComponentBound DEF Pos
      <4>3. QED
        BY <4>2 DEF Pos
    <3>4. IndexSet(b) = {[d \in 1..n |-> 0]}
      <4>0. IndexSet(b) = {w \in [1..n -> Nat] : \A d \in 1..n : w[d] < b[d]}
        BY Indices
      <4>1. IndexSet(b) = {w \in [1..n -> Nat] : \A d \in 1..n : w[d] < 1}
        BY <3>3, <4>0
      <4>2. \A w \in [1..n -> Nat] : (\A d \in 1..n : w[d] < 1) => w = [d \in 1..n |-> 0]
        OBVIOUS
      <4>3. [d \in 1..n |-> 0] \in [1..n -> Nat] /\ \A d \in 1..n : [f \in 1..n |-> 0][d] < 1
        OBVIOUS
      <4>4. QED
        BY <4>1, <4>2, <4>3
    <3>5. QED
      BY <3>2, <3>4
  <2>4. in.acc \in Accs
    BY InputsAssumption DEF DivInv
  <2>5. QED
    BY <2>1, <2>2, <2>3, <2>4 DEF Accs
<1>7. QED
  BY <1>2, <1>5, <1>6

\* Indices with the same components are the same.
LEMMA SameVector ==
  ASSUME NEW n, NEW v \in [1..n -> Nat], NEW w \in [1..n -> Nat], \A d \in 1..n : v[d] = w[d]
  PROVE  v = w
<1>1. v = [d \in 1..n |-> v[d]] /\ w = [d \in 1..n |-> w[d]]
  OBVIOUS
<1>2. [d \in 1..n |-> v[d]] = [d \in 1..n |-> w[d]]
  OBVIOUS
<1>3. QED
  BY <1>1, <1>2

\* An element falls to a block and a thread there are, and is among the elements of
\* that thread in that block and of no other one.
LEMMA ElementsOf ==
  ASSUME DivInv, pc # "divide", visits \in [IndexSet(in.gridElemExtent) -> Nat], NEW e \in DOMAIN visits
  PROVE  /\ blockOf(e) \in IndexSet(workDiv.gridBlockExtent)
         /\ threadOf(e) \in IndexSet(workDiv.blockThreadExtent)
         /\ \A B \in IndexSet(workDiv.gridBlockExtent) :
              \A j : blockThreadIdx(j) \in IndexSet(workDiv.blockThreadExtent) =>
                (e \in elements(B, j) <=> blockOf(e) = B /\ threadOf(e) = blockThreadIdx(j))
<1>1. PICK n \in Pos : n = Len(in.gridElemExtent) /\ in.gridElemExtent \in [1..n -> Pos]
  BY InputFacts DEF DivInv
<1>2. PICK x \in [1..n -> Pos], m \in [1..n -> Pos], g \in [1..n -> Pos], b \in [1..n -> Pos] :
        /\ x = in.gridElemExtent /\ m = workDiv.threadElemExtent
        /\ g = workDiv.gridBlockExtent /\ b = workDiv.blockThreadExtent
        /\ \A d \in 1..n : g[d] * b[d] >= ceilDiv(x[d], m[d])
  BY <1>1 DEF DivInv, Divided
<1>3. e \in [1..n -> Nat] /\ DOMAIN e = 1..n /\ \A d \in 1..n : e[d] < x[d]
  <2>1. e \in IndexSet(x)
    BY <1>2
  <2>2. IndexSet(x) = {w \in [1..n -> Nat] : \A d \in 1..n : w[d] < x[d]}
    BY Indices
  <2>3. QED
    BY <2>1, <2>2
<1>4. /\ IndexSet(g) = {w \in [1..n -> Nat] : \A d \in 1..n : w[d] < g[d]}
      /\ IndexSet(b) = {w \in [1..n -> Nat] : \A d \in 1..n : w[d] < b[d]}
  BY Indices
<1>5. PICK bo, th : /\ bo = [d \in 1..n |-> (e[d] \div m[d]) \div b[d]]
                    /\ th = [d \in 1..n |-> (e[d] \div m[d]) % b[d]]
  OBVIOUS
<1>6. blockOf(e) = bo /\ threadOf(e) = th
  BY <1>2, <1>3, <1>5 DEF blockOf, threadOf
<1>7. ASSUME NEW d \in 1..n PROVE bo[d] \in Nat /\ bo[d] < g[d] /\ th[d] \in Nat /\ th[d] < b[d]
  <2>1. /\ e[d] \in Nat /\ x[d] \in Pos /\ m[d] \in Pos /\ b[d] \in Pos /\ g[d] \in Pos
        /\ e[d] < x[d] /\ g[d] * b[d] >= ceilDiv(x[d], m[d])
    BY <1>2, <1>3
  <2>2. /\ (e[d] \div m[d]) \div b[d] \in Nat /\ (e[d] \div m[d]) \div b[d] < g[d]
        /\ (e[d] \div m[d]) % b[d] \in Nat /\ (e[d] \div m[d]) % b[d] < b[d]
    BY <2>1, BlockOfElement
  <2>3. bo[d] = (e[d] \div m[d]) \div b[d] /\ th[d] = (e[d] \div m[d]) % b[d]
    BY <1>5
  <2>4. QED
    BY <2>2, <2>3
<1>8. bo \in [1..n -> Nat] /\ th \in [1..n -> Nat]
  BY <1>5, <1>7
<1>9. bo \in IndexSet(g) /\ th \in IndexSet(b)
  BY <1>4, <1>7, <1>8
<1>10. ASSUME NEW B \in IndexSet(g), NEW j, blockThreadIdx(j) \in IndexSet(b)
       PROVE  e \in elements(B, j) <=> bo = B /\ th = blockThreadIdx(j)
  <2>1. PICK t : t = blockThreadIdx(j)
    OBVIOUS
  <2>2. /\ B \in [1..n -> Nat] /\ t \in [1..n -> Nat] /\ DOMAIN B = 1..n
        /\ \A d \in 1..n : t[d] < b[d]
    BY <1>4, <1>10, <2>1
  <2>3. PICK first : first = [d \in 1..n |-> (B[d] * b[d] + t[d]) * m[d]]
    OBVIOUS
  <2>4. elements(B, j) = {f \in DOMAIN visits : \A d \in DOMAIN f : first[d] <= f[d] /\ f[d] < first[d] + m[d]}
    BY <1>2, <2>1, <2>2, <2>3 DEF elements
  <2>5. e \in elements(B, j) <=> \A d \in 1..n : first[d] <= e[d] /\ e[d] < first[d] + m[d]
    BY <1>3, <2>4
  <2>6. ASSUME NEW d \in 1..n
        PROVE  (first[d] <= e[d] /\ e[d] < first[d] + m[d]) <=> (bo[d] = B[d] /\ th[d] = t[d])
    <3>1. /\ e[d] \in Nat /\ m[d] \in Pos /\ b[d] \in Pos /\ B[d] \in Nat /\ t[d] \in Nat
          /\ t[d] < b[d]
      BY <1>3, <2>2
    <3>2. /\ first[d] = (B[d] * b[d] + t[d]) * m[d]
          /\ bo[d] = (e[d] \div m[d]) \div b[d] /\ th[d] = (e[d] \div m[d]) % b[d]
      BY <1>5, <2>3
    <3>3. ((B[d] * b[d] + t[d]) * m[d] <= e[d] /\ e[d] < (B[d] * b[d] + t[d]) * m[d] + m[d])
            <=> ((e[d] \div m[d]) \div b[d] = B[d] /\ (e[d] \div m[d]) % b[d] = t[d])
      BY <3>1, OwnerOfElement
    <3>4. QED
      BY <3>2, <3>3
  <2>7. (\A d \in 1..n : bo[d] = B[d] /\ th[d] = t[d]) <=> (bo = B /\ th = t)
    <3>1. ASSUME \A d \in 1..n : bo[d] = B[d] PROVE bo = B
      BY <1>8, <2>2, <3>1, SameVector
    <3>2. ASSUME \A d \in 1..n : th[d] = t[d] PROVE th = t
      BY <1>8, <2>2, <3>2, SameVector
    <3>3. QED
      BY <3>1, <3>2
  <2>8. QED
    BY <2>1, <2>5, <2>6, <2>7
<1>11. QED
  BY <1>2, <1>6, <1>9, <1>10

\* What follows from the kernel and its division alone does not change with a step
\* that leaves both alone.
LEMMA SameDivision ==
  ASSUME in' = in, workDiv' = workDiv
  PROVE  /\ blockLoop' = blockLoop /\ threadLoop' = threadLoop
         /\ blockThreadCount' = blockThreadCount
         /\ \A p : blockAt(p)' = blockAt(p)
         /\ \A j : blockThreadIdx(j)' = blockThreadIdx(j)
         /\ \A w : accOf(w)' = accOf(w)
         /\ \A e : blockOf(e)' = blockOf(e)
         /\ \A e : threadOf(e)' = threadOf(e)
<1>1. numBlocksInGrid' = numBlocksInGrid /\ blockThreadCount' = blockThreadCount
  BY DEF numBlocksInGrid, blockThreadCount
<1>2. blockLoop' = blockLoop /\ threadLoop' = threadLoop
  BY <1>1 DEF blockLoop, threadLoop
<1>3. \A p : blockAt(p)' = blockAt(p)
  BY DEF blockAt
<1>4. \A j : blockThreadIdx(j)' = blockThreadIdx(j)
  BY DEF blockThreadIdx
<1>5. \A w : accOf(w)' = accOf(w)
  BY DEF accOf
<1>6. \A e : blockOf(e)' = blockOf(e)
  BY DEF blockOf
<1>7. \A e : threadOf(e)' = threadOf(e)
  BY DEF threadOf
<1>8. QED
  BY <1>1, <1>2, <1>3, <1>4, <1>5, <1>6, <1>7

\* Workers have accelerators of their own in parallel regions, and there is one
\* accelerator otherwise.
LEMMA Accelerators ==
  ASSUME NEW w \in Workers
  PROVE  /\ accOf(w) \in Workers
         /\ in.acc \in ParallelBlocks => accOf(w) = w
  BY InputsAssumption DEF accOf

\* The invariant before the first step.
LEMMA InitExec == Init => ExecInv
<1> SUFFICES ASSUME Init PROVE ExecInv
  OBVIOUS
<1>1. visits = [e \in IndexSet(in.gridElemExtent) |-> 0] /\ pc = "divide" /\ todo = {}
  BY DEF Init
<1>2. visits \in [IndexSet(in.gridElemExtent) -> Nat] /\ \A e \in DOMAIN visits : visits[e] = 0
  BY <1>1
<1>3. /\ busy = [w \in Workers |-> FALSE] /\ left = [w \in Workers |-> {}]
      /\ gridBlockIdx = [w \in Workers |-> <<>>]
  BY DEF Init
<1>4. busy \in [Workers -> BOOLEAN] /\ (\A w \in Workers : ~busy[w])
  BY <1>3
<1>5. QED
  BY <1>1, <1>2, <1>3, <1>4 DEF ExecInv

\* Nothing runs, so that RunInv cannot be disturbed, where these are unchanged.
LEMMA SameRun ==
  ASSUME in' = in, workDiv' = workDiv, todo' = todo, busy' = busy, left' = left,
         gridBlockIdx' = gridBlockIdx, visits' = visits, RunInv
  PROVE  RunInv'
<1>1. /\ blockLoop' = blockLoop /\ threadLoop' = threadLoop
      /\ blockThreadCount' = blockThreadCount
      /\ \A p : blockAt(p)' = blockAt(p)
      /\ \A j : blockThreadIdx(j)' = blockThreadIdx(j)
      /\ \A w : accOf(w)' = accOf(w)
      /\ \A e : blockOf(e)' = blockOf(e)
      /\ \A e : threadOf(e)' = threadOf(e)
  BY SameDivision
<1>2. \A w : blockIn(w)' = blockIn(w)
  BY <1>1 DEF blockIn
<1>3. \A e : Waiting(e)' <=> Waiting(e)
  BY <1>1, <1>2 DEF Waiting
<1>4. QED
  BY <1>1, <1>2, <1>3 DEF RunInv

\* The host's steps, up to the launch and after the last block.
LEMMA HostExec ==
  ASSUME DivInv, ExecInv, GetValidWorkDiv \/ Return \/ UNCHANGED vars
  PROVE  ExecInv'
<1>1. CASE GetValidWorkDiv
  <2>1. /\ in' = in /\ todo' = todo /\ busy' = busy /\ left' = left /\ gridBlockIdx' = gridBlockIdx
        /\ visits' = visits /\ pc = "divide" /\ pc' = "launch"
    BY <1>1 DEF GetValidWorkDiv
  <2>2. QED
    BY <2>1 DEF ExecInv
<1>2. CASE Return
  <2>1. /\ in' = in /\ workDiv' = workDiv /\ todo' = todo /\ busy' = busy /\ left' = left
        /\ gridBlockIdx' = gridBlockIdx /\ visits' = visits /\ pc = "run" /\ pc' = "done"
        /\ todo = {} /\ \A w \in Workers : ~busy[w]
    BY <1>2 DEF Return
  <2>2. RunInv'
    BY <2>1, SameRun DEF ExecInv
  <2>3. QED
    BY <2>1, <2>2 DEF ExecInv
<1>3. CASE UNCHANGED vars
  <2>1. /\ in' = in /\ workDiv' = workDiv /\ todo' = todo /\ busy' = busy /\ left' = left
        /\ gridBlockIdx' = gridBlockIdx /\ visits' = visits /\ pc' = pc
    BY <1>3 DEF vars
  <2>2. pc \in {"run", "done"} => RunInv'
    BY <2>1, SameRun DEF ExecInv
  <2>3. QED
    BY <2>1, <2>2 DEF ExecInv
<1>4. QED
  BY <1>1, <1>2, <1>3

\* The launch puts the whole grid into the loop: all elements wait.
LEMMA LaunchExec ==
  ASSUME DivInv, ExecInv, Launch
  PROVE  ExecInv'
<1>1. /\ in' = in /\ workDiv' = workDiv /\ busy' = busy /\ left' = left /\ gridBlockIdx' = gridBlockIdx
      /\ visits' = visits /\ pc = "launch"
  BY DEF Launch
<1>2. /\ todo = {} /\ (\A w \in Workers : ~busy[w]) /\ (\A e \in DOMAIN visits : visits[e] = 0)
      /\ visits \in [IndexSet(in.gridElemExtent) -> Nat]
  BY <1>1 DEF ExecInv
<1>3. CASE pc' = "thrown" /\ todo' = todo
  BY <1>1, <1>2, <1>3 DEF ExecInv
<1>4. CASE pc' = "run" /\ todo' = blockLoop /\ ~(in.acc \in SingleThreadBlocks /\ blockThreadCount # 1)
  <2>1. /\ blockLoop' = blockLoop /\ threadLoop' = threadLoop
        /\ blockThreadCount' = blockThreadCount
        /\ \A p : blockAt(p)' = blockAt(p)
        /\ \A e : blockOf(e)' = blockOf(e)
    BY <1>1, SameDivision
  <2>2. ASSUME NEW e \in DOMAIN visits PROVE Waiting(e)'
    <3>1. blockOf(e) \in IndexSet(workDiv.gridBlockExtent)
      BY <1>1, <1>2, ElementsOf
    <3>2. \E p \in blockLoop : blockAt(p) = blockOf(e)
      BY <1>1, <1>4, <3>1, Loops
    <3>3. QED
      BY <1>4, <2>1, <3>2 DEF Waiting
  <2>3. RunInv'
    BY <1>1, <1>2, <1>4, <2>1, <2>2 DEF RunInv
  <2>4. QED
    BY <1>1, <1>2, <1>4, <2>3 DEF ExecInv
<1>5. QED
  BY <1>3, <1>4 DEF Launch

\* What holds while the kernel runs, with the facts about its loops.
LEMMA Running ==
  ASSUME DivInv, ExecInv, pc = "run" \/ \E w \in Workers : busy[w]
  PROVE  /\ pc = "run" /\ RunInv
         /\ \A p \in blockLoop : blockAt(p) \in IndexSet(workDiv.gridBlockExtent)
         /\ \A p, q \in blockLoop : blockAt(p) = blockAt(q) => p = q
         /\ \A j \in threadLoop : blockThreadIdx(j) \in IndexSet(workDiv.blockThreadExtent)
         /\ \A x \in IndexSet(workDiv.blockThreadExtent) : \E j \in threadLoop : blockThreadIdx(j) = x
         /\ \A j, k \in threadLoop : blockThreadIdx(j) = blockThreadIdx(k) => j = k
<1>1. pc = "run"
  BY DEF ExecInv, DivInv
<1>2. RunInv
  BY <1>1 DEF ExecInv
<1>3. in.acc \in SingleThreadBlocks => blockThreadCount = 1
  BY <1>2 DEF RunInv
<1>4. QED
  BY <1>1, <1>2, <1>3, Loops

\* Taking a block out of the loop moves what waits for it to the worker.
LEMMA TakeBlockExec ==
  ASSUME DivInv, ExecInv, NEW w \in Workers, NEW p \in todo, TakeBlock(w, p)
  PROVE  ExecInv'
<1>1. /\ in' = in /\ workDiv' = workDiv /\ pc' = pc /\ visits' = visits /\ pc = "run" /\ ~busy[w]
      /\ todo' = todo \ {p} /\ busy' = [busy EXCEPT ![w] = TRUE]
      /\ left' = [left EXCEPT ![w] = threadLoop]
      /\ gridBlockIdx' = [gridBlockIdx EXCEPT ![accOf(w)] = blockAt(p)]
      /\ MayTake(w, p)
  BY DEF TakeBlock
<1>2. /\ RunInv
      /\ \A q \in blockLoop : blockAt(q) \in IndexSet(workDiv.gridBlockExtent)
      /\ \A q, r \in blockLoop : blockAt(q) = blockAt(r) => q = r
      /\ \A x \in IndexSet(workDiv.blockThreadExtent) : \E j \in threadLoop : blockThreadIdx(j) = x
  BY <1>1, Running
<1>3. /\ blockLoop' = blockLoop /\ threadLoop' = threadLoop
      /\ blockThreadCount' = blockThreadCount
      /\ \A q : blockAt(q)' = blockAt(q)
      /\ \A j : blockThreadIdx(j)' = blockThreadIdx(j)
      /\ \A u : accOf(u)' = accOf(u)
      /\ \A e : blockOf(e)' = blockOf(e)
      /\ \A e : threadOf(e)' = threadOf(e)
  BY <1>1, SameDivision
<1>4. /\ visits \in [IndexSet(in.gridElemExtent) -> Nat] /\ busy \in [Workers -> BOOLEAN]
      /\ DOMAIN left = Workers /\ DOMAIN gridBlockIdx = Workers
  BY DEF ExecInv
<1>5. /\ \A u \in Workers : busy'[u] <=> u = w \/ busy[u]
      /\ left'[w] = threadLoop /\ \A u \in Workers \ {w} : left'[u] = left[u]
      /\ busy' \in [Workers -> BOOLEAN] /\ DOMAIN left' = Workers /\ DOMAIN gridBlockIdx' = Workers
  BY <1>1, <1>4
<1>6. blockIn(w)' = blockAt(p)
  <2>1. accOf(w) \in Workers
    BY Accelerators
  <2>2. gridBlockIdx'[accOf(w)] = blockAt(p)
    BY <1>1, <1>4, <2>1
  <2>3. QED
    BY <1>3, <2>2 DEF blockIn
<1>7. ASSUME NEW u \in Workers, u # w, busy[u]
      PROVE  in.acc \in ParallelBlocks /\ blockIn(u)' = blockIn(u)
  <2>1. in.acc \in ParallelBlocks
    BY <1>1, <1>7 DEF MayTake
  <2>2. accOf(u) = u /\ accOf(w) = w
    BY <2>1, Accelerators
  <2>3. gridBlockIdx'[u] = gridBlockIdx[u]
    BY <1>1, <1>4, <1>7, <2>2
  <2>4. QED
    BY <1>3, <2>1, <2>2, <2>3 DEF blockIn
<1>8. p \in blockLoop /\ todo \subseteq blockLoop /\ \A q \in todo : q # p => blockAt(q) # blockAt(p)
  BY <1>2 DEF RunInv
<1>9. /\ \A u \in Workers : busy[u] => /\ left[u] \subseteq threadLoop
                                       /\ blockIn(u) \in IndexSet(workDiv.gridBlockExtent)
                                       /\ \A q \in todo : blockAt(q) # blockIn(u)
      /\ \A u, v \in Workers : busy[u] /\ busy[v] /\ u # v =>
           in.acc \in ParallelBlocks /\ blockIn(u) # blockIn(v)
  BY <1>2 DEF RunInv
<1>10. ASSUME NEW u \in Workers, busy'[u]
       PROVE  /\ left'[u] \subseteq threadLoop
              /\ blockIn(u)' \in IndexSet(workDiv.gridBlockExtent)
              /\ \A q \in todo' : blockAt(q) # blockIn(u)'
  <2>1. CASE u = w
    BY <1>1, <1>2, <1>5, <1>6, <1>8, <2>1
  <2>2. CASE u # w
    <3>1. busy[u]
      BY <1>5, <1>10, <2>2
    <3>2. blockIn(u)' = blockIn(u) /\ left'[u] = left[u]
      BY <1>5, <1>7, <2>2, <3>1
    <3>3. QED
      BY <1>1, <1>9, <3>1, <3>2
  <2>3. QED
    BY <2>1, <2>2
<1>11. ASSUME NEW u \in Workers, NEW v \in Workers, busy'[u], busy'[v], u # v
       PROVE  in.acc \in ParallelBlocks /\ blockIn(u)' # blockIn(v)'
  <2>1. CASE u = w
    <3>1. busy[v]
      BY <1>5, <1>11, <2>1
    <3>2. in.acc \in ParallelBlocks /\ blockIn(v)' = blockIn(v)
      BY <1>7, <1>11, <2>1, <3>1
    <3>3. blockAt(p) # blockIn(v)
      BY <1>9, <3>1
    <3>4. QED
      BY <1>6, <2>1, <3>2, <3>3
  <2>2. CASE v = w
    <3>1. busy[u]
      BY <1>5, <1>11, <2>2
    <3>2. in.acc \in ParallelBlocks /\ blockIn(u)' = blockIn(u)
      BY <1>7, <1>11, <2>2, <3>1
    <3>3. blockAt(p) # blockIn(u)
      BY <1>9, <3>1
    <3>4. QED
      BY <1>6, <2>2, <3>2, <3>3
  <2>3. CASE u # w /\ v # w
    <3>1. busy[u] /\ busy[v]
      BY <1>5, <1>11, <2>3
    <3>2. blockIn(u)' = blockIn(u) /\ blockIn(v)' = blockIn(v)
      BY <1>7, <2>3, <3>1
    <3>3. QED
      BY <1>9, <1>11, <3>1, <3>2
  <2>4. QED
    BY <2>1, <2>2, <2>3
<1>12. ASSUME NEW e \in DOMAIN visits PROVE Waiting(e)' <=> Waiting(e)
  <2>1. threadOf(e) \in IndexSet(workDiv.blockThreadExtent)
    BY <1>1, <1>4, ElementsOf
  <2>2. PICK i \in threadLoop : blockThreadIdx(i) = threadOf(e)
    BY <1>2, <2>1
  <2>3. Waiting(e)' <=>
          \/ \E q \in todo' : blockAt(q) = blockOf(e)
          \/ \E u \in Workers : /\ busy'[u] /\ blockIn(u)' = blockOf(e)
                                /\ \E j \in left'[u] : blockThreadIdx(j) = threadOf(e)
    BY <1>3 DEF Waiting
  <2>4. ASSUME NEW q \in todo, blockAt(q) = blockOf(e) PROVE Waiting(e)'
    <3>1. CASE q = p
      <4>1. busy'[w] /\ blockIn(w)' = blockOf(e) /\ i \in left'[w]
        BY <1>5, <1>6, <2>2, <2>4, <3>1
      <4>2. QED
        BY <2>2, <2>3, <4>1
    <3>2. CASE q # p
      BY <1>1, <2>3, <2>4, <3>2
    <3>3. QED
      BY <3>1, <3>2
  <2>5. ASSUME NEW u \in Workers, busy[u], blockIn(u) = blockOf(e),
               NEW j \in left[u], blockThreadIdx(j) = threadOf(e)
        PROVE  Waiting(e)'
    <3>1. u # w
      BY <1>1, <2>5
    <3>2. busy'[u] /\ blockIn(u)' = blockOf(e) /\ j \in left'[u]
      BY <1>5, <1>7, <2>5, <3>1
    <3>3. QED
      BY <2>3, <2>5, <3>2
  <2>6. ASSUME NEW q \in todo', blockAt(q) = blockOf(e) PROVE Waiting(e)
    BY <1>1, <2>6 DEF Waiting
  <2>7. ASSUME NEW u \in Workers, busy'[u], blockIn(u)' = blockOf(e),
               NEW j \in left'[u], blockThreadIdx(j) = threadOf(e)
        PROVE  Waiting(e)
    <3>1. CASE u = w
      BY <1>6, <2>7, <3>1 DEF Waiting
    <3>2. CASE u # w
      <4>1. busy[u]
        BY <1>5, <2>7, <3>2
      <4>2. blockIn(u) = blockOf(e) /\ j \in left[u]
        BY <1>5, <1>7, <2>7, <3>2, <4>1
      <4>3. QED
        BY <2>7, <4>1, <4>2 DEF Waiting
    <3>3. QED
      BY <3>1, <3>2
  <2>8. Waiting(e) => Waiting(e)'
    <3>1. SUFFICES ASSUME Waiting(e) PROVE Waiting(e)'
      OBVIOUS
    <3>2. QED
      BY <2>4, <2>5, <3>1 DEF Waiting
  <2>9. Waiting(e)' => Waiting(e)
    BY <2>3, <2>6, <2>7
  <2>10. QED
    BY <2>8, <2>9
<1>13. \A e \in DOMAIN visits' : visits'[e] = IF Waiting(e)' THEN 0 ELSE 1
  <2>1. \A e \in DOMAIN visits : visits[e] = IF Waiting(e) THEN 0 ELSE 1
    BY <1>2 DEF RunInv
  <2>2. QED
    BY <1>1, <1>12, <2>1
<1>14. in.acc \in SingleThreadBlocks => blockThreadCount = 1
  BY <1>2 DEF RunInv
<1>15. todo' \subseteq blockLoop
  BY <1>1, <1>8
<1>16. RunInv'
  BY <1>1, <1>3, <1>10, <1>11, <1>13, <1>14, <1>15 DEF RunInv
<1>17. QED
  BY <1>1, <1>4, <1>5, <1>16 DEF ExecInv

\* A thread that runs computes the elements that waited for it, and only those.
LEMMA RunThreadExec ==
  ASSUME DivInv, ExecInv, NEW w \in Workers, NEW j \in left[w], RunThread(w, j)
  PROVE  ExecInv'
<1>1. /\ in' = in /\ workDiv' = workDiv /\ pc' = pc /\ todo' = todo /\ busy' = busy
      /\ gridBlockIdx' = gridBlockIdx /\ busy[w]
      /\ left' = [left EXCEPT ![w] = left[w] \ {j}]
  BY DEF RunThread
<1>2. /\ pc = "run" /\ RunInv
      /\ \A i \in threadLoop : blockThreadIdx(i) \in IndexSet(workDiv.blockThreadExtent)
      /\ \A i, k \in threadLoop : blockThreadIdx(i) = blockThreadIdx(k) => i = k
  BY <1>1, Running
<1>3. /\ blockLoop' = blockLoop /\ threadLoop' = threadLoop
      /\ blockThreadCount' = blockThreadCount
      /\ \A q : blockAt(q)' = blockAt(q)
      /\ \A i : blockThreadIdx(i)' = blockThreadIdx(i)
      /\ \A u : accOf(u)' = accOf(u)
      /\ \A e : blockOf(e)' = blockOf(e)
      /\ \A e : threadOf(e)' = threadOf(e)
  BY <1>1, SameDivision
<1>4. \A u : blockIn(u)' = blockIn(u)
  BY <1>1, <1>3 DEF blockIn
<1>5. /\ visits \in [IndexSet(in.gridElemExtent) -> Nat] /\ busy \in [Workers -> BOOLEAN]
      /\ DOMAIN left = Workers /\ DOMAIN gridBlockIdx = Workers
  BY DEF ExecInv
<1>6. /\ left'[w] = left[w] \ {j} /\ (\A u \in Workers \ {w} : left'[u] = left[u])
      /\ DOMAIN left' = Workers
  BY <1>1, <1>5
<1>7. /\ \A u \in Workers : busy[u] => /\ left[u] \subseteq threadLoop
                                       /\ blockIn(u) \in IndexSet(workDiv.gridBlockExtent)
                                       /\ \A q \in todo : blockAt(q) # blockIn(u)
      /\ \A u, v \in Workers : busy[u] /\ busy[v] /\ u # v =>
           in.acc \in ParallelBlocks /\ blockIn(u) # blockIn(v)
      /\ \A e \in DOMAIN visits : visits[e] = IF Waiting(e) THEN 0 ELSE 1
  BY <1>2 DEF RunInv
<1>8. j \in threadLoop /\ left[w] \subseteq threadLoop /\ blockIn(w) \in IndexSet(workDiv.gridBlockExtent)
  BY <1>1, <1>7
<1>9. PICK E : E = elements(blockIn(w), j)
  OBVIOUS
<1>10. visits' = [e \in DOMAIN visits |-> IF e \in E THEN visits[e] + 1 ELSE visits[e]]
  BY <1>9 DEF RunThread, blockIn
<1>11. ASSUME NEW e \in DOMAIN visits
       PROVE  e \in E <=> blockOf(e) = blockIn(w) /\ threadOf(e) = blockThreadIdx(j)
  <2>1. \A B \in IndexSet(workDiv.gridBlockExtent) :
          \A i : blockThreadIdx(i) \in IndexSet(workDiv.blockThreadExtent) =>
            (e \in elements(B, i) <=> blockOf(e) = B /\ threadOf(e) = blockThreadIdx(i))
    BY <1>2, <1>5, ElementsOf
  <2>2. blockThreadIdx(j) \in IndexSet(workDiv.blockThreadExtent)
    BY <1>2, <1>8
  <2>3. QED
    BY <1>8, <1>9, <2>1, <2>2
<1>12. ASSUME NEW e
       PROVE  Waiting(e)' <=>
                \/ \E q \in todo : blockAt(q) = blockOf(e)
                \/ \E u \in Workers : /\ busy[u] /\ blockIn(u) = blockOf(e)
                                      /\ \E k \in left'[u] : blockThreadIdx(k) = threadOf(e)
  BY <1>1, <1>3, <1>4 DEF Waiting
<1>13. ASSUME NEW e \in DOMAIN visits, e \in E PROVE Waiting(e) /\ ~Waiting(e)'
  <2>1. blockOf(e) = blockIn(w) /\ threadOf(e) = blockThreadIdx(j)
    BY <1>11, <1>13
  <2>2. Waiting(e)
    BY <1>1, <2>1 DEF Waiting
  <2>3. ASSUME NEW q \in todo PROVE blockAt(q) # blockOf(e)
    BY <1>1, <1>7, <2>1
  <2>4. ASSUME NEW u \in Workers, busy[u], blockIn(u) = blockOf(e),
               NEW k \in left'[u], blockThreadIdx(k) = threadOf(e)
        PROVE  FALSE
    <3>1. u = w
      BY <1>1, <1>7, <2>1, <2>4
    <3>2. k \in left[w] /\ k # j
      BY <1>6, <2>4, <3>1
    <3>3. k \in threadLoop
      BY <1>8, <3>2
    <3>4. blockThreadIdx(k) = blockThreadIdx(j)
      BY <2>1, <2>4
    <3>5. QED
      BY <1>2, <1>8, <3>2, <3>3, <3>4
  <2>5. ~Waiting(e)'
    BY <1>12, <2>3, <2>4
  <2>6. QED
    BY <2>2, <2>5
<1>14. ASSUME NEW e \in DOMAIN visits, e \notin E PROVE Waiting(e)' <=> Waiting(e)
  <2>1. ~(blockOf(e) = blockIn(w) /\ threadOf(e) = blockThreadIdx(j))
    BY <1>11, <1>14
  <2>2. ASSUME NEW u \in Workers, blockIn(u) = blockOf(e)
        PROVE  (\E k \in left'[u] : blockThreadIdx(k) = threadOf(e))
                 <=> (\E k \in left[u] : blockThreadIdx(k) = threadOf(e))
    BY <1>6, <2>1, <2>2
  <2>3. QED
    BY <1>12, <2>2 DEF Waiting
<1>15. /\ visits' \in [IndexSet(in.gridElemExtent) -> Nat]
       /\ \A e \in DOMAIN visits' : visits'[e] = IF Waiting(e)' THEN 0 ELSE 1
  <2>1. DOMAIN visits' = DOMAIN visits /\ DOMAIN visits = IndexSet(in.gridElemExtent)
    BY <1>5, <1>10
  <2>2. ASSUME NEW e \in DOMAIN visits PROVE visits'[e] = IF Waiting(e)' THEN 0 ELSE 1
    <3>1. CASE e \in E
      <4>1. visits[e] = 0
        BY <1>7, <1>13, <3>1
      <4>2. visits'[e] = 1
        BY <1>10, <3>1, <4>1
      <4>3. QED
        BY <1>13, <3>1, <4>2
    <3>2. CASE e \notin E
      <4>1. visits'[e] = visits[e]
        BY <1>10, <3>2
      <4>2. QED
        BY <1>7, <1>14, <3>2, <4>1
    <3>3. QED
      BY <3>1, <3>2
  <2>3. \A e \in DOMAIN visits' : visits'[e] \in Nat
    <3>1. \A e \in DOMAIN visits : visits'[e] = 0 \/ visits'[e] = 1
      BY <2>2
    <3>2. QED
      BY <2>1, <3>1
  <2>4. visits' = [e \in DOMAIN visits' |-> visits'[e]]
    BY <1>10
  <2>5. visits' \in [IndexSet(in.gridElemExtent) -> Nat]
    BY <2>1, <2>3, <2>4
  <2>6. QED
    BY <2>1, <2>2, <2>5
<1>16. \A u \in Workers : busy[u] => left'[u] \subseteq threadLoop
  BY <1>6, <1>7
<1>17. (in.acc \in SingleThreadBlocks => blockThreadCount = 1) /\ todo \subseteq blockLoop
  BY <1>2 DEF RunInv
<1>18. RunInv'
  BY <1>1, <1>3, <1>4, <1>7, <1>15, <1>16, <1>17 DEF RunInv
<1>19. QED
  BY <1>1, <1>2, <1>5, <1>6, <1>15, <1>18 DEF ExecInv

\* Nothing waits for a block whose threads have all run.
LEMMA FinishBlockExec ==
  ASSUME DivInv, ExecInv, NEW w \in Workers, FinishBlock(w)
  PROVE  ExecInv'
<1>1. /\ in' = in /\ workDiv' = workDiv /\ pc' = pc /\ todo' = todo /\ left' = left
      /\ gridBlockIdx' = gridBlockIdx /\ visits' = visits /\ busy[w] /\ left[w] = {}
      /\ busy' = [busy EXCEPT ![w] = FALSE]
  BY DEF FinishBlock
<1>2. pc = "run" /\ RunInv
  BY <1>1, Running
<1>3. /\ blockLoop' = blockLoop /\ threadLoop' = threadLoop
      /\ blockThreadCount' = blockThreadCount
      /\ \A q : blockAt(q)' = blockAt(q)
      /\ \A i : blockThreadIdx(i)' = blockThreadIdx(i)
      /\ \A u : accOf(u)' = accOf(u)
      /\ \A e : blockOf(e)' = blockOf(e)
      /\ \A e : threadOf(e)' = threadOf(e)
  BY <1>1, SameDivision
<1>4. \A u : blockIn(u)' = blockIn(u)
  BY <1>1, <1>3 DEF blockIn
<1>5. /\ visits \in [IndexSet(in.gridElemExtent) -> Nat] /\ busy \in [Workers -> BOOLEAN]
      /\ DOMAIN left = Workers /\ DOMAIN gridBlockIdx = Workers
  BY DEF ExecInv
<1>6. busy' \in [Workers -> BOOLEAN] /\ \A u \in Workers : busy'[u] <=> u # w /\ busy[u]
  BY <1>1, <1>5
<1>7. ASSUME NEW e PROVE Waiting(e)' <=> Waiting(e)
  <2>1. Waiting(e)' <=>
          \/ \E q \in todo : blockAt(q) = blockOf(e)
          \/ \E u \in Workers : /\ busy'[u] /\ blockIn(u) = blockOf(e)
                                /\ \E k \in left[u] : blockThreadIdx(k) = threadOf(e)
    BY <1>1, <1>3, <1>4 DEF Waiting
  <2>2. QED
    BY <1>1, <1>6, <2>1 DEF Waiting
<1>8. RunInv'
  BY <1>1, <1>2, <1>3, <1>4, <1>6, <1>7 DEF RunInv
<1>9. QED
  BY <1>1, <1>2, <1>5, <1>6, <1>8 DEF ExecInv

\* Whatever the division, the accelerator and the order in which the workers take the
\* blocks and their threads run, when the task returns the kernel has computed every
\* element of the grid exactly once.
THEOREM ElementsComputedOnce == Spec => []EveryElementOnce
<1>1. ASSUME DivInv, ExecInv, [Next]_vars PROVE ExecInv'
  <2>1. CASE GetValidWorkDiv
    BY <1>1, <2>1, HostExec
  <2>2. CASE Return
    BY <1>1, <2>2, HostExec
  <2>3. CASE UNCHANGED vars
    BY <1>1, <2>3, HostExec
  <2>4. CASE Launch
    BY <1>1, <2>4, LaunchExec
  <2>5. CASE \E w \in Workers : \E p \in todo : TakeBlock(w, p)
    BY <1>1, <2>5, TakeBlockExec
  <2>6. CASE \E w \in Workers : \E j \in left[w] : RunThread(w, j)
    BY <1>1, <2>6, RunThreadExec
  <2>7. CASE \E w \in Workers : FinishBlock(w)
    BY <1>1, <2>7, FinishBlockExec
  <2>8. QED
    BY <1>1, <2>1, <2>2, <2>3, <2>4, <2>5, <2>6, <2>7 DEF Next
<1>2. ASSUME ExecInv PROVE EveryElementOnce
  <2>1. SUFFICES ASSUME pc = "done", NEW e \in DOMAIN visits PROVE visits[e] = 1
    BY DEF EveryElementOnce
  <2>2. todo = {} /\ (\A w \in Workers : ~busy[w]) /\ RunInv
    BY <1>2, <2>1 DEF ExecInv
  <2>3. ~Waiting(e)
    BY <2>2 DEF Waiting
  <2>4. QED
    BY <2>1, <2>2, <2>3 DEF RunInv
<1>3. QED
  BY <1>1, <1>2, InitExec, DivInvHolds, PTL DEF Spec
=============================================================================
