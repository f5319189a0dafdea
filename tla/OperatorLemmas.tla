--------------------------- MODULE OperatorLemmas ---------------------------
(***************************************************************************)
(* Facts about the operators that several components are built from: the  *)
(* sizes of the finite sets their counters stand for, the planning of      *)
(* ranges, the dealing of parts to lanes, the turns of a round robin and   *)
(* the queues between threads.                                             *)
(***************************************************************************)
EXTENDS Ranges, Lanes, RoundRobin, Queues, FiniteSetTheorems, FunctionTheorems,
        SequenceTheorems, TLAPS

-----------------------------------------------------------------------------
(* Sizes of finite sets.                                                     *)

(* Parts a to a + m - 1 of object k.                                         *)
Run(k, a, m) == {<<k, a + i>> : i \in 0 .. m - 1}

(* m consecutive parts of one object are m parts.                            *)
LEMMA RunSize ==
  ASSUME NEW k, NEW a \in Int, NEW m \in Nat
  PROVE  IsFiniteSet(Run(k, a, m)) /\ Cardinality(Run(k, a, m)) = m
<1> DEFINE f == [i \in 0 .. m - 1 |-> <<k, a + i>>]
<1>0. /\ f \in [0 .. m - 1 -> Run(k, a, m)]
      /\ \A i, j \in 0 .. m - 1 : f[i] = f[j] => i = j
      /\ \A r \in Run(k, a, m) : \E i \in 0 .. m - 1 : f[i] = r
  BY DEF Run
<1>1. f \in Bijection(0 .. m - 1, Run(k, a, m))
  <2> HIDE DEF f
  <2> QED BY <1>0 DEF Bijection, Injection, Surjection, IsInjective
<1>2. ExistsBijection(0 .. m - 1, Run(k, a, m))
  BY <1>1 DEF ExistsBijection
<1>3. IsFiniteSet(0 .. m - 1) /\ Cardinality(0 .. m - 1) = m
  BY FS_Interval
<1>4. IsFiniteSet(Run(k, a, m)) /\ Cardinality(Run(k, a, m)) = Cardinality(0 .. m - 1)
  BY <1>2, <1>3, FS_Bijection
<1> QED
  BY <1>3, <1>4

(* Naming a worker for each part of a set does not change its size.          *)
LEMMA TagSize ==
  ASSUME NEW S, IsFiniteSet(S), NEW lane,
         \A p \in S : p = <<p[1], p[2]>>
  PROVE  /\ IsFiniteSet({<<p[1], p[2], lane[p]>> : p \in S})
         /\ Cardinality({<<p[1], p[2], lane[p]>> : p \in S}) = Cardinality(S)
<1> DEFINE R == {<<p[1], p[2], lane[p]>> : p \in S}
           f == [p \in S |-> <<p[1], p[2], lane[p]>>]
<1>1. \A p, q \in S : f[p] = f[q] => p = q
  OBVIOUS
<1>2. f \in [S -> R] /\ \A r \in R : \E p \in S : f[p] = r
  OBVIOUS
<1>3. f \in Bijection(S, R)
  <2> HIDE DEF f, R
  <2> QED BY <1>1, <1>2 DEF Bijection, Injection, Surjection, IsInjective
<1>4. ExistsBijection(S, R)
  BY <1>3 DEF ExistsBijection
<1> HIDE DEF R
<1>5. IsFiniteSet(R) /\ Cardinality(R) = Cardinality(S)
  BY <1>4, FS_Bijection
<1> QED
  BY <1>5 DEF R

(* Adding a disjoint set adds up the sizes; taking away a subset takes its   *)
(* size away.                                                                *)
LEMMA DisjointUnionSize ==
  ASSUME NEW S, NEW T, IsFiniteSet(S), IsFiniteSet(T), S \cap T = {}
  PROVE  /\ IsFiniteSet(S \cup T)
         /\ Cardinality(S \cup T) = Cardinality(S) + Cardinality(T)
<1>1. Cardinality(S \cap T) = 0
  BY FS_EmptySet
<1>2. Cardinality(S) \in Nat /\ Cardinality(T) \in Nat
  BY FS_CardinalityType
<1>3. /\ IsFiniteSet(S \cup T)
      /\ Cardinality(S \cup T) = Cardinality(S) + Cardinality(T) - Cardinality(S \cap T)
  BY FS_Union
<1> QED
  BY <1>1, <1>2, <1>3

LEMMA RemovalSize ==
  ASSUME NEW S, NEW T, IsFiniteSet(S), T \subseteq S
  PROVE  /\ IsFiniteSet(S \ T)
         /\ IsFiniteSet(T)
         /\ Cardinality(S \ T) = Cardinality(S) - Cardinality(T)
<1>1. S \cap T = T
  OBVIOUS
<1>2. IsFiniteSet(T)
  BY FS_Subset
<1>3. IsFiniteSet(S \ T) /\ Cardinality(S \ T) = Cardinality(S) - Cardinality(S \cap T)
  BY FS_Difference
<1> QED
  BY <1>1, <1>2, <1>3

(* One element more makes a set larger by one at most, one less makes it     *)
(* smaller by one.                                                           *)
LEMMA AddedSize ==
  ASSUME NEW S, NEW x, IsFiniteSet(S)
  PROVE  /\ Cardinality(S \cup {x}) \in Nat
         /\ Cardinality(S \cup {x}) <= Cardinality(S) + 1
<1>1. IsFiniteSet(S \cup {x}) /\ Cardinality(S \cup {x}) = IF x \in S THEN Cardinality(S) ELSE Cardinality(S) + 1
  BY FS_AddElement
<1>2. Cardinality(S) \in Nat
  BY FS_CardinalityType
<1> QED
  BY <1>1, <1>2

LEMMA RemovedSize ==
  ASSUME NEW S, NEW x \in S, IsFiniteSet(S)
  PROVE  /\ Cardinality(S \ {x}) \in Nat
         /\ Cardinality(S \ {x}) = Cardinality(S) - 1
<1>1. IsFiniteSet(S \ {x}) /\ Cardinality(S \ {x}) = IF x \in S THEN Cardinality(S) - 1 ELSE Cardinality(S)
  BY FS_RemoveElement
<1> QED
  BY <1>1, FS_CardinalityType

(* Sizes of unions: at most c things with each of the tags W are at most     *)
(* |W| * c things.                                                           *)
LEMMA TaggedSize ==
  ASSUME NEW S, NEW W, IsFiniteSet(W), NEW c \in Nat, NEW tag \in [S -> W],
         \A w \in W : LET tagged == {s \in S : tag[s] = w}
                      IN  IsFiniteSet(tagged) /\ Cardinality(tagged) <= c
  PROVE  IsFiniteSet(S) /\ Cardinality(S) <= Cardinality(W) * c
<1> DEFINE Tagged(w) == {s \in S : tag[s] = w}
           place == [w \in W |-> CHOOSE g : g \in Injection(Tagged(w), 1 .. c)]
           T == W \X (1 .. c)
           f == [s \in S |-> <<tag[s], place[tag[s]][s]>>]
<1>1. ASSUME NEW w \in W
      PROVE  place[w] \in Injection(Tagged(w), 1 .. c)
  <2> DEFINE n == Cardinality(Tagged(w))
  <2>1. IsFiniteSet(Tagged(w)) /\ n \in Nat /\ n <= c
    BY FS_CardinalityType
  <2>2. PICK g : g \in Bijection(1 .. n, Tagged(w))
    BY <2>1, FS_CardinalityType DEF ExistsBijection
  <2>3. Inverse(g, 1 .. n, Tagged(w)) \in Bijection(Tagged(w), 1 .. n)
    BY <2>2, Fun_BijInverse
  <2>4. 1 .. n \subseteq 1 .. c
    BY <2>1
  <2>5. Inverse(g, 1 .. n, Tagged(w)) \in Injection(Tagged(w), 1 .. c)
    <3> HIDE DEF n, Tagged
    <3> QED BY <2>3, <2>4 DEF Bijection, Injection
  <2>6. \E h : h \in Injection(Tagged(w), 1 .. c)
    BY <2>5
  <2> QED BY <2>6
<1>2. ASSUME NEW s \in S
      PROVE  place[tag[s]][s] \in 1 .. c
  <2>1. tag[s] \in W /\ s \in Tagged(tag[s])
    OBVIOUS
  <2> HIDE DEF place, Tagged
  <2> QED BY <1>1, <2>1 DEF Injection
<1>3. ASSUME NEW s \in S, NEW t \in S, f[s] = f[t]
      PROVE  s = t
  <2>1. tag[s] = tag[t] /\ place[tag[s]][s] = place[tag[s]][t]
    <3> HIDE DEF place
    <3> QED BY <1>3
  <2>2. tag[s] \in W /\ s \in Tagged(tag[s]) /\ t \in Tagged(tag[s])
    BY <2>1
  <2> HIDE DEF place, Tagged
  <2> QED BY <1>1, <2>1, <2>2 DEF Injection, IsInjective
<1>4. f \in [S -> T]
  BY <1>2
<1>5. f \in Injection(S, T)
  <2> HIDE DEF f, T
  <2> QED BY <1>3, <1>4 DEF Injection, IsInjective
<1>6. IsFiniteSet(T) /\ Cardinality(T) = Cardinality(W) * c
  <2>1. IsFiniteSet(1 .. c) /\ Cardinality(1 .. c) = c
    BY FS_Interval
  <2> QED BY <2>1, FS_Product
<1> HIDE DEF T, f
<1>7. QED
  BY <1>5, <1>6, FS_Injection

(* before[x] is what stands before x in some total order of S: the elements  *)
(* of S are numbered by how many stand before them.                          *)
LEMMA Ranking ==
  ASSUME NEW S, IsFiniteSet(S), NEW before \in [S -> SUBSET S],
         \A x \in S : x \notin before[x],
         \A x, y \in S : y \in before[x] => before[y] \subseteq before[x],
         \A x, y \in S : x # y => x \in before[y] \/ y \in before[x]
  PROVE  /\ \A x \in S : Cardinality(before[x]) \in 0 .. Cardinality(S) - 1
         /\ \A x, y \in S : y \in before[x] => Cardinality(before[y]) < Cardinality(before[x])
         /\ \A x, y \in S : Cardinality(before[x]) = Cardinality(before[y]) => x = y
         /\ \A i \in 0 .. Cardinality(S) - 1 : \E x \in S : Cardinality(before[x]) = i
<1> DEFINE n == Cardinality(S)
           rank == [x \in S |-> Cardinality(before[x])]
<1>0. n \in Nat
  BY FS_CardinalityType
<1>1. ASSUME NEW x \in S
      PROVE  IsFiniteSet(before[x]) /\ Cardinality(before[x]) \in Nat
  BY FS_Subset, FS_CardinalityType
<1>2. ASSUME NEW x \in S
      PROVE  Cardinality(before[x]) < n
  <2>1. before[x] \in SUBSET S /\ before[x] # S
    OBVIOUS
  <2> QED BY <1>0, <1>1, <2>1, FS_Subset
<1>3. ASSUME NEW x \in S, NEW y \in S, y \in before[x]
      PROVE  Cardinality(before[y]) < Cardinality(before[x])
  <2>1. before[y] \in SUBSET before[x] /\ before[x] # before[y]
    BY <1>3
  <2> QED BY <1>1, <2>1, FS_Subset
<1>4. ASSUME NEW x \in S, NEW y \in S, Cardinality(before[x]) = Cardinality(before[y])
      PROVE  x = y
  <2>1. Cardinality(before[x]) \in Nat /\ Cardinality(before[y]) \in Nat
    BY <1>1
  <2> QED BY <1>3, <1>4, <2>1
<1>5. rank \in Injection(S, 0 .. n - 1)
  <2>1. \A x \in S : rank[x] = Cardinality(before[x]) /\ rank[x] \in 0 .. n - 1
    BY <1>0, <1>1, <1>2
  <2>2. rank \in [S -> 0 .. n - 1]
    BY <2>1
  <2>3. \A x, y \in S : rank[x] = rank[y] => x = y
    BY <1>4
  <2> HIDE DEF rank, n
  <2> QED BY <2>2, <2>3 DEF Injection, IsInjective
<1>6. rank \in Surjection(S, 0 .. n - 1)
  <2>1. IsFiniteSet(0 .. n - 1) /\ Cardinality(0 .. n - 1) = n
    BY <1>0, FS_Interval
  <2> HIDE DEF rank
  <2> QED BY <1>5, <2>1, FS_Injection
<1>7. ASSUME NEW i \in 0 .. n - 1
      PROVE  \E x \in S : Cardinality(before[x]) = i
  <2>1. \E x \in S : rank[x] = i
    <3> HIDE DEF rank
    <3> QED BY <1>6 DEF Surjection
  <2> QED BY <2>1
<1> QED
  BY <1>0, <1>1, <1>2, <1>3, <1>4, <1>7

(* A set of numbers from 1 that has every number below one of its own is an  *)
(* interval.                                                                 *)
LEMMA InitialSegment ==
  ASSUME NEW c \in Nat, NEW D \in SUBSET (1 .. c),
         \A i \in D : \A j \in 1 .. i : j \in D
  PROVE  Cardinality(D) \in 0 .. c /\ D = 1 .. Cardinality(D)
<1> DEFINE m == Cardinality(D)
<1>1. IsFiniteSet(1 .. c) /\ Cardinality(1 .. c) = c
  BY FS_Interval
<1>2. IsFiniteSet(D) /\ m \in Nat /\ m <= c
  BY <1>1, FS_Subset, FS_CardinalityType
<1>3. ASSUME NEW x \in D
      PROVE  x \in 1 .. m
  <2>1. x \in Nat /\ x > 0 /\ 1 .. x \in SUBSET D
    OBVIOUS
  <2>2. Cardinality(1 .. x) = x
    BY <2>1, FS_Interval
  <2> QED BY <1>2, <2>1, <2>2, FS_Subset
<1>4. ASSUME NEW x \in 1 .. m, x \notin D
      PROVE  FALSE
  <2>1. D \in SUBSET (1 .. x - 1)
    <3> SUFFICES ASSUME NEW y \in D
                 PROVE  y \in 1 .. x - 1
      OBVIOUS
    <3>1. y \in Nat /\ y > 0 /\ x \in Nat /\ x > 0
      BY <1>2
    <3>2. ~(x <= y)
      BY <1>4, <3>1
    <3> QED BY <3>1, <3>2
  <2>2. IsFiniteSet(1 .. x - 1) /\ Cardinality(1 .. x - 1) = x - 1
    <3>1. x \in Int /\ x - 1 \in Int /\ x >= 1
      BY <1>2
    <3>2. IsFiniteSet(1 .. x - 1) /\ Cardinality(1 .. x - 1) = IF 1 > x - 1 THEN 0 ELSE (x - 1) - 1 + 1
      BY <3>1, FS_Interval
    <3> QED BY <3>1, <3>2
  <2>3. m <= x - 1
    BY <2>1, <2>2, FS_Subset
  <2> QED BY <1>2, <2>3
<1>5. D = 1 .. m
  <2> HIDE DEF m
  <2> QED BY <1>3, <1>4
<1> QED
  BY <1>2, <1>5

(* As many values as arguments.                                              *)
LEMMA ImageSize ==
  ASSUME NEW m \in Nat, NEW f, \A i, j \in 1 .. m : f[i] = f[j] => i = j,
         NEW image, \A x : x \in image <=> \E i \in 1 .. m : f[i] = x
  PROVE  IsFiniteSet(image) /\ Cardinality(image) = m
<1> DEFINE g == [i \in 1 .. m |-> f[i]]
<1>1. /\ g \in [1 .. m -> image] /\ \A i, j \in 1 .. m : g[i] = g[j] => i = j
      /\ \A x \in image : \E i \in 1 .. m : g[i] = x
  OBVIOUS
<1> HIDE DEF g
<1>2. g \in Bijection(1 .. m, image)
  BY <1>1 DEF Bijection, Injection, Surjection, IsInjective
<1>3. ExistsBijection(1 .. m, image)
  BY <1>2 DEF ExistsBijection
<1>4. IsFiniteSet(1 .. m) /\ Cardinality(1 .. m) = m
  BY FS_Interval
<1>5. IsFiniteSet(image) /\ Cardinality(image) = m
  BY <1>3, <1>4, FS_Bijection
<1> QED BY <1>5

-----------------------------------------------------------------------------
(* Planning: the ranges of an object partition it, and so do its parts.      *)

(* Facts about \div, for a positive divisor.                                 *)

LEMMA DivFacts ==
  ASSUME NEW a \in Nat, NEW s \in Nat \ {0}
  PROVE  /\ a \div s \in Nat
         /\ (a \div s) * s <= a
         /\ a < (a \div s) * s + s
  BY Z3

(* A product of a smaller factor is at least one unit smaller.               *)
LEMMA ProductStep ==
  ASSUME NEW m \in Nat, NEW n \in Nat, NEW s \in Nat \ {0}, m < n
  PROVE  m * s + s <= n * s
<1>1. PICK d \in Nat : n = m + 1 + d
  <2>1. n - m - 1 \in Nat /\ n = m + 1 + (n - m - 1)
    OBVIOUS
  <2> QED BY <2>1
<1>2. n * s = m * s + s + d * s
  BY <1>1, Z3
<1>3. d * s \in Nat /\ m * s \in Nat
  BY Z3
<1> QED BY <1>2, <1>3

(* There are just enough ranges: the last one starts inside the object, and  *)
(* one more would start at its end or after it.                              *)
LEMMA CountFits ==
  ASSUME NEW total \in Nat \ {0}, NEW step \in Nat \ {0}
  PROVE  /\ RangeCount(total, step) \in Nat \ {0}
         /\ (RangeCount(total, step) - 1) * step < total
         /\ total <= RangeCount(total, step) * step
<1> DEFINE c == (total + step - 1) \div step
<1>1. c \in Nat /\ c * step <= total + step - 1 /\ total + step - 1 < c * step + step
  BY DivFacts
<1>2. RangeCount(total, step) = c
  BY DEF RangeCount, CeilDiv
<1>3. total <= c * step
  <2>1. c * step \in Nat BY <1>1, Z3
  <2> QED BY <1>1, <2>1
<1>4. c # 0
  <2>1. SUFFICES ASSUME c = 0 PROVE FALSE OBVIOUS
  <2>2. c * step = 0 BY <2>1, Z3
  <2> QED BY <1>3, <2>2
<1>5. (c - 1) * step = c * step - step
  BY <1>1, Z3
<1>6. (c - 1) * step < total
  <2>1. c * step \in Nat BY <1>1, Z3
  <2> QED BY <1>1, <1>5, <2>1
<1> QED BY <1>1, <1>2, <1>3, <1>4, <1>6

(* The ranges lie inside the object.                                         *)
LEMMA RangeInside ==
  ASSUME NEW total \in Nat, NEW step \in Nat \ {0},
         NEW i \in 1 .. RangeCount(total, step)
  PROVE  /\ RangeOffset(i, step) \in Nat
         /\ RangeSize(total, i, step) \in 0 .. step
         /\ RangeOffset(i, step) + RangeSize(total, i, step) <= total
<1>1. CASE total = 0
  <2>1. i = 1 BY <1>1 DEF RangeCount
  <2>2. (i - 1) * step = 0 BY <2>1, Z3
  <2> QED BY <1>1, <2>2 DEF RangeOffset, RangeSize, Least
<1>2. CASE total # 0
  <2> DEFINE c == RangeCount(total, step)
  <2>1. c \in Nat \ {0} /\ (c - 1) * step < total
    BY <1>2, CountFits
  <2>2. i \in Nat /\ 1 <= i /\ i <= c
    BY <2>1
  <2>3. (i - 1) * step \in Nat
    BY <2>2, Z3
  <2>4. (i - 1) * step <= (c - 1) * step
    <3>1. CASE i = c BY <3>1, <2>3
    <3>2. CASE i # c
      <4>1. (i - 1) * step + step <= (c - 1) * step
        BY <2>1, <2>2, <3>2, ProductStep
      <4>2. (c - 1) * step \in Nat BY <2>1, Z3
      <4> QED BY <4>1, <4>2, <2>3
    <3> QED BY <3>1, <3>2
  <2>5. (c - 1) * step \in Nat BY <2>1, Z3
  <2> QED BY <2>1, <2>3, <2>4, <2>5 DEF RangeOffset, RangeSize, Least
<1> QED BY <1>1, <1>2

(* buildRanges: each byte of the object is in exactly one range, so what is  *)
(* fetched is the object, each byte once, whatever its size and the range    *)
(* size.                                                                     *)
THEOREM RangesPartition ==
  ASSUME NEW total \in Nat, NEW step \in Nat \ {0}, NEW b \in 0 .. total - 1
  PROVE  \E i \in 1 .. RangeCount(total, step) :
           /\ b \in RangeBytes(total, i, step)
           /\ \A j \in 1 .. RangeCount(total, step) :
                b \in RangeBytes(total, j, step) => j = i
<1> DEFINE q == b \div step
           c == RangeCount(total, step)
<1>1. q \in Nat /\ q * step <= b /\ b < q * step + step
  BY DivFacts
<1>2. c \in Nat \ {0} /\ total <= c * step
  <2>1. total \in Nat \ {0} OBVIOUS
  <2> QED BY <2>1, CountFits
<1>3. q + 1 \in 1 .. c
  <2>1. SUFFICES ASSUME c <= q PROVE FALSE BY <1>1, <1>2
  <2>2. c * step <= q * step
    <3>1. CASE c = q BY <3>1, <1>1
    <3>2. CASE c # q
      <4>1. c * step + step <= q * step BY <3>2, <2>1, <1>1, <1>2, ProductStep
      <4>2. c * step \in Nat /\ q * step \in Nat BY <1>1, <1>2, Z3
      <4> QED BY <4>1, <4>2
    <3> QED BY <3>1, <3>2
  <2>3. c * step \in Nat /\ q * step \in Nat BY <1>1, <1>2, Z3
  <2> QED BY <2>2, <2>3, <1>1, <1>2
<1>4. b \in RangeBytes(total, q + 1, step)
  <2>1. RangeOffset(q + 1, step) = q * step BY <1>1 DEF RangeOffset
  <2>2. q * step \in Nat BY <1>1, Z3
  <2>3. b - q * step \in 0 .. RangeSize(total, q + 1, step) - 1
    BY <1>1, <2>1, <2>2 DEF RangeSize, Least
  <2>4. b = RangeOffset(q + 1, step) + (b - q * step)
    BY <2>1, <2>2
  <2> QED BY <2>3, <2>4 DEF RangeBytes
<1>5. ASSUME NEW j \in 1 .. c, b \in RangeBytes(total, j, step)
      PROVE  j = q + 1
  <2>1. RangeOffset(j, step) \in Nat /\ RangeSize(total, j, step) \in 0 .. step
    BY RangeInside
  <2>2. PICK k \in 0 .. RangeSize(total, j, step) - 1 : b = RangeOffset(j, step) + k
    BY <1>5 DEF RangeBytes
  <2>3. (j - 1) * step <= b /\ b < (j - 1) * step + step
    BY <2>1, <2>2 DEF RangeOffset
  <2>4. j - 1 \in Nat /\ (j - 1) * step \in Nat /\ q * step \in Nat
    BY <1>1, <1>2, Z3
  <2>5. ~(j - 1 < q)
    <3>1. SUFFICES ASSUME j - 1 < q PROVE FALSE OBVIOUS
    <3>2. (j - 1) * step + step <= q * step BY <3>1, <2>4, <1>1, ProductStep
    <3> QED BY <3>2, <2>3, <2>4, <1>1
  <2>6. ~(q < j - 1)
    <3>1. SUFFICES ASSUME q < j - 1 PROVE FALSE OBVIOUS
    <3>2. q * step + step <= (j - 1) * step BY <3>1, <2>4, <1>1, ProductStep
    <3> QED BY <3>2, <2>3, <2>4, <1>1
  <2> QED BY <2>4, <2>5, <2>6, <1>1
<1> QED BY <1>3, <1>4, <1>5

(* buildParts: of an object whose parts all have the size of the first, but  *)
(* for the last, the parts are the ranges of that size, so that they are     *)
(* the object too.                                                           *)
THEOREM PartsAreRanges ==
  ASSUME NEW total \in Nat \ {0}, NEW first \in Nat \ {0},
         NEW p \in 1 .. RangeCount(total, first)
  PROVE  PartSize(total, RangeCount(total, first), first, p) = RangeSize(total, p, first)
<1> DEFINE c == RangeCount(total, first)
<1>1. c \in Nat \ {0} /\ (c - 1) * first < total /\ total <= c * first
  BY CountFits
<1>2. p \in Nat \ {0} /\ (p - 1) * first \in Nat /\ p * first \in Nat
  BY <1>1, Z3
<1>3. p * first = (p - 1) * first + first
  BY <1>1, Z3
<1>4. CASE p < c
  <2>1. p * first <= (c - 1) * first
    <3>1. CASE p = c - 1 BY <3>1, <1>2
    <3>2. CASE p # c - 1
      <4>1. p * first + first <= (c - 1) * first BY <3>2, <1>1, <1>4, ProductStep
      <4>2. (c - 1) * first \in Nat BY <1>1, Z3
      <4> QED BY <4>1, <4>2, <1>2
    <3> QED BY <3>1, <3>2
  <2>2. (c - 1) * first \in Nat BY <1>1, Z3
  <2> QED BY <2>1, <2>2, <1>1, <1>2, <1>3, <1>4 DEF PartSize, RangeSize, RangeOffset, Least
<1>5. CASE p = c
  BY <1>1, <1>2, <1>3, <1>5 DEF PartSize, RangeSize, RangeOffset, Least
<1> QED BY <1>1, <1>4, <1>5

-----------------------------------------------------------------------------
(* Dealing to lanes.                                                         *)

(* Rows of finitely many numbered things.                                    *)
LEMMA FiniteRows ==
  ASSUME NEW K, IsFiniteSet(K), NEW size \in [K -> Int]
  PROVE  LET rows == UNION {{k} \X (1 .. size[k]) : k \in K}
         IN  IsFiniteSet(rows) /\ Cardinality(rows) \in Nat
<1> DEFINE rows == {{k} \X (1 .. size[k]) : k \in K}
           f == [k \in K |-> {k} \X (1 .. size[k])]
<1>1. f \in Surjection(K, rows)
  <2>1. f \in [K -> rows] /\ \A r \in rows : \E k \in K : f[k] = r
    OBVIOUS
  <2> HIDE DEF f, rows
  <2> QED BY <2>1 DEF Surjection
<1>2. IsFiniteSet(rows)
  BY <1>1, FS_Surjection
<1>3. \A r \in rows : IsFiniteSet(r)
  <2> SUFFICES ASSUME NEW k \in K PROVE IsFiniteSet({k} \X (1 .. size[k]))
    OBVIOUS
  <2>1. IsFiniteSet({k})
    BY FS_Singleton
  <2>2. size[k] \in Int
    OBVIOUS
  <2>3. IsFiniteSet(1 .. size[k])
    BY <2>2, FS_Interval
  <2> QED BY <2>1, <2>3, FS_Product
<1>4. IsFiniteSet(UNION rows)
  <2> HIDE DEF rows
  <2> QED BY <1>2, <1>3, FS_UNION
<1> QED
  BY <1>4, FS_CardinalityType

(* The vacant lanes of workers 1 .. n are numbered, from 0, in the order in  *)
(* which they are filled.                                                    *)
LEMMA VacantRanks ==
  ASSUME NEW n \in Nat, NEW free \in [1 .. n -> Nat]
  PROVE  /\ IsFiniteSet(Vacant(free)) /\ Cardinality(Vacant(free)) \in Nat
         /\ \A w \in 1 .. n : \A i \in 1 .. free[w] :
              SlotsBefore(free, w, i) \in 0 .. Cardinality(Vacant(free)) - 1
         /\ \A w \in 1 .. n : \A i, j \in 1 .. free[w] :
              i < j => SlotsBefore(free, w, i) < SlotsBefore(free, w, j)
         /\ \A s, t \in Vacant(free) :
              SlotsBefore(free, s[1], s[2]) = SlotsBefore(free, t[1], t[2]) => s = t
         /\ \A h \in 0 .. Cardinality(Vacant(free)) - 1 :
              \E w \in 1 .. n : \E i \in 1 .. free[w] : SlotsBefore(free, w, i) = h
<1> DEFINE V == Vacant(free)
           before == [s \in V |-> {t \in V : t[1] < s[1] \/ (t[1] = s[1] /\ t[2] < s[2])}]
<1>1. \A s : s \in V <=> \E w \in 1 .. n : \E i \in 1 .. free[w] : s = <<w, i>>
  BY DEF Vacant
<1>2. IsFiniteSet(V) /\ Cardinality(V) \in Nat
  <2>1. IsFiniteSet(1 .. n)
    BY FS_Interval
  <2>2. V = UNION {{w} \X (1 .. free[w]) : w \in 1 .. n}
    BY DEF Vacant
  <2>3. free \in [1 .. n -> Int]
    OBVIOUS
  <2> QED BY <2>1, <2>2, <2>3, FiniteRows
<1>3. \A s \in V : /\ s[1] \in 1 .. n /\ s[2] \in 1 .. free[s[1]] /\ s = <<s[1], s[2]>>
                   /\ s[1] \in Int /\ s[2] \in Int
  BY <1>1
<1>4. /\ before \in [V -> SUBSET V]
      /\ \A s \in V : s \notin before[s]
      /\ \A s, t \in V : t \in before[s] => before[t] \subseteq before[s]
      /\ \A s, t \in V : s # t => s \in before[t] \/ t \in before[s]
  <2> HIDE DEF V
  <2> QED BY <1>3
<1>5. /\ \A s \in V : Cardinality(before[s]) \in 0 .. Cardinality(V) - 1
      /\ \A s, t \in V : t \in before[s] => Cardinality(before[t]) < Cardinality(before[s])
      /\ \A s, t \in V : Cardinality(before[s]) = Cardinality(before[t]) => s = t
      /\ \A h \in 0 .. Cardinality(V) - 1 : \E s \in V : Cardinality(before[s]) = h
  <2> HIDE DEF V, before
  <2> QED BY <1>2, <1>4, Ranking
<1>6. ASSUME NEW w \in 1 .. n, NEW i \in 1 .. free[w]
      PROVE  <<w, i>> \in V /\ SlotsBefore(free, w, i) = Cardinality(before[<<w, i>>])
  BY <1>1 DEF SlotsBefore
<1>7. ASSUME NEW w \in 1 .. n, NEW i \in 1 .. free[w], NEW j \in 1 .. free[w], i < j
      PROVE  SlotsBefore(free, w, i) < SlotsBefore(free, w, j)
  <2>1. <<w, i>> \in before[<<w, j>>]
    BY <1>1, <1>7
  <2> HIDE DEF V, before
  <2> QED BY <1>5, <1>6, <2>1
<1> HIDE DEF V, before
<1>8. ASSUME NEW s \in V, NEW t \in V,
             SlotsBefore(free, s[1], s[2]) = SlotsBefore(free, t[1], t[2])
      PROVE  s = t
  <2>1. /\ s[1] \in 1 .. n /\ s[2] \in 1 .. free[s[1]] /\ s = <<s[1], s[2]>>
        /\ t[1] \in 1 .. n /\ t[2] \in 1 .. free[t[1]] /\ t = <<t[1], t[2]>>
    BY <1>3
  <2>2. /\ SlotsBefore(free, s[1], s[2]) = Cardinality(before[s])
        /\ SlotsBefore(free, t[1], t[2]) = Cardinality(before[t])
    BY <1>6, <2>1
  <2> QED BY <1>5, <1>8, <2>2
<1>9. ASSUME NEW h \in 0 .. Cardinality(V) - 1
      PROVE  \E w \in 1 .. n : \E i \in 1 .. free[w] : SlotsBefore(free, w, i) = h
  <2>1. PICK s \in V : Cardinality(before[s]) = h
    BY <1>5
  <2>2. /\ s[1] \in 1 .. n /\ s[2] \in 1 .. free[s[1]]
        /\ SlotsBefore(free, s[1], s[2]) = h
    BY <1>3, <1>6, <2>1
  <2> QED BY <2>2
<1>10. ASSUME NEW w \in 1 .. n, NEW i \in 1 .. free[w]
       PROVE  SlotsBefore(free, w, i) \in 0 .. Cardinality(V) - 1
  <2>1. <<w, i>> \in V /\ SlotsBefore(free, w, i) = Cardinality(before[<<w, i>>])
    BY <1>6
  <2> QED BY <1>5, <2>1
<1> QED
  BY <1>2, <1>7, <1>8, <1>9, <1>10 DEF V

LEMMA FunctionIsSeq ==
  ASSUME NEW n \in Nat, NEW T, NEW f \in [1 .. n -> T]
  PROVE  f \in Seq(T) /\ Len(f) = n
OBVIOUS

(* Each lane gets at most one of the things, each of the first `placed' of   *)
(* them goes to one lane, and things are left over only if no lane is.       *)
DealtOut(n, free, T, count, things, share) ==
  LET placed == Placed(free, count)
      Slot(w, i) == SlotsBefore(free, w, i) + 1
  IN  /\ placed \in 0 .. count
      /\ placed <= Cardinality(Vacant(free))
      /\ placed < Cardinality(Vacant(free)) => placed = count
      /\ \A w \in 1 .. n : share[w] \in Seq(T) /\ Len(share[w]) \in 0 .. free[w]
      /\ \A w \in 1 .. n : \A i \in 1 .. Len(share[w]) :
           Slot(w, i) \in 1 .. placed /\ share[w][i] = things[Slot(w, i)]
      /\ \A v, w \in 1 .. n : \A i \in 1 .. Len(share[v]) : \A j \in 1 .. Len(share[w]) :
           Slot(v, i) = Slot(w, j) => v = w /\ i = j
      /\ \A j \in 1 .. placed : \E w \in 1 .. n : \E i \in 1 .. Len(share[w]) : Slot(w, i) = j

LEMMA SharesDealt ==
  ASSUME NEW n \in Nat, NEW free \in [1 .. n -> Nat],
         NEW T, NEW count \in Nat, NEW things \in [1 .. count -> T],
         NEW share, \A w \in 1 .. n : share[w] = Shares(free, things, w)
  PROVE  DealtOut(n, free, T, count, things, share)
<1>0a. Cardinality(Vacant(free)) \in Nat
  BY VacantRanks
<1>0b. \A w \in 1 .. n : \A i \in 1 .. free[w] :
         SlotsBefore(free, w, i) \in 0 .. Cardinality(Vacant(free)) - 1
  BY VacantRanks
<1>0c. \A w \in 1 .. n : \A i, j \in 1 .. free[w] :
         i < j => SlotsBefore(free, w, i) < SlotsBefore(free, w, j)
  BY VacantRanks
<1>0d. ASSUME NEW v \in 1 .. n, NEW w \in 1 .. n, NEW i \in 1 .. free[v], NEW j \in 1 .. free[w],
              SlotsBefore(free, v, i) = SlotsBefore(free, w, j)
       PROVE  v = w /\ i = j
  <2> DEFINE s == <<v, i>>
             t == <<w, j>>
  <2>1. s \in Vacant(free) /\ t \in Vacant(free)
    <3>1. \A x : x \in Vacant(free) <=> \E u \in 1 .. n : \E h \in 1 .. free[u] : x = <<u, h>>
      BY DEF Vacant
    <3> QED BY <3>1
  <2>2. /\ s[1] = v /\ s[2] = i /\ t[1] = w /\ t[2] = j
    OBVIOUS
  <2> HIDE DEF s, t
  <2>3. s = t
    BY <1>0d, <2>1, <2>2, VacantRanks
  <2> QED BY <2>2, <2>3
<1>0e. \A h \in 0 .. Cardinality(Vacant(free)) - 1 :
         \E w \in 1 .. n : \E i \in 1 .. free[w] : SlotsBefore(free, w, i) = h
  BY VacantRanks
<1> DEFINE placed == Placed(free, count)
           lanes == Cardinality(Vacant(free))
           Domain(w) == {j \in 1 .. free[w] : SlotsBefore(free, w, j) < count}
<1>1. /\ lanes \in Nat
      /\ \A w \in 1 .. n : \A i \in 1 .. free[w] : SlotsBefore(free, w, i) \in 0 .. lanes - 1
      /\ \A w \in 1 .. n : \A i, j \in 1 .. free[w] :
           i < j => SlotsBefore(free, w, i) < SlotsBefore(free, w, j)
      /\ \A v, w \in 1 .. n : \A i \in 1 .. free[v] : \A j \in 1 .. free[w] :
           SlotsBefore(free, v, i) = SlotsBefore(free, w, j) => v = w /\ i = j
      /\ \A h \in 0 .. lanes - 1 : \E w \in 1 .. n : \E i \in 1 .. free[w] :
           SlotsBefore(free, w, i) = h
  BY <1>0a, <1>0b, <1>0c, <1>0d, <1>0e
<1>2. placed = IF lanes < count THEN lanes ELSE count
  BY DEF Placed
<1>3. /\ Len(things) = count
      /\ \A w \in 1 .. n : share[w] = [i \in Domain(w) |-> things[SlotsBefore(free, w, i) + 1]]
  <2>1. Len(things) = count
    BY FunctionIsSeq
  <2>2. ASSUME NEW w \in 1 .. n
        PROVE  share[w] = [i \in Domain(w) |-> things[SlotsBefore(free, w, i) + 1]]
    <3>1. share[w] = Shares(free, things, w)
      OBVIOUS
    <3>2. Shares(free, things, w) = [i \in Domain(w) |-> things[SlotsBefore(free, w, i) + 1]]
      BY ONLY <2>1 DEF Shares
    <3> QED BY <3>1, <3>2
  <2> QED BY <2>1, <2>2
<1> HIDE DEF placed, lanes
<1>4. ASSUME NEW w \in 1 .. n
      PROVE  /\ Cardinality(Domain(w)) \in 0 .. free[w]
             /\ Domain(w) = 1 .. Cardinality(Domain(w))
  <2>1. free[w] \in Nat /\ Domain(w) \in SUBSET (1 .. free[w])
    OBVIOUS
  <2>2. ASSUME NEW i \in Domain(w), NEW j \in 1 .. i
        PROVE  j \in Domain(w)
    <3>1. i \in 1 .. free[w] /\ j \in 1 .. free[w] /\ j <= i
      OBVIOUS
    <3>2. /\ SlotsBefore(free, w, i) \in Int /\ SlotsBefore(free, w, j) \in Int
          /\ j < i => SlotsBefore(free, w, j) < SlotsBefore(free, w, i)
      BY <1>1, <3>1
    <3>3. SlotsBefore(free, w, i) < count
      OBVIOUS
    <3>4. CASE j = i
      BY <3>4
    <3>5. CASE j # i
      <4>1. j < i
        BY <3>1, <3>5
      <4> QED BY <3>1, <3>2, <3>3, <4>1
    <3> QED BY <3>4, <3>5
  <2> HIDE DEF Domain
  <2> QED BY <2>1, <2>2, InitialSegment
<1>5. ASSUME NEW w \in 1 .. n, NEW i \in Domain(w)
      PROVE  SlotsBefore(free, w, i) + 1 \in 1 .. placed
  <2>1. i \in 1 .. free[w] /\ SlotsBefore(free, w, i) < count
    OBVIOUS
  <2>2. lanes \in Nat /\ SlotsBefore(free, w, i) \in 0 .. lanes - 1
    BY <1>1, <2>1
  <2> HIDE DEF Domain
  <2> QED BY <1>2, <2>1, <2>2
<1>6. ASSUME NEW w \in 1 .. n
      PROVE  /\ share[w] \in Seq(T) /\ Len(share[w]) \in 0 .. free[w]
             /\ 1 .. Len(share[w]) = Domain(w)
  <2> DEFINE m == Cardinality(Domain(w))
  <2>1. m \in Nat /\ m <= free[w] /\ Domain(w) = 1 .. m
    BY <1>4
  <2>2. placed \in 0 .. count
    BY <1>1, <1>2
  <2> HIDE DEF Domain
  <2>3. \A i \in 1 .. m : things[SlotsBefore(free, w, i) + 1] \in T
    BY <1>5, <2>1, <2>2
  <2> HIDE DEF m
  <2>4. share[w] = [i \in 1 .. m |-> things[SlotsBefore(free, w, i) + 1]]
    BY <1>3, <2>1
  <2>5. share[w] \in [1 .. m -> T]
    BY <2>3, <2>4
  <2>6. share[w] \in Seq(T) /\ Len(share[w]) = m
    BY <2>1, <2>5, FunctionIsSeq
  <2> QED BY <2>1, <2>6
<1>7. ASSUME NEW w \in 1 .. n, NEW i \in 1 .. Len(share[w])
      PROVE  /\ i \in 1 .. free[w]
             /\ SlotsBefore(free, w, i) + 1 \in 1 .. placed
             /\ share[w][i] = things[SlotsBefore(free, w, i) + 1]
  <2>1. i \in Domain(w)
    BY <1>6
  <2>2. i \in 1 .. free[w]
    BY <2>1
  <2> HIDE DEF Domain
  <2> QED BY <1>3, <1>5, <2>1, <2>2
<1>8. ASSUME NEW j \in 1 .. placed
      PROVE  \E w \in 1 .. n : \E i \in 1 .. Len(share[w]) : SlotsBefore(free, w, i) + 1 = j
  <2>1. j - 1 \in 0 .. lanes - 1 /\ j - 1 < count
    BY <1>1, <1>2
  <2>2. PICK w \in 1 .. n : \E i \in 1 .. free[w] : SlotsBefore(free, w, i) = j - 1
    BY <1>1, <2>1
  <2>3. PICK i \in 1 .. free[w] : SlotsBefore(free, w, i) = j - 1
    BY <2>2
  <2>4. i \in Domain(w)
    BY <2>1, <2>3
  <2> HIDE DEF Domain
  <2>5. i \in 1 .. Len(share[w])
    BY <1>6, <2>4
  <2>6. SlotsBefore(free, w, i) + 1 = j
    BY <1>1, <2>1, <2>3
  <2> QED BY ONLY <2>2, <2>5, <2>6, w \in 1 .. n
<1>9. ASSUME NEW v \in 1 .. n, NEW w \in 1 .. n,
             NEW i \in 1 .. Len(share[v]), NEW j \in 1 .. Len(share[w]),
             SlotsBefore(free, v, i) + 1 = SlotsBefore(free, w, j) + 1
      PROVE  v = w /\ i = j
  <2>1. i \in 1 .. free[v] /\ j \in 1 .. free[w]
    BY <1>7
  <2>2. SlotsBefore(free, v, i) \in 0 .. lanes - 1 /\ SlotsBefore(free, w, j) \in 0 .. lanes - 1
    BY <1>1, <2>1
  <2>3. SlotsBefore(free, v, i) = SlotsBefore(free, w, j)
    BY <1>1, <1>9, <2>2
  <2> QED BY <1>1, <2>1, <2>3
<1>10. placed \in 0 .. count /\ placed <= lanes /\ (placed < lanes => placed = count)
  BY <1>1, <1>2
<1> QED
  BY <1>6, <1>7, <1>8, <1>9, <1>10 DEF placed, lanes, DealtOut

-----------------------------------------------------------------------------
(* Queues of messages.                                                       *)

(* No part is sent twice; there is at most one message of the type.          *)
Once(queue, type) ==
  \A i, j \in 1 .. Len(queue) :
    queue[i][1] = type /\ queue[j][1] = type /\ queue[i][2] = queue[j][2] => i = j
Single(queue, type) ==
  \A i, j \in 1 .. Len(queue) : queue[i][1] = type /\ queue[j][1] = type => i = j

LEMMA EmptyQueue ==
  ASSUME NEW type
  PROVE  /\ Sent(<<>>, type) = {} /\ ~Holds(<<>>, type)
         /\ Once(<<>>, type) /\ Single(<<>>, type)
BY DEF Sent, Holds, Once, Single

LEMMA SentIff ==
  ASSUME NEW queue, NEW type, NEW p
  PROVE  p \in Sent(queue, type)
           <=> \E i \in 1 .. Len(queue) : queue[i][1] = type /\ queue[i][2] = p
BY DEF Sent

LEMMA ConcatQueue ==
  ASSUME NEW M, NEW q \in Seq(M), NEW r \in Seq(M), NEW type
  PROVE  /\ q \o r \in Seq(M)
         /\ Sent(q \o r, type) = Sent(q, type) \cup Sent(r, type)
         /\ Holds(q \o r, type) <=> Holds(q, type) \/ Holds(r, type)
         /\ Once(q, type) /\ Once(r, type) /\ Sent(q, type) \cap Sent(r, type) = {}
              => Once(q \o r, type)
         /\ Single(q, type) /\ Single(r, type) /\ ~(Holds(q, type) /\ Holds(r, type))
              => Single(q \o r, type)
<1> DEFINE s == q \o r
           a == Len(q)
           b == Len(r)
<1>1. /\ s \in Seq(M) /\ Len(s) = a + b /\ a \in Nat /\ b \in Nat
      /\ \A i \in 1 .. a + b : s[i] = IF i <= a THEN q[i] ELSE r[i - a]
  BY ConcatProperties
<1> HIDE DEF s, a, b
<1>2. \A i \in 1 .. Len(s) : \/ i \in 1 .. Len(q) /\ s[i] = q[i]
                             \/ i - a \in 1 .. Len(r) /\ s[i] = r[i - a] /\ i > a
  BY <1>1 DEF a, b
<1>3. \A i \in 1 .. Len(q) : i \in 1 .. Len(s) /\ s[i] = q[i]
  BY <1>1 DEF a
<1>4. \A i \in 1 .. Len(r) : i + a \in 1 .. Len(s) /\ s[i + a] = r[i]
  <2> SUFFICES ASSUME NEW i \in 1 .. Len(r)
               PROVE  i + a \in 1 .. Len(s) /\ s[i + a] = r[i]
    OBVIOUS
  <2>1. i \in Int /\ 1 <= i /\ i <= b
    BY <1>1 DEF b
  <2>2. i + a \in 1 .. a + b /\ ~(i + a <= a) /\ (i + a) - a = i
    BY <1>1, <2>1
  <2> QED BY <1>1, <2>2
<1>5. Sent(s, type) = Sent(q, type) \cup Sent(r, type)
  <2>1. ASSUME NEW p
        PROVE  p \in Sent(s, type) <=> p \in Sent(q, type) \cup Sent(r, type)
    <3>1. ASSUME p \in Sent(s, type)
          PROVE  p \in Sent(q, type) \cup Sent(r, type)
      BY <1>2, <3>1, SentIff
    <3>2. ASSUME p \in Sent(q, type) \cup Sent(r, type)
          PROVE  p \in Sent(s, type)
      <4>1. CASE p \in Sent(q, type)
        BY <1>3, <4>1, SentIff
      <4>2. CASE p \in Sent(r, type)
        <5>1. PICK i \in 1 .. Len(r) : r[i][1] = type /\ r[i][2] = p
          BY <4>2, SentIff
        <5> QED BY <1>4, <5>1, SentIff
      <4> QED BY <3>2, <4>1, <4>2
    <3> QED BY <3>1, <3>2
  <2> QED BY <2>1
<1>6. Holds(s, type) <=> Holds(q, type) \/ Holds(r, type)
  <2>1. ASSUME Holds(s, type)
        PROVE  Holds(q, type) \/ Holds(r, type)
    <3>1. PICK i \in 1 .. Len(s) : s[i][1] = type
      BY <2>1 DEF Holds
    <3> QED BY <1>2, <3>1 DEF Holds
  <2>2. ASSUME Holds(q, type)
        PROVE  Holds(s, type)
    <3>1. PICK i \in 1 .. Len(q) : q[i][1] = type
      BY <2>2 DEF Holds
    <3> QED BY <1>3, <3>1 DEF Holds
  <2>3. ASSUME Holds(r, type)
        PROVE  Holds(s, type)
    <3>1. PICK i \in 1 .. Len(r) : r[i][1] = type
      BY <2>3 DEF Holds
    <3> QED BY <1>4, <3>1 DEF Holds
  <2> QED BY <2>1, <2>2, <2>3
<1>7. ASSUME Once(q, type), Once(r, type), Sent(q, type) \cap Sent(r, type) = {}
      PROVE  Once(s, type)
  <2> SUFFICES ASSUME NEW i \in 1 .. Len(s), NEW j \in 1 .. Len(s),
                      s[i][1] = type, s[j][1] = type, s[i][2] = s[j][2]
               PROVE  i = j
    BY DEF Once
  <2>1. CASE i \in 1 .. Len(q) /\ s[i] = q[i] /\ j \in 1 .. Len(q) /\ s[j] = q[j]
    BY <1>7, <2>1 DEF Once
  <2>2. CASE /\ i - a \in 1 .. Len(r) /\ s[i] = r[i - a]
             /\ j - a \in 1 .. Len(r) /\ s[j] = r[j - a]
    <3>1. i - a = j - a
      BY <1>7, <2>2 DEF Once
    <3> QED BY <1>1, <3>1
  <2>3. CASE i \in 1 .. Len(q) /\ s[i] = q[i] /\ j - a \in 1 .. Len(r) /\ s[j] = r[j - a]
    <3>1. s[i][2] \in Sent(q, type) /\ s[j][2] \in Sent(r, type)
      BY <2>3, SentIff
    <3> QED BY <1>7, <3>1
  <2>4. CASE j \in 1 .. Len(q) /\ s[j] = q[j] /\ i - a \in 1 .. Len(r) /\ s[i] = r[i - a]
    <3>1. s[j][2] \in Sent(q, type) /\ s[i][2] \in Sent(r, type)
      BY <2>4, SentIff
    <3> QED BY <1>7, <3>1
  <2> QED BY <1>2, <2>1, <2>2, <2>3, <2>4
<1>8. ASSUME Single(q, type), Single(r, type), ~(Holds(q, type) /\ Holds(r, type))
      PROVE  Single(s, type)
  <2> SUFFICES ASSUME NEW i \in 1 .. Len(s), NEW j \in 1 .. Len(s),
                      s[i][1] = type, s[j][1] = type
               PROVE  i = j
    BY DEF Single
  <2>1. CASE i \in 1 .. Len(q) /\ s[i] = q[i] /\ j \in 1 .. Len(q) /\ s[j] = q[j]
    BY <1>8, <2>1 DEF Single
  <2>2. CASE /\ i - a \in 1 .. Len(r) /\ s[i] = r[i - a]
             /\ j - a \in 1 .. Len(r) /\ s[j] = r[j - a]
    <3>1. i - a = j - a
      BY <1>8, <2>2 DEF Single
    <3> QED BY <1>1, <3>1
  <2>3. CASE \/ i \in 1 .. Len(q) /\ s[i] = q[i] /\ j - a \in 1 .. Len(r) /\ s[j] = r[j - a]
             \/ j \in 1 .. Len(q) /\ s[j] = q[j] /\ i - a \in 1 .. Len(r) /\ s[i] = r[i - a]
    BY <1>8, <2>3 DEF Holds
  <2> QED BY <1>2, <2>1, <2>2, <2>3
<1> QED
  BY <1>1, <1>5, <1>6, <1>7, <1>8 DEF s

LEMMA AppendQueue ==
  ASSUME NEW M, NEW q \in Seq(M), NEW m \in M, NEW type
  PROVE  /\ Append(q, m) \in Seq(M)
         /\ m[1] = type => /\ Sent(Append(q, m), type) = Sent(q, type) \cup {m[2]}
                           /\ Holds(Append(q, m), type)
                           /\ Once(q, type) /\ m[2] \notin Sent(q, type)
                                => Once(Append(q, m), type)
                           /\ ~Holds(q, type) => Single(Append(q, m), type)
         /\ m[1] # type => /\ Sent(Append(q, m), type) = Sent(q, type)
                           /\ Holds(Append(q, m), type) <=> Holds(q, type)
                           /\ Once(q, type) => Once(Append(q, m), type)
                           /\ Single(q, type) => Single(Append(q, m), type)
<1> DEFINE one == <<m>>
<1>1. /\ one \in Seq(M) /\ Append(q, m) = q \o one
      /\ Len(one) = 1 /\ one[1] = m
  BY AppendIsConcat
<1>2. /\ Sent(one, type) = IF m[1] = type THEN {m[2]} ELSE {}
      /\ Holds(one, type) <=> m[1] = type
      /\ Once(one, type) /\ Single(one, type)
  BY <1>1 DEF Sent, Holds, Once, Single
<1> HIDE DEF one
<1>3. ~Holds(q, type) => Single(q, type)
  BY DEF Holds, Single
<1>4. /\ q \o one \in Seq(M)
      /\ Sent(q \o one, type) = Sent(q, type) \cup Sent(one, type)
      /\ Holds(q \o one, type) <=> Holds(q, type) \/ Holds(one, type)
      /\ Once(q, type) /\ Sent(q, type) \cap Sent(one, type) = {}
           => Once(q \o one, type)
      /\ Single(q, type) /\ ~(Holds(q, type) /\ Holds(one, type))
           => Single(q \o one, type)
  BY <1>1, <1>2, ConcatQueue
<1>5. CASE m[1] = type
  <2>1. Sent(one, type) = {m[2]} /\ Holds(one, type)
    BY <1>2, <1>5
  <2>2. m[2] \notin Sent(q, type) => Sent(q, type) \cap Sent(one, type) = {}
    BY <2>1
  <2> QED BY <1>1, <1>3, <1>4, <1>5, <2>1, <2>2
<1>6. CASE m[1] # type
  <2>1. Sent(one, type) = {} /\ ~Holds(one, type)
    BY <1>2, <1>6
  <2> QED BY <1>1, <1>4, <1>6, <2>1
<1> QED BY <1>5, <1>6

LEMMA TailQueue ==
  ASSUME NEW M, NEW q \in Seq(M), q # <<>>, NEW type
  PROVE  /\ Head(q) \in M /\ Tail(q) \in Seq(M)
         /\ Head(q)[1] = type => /\ Head(q)[2] \in Sent(q, type)
                                 /\ Holds(q, type)
                                 /\ Once(q, type) => Sent(Tail(q), type) = Sent(q, type) \ {Head(q)[2]}
                                 /\ Single(q, type) => ~Holds(Tail(q), type)
         /\ Head(q)[1] # type => /\ Sent(Tail(q), type) = Sent(q, type)
                                 /\ Holds(Tail(q), type) <=> Holds(q, type)
         /\ Once(q, type) => Once(Tail(q), type)
         /\ Single(q, type) => Single(Tail(q), type)
<1> DEFINE t == Tail(q)
<1>1. /\ Head(q) = q[1] /\ Head(q) \in M /\ t \in Seq(M)
      /\ Len(q) \in Nat /\ Len(q) > 0 /\ Len(t) = Len(q) - 1
      /\ \A i \in 1 .. Len(t) : t[i] = q[i + 1]
  BY HeadTailProperties, EmptySeq, LenProperties
<1> HIDE DEF t
<1>2. \A i \in 1 .. Len(t) : i + 1 \in 1 .. Len(q) /\ t[i] = q[i + 1] /\ i + 1 # 1
  BY <1>1
<1>3. \A i \in 1 .. Len(q) : i = 1 \/ (i - 1 \in 1 .. Len(t) /\ t[i - 1] = q[i])
  <2> SUFFICES ASSUME NEW i \in 1 .. Len(q), i # 1
               PROVE  i - 1 \in 1 .. Len(t) /\ t[i - 1] = q[i]
    OBVIOUS
  <2>1. i \in Int /\ i - 1 \in 1 .. Len(t) /\ (i - 1) + 1 = i
    BY <1>1
  <2> QED BY <1>1, <2>1
<1>4. 1 \in 1 .. Len(q)
  BY <1>1
<1>5. ASSUME NEW p
      PROVE  p \in Sent(q, type)
               <=> p \in Sent(t, type) \/ (q[1][1] = type /\ q[1][2] = p)
  <2>1. ASSUME p \in Sent(q, type)
        PROVE  p \in Sent(t, type) \/ (q[1][1] = type /\ q[1][2] = p)
    <3>1. PICK i \in 1 .. Len(q) : q[i][1] = type /\ q[i][2] = p
      BY <2>1, SentIff
    <3> QED BY <1>3, <3>1, SentIff
  <2>2. ASSUME p \in Sent(t, type)
        PROVE  p \in Sent(q, type)
    <3>1. PICK i \in 1 .. Len(t) : t[i][1] = type /\ t[i][2] = p
      BY <2>2, SentIff
    <3> QED BY <1>2, <3>1, SentIff
  <2>3. ASSUME q[1][1] = type, q[1][2] = p
        PROVE  p \in Sent(q, type)
    BY <1>4, <2>3, SentIff
  <2> QED BY <2>1, <2>2, <2>3
<1>6. Holds(q, type) <=> Holds(t, type) \/ q[1][1] = type
  <2>1. ASSUME Holds(q, type)
        PROVE  Holds(t, type) \/ q[1][1] = type
    <3>1. PICK i \in 1 .. Len(q) : q[i][1] = type
      BY <2>1 DEF Holds
    <3> QED BY <1>3, <3>1 DEF Holds
  <2>2. ASSUME Holds(t, type)
        PROVE  Holds(q, type)
    <3>1. PICK i \in 1 .. Len(t) : t[i][1] = type
      BY <2>2 DEF Holds
    <3> QED BY <1>2, <3>1 DEF Holds
  <2>3. q[1][1] = type => Holds(q, type)
    BY <1>4 DEF Holds
  <2> QED BY <2>1, <2>2, <2>3
<1>7. ASSUME q[1][1] = type, Once(q, type)
      PROVE  q[1][2] \notin Sent(t, type)
  BY <1>2, <1>4, <1>7, SentIff DEF Once
<1>8. ASSUME q[1][1] = type, Single(q, type)
      PROVE  ~Holds(t, type)
  BY <1>2, <1>4, <1>8 DEF Holds, Single
<1>9. ASSUME Once(q, type)
      PROVE  Once(t, type)
  <2> SUFFICES ASSUME NEW i \in 1 .. Len(t), NEW j \in 1 .. Len(t),
                      t[i][1] = type, t[j][1] = type, t[i][2] = t[j][2]
               PROVE  i = j
    BY DEF Once
  <2>1. i + 1 = j + 1
    BY <1>2, <1>9 DEF Once
  <2> QED BY <2>1
<1>10. ASSUME Single(q, type)
       PROVE  Single(t, type)
  <2> SUFFICES ASSUME NEW i \in 1 .. Len(t), NEW j \in 1 .. Len(t),
                      t[i][1] = type, t[j][1] = type
               PROVE  i = j
    BY DEF Single
  <2>1. i + 1 = j + 1
    BY <1>2, <1>10 DEF Single
  <2> QED BY <2>1
<1>11. ASSUME q[1][1] # type
       PROVE  Sent(t, type) = Sent(q, type)
  BY <1>5, <1>11
<1>12. ASSUME q[1][1] = type, Once(q, type)
       PROVE  Sent(t, type) = Sent(q, type) \ {q[1][2]}
  BY <1>5, <1>7, <1>12
<1> QED
  BY <1>1, <1>5, <1>6, <1>8, <1>9, <1>10, <1>11, <1>12 DEF t

-----------------------------------------------------------------------------
(* The queues of several threads.                                            *)

(* The messages of this type are in each queue what they were.               *)
Unmoved(threads, queues, then, type) ==
  \A w \in threads : /\ Sent(then[w], type) = Sent(queues[w], type)
                     /\ Holds(then[w], type) <=> Holds(queues[w], type)
                     /\ Once(queues[w], type) => Once(then[w], type)
                     /\ Single(queues[w], type) => Single(then[w], type)

LEMMA StillUnmoved ==
  ASSUME NEW threads, NEW queues, NEW type
  PROVE  Unmoved(threads, queues, queues, type)
BY DEF Unmoved

(* m is appended to the queue of w.                                          *)
Grown(queues, w, m, then) == then = [queues EXCEPT ![w] = Append(@, m)]

LEMMA AppendUnmoved ==
  ASSUME NEW threads, NEW M, NEW queues \in [threads -> Seq(M)], NEW w \in threads,
         NEW m \in M, NEW then, Grown(queues, w, m, then)
  PROVE  /\ then \in [threads -> Seq(M)]
         /\ \A type : m[1] # type => Unmoved(threads, queues, then, type)
<1>1. /\ then[w] = Append(queues[w], m) /\ queues[w] \in Seq(M)
      /\ \A v \in threads : v # w => then[v] = queues[v]
  BY DEF Grown
<1>2. then \in [threads -> Seq(M)]
  <2>1. Append(queues[w], m) \in Seq(M)
    BY <1>1, AppendProperties
  <2> QED BY <2>1 DEF Grown
<1>3. ASSUME NEW type, m[1] # type, NEW v \in threads
      PROVE  /\ Sent(then[v], type) = Sent(queues[v], type)
             /\ Holds(then[v], type) <=> Holds(queues[v], type)
             /\ Once(queues[v], type) => Once(then[v], type)
             /\ Single(queues[v], type) => Single(then[v], type)
  <2>1. CASE v = w
    <3> DEFINE q == queues[w]
    <3>1. q \in Seq(M)
      BY <1>1
    <3> HIDE DEF q
    <3>2. /\ Sent(Append(q, m), type) = Sent(q, type)
          /\ Holds(Append(q, m), type) <=> Holds(q, type)
          /\ Once(q, type) => Once(Append(q, m), type)
          /\ Single(q, type) => Single(Append(q, m), type)
      BY <1>3, <3>1, AppendQueue
    <3>3. queues[v] = q /\ then[v] = Append(q, m)
      BY <1>1, <2>1 DEF q
    <3> QED BY <3>2, <3>3
  <2>2. CASE v # w
    <3>1. then[v] = queues[v]
      BY <1>1, <2>2
    <3> QED BY <3>1
  <2> QED BY <2>1, <2>2
<1> QED
  BY <1>2, <1>3 DEF Unmoved

(* The head of the queue of w is taken.                                      *)
Shrunk(queues, w, then) == queues[w] # <<>> /\ then = [queues EXCEPT ![w] = Tail(@)]

LEMMA TailUnmoved ==
  ASSUME NEW threads, NEW M, NEW queues \in [threads -> Seq(M)], NEW w \in threads,
         NEW then, Shrunk(queues, w, then)
  PROVE  /\ then \in [threads -> Seq(M)]
         /\ Head(queues[w]) \in M
         /\ \A type : Head(queues[w])[1] # type => Unmoved(threads, queues, then, type)
<1>1. /\ queues[w] # <<>> /\ then = [queues EXCEPT ![w] = Tail(@)]
      /\ then[w] = Tail(queues[w]) /\ queues[w] \in Seq(M)
      /\ \A v \in threads : v # w => then[v] = queues[v]
  BY DEF Shrunk
<1>2. Head(queues[w]) \in M /\ Tail(queues[w]) \in Seq(M)
  BY <1>1, HeadTailProperties
<1>3. then \in [threads -> Seq(M)]
  BY <1>1, <1>2
<1>4. ASSUME NEW type, Head(queues[w])[1] # type, NEW v \in threads
      PROVE  /\ Sent(then[v], type) = Sent(queues[v], type)
             /\ Holds(then[v], type) <=> Holds(queues[v], type)
             /\ Once(queues[v], type) => Once(then[v], type)
             /\ Single(queues[v], type) => Single(then[v], type)
  <2>1. CASE v = w
    <3> DEFINE q == queues[w]
    <3>1. q \in Seq(M) /\ q # <<>> /\ Head(q)[1] # type
      BY <1>1, <1>4
    <3> HIDE DEF q
    <3>2. /\ Sent(Tail(q), type) = Sent(q, type)
          /\ Holds(Tail(q), type) <=> Holds(q, type)
          /\ Once(q, type) => Once(Tail(q), type)
          /\ Single(q, type) => Single(Tail(q), type)
      BY <3>1, TailQueue
    <3>3. queues[v] = q /\ then[v] = Tail(q)
      BY <1>1, <2>1 DEF q
    <3> QED BY <3>2, <3>3
  <2>2. CASE v # w
    <3>1. then[v] = queues[v]
      BY <1>1, <2>2
    <3> QED BY <3>1
  <2> QED BY <2>1, <2>2
<1> QED
  BY <1>2, <1>3, <1>4 DEF Unmoved

-----------------------------------------------------------------------------
(* The round robin meets each part at a look of its own, and the parts of an *)
(* object in the order of their numbers.                                     *)
LEMMA ModFacts ==
  ASSUME NEW a \in Int, NEW n \in Nat, n > 0
  PROVE  /\ a % n \in 0 .. n - 1
         /\ \A b \in Int : a % n = b % n => \E c \in Int : a - b = c * n
<1>1. a = n * (a \div n) + (a % n) /\ a % n \in 0 .. n - 1 /\ a \div n \in Int
  OBVIOUS
<1>2. ASSUME NEW b \in Int, a % n = b % n
      PROVE  \E c \in Int : a - b = c * n
  <2>1. b = n * (b \div n) + (b % n) /\ b \div n \in Int
    OBVIOUS
  <2>2. a - b = (a \div n - b \div n) * n /\ a \div n - b \div n \in Int
    BY <1>1, <1>2, <2>1
  <2> QED BY <2>2
<1> QED BY <1>1, <1>2

(* A multiple of n that is nearer to 0 than n is 0.                          *)
LEMMA NoMultiple ==
  ASSUME NEW n \in Nat, NEW c \in Int, c * n < n, -n < c * n
  PROVE  c = 0
<1>1. CASE c >= 1
  <2>1. c * n >= n
    BY <1>1
  <2> QED BY <2>1
<1>2. CASE c <= -1
  <2>1. c * n <= -n
    BY <1>2
  <2> QED BY <2>1
<1> QED BY <1>1, <1>2

LEMMA LooksApart ==
  ASSUME NEW K, NEW order \in Seq(K), NEW rr \in Nat, NEW from \in [K -> Nat],
         NEW parts,
         \A p \in parts : /\ p \in K \X Nat /\ p[2] > from[p[1]]
                          /\ \E i \in 1 .. Len(order) : order[i] = p[1]
  PROVE  /\ \A p \in parts : Look(order, rr, from, p) \in Nat
         /\ \A p, q \in parts : Look(order, rr, from, p) = Look(order, rr, from, q) => p = q
         /\ \A p, q \in parts :
              p[1] = q[1] => (Look(order, rr, from, p) < Look(order, rr, from, q)
                                <=> p[2] < q[2])
<1> DEFINE met == {k \in K : \E i \in 1 .. Len(order) : order[i] = k}
           n == Len(order)
           Index(k) == CHOOSE i \in 1 .. Len(order) : order[i] = k
           first == [k \in met |-> FirstLook(order, rr, k)]
           turn == [p \in parts |-> p[2] - from[p[1]] - 1]
<1>1. n \in Nat
  OBVIOUS
<1>2. ASSUME NEW k \in met
      PROVE  /\ Index(k) \in 1 .. n /\ order[Index(k)] = k /\ n > 0
             /\ first[k] = (Index(k) - 1 - rr) % n
             /\ first[k] \in 0 .. n - 1
  <2>1. PICK i \in 1 .. Len(order) : order[i] = k
    OBVIOUS
  <2>2. Index(k) \in 1 .. n /\ order[Index(k)] = k
    BY <2>1
  <2>3. n > 0 /\ first[k] = (Index(k) - 1 - rr) % n
    BY <1>1, <2>2 DEF FirstLook
  <2> HIDE DEF Index, first, n
  <2>4. Index(k) - 1 - rr \in Int
    BY <1>1, <2>2
  <2> QED BY <1>1, <2>2, <2>3, <2>4, ModFacts
<1>3. ASSUME NEW k \in met, NEW l \in met, first[k] = first[l]
      PROVE  k = l
  <2> DEFINE i == Index(k)
             j == Index(l)
             a == i - 1 - rr
             b == j - 1 - rr
  <2> HIDE DEF first, n, met
  <2>1. /\ i \in 1 .. n /\ j \in 1 .. n /\ n > 0
        /\ order[i] = k /\ order[j] = l
        /\ a % n = b % n
    BY <1>2, <1>3
  <2> HIDE DEF i, j
  <2>2. /\ a \in Int /\ b \in Int /\ a - b < n /\ -n < a - b
        /\ a - b = i - j /\ i \in Int /\ j \in Int
    BY <1>1, <2>1
  <2> HIDE DEF a, b
  <2>3. PICK c \in Int : a - b = c * n
    BY <1>1, <2>1, <2>2, ModFacts
  <2>4. c = 0
    BY <1>1, <2>2, <2>3, NoMultiple
  <2>5. i = j
    BY <1>1, <2>2, <2>3, <2>4
  <2> QED BY <2>1, <2>5
<1>4. ASSUME NEW p \in parts
      PROVE  /\ p[1] \in met /\ turn[p] \in Nat /\ turn[p] = p[2] - from[p[1]] - 1
             /\ p[2] \in Nat /\ from[p[1]] \in Nat /\ p = <<p[1], p[2]>>
             /\ Look(order, rr, from, p) = first[p[1]] + turn[p] * n
  <2>1. /\ p[1] \in met /\ p[2] \in Nat /\ from[p[1]] \in Nat /\ p[2] > from[p[1]]
        /\ p = <<p[1], p[2]>> /\ turn[p] = p[2] - from[p[1]] - 1
    OBVIOUS
  <2>2. Look(order, rr, from, p) = first[p[1]] + turn[p] * n
    BY <2>1 DEF Look
  <2> HIDE DEF turn
  <2>3. turn[p] \in Nat
    BY <2>1
  <2> QED BY <2>1, <2>2, <2>3
<1> HIDE DEF first, turn, n, met
<1>5. ASSUME NEW p \in parts, NEW q \in parts
      PROVE  /\ Look(order, rr, from, p) \in Nat
             /\ Look(order, rr, from, p) = Look(order, rr, from, q) => p = q
             /\ p[1] = q[1] => (Look(order, rr, from, p) < Look(order, rr, from, q)
                                  <=> p[2] < q[2])
  <2> DEFINE x == first[p[1]]
             y == first[q[1]]
             s == turn[p]
             t == turn[q]
  <2>1. /\ x \in 0 .. n - 1 /\ y \in 0 .. n - 1 /\ s \in Nat /\ t \in Nat /\ n > 0
        /\ Look(order, rr, from, p) = x + s * n /\ Look(order, rr, from, q) = y + t * n
    BY <1>2, <1>4
  <2>2. /\ p[1] = q[1] => x = y /\ s - t = p[2] - q[2]
        /\ x = y => p[1] = q[1]
        /\ x = y /\ s = t => p = q
        /\ p[2] \in Nat /\ q[2] \in Nat
    <3>1. /\ p[1] \in met /\ p[2] \in Nat /\ from[p[1]] \in Nat /\ p = <<p[1], p[2]>>
          /\ q[1] \in met /\ q[2] \in Nat /\ from[q[1]] \in Nat /\ q = <<q[1], q[2]>>
          /\ s = p[2] - from[p[1]] - 1 /\ t = q[2] - from[q[1]] - 1
      BY <1>4
    <3>2. x = y => p[1] = q[1]
      BY <1>3, <3>1
    <3> HIDE DEF s, t
    <3>3. p[1] = q[1] => s - t = p[2] - q[2]
      BY ONLY <3>1
    <3>4. p[1] = q[1] /\ s = t => p[2] = q[2]
      BY ONLY <3>1
    <3> QED BY <3>1, <3>2, <3>3, <3>4
  <2> HIDE DEF x, y, s, t
  <2>3. s * n \in Nat /\ t * n \in Nat
    BY <1>1, <2>1
  <2>4. ASSUME x + s * n = y + t * n
        PROVE  p = q
    <3>1. (s - t) * n = s * n - t * n /\ s - t \in Int
      BY <1>1, <2>1
    <3>2. (s - t) * n < n /\ -n < (s - t) * n
      <4> DEFINE u == s * n
                 v == t * n
                 d == (s - t) * n
      <4>1. /\ n \in Nat /\ x \in 0 .. n - 1 /\ y \in 0 .. n - 1
            /\ u \in Nat /\ v \in Nat /\ x + u = y + v /\ d = u - v
        BY <1>1, <2>1, <2>3, <2>4, <3>1
      <4> HIDE DEF u, v, d
      <4>2. d < n /\ -n < d
        BY ONLY <4>1
      <4> QED BY <4>2 DEF d
    <3>3. s - t = 0
      BY <1>1, <3>1, <3>2, NoMultiple
    <3>4. s = t
      BY <2>1, <3>3
    <3>5. x = y
      BY <1>1, <2>1, <2>3, <2>4, <3>4
    <3> QED BY <2>2, <3>4, <3>5
  <2>5. ASSUME p[1] = q[1]
        PROVE  x + s * n < y + t * n <=> p[2] < q[2]
    <3>1. x = y /\ s - t = p[2] - q[2]
      BY <2>2, <2>5
    <3>2. s < t => s * n < t * n
      BY <1>1, <2>1
    <3>3. t <= s => t * n <= s * n
      BY <1>1, <2>1
    <3>4. s < t <=> p[2] < q[2]
      BY <2>1, <2>2, <3>1
    <3> QED BY <1>1, <2>1, <2>3, <3>1, <3>2, <3>3, <3>4
  <2> QED BY ONLY <1>1, <2>1, <2>3, <2>4, <2>5
<1> QED BY <1>5
=============================================================================
