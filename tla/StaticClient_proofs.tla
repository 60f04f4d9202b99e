------------------------- MODULE StaticClient_proofs -------------------------
(***************************************************************************)
(* Proofs about MerkleTiles and StaticClient, for tiles of any height and  *)
(* trees of up to TwoTo[MaxHeight] leaves: the hashes rangeRoot and        *)
(* rootWithLeaf fold out of the tiles they read are those of RFC 6962, no  *)
(* other leaf leads to a root, and so the client hands on only entries of  *)
(* the accepted tree and accepts only trees that contain the one before.   *)
(* And about what it reads: DataTiles, for data tiles of any width and any *)
(* range, and EntryCodec, for any entries.                                 *)
(*                                                                         *)
(* The functions of MerkleTiles, DataTiles and EntryCodec recur on a size  *)
(* or on what is left to read.  That such a definition has a solution is   *)
(* proved once (Recursion), for their bodies as one operator (Body);       *)
(* induction is over sets of numbers (Ladder).                             *)
(***************************************************************************)
EXTENDS StaticClient, Algorithms, FiniteSetTheorems, SequenceTheorems,
        WellFoundedInduction, TLAPS

-----------------------------------------------------------------------------
(* Recursion and induction.                                                *)

\* A set of naturals has a least member, since < on them is well founded.
LEMMA Least ==
    ASSUME NEW T \in SUBSET Nat, T # {}
    PROVE  \E m \in T : \A k \in T : m <= k
<1> DEFINE R == OpToRel(<, Nat)
<1>1. \A i, j \in Nat : <<i, j>> \in R <=> i < j
  BY DEF OpToRel
<1>2. IsWellFoundedOn(R, Nat)
  BY NatLessThanWellFounded
<1> HIDE DEF R
<1>3. PICK m \in T : \A k \in T : ~(<<k, m>> \in R)
  BY <1>2, WFMin
<1>4. \A k \in T : k \in Nat /\ m \in Nat /\ ~(k < m)
  BY <1>1, <1>3
<1>5. \A k \in T : m <= k
  BY <1>4
<1> QED
  BY <1>5

TwoStep(f, n) == IF n = 0 THEN 1 ELSE 2 * f[n - 1]

WorkStep(hashes, offset, f, n) ==
    [i \in Nat |-> IF n = 0 THEN hashes[offset + i]
                   ELSE Children(f[n - 1][2 * i - 1], f[n - 1][2 * i])]

RootStep(size, tiles, f, n) ==
    [s \in Nat |->
        IF n = 0 THEN EmptyHash
        ELSE IF IsNode(s, n) THEN NodeHash(HeightOf(n), s \div n, size, tiles)
        ELSE LET k == SplitBelow(n) IN Children(f[k][s], f[n - k][s + k])]

LeafStep(target, leaf, size, tiles, f, n) ==
    [s \in Nat |->
        IF target \notin Stretch(s, s + n) THEN Error
        ELSE IF n = 1 THEN leaf
        ELSE LET k == SplitBelow(n)
             IN  IF target < s + k
                 THEN Children(f[k][s], RangeRoot(s + k, n - k, size, tiles))
                 ELSE Children(RangeRoot(s, k, size, tiles), f[n - k][s + k])]

ReadStep(size, f, n) ==
    [s \in Nat |->
        IF n = 0 THEN {}
        ELSE IF IsNode(s, n) THEN {TileAt(HeightOf(n), s \div n, size)}
        ELSE LET k == SplitBelow(n) IN f[k][s] \cup f[n - k][s + k]]

InclusionStep(target, size, f, n) ==
    [s \in Nat |->
        IF n <= 1 THEN {}
        ELSE LET k == SplitBelow(n)
             IN  IF target < s + k
                 THEN f[k][s] \cup RangeTiles(s + k, n - k, size)
                 ELSE RangeTiles(s, k, size) \cup f[n - k][s + k]]

HashStep(leaves, f, n) ==
    [s \in Nat |->
        IF n = 0 THEN EmptyHash
        ELSE IF n = 1 THEN LeafHash(leaves[s + 1])
        ELSE LET k == Max(Powers(n) \cap (1 .. (n - 1)))
             IN  <<f[k][s], f[n - k][s + k]>>]

DigitsStep(f, n) == IF n < Radix THEN <<n>> ELSE Append(f[n \div Radix], n % Radix)

ValueStep(path, f, n) ==
    IF n = 0 THEN 0
    ELSE Radix * f[n - 1] + path[((n - 1) \div Group) + 1].digits[((n - 1) % Group) + 1]

RangeStep(end, size, log, f, n) ==
    IF n = 0 THEN <<>>
    ELSE LET from == end - n + 1
             tile == from \div DataWidth
             offset == from % DataWidth
             take == Data!Take(from, end, size)
             entries == Data!GetDataTile(tile, Data!WidthOf(tile, size), log)
             rest == f[n - take]
         IN  IF entries = Data!Error \/ rest = Data!Error THEN Data!Error
             ELSE SubSeq(entries, offset + 1, offset + take) \o rest

FirstStep(entries, f, n) == IF n = 0 THEN <<>> ELSE f[n - 1] \o Codec!TileLeaf(entries[n])

ParseStep(data, f, n) ==
    IF n = 0 THEN [ok |-> TRUE, entries |-> <<>>]
    ELSE LET entry == Codec!ReadEntry(data, Len(data) - n + 1)
             rest == f[Len(data) - entry.next + 1]
         IN  IF entry.next = 0 THEN [ok |-> FALSE, entries |-> <<>>]
             ELSE [ok |-> rest.ok, entries |-> <<entry.value>> \o rest.entries]

Body(kind, a, b, c, d, f, n) ==
    CASE kind = "two" -> TwoStep(f, n)
      [] kind = "work" -> WorkStep(a, b, f, n)
      [] kind = "root" -> RootStep(a, b, f, n)
      [] kind = "leaf" -> LeafStep(a, b, c, d, f, n)
      [] kind = "read" -> ReadStep(a, f, n)
      [] kind = "inclusion" -> InclusionStep(a, b, f, n)
      [] kind = "hash" -> HashStep(a, f, n)
      [] kind = "digits" -> DigitsStep(f, n)
      [] kind = "value" -> ValueStep(a, f, n)
      [] kind = "range" -> IF n > a THEN 0 ELSE RangeStep(b, c, d, f, n)
      [] kind = "first" -> FirstStep(a, f, n)
      [] kind = "parse" -> IF n > Len(a) THEN 0 ELSE ParseStep(a, f, n)

\* What a definition computes at n it reads of the values below n.
Causal(kind, a, b, c, d) ==
    \A f, g : \A n \in Nat :
        (\A i \in 0 .. (n - 1) : f[i] = g[i])
            => Body(kind, a, b, c, d, f, n) = Body(kind, a, b, c, d, g, n)

\* A causal definition has a function that satisfies it.
LEMMA Recursion ==
    ASSUME NEW kind, NEW a, NEW b, NEW c, NEW d, Causal(kind, a, b, c, d)
    PROVE  \E f : f = [n \in Nat |-> Body(kind, a, b, c, d, f, n)]
<1> DEFINE B(f, n) == Body(kind, a, b, c, d, f, n)
           Upto(f, n) == \A i \in 0 .. (n - 1) : f[i] = B(f, i)
<1>1. \A f, g : \A n \in Nat : (\A i \in 0 .. (n - 1) : f[i] = g[i]) => B(f, n) = B(g, n)
  BY DEF Causal
<1> HIDE DEF B
<1>2. ASSUME NEW f, NEW g, NEW m \in Nat, NEW n \in Nat, Upto(f, m), Upto(g, n),
             NEW j \in Nat, j < m, j < n
      PROVE  f[j] = g[j]
  <2> DEFINE T == {i \in 0 .. j : f[i] # g[i]}
  <2>1. CASE T = {}
    BY <2>1
  <2>2. CASE T # {}
    <3>1. T \in SUBSET Nat
      OBVIOUS
    <3>2. PICK i \in T : \A k \in T : i <= k
      <4> HIDE DEF T
      <4> QED
        BY <2>2, <3>1, Least
    <3>3. \A k \in 0 .. (i - 1) : f[k] = g[k]
      BY <3>2
    <3>4. B(f, i) = B(g, i)
      BY <1>1, <3>3
    <3>5. f[i] = B(f, i) /\ g[i] = B(g, i)
      BY <1>2, <3>2
    <3> QED
      BY <3>2, <3>4, <3>5
  <2> QED
    BY <2>1, <2>2
<1>3. \A n \in Nat : \E f : Upto(f, n)
  <2> DEFINE T == {n \in Nat : ~\E f : Upto(f, n)}
  <2> SUFFICES ASSUME T # {} PROVE FALSE
    OBVIOUS
  <2>1. PICK n \in T : \A k \in T : n <= k
    BY Least
  <2>2. n # 0
    BY <2>1
  <2>3. PICK f : Upto(f, n - 1)
    <3>1. n - 1 \in Nat /\ n - 1 \notin T
      BY <2>1, <2>2
    <3> HIDE DEF Upto
    <3> QED
      BY <3>1
  <2> DEFINE g == [i \in Nat |-> IF i = n - 1 THEN B(f, i) ELSE f[i]]
  <2>4. \A i \in 0 .. (n - 2) : g[i] = f[i]
    BY <2>1
  <2>5. \A i \in 0 .. (n - 1) : B(g, i) = B(f, i)
    <3> TAKE i \in 0 .. (n - 1)
    <3>1. \A k \in 0 .. (i - 1) : g[k] = f[k]
      BY <2>1, <2>4
    <3> HIDE DEF g
    <3> QED
      BY <1>1, <2>1, <3>1
  <2>6. Upto(g, n)
    <3> TAKE i \in 0 .. (n - 1)
    <3>1. CASE i = n - 1
      BY <2>1, <2>5, <3>1
    <3>2. CASE i # n - 1
      <4>1. g[i] = f[i] /\ i \in 0 .. ((n - 1) - 1)
        BY <2>1, <2>4, <3>2
      <4>2. f[i] = B(f, i)
        BY <2>3, <4>1
      <4> QED
        BY <2>5, <4>1, <4>2
    <3> QED
      BY <3>1, <3>2
  <2> HIDE DEF g
  <2> QED
    BY <2>1, <2>6
<1> DEFINE Part(n) == CHOOSE f : Upto(f, n)
           F == [n \in Nat |-> Part(n + 1)[n]]
<1>4. \A n \in Nat : Upto(Part(n), n)
  BY <1>3
<1> HIDE DEF Part
<1>5. ASSUME NEW n \in Nat PROVE F[n] = B(F, n)
  <2>1. \A i \in 0 .. n : F[i] = Part(n + 1)[i]
    <3> TAKE i \in 0 .. n
    <3>1. Upto(Part(i + 1), i + 1) /\ Upto(Part(n + 1), n + 1)
      BY <1>4
    <3>2. i < i + 1 /\ i < n + 1 /\ i \in Nat /\ i + 1 \in Nat /\ n + 1 \in Nat
      OBVIOUS
    <3> HIDE DEF Upto
    <3>3. Part(i + 1)[i] = Part(n + 1)[i]
      BY <1>2, <3>1, <3>2
    <3> QED
      BY <3>2, <3>3
  <2> HIDE DEF F
  <2>2. B(F, n) = B(Part(n + 1), n)
    BY <1>1, <2>1
  <2>3. Part(n + 1)[n] = B(Part(n + 1), n)
    BY <1>4
  <2> QED
    BY <2>1, <2>2, <2>3
<1>6. F = [n \in Nat |-> B(F, n)]
  BY <1>5
<1> HIDE DEF F
<1>7. \E f : f = [n \in Nat |-> B(f, n)]
  BY <1>6
<1> QED
  BY <1>7 DEF B

\* So has one that ends somewhere.
LEMMA RecursionUpTo ==
    ASSUME NEW kind, NEW a, NEW b, NEW c, NEW d, Causal(kind, a, b, c, d), NEW m \in Nat
    PROVE  \E f : f = [n \in 0 .. m |-> Body(kind, a, b, c, d, f, n)]
<1> DEFINE B(f, n) == Body(kind, a, b, c, d, f, n)
<1>1. \A f, g : \A n \in Nat : (\A i \in 0 .. (n - 1) : f[i] = g[i]) => B(f, n) = B(g, n)
  BY DEF Causal
<1>2. PICK F : F = [n \in Nat |-> B(F, n)]
  BY Recursion
<1> HIDE DEF B
<1> DEFINE f == [n \in 0 .. m |-> F[n]]
<1>3. ASSUME NEW n \in 0 .. m PROVE f[n] = B(f, n)
  <2>1. f[n] = B(F, n)
    BY <1>2
  <2>2. \A i \in 0 .. (n - 1) : f[i] = F[i]
    OBVIOUS
  <2> HIDE DEF f
  <2>3. B(f, n) = B(F, n)
    BY <1>1, <2>2
  <2> QED
    BY <2>1, <2>3
<1>4. f = [n \in 0 .. m |-> B(f, n)]
  BY <1>3
<1> HIDE DEF f
<1>5. \E g : g = [n \in 0 .. m |-> B(g, n)]
  BY <1>4
<1> QED
  BY <1>5 DEF B

LEMMA TwoToIs == TwoTo = [i \in Nat |-> TwoStep(TwoTo, i)]
<1>1. Causal("two", 0, 0, 0, 0)
  BY DEF Causal, Body, TwoStep
<1>2. PICK f : f = [n \in Nat |-> Body("two", 0, 0, 0, 0, f, n)]
  BY <1>1, Recursion
<1> QED
  BY <1>2 DEF TwoTo, Body, TwoStep

\* Induction, over the set of numbers that have the property.
LEMMA Ladder ==
    ASSUME NEW T \in SUBSET Nat, 0 \in T, \A n \in T : n + 1 \in T
    PROVE  \A n \in Nat : n \in T
<1> DEFINE U == {n \in Nat : n \notin T}
<1> SUFFICES ASSUME U # {} PROVE FALSE
  OBVIOUS
<1>1. PICK n \in U : \A k \in U : n <= k
  <2>1. U \in SUBSET Nat
    OBVIOUS
  <2> HIDE DEF U
  <2> QED
    BY <2>1, Least
<1>2. n # 0 /\ n \in Nat /\ n - 1 \in Nat
  BY <1>1
<1>3. n - 1 \in T
  BY <1>1, <1>2
<1>4. (n - 1) + 1 \in T
  BY <1>3
<1> QED
  BY <1>1, <1>2, <1>4

\* Induction from all numbers below, the same way.
LEMMA LadderFromAllBelow ==
    ASSUME NEW T \in SUBSET Nat, \A n \in Nat : (\A m \in 0 .. (n - 1) : m \in T) => n \in T
    PROVE  \A n \in Nat : n \in T
<1> DEFINE U == {n \in Nat : n \notin T}
<1> SUFFICES ASSUME U # {} PROVE FALSE
  OBVIOUS
<1>1. PICK n \in U : \A k \in U : n <= k
  <2>1. U \in SUBSET Nat
    OBVIOUS
  <2> HIDE DEF U
  <2> QED
    BY <2>1, Least
<1>2. \A m \in 0 .. (n - 1) : m \in T
  BY <1>1
<1> QED
  BY <1>1, <1>2

-----------------------------------------------------------------------------
(* Powers of two and where a tree is split.                                *)

\* The powers of two.
LEMMA TwoToSteps == TwoTo[0] = 1 /\ \A i \in Nat : TwoTo[i + 1] = 2 * TwoTo[i]
<1>1. \A i \in Nat : TwoTo[i] = IF i = 0 THEN 1 ELSE 2 * TwoTo[i - 1]
  BY TwoToIs DEF TwoStep
<1>2. \A i \in Nat : i + 1 \in Nat /\ i + 1 # 0 /\ (i + 1) - 1 = i
  OBVIOUS
<1> QED
  BY <1>1, <1>2

LEMMA TwoToType == \A i \in Nat : TwoTo[i] \in Nat /\ 1 <= TwoTo[i] /\ i < TwoTo[i]
<1> DEFINE T == {i \in Nat : TwoTo[i] \in Nat /\ 1 <= TwoTo[i] /\ i < TwoTo[i]}
<1>1. 0 \in T
  BY TwoToSteps
<1>2. \A n \in T : n + 1 \in T
  BY TwoToSteps
<1>3. T \in SUBSET Nat
  OBVIOUS
<1>4. \A n \in Nat : n \in T
  <2> HIDE DEF T
  <2> QED
    BY <1>1, <1>2, <1>3, Ladder
<1> QED
  BY <1>4

LEMMA TwoToGrows == \A i, j \in Nat : i < j => 2 * TwoTo[i] <= TwoTo[j]
<1> SUFFICES ASSUME NEW i \in Nat PROVE \A j \in Nat : 2 * TwoTo[i] <= TwoTo[(i + 1) + j]
  <2> SUFFICES ASSUME NEW a \in Nat, NEW b \in Nat, a < b PROVE 2 * TwoTo[a] <= TwoTo[b]
    OBVIOUS
  <2>1. b - (a + 1) \in Nat /\ (a + 1) + (b - (a + 1)) = b
    OBVIOUS
  <2> QED
    BY <2>1
<1> DEFINE T == {j \in Nat : 2 * TwoTo[i] <= TwoTo[(i + 1) + j]}
<1>1. 0 \in T
  BY TwoToSteps, TwoToType
<1>2. ASSUME NEW n \in T PROVE n + 1 \in T
  <2>1. TwoTo[((i + 1) + n) + 1] = 2 * TwoTo[(i + 1) + n]
    BY TwoToSteps
  <2>2. ((i + 1) + n) + 1 = (i + 1) + (n + 1)
    OBVIOUS
  <2>3. TwoTo[(i + 1) + n] \in Nat /\ TwoTo[i] \in Nat
    BY TwoToType
  <2> QED
    BY <2>1, <2>2, <2>3
<1>3. T \in SUBSET Nat
  OBVIOUS
<1>4. \A n \in Nat : n \in T
  <2> HIDE DEF T
  <2> QED
    BY <1>1, <1>2, <1>3, Ladder
<1> QED
  BY <1>4

LEMMA TwoToSum == \A i, j \in Nat : TwoTo[i + j] = TwoTo[i] * TwoTo[j]
<1> SUFFICES ASSUME NEW i \in Nat PROVE \A j \in Nat : TwoTo[i + j] = TwoTo[i] * TwoTo[j]
  OBVIOUS
<1> DEFINE T == {j \in Nat : TwoTo[i + j] = TwoTo[i] * TwoTo[j]}
<1>1. 0 \in T
  BY TwoToSteps, TwoToType
<1>2. ASSUME NEW n \in T PROVE n + 1 \in T
  <2>1. TwoTo[(i + n) + 1] = 2 * TwoTo[i + n] /\ TwoTo[n + 1] = 2 * TwoTo[n]
    BY TwoToSteps
  <2>2. (i + n) + 1 = i + (n + 1)
    OBVIOUS
  <2>3. TwoTo[n] \in Nat /\ TwoTo[i] \in Nat
    BY TwoToType
  <2>4. \A x, y \in Nat : 2 * (x * y) = x * (2 * y)
    OBVIOUS
  <2> QED
    BY <2>1, <2>2, <2>3, <2>4
<1>3. T \in SUBSET Nat
  OBVIOUS
<1>4. \A n \in Nat : n \in T
  <2> HIDE DEF T
  <2> QED
    BY <1>1, <1>2, <1>3, Ladder
<1> QED
  BY <1>4

\* One power of two divides a number above one.
Splits(n, k) == k \in Powers(n) /\ k < n /\ n <= 2 * k

LEMMA PowersAre ==
    ASSUME NEW n \in Nat, NEW k \in Powers(n)
    PROVE  k \in Nat /\ 1 <= k /\ \E i \in 0 .. n : k = TwoTo[i]
BY TwoToType DEF Powers

\* splitPoint (merkle.go) has exactly one answer.
LEMMA SplitUnique ==
    ASSUME NEW n \in Nat, NEW k, NEW l, Splits(n, k), Splits(n, l)
    PROVE  k = l
<1>1. PICK i \in 0 .. n : k = TwoTo[i]
  BY PowersAre DEF Splits
<1>2. PICK j \in 0 .. n : l = TwoTo[j]
  BY PowersAre DEF Splits
<1>3. k \in Nat /\ l \in Nat /\ k < n /\ n <= 2 * k /\ l < n /\ n <= 2 * l
  BY PowersAre DEF Splits
<1>4. i < j => 2 * k <= l
  BY <1>1, <1>2, TwoToGrows
<1>5. j < i => 2 * l <= k
  BY <1>1, <1>2, TwoToGrows
<1> QED
  BY <1>1, <1>2, <1>3, <1>4, <1>5

LEMMA SplitExists == ASSUME NEW n \in Nat, 1 < n PROVE \E k : Splits(n, k)
<1> DEFINE T == {i \in Nat : n <= TwoTo[i]}
<1>1. n \in T
  BY TwoToType
<1>2. PICK i \in T : \A j \in T : i <= j
  <2>1. T \in SUBSET Nat
    OBVIOUS
  <2> HIDE DEF T
  <2> QED
    BY <1>1, <2>1, Least
<1>3. i # 0 /\ i <= n /\ i \in Nat
  BY <1>1, <1>2, TwoToSteps
<1>4. i - 1 \in Nat /\ i - 1 \in 0 .. n /\ i - 1 \notin T
  BY <1>2, <1>3
<1>5. TwoTo[i - 1] < n /\ TwoTo[i] = 2 * TwoTo[i - 1]
  BY <1>3, <1>4, TwoToType, TwoToSteps
<1>6. n <= TwoTo[i]
  BY <1>2
<1> QED
  BY <1>4, <1>5, <1>6 DEF Splits, Powers

LEMMA SplitBelowSplits ==
    ASSUME NEW n \in Nat, 1 < n
    PROVE  Splits(n, SplitBelow(n))
<1>1. \E k \in Powers(n) : k < n /\ n <= 2 * k
  BY SplitExists DEF Splits
<1> QED
  BY <1>1 DEF Splits, SplitBelow

LEMMA SplitRange ==
    ASSUME NEW n \in Nat, 1 < n
    PROVE  /\ SplitBelow(n) \in 1 .. (n - 1)
           /\ n - SplitBelow(n) \in 1 .. (n - 1)
           /\ n - SplitBelow(n) <= SplitBelow(n)
BY SplitBelowSplits, PowersAre DEF Splits

\* The code splits a tree where RFC 6962 does.
LEMMA SplitIsLargest ==
    ASSUME NEW n \in Nat, 1 < n
    PROVE  Max(Powers(n) \cap (1 .. (n - 1))) = SplitBelow(n)
<1> DEFINE k == SplitBelow(n)
           S == Powers(n) \cap (1 .. (n - 1))
<1>1. Splits(n, k) /\ k \in 1 .. (n - 1)
  BY SplitBelowSplits, SplitRange
<1> HIDE DEF k
<1>2. k \in S
  BY <1>1 DEF Splits
<1>3. ASSUME NEW l \in S PROVE l <= k
  <2>1. PICK i \in 0 .. n : k = TwoTo[i]
    BY <1>1, PowersAre DEF Splits
  <2>2. PICK j \in 0 .. n : l = TwoTo[j]
    BY PowersAre
  <2>3. i < j => 2 * k <= l
    BY <2>1, <2>2, TwoToGrows
  <2>4. j < i => 2 * l <= k
    BY <2>1, <2>2, TwoToGrows
  <2> QED
    BY <1>1, <2>1, <2>2, <2>3, <2>4 DEF Splits
<1>4. S \subseteq Nat
  OBVIOUS
<1> HIDE DEF S
<1>5. \E x \in S : \A y \in S : x >= y
  BY <1>1, <1>2, <1>3, <1>4
<1>6. Max(S) \in S /\ \A y \in S : Max(S) >= y
  BY <1>5 DEF Max
<1>7. Max(S) \in Nat /\ k \in Nat /\ Max(S) >= k /\ Max(S) <= k
  BY <1>2, <1>3, <1>4, <1>6
<1>8. Max(S) = k
  BY <1>7
<1> QED
  BY <1>8 DEF S, k

LEMMA SmallestNode == \A s \in Nat : IsNode(s, 1)
<1>1. TwoTo[0] = 1 /\ 0 \in 0 .. 1 /\ \A s \in Nat : s % 1 = 0
  BY TwoToSteps
<1>2. 1 \in Powers(1)
  BY <1>1 DEF Powers
<1> QED
  BY <1>1, <1>2 DEF IsNode

-----------------------------------------------------------------------------
(* The definitions of MerkleTiles, unfolded.                               *)

\* The definitions of MerkleTiles recur on smaller trees.
LEMMA AllCausal ==
    ASSUME NEW kind \in {"work", "root", "leaf", "read", "inclusion", "hash"},
           NEW a, NEW b, NEW c, NEW d
    PROVE  Causal(kind, a, b, c, d)
<1> SUFFICES ASSUME NEW f, NEW g, NEW n \in Nat, \A i \in 0 .. (n - 1) : f[i] = g[i]
             PROVE  Body(kind, a, b, c, d, f, n) = Body(kind, a, b, c, d, g, n)
  BY DEF Causal
<1> DEFINE k == SplitBelow(n)
<1>1. 1 < n => f[k] = g[k] /\ f[n - k] = g[n - k]
  BY SplitRange
<1>2. n # 0 => f[n - 1] = g[n - 1]
  OBVIOUS
<1>3. n = 0 \/ n = 1 \/ 1 < n
  OBVIOUS
<1>4. CASE kind = "work"
  <2>1. WorkStep(a, b, f, n) = WorkStep(a, b, g, n)
    BY <1>2 DEF WorkStep
  <2> QED
    BY <1>4, <2>1 DEF Body
<1>5. CASE kind = "root"
  <2>1. RootStep(a, b, f, n) = RootStep(a, b, g, n)
    BY <1>1, <1>3, SmallestNode DEF RootStep
  <2> QED
    BY <1>5, <2>1 DEF Body
<1>6. CASE kind = "leaf"
  <2>1. n = 0 => \A s \in Nat : a \notin Stretch(s, s + n)
    BY DEF Stretch
  <2>2. LeafStep(a, b, c, d, f, n) = LeafStep(a, b, c, d, g, n)
    BY <1>1, <1>3, <2>1 DEF LeafStep
  <2> QED
    BY <1>6, <2>2 DEF Body
<1>7. CASE kind = "read"
  <2>1. ReadStep(a, f, n) = ReadStep(a, g, n)
    BY <1>1, <1>3, SmallestNode DEF ReadStep
  <2> QED
    BY <1>7, <2>1 DEF Body
<1>8. CASE kind = "inclusion"
  <2> DEFINE at(u, v, s) == IF a < s + k THEN u[s] \cup RangeTiles(s + k, n - k, b)
                            ELSE RangeTiles(s, k, b) \cup v[s + k]
  <2>1. CASE n <= 1
    BY <2>1, <1>8 DEF InclusionStep, Body
  <2>2. CASE 1 < n
    <3>1. /\ InclusionStep(a, b, f, n) = [s \in Nat |-> at(f[k], f[n - k], s)]
          /\ InclusionStep(a, b, g, n) = [s \in Nat |-> at(g[k], g[n - k], s)]
      BY <2>2 DEF InclusionStep
    <3> HIDE DEF at
    <3>2. InclusionStep(a, b, f, n) = InclusionStep(a, b, g, n)
      BY <1>1, <2>2, <3>1
    <3> QED
      BY <1>8, <3>2 DEF Body
  <2> QED
    BY <2>1, <2>2
<1>9. CASE kind = "hash"
  <2>1. HashStep(a, f, n) = HashStep(a, g, n)
    BY <1>1, <1>3, SplitIsLargest DEF HashStep
  <2> QED
    BY <1>9, <2>1 DEF Body
<1> QED
  BY <1>4, <1>5, <1>6, <1>7, <1>8, <1>9

\* The reference hash unfolds.
LEMMA SubtreeHashesIs ==
    ASSUME NEW leaves
    PROVE  SubtreeHashes(leaves) = [n \in Nat |-> HashStep(leaves, SubtreeHashes(leaves), n)]
<1>1. PICK f : f = [n \in Nat |-> Body("hash", leaves, 0, 0, 0, f, n)]
  <2>1. Causal("hash", leaves, 0, 0, 0)
    BY AllCausal
  <2> QED
    BY <2>1, Recursion
<1>2. f = [n \in Nat |-> HashStep(leaves, f, n)]
  BY <1>1 DEF Body
<1> QED
  BY <1>2 DEF SubtreeHashes, HashStep

LEMMA HashOf ==
    ASSUME NEW leaves, NEW s \in Nat, NEW n \in Nat
    PROVE  SubtreeHashes(leaves)[n][s] =
              IF n = 0 THEN EmptyHash
              ELSE IF n = 1 THEN LeafHash(leaves[s + 1])
              ELSE LET k == SplitBelow(n)
                   IN  <<SubtreeHashes(leaves)[k][s], SubtreeHashes(leaves)[n - k][s + k]>>
<1> DEFINE h == SubtreeHashes(leaves)
<1>1. h = [m \in Nat |-> HashStep(leaves, h, m)]
  BY SubtreeHashesIs
<1> HIDE DEF h
<1>2. h[n] = HashStep(leaves, h, n)
  BY <1>1
<1>3. 1 < n => Max(Powers(n) \cap (1 .. (n - 1))) = SplitBelow(n)
  BY SplitIsLargest
<1>4. n = 0 \/ n = 1 \/ 1 < n
  OBVIOUS
<1>5. h[n][s] = IF n = 0 THEN EmptyHash
                ELSE IF n = 1 THEN LeafHash(leaves[s + 1])
                ELSE LET k == SplitBelow(n) IN <<h[k][s], h[n - k][s + k]>>
  BY <1>2, <1>3, <1>4 DEF HashStep
<1> QED
  BY <1>5 DEF h

\* rangeRoot and rootWithLeaf unfold.
LEMMA RangeRootsIs ==
    ASSUME NEW size, NEW tiles
    PROVE  RangeRoots(size, tiles) = [n \in Nat |-> RootStep(size, tiles, RangeRoots(size, tiles), n)]
<1>1. PICK f : f = [n \in Nat |-> Body("root", size, tiles, 0, 0, f, n)]
  <2>1. Causal("root", size, tiles, 0, 0)
    BY AllCausal
  <2> QED
    BY <2>1, Recursion
<1>2. f = [n \in Nat |-> RootStep(size, tiles, f, n)]
  BY <1>1 DEF Body
<1> QED
  BY <1>2 DEF RangeRoots, RootStep

LEMMA RootOf ==
    ASSUME NEW s \in Nat, NEW n \in Nat, NEW size, NEW tiles
    PROVE  RangeRoot(s, n, size, tiles) =
              IF n = 0 THEN EmptyHash
              ELSE IF IsNode(s, n) THEN NodeHash(HeightOf(n), s \div n, size, tiles)
              ELSE LET k == SplitBelow(n)
                   IN  Children(RangeRoot(s, k, size, tiles), RangeRoot(s + k, n - k, size, tiles))
<1> DEFINE f == RangeRoots(size, tiles)
<1>1. f = [m \in Nat |-> RootStep(size, tiles, f, m)]
  BY RangeRootsIs
<1>2. \A c, b : RangeRoot(b, c, size, tiles) = f[c][b]
  BY DEF RangeRoot
<1> HIDE DEF f
<1>3. f[n] = RootStep(size, tiles, f, n)
  BY <1>1
<1> QED
  BY <1>2, <1>3 DEF RootStep

LEMMA LeafRootOf ==
    ASSUME NEW s \in Nat, NEW n \in Nat, NEW target, NEW leaf, NEW size, NEW tiles
    PROVE  RootWithLeaf(s, n, target, leaf, size, tiles) =
              IF target \notin Stretch(s, s + n) THEN Error
              ELSE IF n = 1 THEN leaf
              ELSE LET k == SplitBelow(n)
                   IN  IF target < s + k
                       THEN Children(RootWithLeaf(s, k, target, leaf, size, tiles),
                                     RangeRoot(s + k, n - k, size, tiles))
                       ELSE Children(RangeRoot(s, k, size, tiles),
                                     RootWithLeaf(s + k, n - k, target, leaf, size, tiles))
<1> DEFINE f == CHOOSE f : f = [m \in Nat |-> LeafStep(target, leaf, size, tiles, f, m)]
<1>1. f = [m \in Nat |-> LeafStep(target, leaf, size, tiles, f, m)]
  <2>1. PICK g : g = [m \in Nat |-> Body("leaf", target, leaf, size, tiles, g, m)]
    <3>1. Causal("leaf", target, leaf, size, tiles)
      BY AllCausal
    <3> QED
      BY <3>1, Recursion
  <2>2. g = [m \in Nat |-> LeafStep(target, leaf, size, tiles, g, m)]
    BY <2>1 DEF Body
  <2> QED
    BY <2>2
<1>2. \A c, b : RootWithLeaf(b, c, target, leaf, size, tiles) = f[c][b]
  BY DEF RootWithLeaf, LeafStep
<1> HIDE DEF f
<1>3. f[n] = LeafStep(target, leaf, size, tiles, f, n)
  BY <1>1
<1> QED
  BY <1>2, <1>3 DEF LeafStep

\* The tiles they need unfold alike.
LEMMA TilesOfRange ==
    ASSUME NEW s \in Nat, NEW n \in Nat, NEW size
    PROVE  RangeTiles(s, n, size) =
              IF n = 0 THEN {}
              ELSE IF IsNode(s, n) THEN {TileAt(HeightOf(n), s \div n, size)}
              ELSE LET k == SplitBelow(n)
                   IN  RangeTiles(s, k, size) \cup RangeTiles(s + k, n - k, size)
<1> DEFINE f == CHOOSE f : f = [m \in Nat |-> ReadStep(size, f, m)]
<1>1. f = [m \in Nat |-> ReadStep(size, f, m)]
  <2>1. PICK g : g = [m \in Nat |-> Body("read", size, 0, 0, 0, g, m)]
    <3>1. Causal("read", size, 0, 0, 0)
      BY AllCausal
    <3> QED
      BY <3>1, Recursion
  <2>2. g = [m \in Nat |-> ReadStep(size, g, m)]
    BY <2>1 DEF Body
  <2> QED
    BY <2>2
<1>2. \A c, b : RangeTiles(b, c, size) = f[c][b]
  BY DEF RangeTiles, ReadStep
<1> HIDE DEF f
<1>3. f[n] = ReadStep(size, f, n)
  BY <1>1
<1> QED
  BY <1>2, <1>3 DEF ReadStep

LEMMA TilesOfLeaf ==
    ASSUME NEW s \in Nat, NEW n \in Nat, NEW target, NEW size
    PROVE  InclusionTiles(s, n, target, size) =
              IF n <= 1 THEN {}
              ELSE LET k == SplitBelow(n)
                   IN  IF target < s + k
                       THEN InclusionTiles(s, k, target, size) \cup RangeTiles(s + k, n - k, size)
                       ELSE RangeTiles(s, k, size) \cup InclusionTiles(s + k, n - k, target, size)
<1> DEFINE f == CHOOSE f : f = [m \in Nat |-> InclusionStep(target, size, f, m)]
<1>1. f = [m \in Nat |-> InclusionStep(target, size, f, m)]
  <2>1. PICK g : g = [m \in Nat |-> Body("inclusion", target, size, 0, 0, g, m)]
    <3>1. Causal("inclusion", target, size, 0, 0)
      BY AllCausal
    <3> QED
      BY <3>1, Recursion
  <2>2. g = [m \in Nat |-> InclusionStep(target, size, g, m)]
    BY <2>1 DEF Body
  <2> QED
    BY <2>2
<1>2. \A c, b : InclusionTiles(b, c, target, size) = f[c][b]
  BY DEF InclusionTiles, InclusionStep
<1> HIDE DEF f
<1>3. f[n] = InclusionStep(target, size, f, n)
  BY <1>1
<1> QED
  BY <1>2, <1>3 DEF InclusionStep

-----------------------------------------------------------------------------
(* Hashes of trees.                                                        *)

-----------------------------------------------------------------------------
(* The RFC 6962 hash of the n leaves behind position s.                    *)

H(leaves, s, n) == SubtreeHashes(leaves)[n][s]

LEMMA HashCases ==
    ASSUME NEW leaves, NEW s \in Nat, NEW n \in Nat
    PROVE  /\ n = 0 => H(leaves, s, n) = <<>>
           /\ n = 1 => H(leaves, s, n) = <<leaves[s + 1]>>
           /\ 1 < n => H(leaves, s, n) = <<H(leaves, s, SplitBelow(n)),
                                          H(leaves, s + SplitBelow(n), n - SplitBelow(n))>>
<1>1. H(leaves, s, n) =
         IF n = 0 THEN EmptyHash
         ELSE IF n = 1 THEN LeafHash(leaves[s + 1])
         ELSE LET k == SplitBelow(n) IN <<H(leaves, s, k), H(leaves, s + k, n - k)>>
  BY HashOf DEF H
<1>2. CASE n = 0
  BY <1>1, <1>2 DEF EmptyHash
<1>3. CASE n = 1
  BY <1>1, <1>3 DEF LeafHash
<1>4. CASE 1 < n
  BY <1>1, <1>4
<1> QED
  BY <1>2, <1>3, <1>4

\* Nothing hashes to an error.
LEMMA HashNoError ==
    ASSUME NEW leaves, NEW s \in Nat, NEW n \in Nat
    PROVE  H(leaves, s, n) # Error
<1>1. n = 0 \/ n = 1 \/ 1 < n
  OBVIOUS
<1>2. CASE n = 0
  <2>1. H(leaves, s, n) = <<>>
    BY <1>2, HashCases
  <2> QED
    BY <2>1 DEF Error
<1>3. CASE n = 1
  <2>1. H(leaves, s, n) = <<leaves[s + 1]>>
    BY <1>3, HashCases
  <2> QED
    BY <2>1 DEF Error
<1>4. CASE 1 < n
  <2>1. H(leaves, s, n) = <<H(leaves, s, SplitBelow(n)),
                           H(leaves, s + SplitBelow(n), n - SplitBelow(n))>>
    BY <1>4, HashCases
  <2>2. \E l, r : H(leaves, s, n) = <<l, r>>
    BY <2>1, Zenon
  <2>3. \A l, r : <<l, r>> # <<"error", "error", "error">>
    OBVIOUS
  <2> QED
    BY <2>2, <2>3 DEF Error
<1> QED
  BY <1>1, <1>2, <1>3, <1>4

\* n leaves behind the first s are those behind the first t of another sequence.
Agree(leaves, s, others, t, n) == \A i \in 1 .. n : leaves[s + i] = others[t + i]

\* A hash depends on the leaves under it only.
LEMMA HashLocal ==
    ASSUME NEW leaves, NEW others
    PROVE  \A n \in Nat : \A s, t \in Nat :
              Agree(leaves, s, others, t, n) => H(leaves, s, n) = H(others, t, n)
<1> DEFINE Same(n) == \A s, t \in Nat :
              (\A i \in 1 .. n : leaves[s + i] = others[t + i]) => H(leaves, s, n) = H(others, t, n)
           T == {n \in Nat : Same(n)}
<1>1. ASSUME NEW n \in Nat, \A m \in 0 .. (n - 1) : Same(m)
      PROVE  Same(n)
  <2> SUFFICES ASSUME NEW s \in Nat, NEW t \in Nat, \A i \in 1 .. n : leaves[s + i] = others[t + i]
               PROVE  H(leaves, s, n) = H(others, t, n)
    OBVIOUS
  <2>1. CASE n = 0
    BY <2>1, HashCases
  <2>2. CASE n = 1
    BY <2>2, HashCases
  <2>3. CASE 1 < n
    <3> DEFINE k == SplitBelow(n)
    <3>1. k \in 1 .. (n - 1) /\ n - k \in 1 .. (n - 1) /\ s + k \in Nat /\ t + k \in Nat
      BY <2>3, SplitRange
    <3>2. /\ H(leaves, s, n) = <<H(leaves, s, k), H(leaves, s + k, n - k)>>
          /\ H(others, t, n) = <<H(others, t, k), H(others, t + k, n - k)>>
      BY <2>3, HashCases
    <3> HIDE DEF k
    <3>3. Same(k) /\ Same(n - k)
      <4> HIDE DEF Same
      <4> QED
        BY <1>1, <3>1
    <3>4. H(leaves, s, k) = H(others, t, k)
      <4>1. \A i \in 1 .. k : leaves[s + i] = others[t + i]
        BY <3>1
      <4> QED
        BY <3>3, <4>1
    <3>5. H(leaves, s + k, n - k) = H(others, t + k, n - k)
      <4>1. ASSUME NEW i \in 1 .. (n - k) PROVE leaves[(s + k) + i] = others[(t + k) + i]
        <5>1. k + i \in 1 .. n /\ (s + k) + i = s + (k + i) /\ (t + k) + i = t + (k + i)
          BY <3>1
        <5>2. leaves[s + (k + i)] = others[t + (k + i)]
          BY <5>1
        <5> QED
          BY <5>1, <5>2
      <4> QED
        BY <3>3, <3>1, <4>1
    <3> QED
      BY <3>2, <3>4, <3>5
  <2> QED
    BY <2>1, <2>2, <2>3
<1> HIDE DEF Same
<1>2. \A n \in Nat : n \in T
  <2>1. T \in SUBSET Nat /\ \A n \in Nat : (\A m \in 0 .. (n - 1) : m \in T) => n \in T
    BY <1>1
  <2> HIDE DEF T
  <2> QED
    BY <2>1, LadderFromAllBelow
<1> QED
  BY <1>2 DEF Same, Agree

LEMMA HashSame ==
    ASSUME NEW leaves, NEW others, NEW n \in Nat, NEW s \in Nat, NEW t \in Nat,
           Agree(leaves, s, others, t, n)
    PROVE  H(leaves, s, n) = H(others, t, n)
BY HashLocal

\* Two sequences of one length have the same hash only if they are the same.
LEMMA HashInjective ==
    ASSUME NEW leaves, NEW others
    PROVE  \A n \in Nat : \A s, t \in Nat :
              H(leaves, s, n) = H(others, t, n) => Agree(leaves, s, others, t, n)
<1> DEFINE Same(n) == \A s, t \in Nat :
              H(leaves, s, n) = H(others, t, n) => \A i \in 1 .. n : leaves[s + i] = others[t + i]
           T == {n \in Nat : Same(n)}
<1>1. ASSUME NEW n \in Nat, \A m \in 0 .. (n - 1) : Same(m)
      PROVE  Same(n)
  <2> SUFFICES ASSUME NEW s \in Nat, NEW t \in Nat, H(leaves, s, n) = H(others, t, n),
                      NEW i \in 1 .. n
               PROVE  leaves[s + i] = others[t + i]
    OBVIOUS
  <2>1. CASE n = 1
    <3>1. i = 1 /\ <<leaves[s + 1]>> = <<others[t + 1]>>
      BY <2>1, HashCases
    <3> QED
      BY <3>1
  <2>2. CASE 1 < n
    <3> DEFINE k == SplitBelow(n)
    <3>1. k \in 1 .. (n - 1) /\ n - k \in 1 .. (n - 1) /\ s + k \in Nat /\ t + k \in Nat
      BY <2>2, SplitRange
    <3>2. /\ H(leaves, s, n) = <<H(leaves, s, k), H(leaves, s + k, n - k)>>
          /\ H(others, t, n) = <<H(others, t, k), H(others, t + k, n - k)>>
      BY <2>2, HashCases
    <3> HIDE DEF k
    <3>3. H(leaves, s, k) = H(others, t, k) /\ H(leaves, s + k, n - k) = H(others, t + k, n - k)
      <4>1. <<H(leaves, s, k), H(leaves, s + k, n - k)>>
               = <<H(others, t, k), H(others, t + k, n - k)>>
        BY <3>2
      <4>2. \A x, y, u, v : <<x, y>> = <<u, v>> => x = u /\ y = v
        OBVIOUS
      <4> QED
        BY <4>1, <4>2, Zenon
    <3>4. Same(k) /\ Same(n - k)
      <4> HIDE DEF Same
      <4> QED
        BY <1>1, <3>1
    <3>5. CASE i <= k
      BY <3>1, <3>3, <3>4, <3>5
    <3>6. CASE i > k
      <4>1. i - k \in 1 .. (n - k) /\ s + i = (s + k) + (i - k) /\ t + i = (t + k) + (i - k)
        BY <3>1, <3>6
      <4>2. leaves[(s + k) + (i - k)] = others[(t + k) + (i - k)]
        BY <3>1, <3>3, <3>4, <4>1
      <4> QED
        BY <4>1, <4>2
    <3> QED
      BY <3>1, <3>5, <3>6
  <2> QED
    BY <2>1, <2>2
<1> HIDE DEF Same
<1>2. \A n \in Nat : n \in T
  <2>1. T \in SUBSET Nat /\ \A n \in Nat : (\A m \in 0 .. (n - 1) : m \in T) => n \in T
    BY <1>1
  <2> HIDE DEF T
  <2> QED
    BY <2>1, LadderFromAllBelow
<1> QED
  BY <1>2 DEF Same, Agree

LEMMA HashSameOnly ==
    ASSUME NEW leaves, NEW others, NEW n \in Nat, NEW s \in Nat, NEW t \in Nat,
           H(leaves, s, n) = H(others, t, n)
    PROVE  Agree(leaves, s, others, t, n)
BY HashInjective, Zenon

\* The hash of a part of the leaves is that of the tree with these leaves.
LEMMA HashOfPart ==
    ASSUME NEW S, NEW leaves \in Seq(S), NEW s \in Nat, NEW n \in Nat, s + n <= Len(leaves)
    PROVE  TreeHash(SubSeq(leaves, s + 1, s + n)) = H(leaves, s, n)
<1> DEFINE part == SubSeq(leaves, s + 1, s + n)
<1>1. /\ Len(part) = n
      /\ \A i \in 1 .. n : part[i] = leaves[s + i]
  <2> DEFINE b == s + 1
             e == s + n
  <2>1. Len(leaves) \in Nat /\ b \in Int /\ e \in Int /\ b .. e \subseteq 1 .. Len(leaves)
    BY LenProperties
  <2>2. \A i \in b .. e : leaves[i] \in S
    BY <2>1, ElementOfSeq
  <2>3. e - b = n - 1 /\ b - 1 = s /\ (b <= e <=> 1 <= n) /\ b = s + 1
    OBVIOUS
  <2>4. part = SubSeq(leaves, b, e)
    OBVIOUS
  <2> HIDE DEF b, e, part
  <2>5. /\ Len(part) = IF b <= e THEN e - b + 1 ELSE 0
        /\ \A i \in 1 .. e - b + 1 : part[i] = leaves[b + i - 1]
    BY <2>1, <2>2, <2>4, SubSeqProperties
  <2>6. Len(part) = n
    BY <2>1, <2>3, <2>5
  <2>7. ASSUME NEW i \in 1 .. n PROVE part[i] = leaves[s + i]
    <3>1. i \in 1 .. e - b + 1 /\ b + i - 1 = s + i
      BY <2>1, <2>3
    <3> QED
      BY <2>5, <3>1
  <2> QED
    BY <2>6, <2>7
<1> HIDE DEF part
<1>2. \A i \in 1 .. n : part[0 + i] = leaves[s + i]
  BY <1>1
<1>3. H(part, 0, n) = H(leaves, s, n)
  <2> DEFINE z == 0
  <2>1. z \in Nat /\ n \in Nat /\ s \in Nat /\ z = 0
    OBVIOUS
  <2>2. Agree(part, z, leaves, s, n)
    BY <1>2 DEF Agree
  <2> HIDE DEF z
  <2>3. H(part, z, n) = H(leaves, s, n)
    BY <2>1, <2>2, HashSame
  <2> QED
    BY <2>1, <2>3
<1> QED
  BY <1>1, <1>3 DEF TreeHash, H, part

LEMMA TreeHashIs == ASSUME NEW leaves PROVE TreeHash(leaves) = H(leaves, 0, Len(leaves))
BY DEF TreeHash, H

\* Trees of one size with the same hash are the same tree.
THEOREM TreeHashInjective ==
    ASSUME NEW S, NEW leaves \in Seq(S), NEW others \in Seq(S),
           Len(leaves) = Len(others), TreeHash(leaves) = TreeHash(others)
    PROVE  leaves = others
<1>1. Len(leaves) \in Nat
  BY LenProperties
<1>2. H(leaves, 0, Len(leaves)) = H(others, 0, Len(leaves))
  BY TreeHashIs
<1>3. \A i \in 1 .. Len(leaves) : leaves[0 + i] = others[0 + i]
  <2> DEFINE z == 0
             n == Len(leaves)
  <2>1. z \in Nat /\ n \in Nat /\ z = 0
    BY <1>1
  <2>2. H(leaves, z, n) = H(others, z, n)
    BY <1>2
  <2> HIDE DEF z, n
  <2>3. Agree(leaves, z, others, z, n)
    BY <2>1, <2>2, HashSameOnly
  <2> QED
    BY <2>1, <2>3 DEF n, Agree
<1>4. \A i \in 1 .. Len(leaves) : leaves[i] = others[i]
  BY <1>1, <1>3
<1> QED
  BY <1>4, SeqEqual

\* Whatever the tiles hold, a leaf that leads to the hash of the tree is the leaf at its
\* place.
LEMMA LeafOfRoot ==
    ASSUME NEW leaves, NEW target \in Nat, NEW leaf, NEW size, NEW tiles
    PROVE  \A n \in Nat : \A s \in Nat :
              /\ target \in Stretch(s, s + n)
              /\ RootWithLeaf(s, n, target, leaf, size, tiles) = H(leaves, s, n)
              => leaf = LeafHash(leaves[target + 1])
<1> DEFINE Exact(n) == \A s \in Nat :
              /\ target \in Stretch(s, s + n)
              /\ RootWithLeaf(s, n, target, leaf, size, tiles) = H(leaves, s, n)
              => leaf = LeafHash(leaves[target + 1])
           T == {n \in Nat : Exact(n)}
<1>1. ASSUME NEW n \in Nat, \A m \in 0 .. (n - 1) : Exact(m)
      PROVE  Exact(n)
  <2> SUFFICES ASSUME NEW s \in Nat, target \in Stretch(s, s + n),
                      RootWithLeaf(s, n, target, leaf, size, tiles) = H(leaves, s, n)
               PROVE  leaf = LeafHash(leaves[target + 1])
    OBVIOUS
  <2>1. s <= target /\ target < s + n
    BY DEF Stretch
  <2>2. CASE n = 1
    <3>1. target = s /\ leaf = <<leaves[s + 1]>>
      BY <2>1, <2>2, HashCases, LeafRootOf
    <3> QED
      BY <3>1 DEF LeafHash
  <2>3. CASE 1 < n
    <3> DEFINE k == SplitBelow(n)
               l == H(leaves, s, k)
               r == H(leaves, s + k, n - k)
    <3>1. k \in 1 .. (n - 1) /\ n - k \in 1 .. (n - 1) /\ s + k \in Nat
      BY <2>3, SplitRange
    <3>2. H(leaves, s, n) = <<l, r>>
      BY <2>3, HashCases
    <3>3. \A x, y : Children(x, y) = <<l, r>> => x = l /\ y = r
      BY DEF Children, Error
    <3>4. Exact(k) /\ Exact(n - k)
      <4> HIDE DEF Exact
      <4> QED
        BY <1>1, <3>1
    <3>5. RootWithLeaf(s, n, target, leaf, size, tiles)
             = IF target < s + k
               THEN Children(RootWithLeaf(s, k, target, leaf, size, tiles),
                             RangeRoot(s + k, n - k, size, tiles))
               ELSE Children(RangeRoot(s, k, size, tiles),
                             RootWithLeaf(s + k, n - k, target, leaf, size, tiles))
      BY <2>3, LeafRootOf
    <3> HIDE DEF k, l, r
    <3>6. CASE target < s + k
      <4>1. RootWithLeaf(s, k, target, leaf, size, tiles) = l
        BY <3>2, <3>3, <3>5, <3>6
      <4>2. target \in Stretch(s, s + k)
        BY <2>1, <3>1, <3>6 DEF Stretch
      <4> QED
        BY <3>4, <4>1, <4>2 DEF l
    <3>7. CASE ~(target < s + k)
      <4>1. RootWithLeaf(s + k, n - k, target, leaf, size, tiles) = r
        BY <3>2, <3>3, <3>5, <3>7
      <4>2. target \in Stretch(s + k, (s + k) + (n - k))
        BY <2>1, <3>1, <3>7 DEF Stretch
      <4> QED
        BY <3>1, <3>4, <4>1, <4>2 DEF r
    <3> QED
      BY <3>6, <3>7
  <2> QED
    BY <2>1, <2>2, <2>3
<1> HIDE DEF Exact
<1>2. \A n \in Nat : n \in T
  <2>1. T \in SUBSET Nat /\ \A n \in Nat : (\A m \in 0 .. (n - 1) : m \in T) => n \in T
    BY <1>1
  <2> HIDE DEF T
  <2> QED
    BY <2>1, LadderFromAllBelow
<1> QED
  BY <1>2 DEF Exact

-----------------------------------------------------------------------------
(* nodeHash.                                                               *)

\* The rows of work in nodeHash, one per round.
Work(hashes, offset) == CHOOSE f : f = [n \in Nat |-> WorkStep(hashes, offset, f, n)]

LEMMA WorkIs ==
    ASSUME NEW hashes, NEW offset
    PROVE  Work(hashes, offset) = [n \in Nat |-> WorkStep(hashes, offset, Work(hashes, offset), n)]
<1>1. PICK f : f = [n \in Nat |-> Body("work", hashes, offset, 0, 0, f, n)]
  <2>1. Causal("work", hashes, offset, 0, 0)
    BY AllCausal
  <2> QED
    BY <2>1, Recursion
<1>2. f = [n \in Nat |-> WorkStep(hashes, offset, f, n)]
  BY <1>1 DEF Body
<1> QED
  BY <1>2 DEF Work

LEMMA FoldOf ==
    ASSUME NEW hashes, NEW offset, NEW rounds
    PROVE  FoldPairs(hashes, offset, rounds) = Work(hashes, offset)[rounds][1]
BY DEF FoldPairs, Work, WorkStep

LEMMA WorkBegins ==
    ASSUME NEW hashes, NEW offset, NEW i \in Nat
    PROVE  Work(hashes, offset)[0][i] = hashes[offset + i]
<1> DEFINE w == Work(hashes, offset)
<1>1. w = [m \in Nat |-> WorkStep(hashes, offset, w, m)]
  BY WorkIs
<1> HIDE DEF w
<1>2. w[0] = WorkStep(hashes, offset, w, 0)
  BY <1>1
<1>3. w[0][i] = hashes[offset + i]
  BY <1>2 DEF WorkStep
<1> QED
  BY <1>3 DEF w

LEMMA WorkGoesOn ==
    ASSUME NEW hashes, NEW offset, NEW n \in Nat, NEW i \in Nat
    PROVE  Work(hashes, offset)[n + 1][i] = Children(Work(hashes, offset)[n][2 * i - 1],
                                                     Work(hashes, offset)[n][2 * i])
<1> DEFINE w == Work(hashes, offset)
<1>1. w = [m \in Nat |-> WorkStep(hashes, offset, w, m)]
  BY WorkIs
<1> HIDE DEF w
<1>2. w[n + 1] = WorkStep(hashes, offset, w, n + 1)
  BY <1>1
<1>3. w[n + 1][i] = Children(w[n][2 * i - 1], w[n][2 * i])
  <2>1. n + 1 # 0 /\ (n + 1) - 1 = n
    OBVIOUS
  <2> QED
    BY <1>2, <2>1 DEF WorkStep
<1> QED
  BY <1>3 DEF w

\* Two nodes of a height make one of the next.
LEMMA SplitOfPower ==
    ASSUME NEW h \in Nat
    PROVE  SplitBelow(2 * TwoTo[h]) = TwoTo[h]
<1> DEFINE w == TwoTo[h]
<1>1. w \in Nat /\ 1 <= w /\ h < w /\ 2 * w \in Nat /\ 1 < 2 * w
  BY TwoToType
<1>2. w \in Powers(2 * w)
  BY <1>1 DEF Powers
<1> HIDE DEF w
<1>3. Splits(2 * w, w)
  BY <1>1, <1>2 DEF Splits
<1>4. Splits(2 * w, SplitBelow(2 * w))
  BY <1>1, SplitBelowSplits
<1>5. w = SplitBelow(2 * w)
  BY <1>1, <1>3, <1>4, SplitUnique
<1> QED
  BY <1>5 DEF w

LEMMA ChildrenAre ==
    ASSUME NEW leaves, NEW s \in Nat, NEW m \in Nat, NEW t \in Nat, NEW n \in Nat
    PROVE  Children(H(leaves, s, m), H(leaves, t, n)) = <<H(leaves, s, m), H(leaves, t, n)>>
BY HashNoError DEF Children

LEMMA HashOfPair ==
    ASSUME NEW leaves, NEW h \in Nat, NEW p \in Nat
    PROVE  Children(H(leaves, p, TwoTo[h]), H(leaves, p + TwoTo[h], TwoTo[h]))
              = H(leaves, p, 2 * TwoTo[h])
<1> DEFINE w == TwoTo[h]
<1>1. w \in Nat /\ 1 <= w /\ 2 * w \in Nat /\ 1 < 2 * w /\ (2 * w) - w = w /\ p + w \in Nat
  BY TwoToType
<1>2. SplitBelow(2 * w) = w
  BY SplitOfPower
<1> HIDE DEF w
<1>3. H(leaves, p, 2 * w) = <<H(leaves, p, w), H(leaves, p + w, w)>>
  <2>1. H(leaves, p, 2 * w) = <<H(leaves, p, SplitBelow(2 * w)),
                                H(leaves, p + SplitBelow(2 * w), (2 * w) - SplitBelow(2 * w))>>
    BY <1>1, HashCases
  <2> QED
    BY <1>1, <1>2, <2>1
<1>4. Children(H(leaves, p, w), H(leaves, p + w, w)) = <<H(leaves, p, w), H(leaves, p + w, w)>>
  BY <1>1, ChildrenAre
<1> QED
  BY <1>3, <1>4 DEF w

\* The hashes of TwoTo[rounds] nodes of height h side by side, the first of them over the
\* leaves behind p.
Nodes(hashes, offset, leaves, p, h, rounds) ==
    \A i \in 1 .. TwoTo[rounds] :
        hashes[offset + i] = H(leaves, p + (i - 1) * TwoTo[h], TwoTo[h])

\* They fold to the hash of the node above them.
LEMMA FoldGenuine ==
    ASSUME NEW leaves, NEW hashes, NEW offset \in Nat, NEW p \in Nat, NEW h \in Nat,
           NEW rounds \in Nat, Nodes(hashes, offset, leaves, p, h, rounds)
    PROVE  FoldPairs(hashes, offset, rounds) = H(leaves, p, TwoTo[h + rounds])
<1> DEFINE w == Work(hashes, offset)
           Row(k) == \A i \in 1 .. TwoTo[rounds - k] :
                        w[k][i] = H(leaves, p + (i - 1) * TwoTo[h + k], TwoTo[h + k])
           T == {k \in Nat : k <= rounds => Row(k)}
<1>1. Row(0)
  <2>1. rounds - 0 = rounds /\ h + 0 = h
    OBVIOUS
  <2>2. ASSUME NEW i \in 1 .. TwoTo[rounds] PROVE w[0][i] = H(leaves, p + (i - 1) * TwoTo[h], TwoTo[h])
    <3>1. i \in Nat /\ 0 \in Nat
      BY TwoToType
    <3>2. w[0][i] = hashes[offset + i]
      BY <3>1, WorkBegins
    <3> QED
      BY <3>2 DEF Nodes
  <2> HIDE DEF w
  <2> QED
    BY <2>1, <2>2
<1>2. ASSUME NEW k \in Nat, k + 1 <= rounds, Row(k) PROVE Row(k + 1)
  <2> DEFINE m == TwoTo[rounds - (k + 1)]
             v == TwoTo[h + k]
  <2>1. rounds - (k + 1) \in Nat /\ rounds - k = (rounds - (k + 1)) + 1 /\ h + k \in Nat
        /\ h + (k + 1) = (h + k) + 1
    BY <1>2
  <2>2. m \in Nat /\ v \in Nat /\ TwoTo[rounds - k] = 2 * m /\ TwoTo[h + (k + 1)] = 2 * v
    BY <2>1, TwoToSteps, TwoToType
  <2> SUFFICES ASSUME NEW i \in 1 .. m
               PROVE  w[k + 1][i] = H(leaves, p + (i - 1) * (2 * v), 2 * v)
    BY <2>2
  <2>3. w[k + 1][i] = Children(w[k][2 * i - 1], w[k][2 * i])
    BY <2>2, WorkGoesOn
  <2>4. \A j \in 1 .. (2 * m) : w[k][j] = H(leaves, p + (j - 1) * v, v)
    BY <1>2, <2>2
  <2>5. p + (i - 1) * (2 * v) \in Nat
    <3>1. i - 1 \in Nat /\ 2 * v \in Nat
      BY <2>2
    <3>2. \A x, y \in Nat : x * y \in Nat
      OBVIOUS
    <3> QED
      BY <3>1, <3>2
  <2>6. Children(H(leaves, p + (i - 1) * (2 * v), v), H(leaves, (p + (i - 1) * (2 * v)) + v, v))
           = H(leaves, p + (i - 1) * (2 * v), 2 * v)
    BY <2>1, <2>5, HashOfPair
  <2>7. /\ 2 * i - 1 \in 1 .. (2 * m) /\ 2 * i \in 1 .. (2 * m)
        /\ p + ((2 * i - 1) - 1) * v = p + (i - 1) * (2 * v)
        /\ p + ((2 * i) - 1) * v = (p + (i - 1) * (2 * v)) + v
    <3> HIDE DEF m, v
    <3>1. i \in Nat /\ 1 <= i /\ i <= m
      BY <2>2
    <3> QED
      BY <2>2, <3>1
  <2> HIDE DEF m, v, w
  <2>8. /\ w[k][2 * i - 1] = H(leaves, p + (i - 1) * (2 * v), v)
        /\ w[k][2 * i] = H(leaves, (p + (i - 1) * (2 * v)) + v, v)
    BY <2>4, <2>7
  <2> QED
    BY <2>3, <2>6, <2>8
<1> HIDE DEF Row
<1>3. \A k \in Nat : k \in T
  <2>1. T \in SUBSET Nat /\ 0 \in T
    BY <1>1
  <2>2. ASSUME NEW k \in T PROVE k + 1 \in T
    BY <1>2
  <2> HIDE DEF T
  <2> QED
    BY <2>1, <2>2, Ladder
<1>4. Row(rounds)
  BY <1>3
<1>5. w[rounds][1] = H(leaves, p, TwoTo[h + rounds])
  <2>1. rounds - rounds = 0 /\ TwoTo[0] = 1 /\ 1 \in 1 .. 1
    BY TwoToSteps
  <2>2. w[rounds][1] = H(leaves, p + (1 - 1) * TwoTo[h + rounds], TwoTo[h + rounds])
    BY <1>4, <2>1 DEF Row
  <2>3. p + (1 - 1) * TwoTo[h + rounds] = p
    BY TwoToType
  <2> QED
    BY <2>2, <2>3
<1> QED
  BY <1>5, FoldOf

-----------------------------------------------------------------------------
(* The place of a node.                                                    *)

\* Division, with facts on products where SMT needs them.
LEMMA Division ==
    ASSUME NEW a \in Nat, NEW d \in Nat \ {0}
    PROVE  a = d * (a \div d) + (a % d) /\ a % d \in 0 .. (d - 1) /\ a \div d \in Nat
OBVIOUS

LEMMA Grows ==
    ASSUME NEW p \in Nat, NEW q \in Nat, NEW d \in Nat, p <= q
    PROVE  d * p <= d * q /\ p * d <= q * d /\ d * p \in Nat /\ p * d = d * p
OBVIOUS

LEMMA Quotient ==
    ASSUME NEW d \in Nat \ {0}, NEW q \in Nat, NEW r \in 0 .. (d - 1)
    PROVE  (d * q + r) \div d = q /\ (d * q + r) % d = r
<1> DEFINE a == d * q + r
<1>1. a \in Nat
  OBVIOUS
<1> HIDE DEF a
<1>2. a = d * (a \div d) + (a % d) /\ a % d \in 0 .. (d - 1) /\ a \div d \in Nat
  BY <1>1, Division
<1>3. a = d * q + r
  BY DEF a
<1>4. a \div d <= q
  <2> SUFFICES ASSUME a \div d >= q + 1 PROVE FALSE
    BY <1>2
  <2>1. d * (a \div d) >= d * (q + 1)
    BY <1>2, Grows
  <2>2. d * (q + 1) = d * q + d
    OBVIOUS
  <2> QED
    BY <2>1, <2>2, <1>2, <1>3
<1>5. a \div d >= q
  <2> SUFFICES ASSUME q >= a \div d + 1 PROVE FALSE
    BY <1>2
  <2>1. d * (a \div d + 1) <= d * q
    BY <1>2, Grows
  <2>2. d * (a \div d + 1) = d * (a \div d) + d
    BY <1>2
  <2> QED
    BY <2>1, <2>2, <1>2, <1>3
<1> QED
  BY <1>2, <1>3, <1>4, <1>5 DEF a

LEMMA QuotientGrows ==
    ASSUME NEW x \in Nat, NEW d \in Nat \ {0}, NEW n \in Nat, x * d <= n
    PROVE  x <= n \div d
<1>1. n = d * (n \div d) + (n % d) /\ n % d \in 0 .. (d - 1) /\ n \div d \in Nat
  BY Division
<1> SUFFICES ASSUME (n \div d) + 1 <= x PROVE FALSE
  BY <1>1
<1>2. ((n \div d) + 1) * d <= x * d
  BY <1>1, Grows
<1>3. ((n \div d) + 1) * d = d * (n \div d) + d
  BY <1>1
<1> QED
  BY <1>1, <1>2, <1>3

LEMMA MinOfTwo ==
    ASSUME NEW a \in Int, NEW b \in Int
    PROVE  Min({a, b}) = IF a <= b THEN a ELSE b
<1>1. \E x \in {a, b} : \A y \in {a, b} : x <= y
  OBVIOUS
<1>2. Min({a, b}) \in {a, b} /\ \A y \in {a, b} : Min({a, b}) <= y
  BY <1>1 DEF Min
<1> QED
  BY <1>2

\* The tile that holds a node, and where in it.
LEMMA Place ==
    ASSUME NEW height \in Nat, NEW index \in Nat, NEW size \in Nat,
           (index + 1) * TwoTo[height] <= size
    PROVE  LET level == height \div TileHeight
               rounds == height % TileHeight
               count == TwoTo[rounds]
               base == index * count
               offset == base % TileWidth
               tile == base \div TileWidth
               width == TileAt(height, index, size)[3]
           IN  /\ level \in Nat /\ rounds \in Nat /\ height = level * TileHeight + rounds
               /\ count \in Nat /\ offset \in Nat /\ base \in Nat /\ tile \in Nat
               /\ base = tile * TileWidth + offset
               /\ base + count <= LevelHashes(size, level)
               /\ TileAt(height, index, size) = <<level, tile, width>>
               /\ width \in Nat /\ offset + count <= width
               /\ TwoTo[height] = count * TwoTo[level * TileHeight]
<1> DEFINE level == height \div TileHeight
           rounds == height % TileHeight
           count == TwoTo[rounds]
           base == index * count
           offset == base % TileWidth
           tile == base \div TileWidth
           weight == TwoTo[level * TileHeight]
           spread == TwoTo[TileHeight - rounds]
           hashes == LevelHashes(size, level)
           width == TileAt(height, index, size)[3]
<1>1. TileHeight \in Nat \ {0}
  BY TileConstants
<1>2. /\ level \in Nat /\ rounds \in 0 .. (TileHeight - 1)
      /\ height = TileHeight * level + rounds
  BY <1>1, Division
<1>3. /\ level * TileHeight \in Nat /\ TileHeight * level = level * TileHeight
      /\ TileHeight - rounds \in Nat /\ rounds + (TileHeight - rounds) = TileHeight
  BY <1>1, <1>2
<1> HIDE DEF level, rounds
<1>4. /\ count \in Nat \ {0} /\ weight \in Nat \ {0} /\ spread \in Nat \ {0}
      /\ TileWidth \in Nat \ {0}
  BY <1>1, <1>2, <1>3, TwoToType DEF TileWidth
<1>5. TileWidth = count * spread
  BY <1>1, <1>2, <1>3, TwoToSum DEF TileWidth
<1>6. TwoTo[height] = count * weight
  <2>1. TwoTo[height] = TwoTo[(level * TileHeight) + rounds]
    BY <1>2, <1>3
  <2>2. TwoTo[(level * TileHeight) + rounds] = weight * count
    <3>1. \A i \in Nat : TwoTo[i + rounds] = TwoTo[i] * TwoTo[rounds]
      BY <1>2, TwoToSum
    <3> DEFINE i == level * TileHeight
    <3>2. i \in Nat
      BY <1>3
    <3> HIDE DEF i
    <3>3. TwoTo[i + rounds] = TwoTo[i] * TwoTo[rounds]
      BY <3>1, <3>2
    <3> QED
      BY <3>3 DEF i
  <2> HIDE DEF count, weight
  <2> QED
    BY <1>4, <2>1, <2>2
<1> HIDE DEF count, weight, spread
<1>7. base \in Nat /\ base + count \in Nat
  BY <1>4
<1>8. (base + count) * weight <= size
  <2>1. (index + 1) * (count * weight) = (base + count) * weight
    BY <1>4
  <2> QED
    BY <1>6, <2>1
<1>9. hashes = size \div weight /\ hashes \in Nat
  <2>1. hashes = size \div weight
    BY DEF LevelHashes, weight
  <2> QED
    BY <1>4, <2>1, Division
<1>10. base + count <= hashes
  BY <1>4, <1>7, <1>8, <1>9, QuotientGrows
<1>11. offset + count <= TileWidth /\ offset \in Nat /\ tile \in Nat
      /\ base = tile * TileWidth + offset
  <2> DEFINE q == index \div spread
             s == index % spread
  <2>1. q \in Nat /\ s \in 0 .. (spread - 1) /\ index = spread * q + s
    BY <1>4, Division
  <2> HIDE DEF q, s
  <2>2. base = TileWidth * q + count * s
    <3>1. (spread * q + s) * count = (count * spread) * q + count * s
      BY <1>4, <2>1
    <3> QED
      BY <1>5, <2>1, <3>1
  <2>3. count * s + count <= TileWidth /\ count * s \in Nat
    <3>1. s + 1 \in Nat /\ s + 1 <= spread
      BY <1>4, <2>1
    <3>2. count * (s + 1) <= count * spread
      BY <1>4, <3>1, Grows
    <3>3. count * (s + 1) = count * s + count
      BY <1>4, <2>1
    <3>4. count * s \in Nat
      BY <1>4, <2>1
    <3> QED
      BY <1>5, <3>2, <3>3, <3>4
  <2> DEFINE o == count * s
  <2>4. o \in 0 .. (TileWidth - 1)
    BY <1>4, <2>3
  <2>5. base = TileWidth * q + o /\ o + count <= TileWidth
    BY <2>2, <2>3
  <2> HIDE DEF o, base
  <2>6. base \div TileWidth = q /\ base % TileWidth = o
    BY <1>4, <2>1, <2>4, <2>5, Quotient
  <2>7. TileWidth * q = q * TileWidth
    BY <1>4, <2>1
  <2> QED
    BY <1>4, <2>1, <2>4, <2>5, <2>6, <2>7
<1>12. TileAt(height, index, size) = <<level, tile, Min({TileWidth, hashes - tile * TileWidth})>>
  BY DEF TileAt, level, rounds, count, hashes
<1>13. width = Min({TileWidth, hashes - tile * TileWidth})
  BY <1>12
<1>14. hashes - tile * TileWidth \in Int /\ offset + count <= hashes - tile * TileWidth
  <2>1. tile * TileWidth \in Nat
    BY <1>4, <1>11
  <2> HIDE DEF hashes, base, offset, tile
  <2> QED
    BY <1>4, <1>7, <1>9, <1>10, <1>11, <2>1
<1> HIDE DEF hashes, base, offset, tile
<1>15. width \in Nat /\ offset + count <= width
  <2>1. width = IF TileWidth <= hashes - tile * TileWidth THEN TileWidth
                ELSE hashes - tile * TileWidth
    BY <1>4, <1>13, <1>14, MinOfTwo
  <2> QED
    BY <1>4, <1>11, <1>14, <2>1
<1> HIDE DEF width
<1>16. TileAt(height, index, size) = <<level, tile, width>>
  BY <1>12, <1>13
<1>17. /\ level \in Nat /\ rounds \in Nat /\ height = level * TileHeight + rounds
       /\ count \in Nat /\ offset \in Nat /\ base \in Nat /\ tile \in Nat
       /\ base = tile * TileWidth + offset
       /\ base + count <= hashes
       /\ TileAt(height, index, size) = <<level, tile, width>>
       /\ width \in Nat /\ offset + count <= width
       /\ TwoTo[height] = count * weight
  <2>1. rounds \in Nat /\ height = level * TileHeight + rounds
    BY <1>2, <1>3
  <2>2. base \in Nat
    BY <1>7 DEF base
  <2> QED
    BY <1>2, <1>4, <1>6, <1>10, <1>11, <1>15, <1>16, <2>1, <2>2
<1> QED
  BY <1>17, Zenon DEF level, rounds, count, base, offset, tile, width, weight, hashes

-----------------------------------------------------------------------------
(* Genuine tiles.                                                          *)

\* Tiles that hold what a log with these leaves serves.
TilesOf(leaves, tiles) == \A path \in DOMAIN tiles : tiles[path] = Tile(leaves, path)

LEMMA Products ==
    ASSUME NEW x \in Nat, NEW y \in Nat, NEW z \in Nat
    PROVE  /\ x * y \in Nat /\ x * y = y * x /\ (x * y) * z = x * (y * z)
           /\ (x + y) * z = x * z + y * z /\ (x + 1) * y = x * y + y
OBVIOUS

\* A node is folded out of the tile that holds it.
LEMMA NodeGenuine ==
    ASSUME NEW S, NEW leaves \in Seq(S), NEW tiles, TilesOf(leaves, tiles),
           NEW height \in Nat, NEW index \in Nat, height <= MaxHeight,
           (index + 1) * TwoTo[height] <= Len(leaves),
           TileAt(height, index, Len(leaves)) \in DOMAIN tiles
    PROVE  NodeHash(height, index, Len(leaves), tiles)
              = H(leaves, index * TwoTo[height], TwoTo[height])
<1> DEFINE size == Len(leaves)
           level == height \div TileHeight
           rounds == height % TileHeight
           count == TwoTo[rounds]
           base == index * count
           offset == base % TileWidth
           tile == base \div TileWidth
           path == TileAt(height, index, size)
           width == path[3]
           weight == TwoTo[level * TileHeight]
<1>1. size \in Nat /\ MaxHeight \in Nat
  BY LenProperties, TileConstants DEF MaxHeight
<1>2. /\ level \in Nat /\ rounds \in Nat /\ height = level * TileHeight + rounds
      /\ count \in Nat /\ offset \in Nat /\ base \in Nat /\ tile \in Nat
      /\ base = tile * TileWidth + offset
      /\ base + count <= LevelHashes(size, level)
      /\ path = <<level, tile, width>>
      /\ width \in Nat /\ offset + count <= width
      /\ TwoTo[height] = count * weight
  <2> HIDE DEF size
  <2> QED
    BY <1>1, Place DEF size
<1> HIDE DEF level, rounds, count, base, offset, tile, path, width
<1>3. level * TileHeight \in Nat /\ weight \in Nat \ {0}
  <2>1. level * TileHeight \in Nat
    BY <1>2, TileConstants
  <2> DEFINE h == level * TileHeight
  <2>2. h \in Nat
    BY <2>1
  <2> HIDE DEF h
  <2>3. TwoTo[h] \in Nat \ {0}
    BY <2>2, TwoToType
  <2> QED
    BY <2>1, <2>3 DEF h
<1> HIDE DEF weight, size
<1>4. /\ level \in Nat /\ rounds \in Nat /\ count \in Nat /\ offset \in Nat /\ base \in Nat
       /\ tile \in Nat /\ width \in Nat /\ weight \in Nat /\ offset + count <= width
  BY <1>2, <1>3
<1>5. tile * TileWidth \in Nat /\ base = tile * TileWidth + offset
  <2>1. TileWidth \in Nat
    BY TwoToType, TileConstants DEF TileWidth
  <2> QED
    BY <1>2, <1>4, <2>1, Products
<1>6. ~Unavailable(height, index, size)
  <2>1. LevelHashes(size, level) = size \div weight
    BY DEF LevelHashes, weight
  <2>2. size \div weight \in Nat
    BY <1>1, <1>3, Division
  <2>3. LevelHashes(size, level) \in Nat
    BY <2>1, <2>2
  <2> DEFINE there == LevelHashes(size, level)
             known == MaxHeight
  <2>4. /\ there \in Nat /\ known \in Nat /\ height <= known
        /\ base \in Nat /\ count \in Nat /\ base + count <= there
    BY <1>1, <1>2, <2>3
  <2> HIDE DEF there, known
  <2>5. ~(height > known)
    BY <2>4
  <2>6. ~(base + count > there)
    BY <2>4
  <2>7. ~(offset + count > width)
    BY <1>2
  <2> QED
    BY <2>7, <2>5, <2>6 DEF Unavailable, level, rounds, count, base, offset, path, width, there,
                            known
<1>7. NodeHash(height, index, size, tiles) = FoldPairs(tiles[path], offset, rounds)
  <2>1. path \in DOMAIN tiles
    BY DEF path, size
  <2> QED
    BY <1>6, <2>1 DEF NodeHash, path, rounds, offset, base, count
<1>8. tiles[path] = [i \in 1 .. width |->
                        TreeHash(SubSeq(leaves, (tile * TileWidth + i - 1) * weight + 1,
                                                (tile * TileWidth + i) * weight))]
  <2>1. tiles[path] = Tile(leaves, path) /\ path[1] = level /\ path[2] = tile /\ path[3] = width
    <3>1. path \in DOMAIN tiles
      BY DEF path, size
    <3>2. tiles[path] = Tile(leaves, path)
      BY <3>1 DEF TilesOf
    <3> QED
      BY <1>2, <3>2
  <2> QED
    BY <2>1 DEF Tile, weight
<1>9. ASSUME NEW i \in 1 .. count
      PROVE  tiles[path][offset + i] = H(leaves, base * weight + (i - 1) * weight, weight)
  <2> DEFINE b == (base + (i - 1)) * weight
  <2>1. offset + i \in 1 .. width /\ tile * TileWidth + (offset + i) = base + i
        /\ tile * TileWidth + ((offset + i) - 1) = base + (i - 1)
    <3> DEFINE first == tile * TileWidth
    <3>1. first \in Nat /\ base = first + offset
      BY <1>5
    <3> HIDE DEF first
    <3>2. offset + i \in 1 .. width /\ first + (offset + i) = base + i
          /\ first + ((offset + i) - 1) = base + (i - 1)
      BY <1>4, <3>1
    <3> QED
      BY <3>2 DEF first
  <2>2. tiles[path][offset + i] = TreeHash(SubSeq(leaves, (base + (i - 1)) * weight + 1,
                                                          (base + i) * weight))
    <3> DEFINE first == tile * TileWidth
               hash(j) == TreeHash(SubSeq(leaves, (first + (j - 1)) * weight + 1,
                                                  (first + j) * weight))
               j == offset + i
    <3>1. tiles[path] = [m \in 1 .. width |-> hash(m)] /\ j \in 1 .. width
      BY <1>8, <2>1
    <3> HIDE DEF hash, j
    <3>2. tiles[path][j] = hash(j)
      BY <3>1
    <3>3. tiles[path][offset + i]
             = TreeHash(SubSeq(leaves, (first + ((offset + i) - 1)) * weight + 1,
                                       (first + (offset + i)) * weight))
      BY <3>2, Zenon DEF hash, j
    <3>4. first + (offset + i) = base + i /\ first + ((offset + i) - 1) = base + (i - 1)
      BY <2>1
    <3> HIDE DEF first
    <3> QED
      BY <3>3, <3>4
  <2>3. b \in Nat /\ b + weight = (base + i) * weight
        /\ b = base * weight + (i - 1) * weight
    <3> DEFINE a == i - 1
    <3>1. a \in Nat /\ i \in Nat /\ i = a + 1 /\ base \in Nat /\ base + a \in Nat
          /\ base + (i - 1) = base + a /\ base + i = (base + a) + 1
      BY <1>4
    <3> HIDE DEF a
    <3>2. (base + a) * weight \in Nat /\ ((base + a) + 1) * weight = (base + a) * weight + weight
          /\ (base + a) * weight = base * weight + a * weight
      BY <1>3, <3>1, Products
    <3> QED
      BY <3>1, <3>2 DEF a
  <2>4. b + weight <= size
    <3>1. base + i \in Nat /\ base + count \in Nat /\ weight \in Nat /\ base + i <= base + count
      BY <1>4
    <3>2. (base + i) * weight <= (base + count) * weight
      BY <3>1, Grows
    <3>3. (base + count) * weight <= size
      <4>1. (base + count) * weight = (index + 1) * TwoTo[height]
        <5>1. base + count = (index + 1) * count
          BY <1>2, Products DEF base
        <5>2. index + 1 \in Nat /\ count \in Nat /\ weight \in Nat
          BY <1>2, <1>3
        <5>3. ((index + 1) * count) * weight = (index + 1) * (count * weight)
          BY <5>2, Products
        <5> QED
          BY <1>2, <5>1, <5>3
      <4> QED
        BY <4>1 DEF size
    <3>4. (base + i) * weight \in Nat /\ (base + count) * weight \in Nat
      BY <3>1, Products
    <3> QED
      BY <1>1, <2>3, <3>2, <3>3, <3>4
  <2> HIDE DEF b
  <2>5. TreeHash(SubSeq(leaves, b + 1, b + weight)) = H(leaves, b, weight)
    BY <1>3, <2>3, <2>4, HashOfPart DEF size
  <2>6. tiles[path][offset + i] = H(leaves, b, weight)
    BY <2>2, <2>3, <2>5 DEF b
  <2> QED
    BY <2>3, <2>6
<1>10. Nodes(tiles[path], offset, leaves, base * weight, level * TileHeight, rounds)
  BY <1>9 DEF Nodes, count, weight
<1>11. base * weight \in Nat /\ base * weight = index * TwoTo[height]
  <2>1. index \in Nat /\ count \in Nat /\ weight \in Nat /\ base \in Nat
    BY <1>2, <1>3
  <2>2. (index * count) * weight = index * (count * weight)
    BY <2>1, Products
  <2>3. base * weight \in Nat
    BY <2>1, Products
  <2> QED
    BY <1>2, <2>2, <2>3 DEF base
<1>12. FoldPairs(tiles[path], offset, rounds)
          = H(leaves, base * weight, TwoTo[(level * TileHeight) + rounds])
  <2> DEFINE p == base * weight
             h == level * TileHeight
  <2>1. p \in Nat /\ h \in Nat /\ Nodes(tiles[path], offset, leaves, p, h, rounds)
    BY <1>3, <1>10, <1>11
  <2> HIDE DEF p, h
  <2>2. FoldPairs(tiles[path], offset, rounds) = H(leaves, p, TwoTo[h + rounds])
    BY <1>2, <2>1, FoldGenuine
  <2> QED
    BY <2>2 DEF p, h
<1> QED
  BY <1>2, <1>7, <1>11, <1>12 DEF path, size

\* A node of IsNode has the height and the index the code computes.
LEMMA HeightIs ==
    ASSUME NEW h \in Nat
    PROVE  HeightOf(TwoTo[h]) = h
<1>1. TwoTo[h] \in Nat /\ h \in 0 .. TwoTo[h]
  BY TwoToType
<1>2. \A i \in Nat : TwoTo[h] = TwoTo[i] => i = h
  <2> SUFFICES ASSUME NEW i \in Nat, TwoTo[h] = TwoTo[i] PROVE i = h
    OBVIOUS
  <2>1. ~(i < h) /\ ~(h < i)
    <3>1. i < h => 2 * TwoTo[i] <= TwoTo[h]
      BY TwoToGrows
    <3>2. h < i => 2 * TwoTo[h] <= TwoTo[i]
      BY TwoToGrows
    <3>3. TwoTo[h] \in Nat /\ 1 <= TwoTo[h]
      BY TwoToType
    <3> QED
      BY <3>1, <3>2, <3>3
  <2> QED
    BY <2>1
<1> QED
  BY <1>1, <1>2 DEF HeightOf

LEMMA NodePlace ==
    ASSUME NEW s \in Nat, NEW n \in Nat, IsNode(s, n)
    PROVE  /\ HeightOf(n) \in Nat /\ n = TwoTo[HeightOf(n)]
           /\ s \div n \in Nat /\ s = (s \div n) * n
<1>1. PICK i \in 0 .. n : n = TwoTo[i]
  BY PowersAre DEF IsNode
<1>2. HeightOf(n) = i
  BY <1>1, HeightIs
<1>3. n \in Nat \ {0} /\ s % n = 0
  BY <1>1, TwoToType DEF IsNode
<1>4. s = n * (s \div n) + (s % n) /\ s \div n \in Nat
  BY <1>3, Division
<1>5. n * (s \div n) = (s \div n) * n
  BY <1>4
<1> QED
  BY <1>1, <1>2, <1>3, <1>4, <1>5

\* Trees have at most 2^40 leaves (checkpoint.go:16), as many as the tiles can hash.
LEMMA LowEnough ==
    ASSUME NEW h \in Nat, TwoTo[h] <= TwoTo[MaxHeight]
    PROVE  h <= MaxHeight
<1>1. MaxHeight \in Nat
  BY TileConstants DEF MaxHeight
<1>2. MaxHeight < h => 2 * TwoTo[MaxHeight] <= TwoTo[h]
  BY <1>1, TwoToGrows
<1>3. TwoTo[h] \in Nat /\ TwoTo[MaxHeight] \in Nat /\ 1 <= TwoTo[MaxHeight]
  BY <1>1, TwoToType
<1> QED
  BY <1>1, <1>2, <1>3

\* rangeRoot, with the tiles it reads, is the RFC 6962 hash.
LEMMA RangeGenuine ==
    ASSUME NEW S, NEW leaves \in Seq(S), NEW tiles, TilesOf(leaves, tiles),
           Len(leaves) <= TwoTo[MaxHeight]
    PROVE  \A n \in Nat : \A s \in Nat :
              (s + n <= Len(leaves) /\ RangeTiles(s, n, Len(leaves)) \subseteq DOMAIN tiles)
                  => RangeRoot(s, n, Len(leaves), tiles) = H(leaves, s, n)
<1> DEFINE size == Len(leaves)
           Right(n) == \A s \in Nat :
              (s + n <= size /\ RangeTiles(s, n, size) \subseteq DOMAIN tiles)
                  => RangeRoot(s, n, size, tiles) = H(leaves, s, n)
           T == {n \in Nat : Right(n)}
<1>1. size \in Nat
  BY LenProperties
<1>2. ASSUME NEW n \in Nat, \A m \in 0 .. (n - 1) : Right(m)
      PROVE  Right(n)
  <2> SUFFICES ASSUME NEW s \in Nat, s + n <= size, RangeTiles(s, n, size) \subseteq DOMAIN tiles
               PROVE  RangeRoot(s, n, size, tiles) = H(leaves, s, n)
    OBVIOUS
  <2>1. CASE n = 0
    <3>1. RangeRoot(s, n, size, tiles) = <<>>
      BY <2>1, RootOf DEF EmptyHash
    <3>2. H(leaves, s, n) = <<>>
      BY <2>1, HashCases
    <3> QED
      BY <3>1, <3>2
  <2>2. CASE n # 0 /\ IsNode(s, n)
    <3> DEFINE h == HeightOf(n)
               i == s \div n
    <3>1. h \in Nat /\ n = TwoTo[h] /\ i \in Nat /\ s = i * n
      BY <2>2, NodePlace
    <3>2. RangeRoot(s, n, size, tiles) = NodeHash(h, i, size, tiles)
      BY <2>2, RootOf
    <3>3. TileAt(h, i, size) \in DOMAIN tiles
      <4>1. RangeTiles(s, n, size) = {TileAt(h, i, size)}
        BY <2>2, TilesOfRange
      <4> QED
        BY <4>1
    <3> HIDE DEF h, i
    <3>4. (i + 1) * TwoTo[h] <= size
      <4>1. (i + 1) * n = i * n + n
        BY <3>1, Products
      <4> QED
        BY <3>1, <4>1
    <3>5. h <= MaxHeight
      <4>1. MaxHeight \in Nat
        BY TileConstants DEF MaxHeight
      <4>2. TwoTo[MaxHeight] \in Nat
        BY <4>1, TwoToType
      <4>3. TwoTo[h] <= TwoTo[MaxHeight]
        BY <1>1, <3>1, <4>2
      <4> QED
        BY <3>1, <4>3, LowEnough
    <3>6. NodeHash(h, i, size, tiles) = H(leaves, i * TwoTo[h], TwoTo[h])
      BY <3>1, <3>3, <3>4, <3>5, NodeGenuine
    <3> QED
      BY <3>1, <3>2, <3>6
  <2>3. CASE n # 0 /\ ~IsNode(s, n)
    <3> DEFINE k == SplitBelow(n)
    <3>1. 1 < n
      BY <2>3, SmallestNode
    <3>2. k \in 1 .. (n - 1) /\ n - k \in 1 .. (n - 1) /\ s + k \in Nat /\ k \in Nat /\ n - k \in Nat
      BY <3>1, SplitRange
    <3>3. RangeRoot(s, n, size, tiles) = Children(RangeRoot(s, k, size, tiles),
                                                  RangeRoot(s + k, n - k, size, tiles))
      BY <2>3, RootOf
    <3>4. RangeTiles(s, n, size) = RangeTiles(s, k, size) \cup RangeTiles(s + k, n - k, size)
      BY <2>3, TilesOfRange
    <3>5. H(leaves, s, n) = <<H(leaves, s, k), H(leaves, s + k, n - k)>>
      BY <3>1, HashCases
    <3> HIDE DEF k
    <3>6. Right(k) /\ Right(n - k)
      <4> HIDE DEF Right
      <4> QED
        BY <1>2, <3>2
    <3>7. RangeRoot(s, k, size, tiles) = H(leaves, s, k)
      BY <1>1, <3>2, <3>4, <3>6
    <3>8. RangeRoot(s + k, n - k, size, tiles) = H(leaves, s + k, n - k)
      <4>1. (s + k) + (n - k) <= size
        BY <3>2
      <4> QED
        BY <3>2, <3>4, <3>6, <4>1
    <3>9. Children(H(leaves, s, k), H(leaves, s + k, n - k)) = <<H(leaves, s, k), H(leaves, s + k, n - k)>>
      BY <3>2, ChildrenAre
    <3> QED
      BY <3>3, <3>5, <3>7, <3>8, <3>9
  <2> QED
    BY <2>1, <2>2, <2>3
<1> HIDE DEF Right
<1>3. \A n \in Nat : n \in T
  <2>1. T \in SUBSET Nat /\ \A n \in Nat : (\A m \in 0 .. (n - 1) : m \in T) => n \in T
    BY <1>2
  <2> HIDE DEF T
  <2> QED
    BY <2>1, LadderFromAllBelow
<1> QED
  BY <1>3 DEF Right

\* rootWithLeaf, with the tiles it reads.
LEMMA LeafGenuine ==
    ASSUME NEW S, NEW leaves \in Seq(S), NEW tiles, TilesOf(leaves, tiles),
           Len(leaves) <= TwoTo[MaxHeight], NEW target \in Nat
    PROVE  \A n \in Nat : \A s \in Nat :
              (/\ s + n <= Len(leaves) /\ target \in Stretch(s, s + n)
               /\ InclusionTiles(s, n, target, Len(leaves)) \subseteq DOMAIN tiles)
                  => RootWithLeaf(s, n, target, LeafHash(leaves[target + 1]), Len(leaves), tiles)
                        = H(leaves, s, n)
<1> DEFINE size == Len(leaves)
           leaf == LeafHash(leaves[target + 1])
           Right(n) == \A s \in Nat :
              (/\ s + n <= size /\ target \in Stretch(s, s + n)
               /\ InclusionTiles(s, n, target, size) \subseteq DOMAIN tiles)
                  => RootWithLeaf(s, n, target, leaf, size, tiles) = H(leaves, s, n)
           T == {n \in Nat : Right(n)}
<1>1. size \in Nat
  BY LenProperties
<1>r. ASSUME NEW s \in Nat, NEW n \in Nat, s + n <= size,
             RangeTiles(s, n, size) \subseteq DOMAIN tiles
      PROVE  RangeRoot(s, n, size, tiles) = H(leaves, s, n)
  BY <1>r, RangeGenuine
<1>2. ASSUME NEW n \in Nat, \A m \in 0 .. (n - 1) : Right(m)
      PROVE  Right(n)
  <2> SUFFICES ASSUME NEW s \in Nat, s + n <= size, target \in Stretch(s, s + n),
                      InclusionTiles(s, n, target, size) \subseteq DOMAIN tiles
               PROVE  RootWithLeaf(s, n, target, leaf, size, tiles) = H(leaves, s, n)
    OBVIOUS
  <2>1. s <= target /\ target < s + n
    BY DEF Stretch
  <2>2. CASE n = 1
    <3>1. target = s
      BY <2>1, <2>2
    <3>2. RootWithLeaf(s, n, target, leaf, size, tiles) = leaf
      BY <2>2, LeafRootOf
    <3>3. H(leaves, s, n) = <<leaves[s + 1]>>
      BY <2>2, HashCases
    <3> QED
      BY <3>1, <3>2, <3>3 DEF LeafHash
  <2>3. CASE 1 < n
    <3> DEFINE k == SplitBelow(n)
    <3>1. k \in 1 .. (n - 1) /\ n - k \in 1 .. (n - 1) /\ s + k \in Nat /\ k \in Nat /\ n - k \in Nat
      BY <2>3, SplitRange
    <3>2. RootWithLeaf(s, n, target, leaf, size, tiles)
             = IF target < s + k
               THEN Children(RootWithLeaf(s, k, target, leaf, size, tiles),
                             RangeRoot(s + k, n - k, size, tiles))
               ELSE Children(RangeRoot(s, k, size, tiles),
                             RootWithLeaf(s + k, n - k, target, leaf, size, tiles))
      BY <2>3, LeafRootOf
    <3>3. InclusionTiles(s, n, target, size)
             = IF target < s + k
               THEN InclusionTiles(s, k, target, size) \cup RangeTiles(s + k, n - k, size)
               ELSE RangeTiles(s, k, size) \cup InclusionTiles(s + k, n - k, target, size)
      BY <2>3, TilesOfLeaf
    <3>4. H(leaves, s, n) = <<H(leaves, s, k), H(leaves, s + k, n - k)>>
      BY <2>3, HashCases
    <3> HIDE DEF k, leaf
    <3>5. Right(k) /\ Right(n - k)
      <4> HIDE DEF Right
      <4> QED
        BY <1>2, <3>1
    <3>6. Children(H(leaves, s, k), H(leaves, s + k, n - k)) = <<H(leaves, s, k), H(leaves, s + k, n - k)>>
      BY <3>1, ChildrenAre
    <3>7. s + k <= size /\ (s + k) + (n - k) <= size
      BY <1>1, <3>1
    <3>8. CASE target < s + k
      <4>1. target \in Stretch(s, s + k)
        BY <2>1, <3>1, <3>8 DEF Stretch
      <4>2. RootWithLeaf(s, k, target, leaf, size, tiles) = H(leaves, s, k)
        BY <3>1, <3>3, <3>5, <3>7, <3>8, <4>1
      <4>3. RangeRoot(s + k, n - k, size, tiles) = H(leaves, s + k, n - k)
        BY <1>r, <3>1, <3>3, <3>7, <3>8
      <4> QED
        BY <3>2, <3>4, <3>6, <3>8, <4>2, <4>3
    <3>9. CASE ~(target < s + k)
      <4>1. target \in Stretch(s + k, (s + k) + (n - k))
        BY <2>1, <3>1, <3>9 DEF Stretch
      <4>2. RootWithLeaf(s + k, n - k, target, leaf, size, tiles) = H(leaves, s + k, n - k)
        BY <3>1, <3>3, <3>5, <3>7, <3>9, <4>1
      <4>3. RangeRoot(s, k, size, tiles) = H(leaves, s, k)
        BY <1>r, <3>1, <3>3, <3>7, <3>9
      <4> QED
        BY <3>2, <3>4, <3>6, <3>9, <4>2, <4>3
    <3> QED
      BY <3>8, <3>9
  <2> QED
    BY <2>1, <2>2, <2>3
<1> HIDE DEF Right
<1>3. \A n \in Nat : n \in T
  <2>1. T \in SUBSET Nat /\ \A n \in Nat : (\A m \in 0 .. (n - 1) : m \in T) => n \in T
    BY <1>2
  <2> HIDE DEF T
  <2> QED
    BY <2>1, LadderFromAllBelow
<1> QED
  BY <1>3 DEF Right

-----------------------------------------------------------------------------
(* What the client relies on.                                              *)

\* The tiles rangeRoot (merkle.go) reads give the RFC 6962 root of every tree that the tree
\* contains, itself included.
THEOREM PrefixRoots ==
    ASSUME NEW S, NEW leaves \in Seq(S), NEW tiles, TilesOf(leaves, tiles),
           Len(leaves) <= TwoTo[MaxHeight], NEW n \in 0 .. Len(leaves),
           RangeTiles(0, n, Len(leaves)) \subseteq DOMAIN tiles
    PROVE  RangeRoot(0, n, Len(leaves), tiles) = TreeHash(SubSeq(leaves, 1, n))
<1>1. Len(leaves) \in Nat
  BY LenProperties
<1> DEFINE z == 0
<1>2. z = 0 /\ z \in Nat /\ n \in Nat /\ z + n <= Len(leaves) /\ z + n = n /\ z + 1 = 1
  BY <1>1
<1>3. RangeTiles(z, n, Len(leaves)) \subseteq DOMAIN tiles
  OBVIOUS
<1> HIDE DEF z
<1>4. RangeRoot(z, n, Len(leaves), tiles) = H(leaves, z, n)
  BY <1>2, <1>3, RangeGenuine
<1>5. TreeHash(SubSeq(leaves, z + 1, z + n)) = H(leaves, z, n)
  BY <1>2, HashOfPart
<1> QED
  BY <1>2, <1>4, <1>5

\* A leaf that verifies is the one at its index, whatever the tiles hold.
LEMMA LeafOfTree ==
    ASSUME NEW S, NEW leaves \in Seq(S), NEW target \in 0 .. (Len(leaves) - 1), NEW e, NEW tiles,
           RootWithLeaf(0, Len(leaves), target, LeafHash(e), Len(leaves), tiles) = TreeHash(leaves)
    PROVE  e = leaves[target + 1]
<1> DEFINE z == 0
           n == Len(leaves)
           leaf == LeafHash(e)
<1>1. n \in Nat /\ z \in Nat /\ target \in Nat /\ target \in Stretch(z, z + n)
  BY LenProperties DEF Stretch
<1>2. RootWithLeaf(z, n, target, leaf, n, tiles) = H(leaves, z, n)
  BY TreeHashIs
<1> HIDE DEF z, n, leaf
<1>3. leaf = LeafHash(leaves[target + 1])
  BY <1>1, <1>2, LeafOfRoot
<1>4. \A x, y : <<x>> = <<y>> => x = y
  OBVIOUS
<1> QED
  BY <1>3, <1>4 DEF LeafHash, leaf

\* With the tiles rootWithLeaf (merkle.go) reads, the leaf at an index leads to the root of
\* the tree, and no other does.
THEOREM InclusionExact ==
    ASSUME NEW S, NEW leaves \in Seq(S), NEW tiles, TilesOf(leaves, tiles),
           Len(leaves) <= TwoTo[MaxHeight], NEW target \in 0 .. (Len(leaves) - 1),
           InclusionTiles(0, Len(leaves), target, Len(leaves)) \subseteq DOMAIN tiles, NEW e
    PROVE  RootWithLeaf(0, Len(leaves), target, LeafHash(e), Len(leaves), tiles) = TreeHash(leaves)
              <=> e = leaves[target + 1]
<1>1. ASSUME e = leaves[target + 1]
      PROVE  RootWithLeaf(0, Len(leaves), target, LeafHash(e), Len(leaves), tiles) = TreeHash(leaves)
  <2> DEFINE z == 0
             n == Len(leaves)
  <2>1. n \in Nat /\ z \in Nat /\ target \in Nat /\ z + n <= n /\ target \in Stretch(z, z + n)
    BY LenProperties DEF Stretch
  <2>2. InclusionTiles(z, n, target, n) \subseteq DOMAIN tiles
    OBVIOUS
  <2> HIDE DEF z
  <2>3. RootWithLeaf(z, n, target, LeafHash(leaves[target + 1]), n, tiles) = H(leaves, z, n)
    BY <2>1, <2>2, LeafGenuine
  <2> QED
    BY <1>1, <2>3, TreeHashIs DEF z
<1> QED
  BY <1>1, LeafOfTree

-----------------------------------------------------------------------------
(* The tiles a log has.                                                    *)

\* A tile that is asked for is one of the tree: it ends where the tree does.
LEMMA TileIsThere ==
    ASSUME NEW S, NEW leaves \in Seq(S), NEW height \in Nat, NEW index \in Nat
    PROVE  HasTile(leaves, TileAt(height, index, Len(leaves)))
<1> DEFINE size == Len(leaves)
           level == height \div TileHeight
           weight == TwoTo[level * TileHeight]
           all == LevelHashes(size, level)
           tile == (index * TwoTo[height % TileHeight]) \div TileWidth
           path == TileAt(height, index, size)
<1>1. size \in Nat /\ TileHeight \in Nat \ {0}
  BY LenProperties, TileConstants
<1>2. level \in Nat /\ height % TileHeight \in Nat
  BY <1>1, Division
<1>3. TileWidth \in Nat \ {0} /\ TwoTo[height % TileHeight] \in Nat
  BY <1>1, <1>2, TwoToType DEF TileWidth
<1>4. tile \in Nat
  <2> DEFINE base == index * TwoTo[height % TileHeight]
  <2>1. base \in Nat
    BY <1>3, Products
  <2> HIDE DEF base
  <2>2. base \div TileWidth \in Nat
    BY <1>3, <2>1, Division
  <2> QED
    BY <2>2 DEF base
<1>5. all \in Nat
  <2> DEFINE h == level * TileHeight
  <2>1. h \in Nat
    BY <1>1, <1>2, Products
  <2> HIDE DEF h, size
  <2>2. TwoTo[h] \in Nat \ {0}
    BY <2>1, TwoToType
  <2>3. size \div TwoTo[h] \in Nat
    BY <1>1, <2>2, Division
  <2> QED
    BY <2>3 DEF LevelHashes, h
<1>6. path = <<level, tile, Min({TileWidth, all - tile * TileWidth})>>
  BY DEF TileAt
<1> DEFINE rest == all - tile * TileWidth
<1> HIDE DEF size, level, tile, path, all
<1>7. tile * TileWidth \in Nat
  BY <1>3, <1>4, Products
<1>8. rest \in Int /\ TileWidth \in Int
  BY <1>3, <1>5, <1>7
<1>9. tile * TileWidth + Min({TileWidth, rest}) <= all
  <2>1. Min({TileWidth, rest}) = IF TileWidth <= rest THEN TileWidth ELSE rest
    <3> HIDE DEF rest
    <3> QED
      BY <1>8, MinOfTwo
  <2> DEFINE first == tile * TileWidth
  <2>2. first \in Nat /\ rest = all - first
    BY <1>7
  <2> HIDE DEF first, rest
  <2>3. first + Min({TileWidth, rest}) <= all
    BY <1>3, <1>5, <1>8, <2>1, <2>2
  <2> QED
    BY <2>3 DEF first
<1>10. path[1] = level /\ path[2] = tile /\ path[3] = Min({TileWidth, rest})
  BY <1>6 DEF rest
<1> QED
  BY <1>9, <1>10 DEF HasTile, path, size, all

LEMMA RangeTilesAreThere ==
    ASSUME NEW S, NEW leaves \in Seq(S)
    PROVE  \A n \in Nat : \A s \in Nat :
              \A p \in RangeTiles(s, n, Len(leaves)) : HasTile(leaves, p)
<1> DEFINE size == Len(leaves)
           There(n) == \A s \in Nat : \A p \in RangeTiles(s, n, size) : HasTile(leaves, p)
           T == {n \in Nat : There(n)}
<1>1. ASSUME NEW n \in Nat, \A m \in 0 .. (n - 1) : There(m)
      PROVE  There(n)
  <2> SUFFICES ASSUME NEW s \in Nat, NEW p \in RangeTiles(s, n, size) PROVE HasTile(leaves, p)
    OBVIOUS
  <2>1. CASE n = 0
    <3>1. RangeTiles(s, n, size) = {}
      BY <2>1, TilesOfRange
    <3> QED
      BY <3>1
  <2>2. CASE n # 0 /\ IsNode(s, n)
    <3>1. RangeTiles(s, n, size) = {TileAt(HeightOf(n), s \div n, size)}
      BY <2>2, TilesOfRange
    <3>2. HeightOf(n) \in Nat /\ s \div n \in Nat
      BY <2>2, NodePlace
    <3>3. HasTile(leaves, TileAt(HeightOf(n), s \div n, size))
      BY <3>2, TileIsThere
    <3> QED
      BY <3>1, <3>3
  <2>3. CASE n # 0 /\ ~IsNode(s, n)
    <3> DEFINE k == SplitBelow(n)
    <3>1. 1 < n
      BY <2>3, SmallestNode
    <3>2. k \in 0 .. (n - 1) /\ n - k \in 0 .. (n - 1) /\ s + k \in Nat
      BY <3>1, SplitRange
    <3>3. RangeTiles(s, n, size) = RangeTiles(s, k, size) \cup RangeTiles(s + k, n - k, size)
      BY <2>3, TilesOfRange
    <3> HIDE DEF k
    <3>4. There(k) /\ There(n - k)
      <4> HIDE DEF There
      <4> QED
        BY <1>1, <3>2
    <3> QED
      BY <3>2, <3>3, <3>4
  <2> QED
    BY <2>1, <2>2, <2>3
<1> HIDE DEF There
<1>2. \A n \in Nat : n \in T
  <2>1. T \in SUBSET Nat /\ \A n \in Nat : (\A m \in 0 .. (n - 1) : m \in T) => n \in T
    BY <1>1
  <2> HIDE DEF T
  <2> QED
    BY <2>1, LadderFromAllBelow
<1> QED
  BY <1>2 DEF There

LEMMA InclusionTilesAreThere ==
    ASSUME NEW S, NEW leaves \in Seq(S), NEW target
    PROVE  \A n \in Nat : \A s \in Nat :
              \A p \in InclusionTiles(s, n, target, Len(leaves)) : HasTile(leaves, p)
<1> DEFINE size == Len(leaves)
           There(n) == \A s \in Nat :
                          \A p \in InclusionTiles(s, n, target, size) : HasTile(leaves, p)
           T == {n \in Nat : There(n)}
<1>1. ASSUME NEW n \in Nat, \A m \in 0 .. (n - 1) : There(m)
      PROVE  There(n)
  <2> SUFFICES ASSUME NEW s \in Nat, NEW p \in InclusionTiles(s, n, target, size)
               PROVE  HasTile(leaves, p)
    OBVIOUS
  <2>1. CASE n <= 1
    <3>1. InclusionTiles(s, n, target, size) = {}
      BY <2>1, TilesOfLeaf
    <3> QED
      BY <3>1
  <2>2. CASE 1 < n
    <3> DEFINE k == SplitBelow(n)
    <3>1. k \in 0 .. (n - 1) /\ n - k \in 0 .. (n - 1) /\ s + k \in Nat /\ k \in Nat
          /\ n - k \in Nat
      BY <2>2, SplitRange
    <3>2. InclusionTiles(s, n, target, size)
             = IF target < s + k
               THEN InclusionTiles(s, k, target, size) \cup RangeTiles(s + k, n - k, size)
               ELSE RangeTiles(s, k, size) \cup InclusionTiles(s + k, n - k, target, size)
      BY <2>2, TilesOfLeaf
    <3> HIDE DEF k
    <3>3. There(k) /\ There(n - k)
      <4> HIDE DEF There
      <4> QED
        BY <1>1, <3>1
    <3>4. /\ \A q \in RangeTiles(s + k, n - k, size) : HasTile(leaves, q)
          /\ \A q \in RangeTiles(s, k, size) : HasTile(leaves, q)
      BY <3>1, RangeTilesAreThere
    <3> QED
      BY <3>1, <3>2, <3>3, <3>4
  <2> QED
    BY <2>1, <2>2
<1> HIDE DEF There
<1>2. \A n \in Nat : n \in T
  <2>1. T \in SUBSET Nat /\ \A n \in Nat : (\A m \in 0 .. (n - 1) : m \in T) => n \in T
    BY <1>1
  <2> HIDE DEF T
  <2> QED
    BY <2>1, LadderFromAllBelow
<1> QED
  BY <1>2 DEF There

\* So a log that has the tree answers every request, with genuine tiles.
LEMMA FetchedAreThere ==
    ASSUME NEW leaves, NEW paths, \A p \in paths : HasTile(leaves, p)
    PROVE  DOMAIN Fetched(leaves, paths) = paths /\ TilesOf(leaves, Fetched(leaves, paths))
BY DEF Fetched, TilesOf

LEMMA TreeQuestion ==
    ASSUME question \in TreeQuestions
    PROVE  /\ question.leaves \in Seq(Entries) /\ Len(question.leaves) <= TwoTo[MaxHeight]
           /\ question.prefix \in 0 .. Len(question.leaves)
           /\ question.target \in 0 .. (Len(question.leaves) - 1)
<1>1. PICK t \in Trees : question \in [kind : {"tree"}, leaves : {t}, prefix : 0 .. Len(t),
                                       target : 0 .. (Len(t) - 1)]
  BY DEF TreeQuestions
<1>2. /\ question.leaves = t /\ question.prefix \in 0 .. Len(t)
      /\ question.target \in 0 .. (Len(t) - 1)
  BY <1>1
<1> QED
  BY <1>2, AlgorithmConstants

\* For every tree of up to TwoTo[MaxHeight] leaves (2^40 in the code) and every older one: a
\* log that has the tree answers every tile rangeRoot (merkle.go) reads, and rangeRoot
\* makes of the answers the RFC 6962 root of the older tree.
THEOREM PrefixRootsExact == (question \in TreeQuestions) => PrefixRootIsOldRoot
<1> SUFFICES ASSUME question \in TreeQuestions PROVE PrefixRootIsOldRoot
  OBVIOUS
<1> DEFINE leaves == question.leaves
           size == Len(leaves)
           n == question.prefix
           z == 0
           paths == RangeTiles(z, n, size)
           tiles == Fetched(leaves, paths)
<1>1. leaves \in Seq(Entries) /\ size <= TwoTo[MaxHeight] /\ n \in 0 .. size
  BY TreeQuestion
<1>2. size \in Nat /\ n \in Nat /\ z \in Nat /\ z = 0
  BY <1>1, LenProperties
<1> HIDE DEF leaves, n, z
<1>3. \A p \in paths : HasTile(leaves, p)
  BY <1>1, <1>2, RangeTilesAreThere
<1>4. DOMAIN tiles = paths /\ TilesOf(leaves, tiles)
  BY <1>3, FetchedAreThere
<1> HIDE DEF tiles, paths
<1>5. RangeTiles(0, n, size) \subseteq DOMAIN tiles
  BY <1>2, <1>4 DEF paths
<1>6. RangeRoot(0, n, size, tiles) = TreeHash(SubSeq(leaves, 1, n))
  BY <1>1, <1>4, <1>5, PrefixRoots
<1> QED
  BY <1>2, <1>6 DEF PrefixRootIsOldRoot, tiles, paths, leaves, n

\* For every such tree and every index: rootWithLeaf (merkle.go) makes the root of the tree
\* of the entry at the index, and of no other, out of the tiles it reads.
THEOREM InclusionsExact == (question \in TreeQuestions) => InclusionIsExact
<1> SUFFICES ASSUME question \in TreeQuestions PROVE InclusionIsExact
  OBVIOUS
<1> DEFINE leaves == question.leaves
           size == Len(leaves)
           target == question.target
           z == 0
           paths == InclusionTiles(z, size, target, size)
           tiles == Fetched(leaves, paths)
<1>1. leaves \in Seq(Entries) /\ size <= TwoTo[MaxHeight] /\ target \in 0 .. (size - 1)
  BY TreeQuestion
<1>2. size \in Nat /\ z \in Nat /\ z = 0
  BY <1>1, LenProperties
<1> HIDE DEF leaves, target, z
<1>3. \A p \in paths : HasTile(leaves, p)
  BY <1>1, <1>2, InclusionTilesAreThere
<1>4. DOMAIN tiles = paths /\ TilesOf(leaves, tiles)
  BY <1>3, FetchedAreThere
<1> HIDE DEF tiles, paths
<1>5. InclusionTiles(0, size, target, size) \subseteq DOMAIN tiles
  BY <1>2, <1>4 DEF paths
<1>6. \A e \in Entries :
         RootWithLeaf(0, size, target, LeafHash(e), size, tiles) = TreeHash(leaves)
            <=> e = leaves[target + 1]
  BY <1>1, <1>4, <1>5, InclusionExact
<1> QED
  BY <1>2, <1>6 DEF InclusionIsExact, tiles, paths, leaves, target

-----------------------------------------------------------------------------
(* Data tiles: the number a tile path stands for.                          *)

LEMMA DataNumbers ==
    /\ DataWidth \in Nat \ {0} /\ Group \in Nat \ {0} /\ Radix \in Nat \ {0}
    /\ 1 <= DataWidth /\ 1 <= Group /\ 2 <= Radix
BY DataConstants

LEMMA Shrinks ==
    ASSUME NEW n \in Nat, NEW d \in Nat \ {0}, d <= n, 2 <= d
    PROVE  n \div d \in 0 .. (n - 1) /\ 1 <= n \div d
<1> DEFINE q == n \div d
           r == n % d
<1>1. n = d * q + r /\ r \in 0 .. (d - 1) /\ q \in Nat
  BY Division
<1>2. 1 * d = d /\ 1 <= q
  BY QuotientGrows
<1> HIDE DEF q, r
<1>3. d * q = (d - 2) * q + 2 * q /\ 0 <= (d - 2) * q
  BY <1>1
<1>4. q <= n - 1
  BY <1>1, <1>2, <1>3
<1> QED
  BY <1>1, <1>2, <1>4 DEF q

LEMMA DigitsOf ==
    ASSUME NEW n \in Nat
    PROVE  Data!Digits[n] = IF n < Radix THEN <<n>>
                            ELSE Append(Data!Digits[n \div Radix], n % Radix)
<1>1. Causal("digits", 0, 0, 0, 0)
  <2> SUFFICES ASSUME NEW f, NEW g, NEW m \in Nat, \A i \in 0 .. (m - 1) : f[i] = g[i]
               PROVE  DigitsStep(f, m) = DigitsStep(g, m)
    BY DEF Causal, Body
  <2>1. Radix <= m => m \div Radix \in 0 .. (m - 1)
    BY DataNumbers, Shrinks
  <2>2. ~(m < Radix) => f[m \div Radix] = g[m \div Radix]
    BY <2>1, DataNumbers
  <2> QED
    BY <2>2 DEF DigitsStep
<1>2. PICK f : f = [m \in Nat |-> DigitsStep(f, m)]
  BY <1>1, Recursion DEF Body
<1>3. Data!Digits = [m \in Nat |-> DigitsStep(Data!Digits, m)]
  BY <1>2 DEF Data!Digits, DigitsStep
<1> QED
  BY <1>3 DEF DigitsStep

LEMMA DigitsType ==
    ASSUME NEW n \in Nat
    PROVE  /\ Data!Digits[n] \in Seq(Nat) /\ 1 <= Len(Data!Digits[n])
           /\ 1 < Len(Data!Digits[n]) => Data!Digits[n][1] # 0
<1> DEFINE Good(m) == /\ Data!Digits[m] \in Seq(Nat) /\ 1 <= Len(Data!Digits[m])
                      /\ 1 < Len(Data!Digits[m]) \/ 1 <= m => Data!Digits[m][1] # 0
           T == {m \in Nat : Good(m)}
<1>1. ASSUME NEW m \in Nat, \A k \in 0 .. (m - 1) : k \in T
      PROVE  m \in T
  <2>1. CASE m < Radix
    <3>1. Data!Digits[m] = <<m>>
      BY <2>1, DigitsOf
    <3>2. <<m>> \in Seq(Nat) /\ Len(<<m>>) = 1 /\ <<m>>[1] = m
      OBVIOUS
    <3>3. Good(m)
      BY <3>1, <3>2
    <3> QED
      BY <3>3
  <2>2. CASE ~(m < Radix)
    <3> DEFINE q == m \div Radix
               r == m % Radix
               d == Data!Digits[q]
    <3>1. q \in 0 .. (m - 1) /\ 1 <= q /\ q \in Nat
      <4>1. Radix <= m
        BY <2>2, DataNumbers
      <4>2. q \in 0 .. (m - 1) /\ 1 <= q
        BY <4>1, DataNumbers, Shrinks
      <4> QED
        BY <4>2
    <3>2. r \in Nat
      BY DataNumbers, Division
    <3>3. Data!Digits[m] = Append(d, r)
      BY <2>2, DigitsOf
    <3>4. Good(q)
      BY <1>1, <3>1
    <3>5. d \in Seq(Nat) /\ 1 <= Len(d) /\ d[1] # 0
      BY <3>1, <3>4
    <3> HIDE DEF q, r, d
    <3>6. /\ Append(d, r) \in Seq(Nat) /\ Len(Append(d, r)) = Len(d) + 1
          /\ \A i \in 1 .. Len(d) : Append(d, r)[i] = d[i]
      BY <3>2, <3>5, AppendProperties
    <3>7. Len(d) \in Nat
      BY <3>5, LenProperties
    <3>8. Append(d, r)[1] = d[1]
      BY <3>5, <3>6, <3>7
    <3>9. 1 <= Len(Append(d, r)) /\ Append(d, r)[1] # 0
      BY <3>5, <3>6, <3>7, <3>8
    <3> QED
      BY <3>3, <3>6, <3>9
  <2> QED
    BY <2>1, <2>2
<1> HIDE DEF Good
<1>2. n \in T
  <2>1. T \in SUBSET Nat
    OBVIOUS
  <2> HIDE DEF T
  <2> QED
    BY <1>1, <2>1, LadderFromAllBelow
<1> QED
  BY <1>2 DEF Good

\* Whoever adds digit to digit, beginning with nothing, ends with the number.
LEMMA DigitsValue ==
    ASSUME NEW V, NEW z \in Nat, V[z] = 0, NEW n \in Nat,
           \A j \in 1 .. Len(Data!Digits[n]) :
              V[z + j] = Radix * V[(z + j) - 1] + Data!Digits[n][j]
    PROVE  V[z + Len(Data!Digits[n])] = n
<1> DEFINE Adds(m) == \A j \in 1 .. Len(Data!Digits[m]) :
                         V[z + j] = Radix * V[(z + j) - 1] + Data!Digits[m][j]
           Good(m) == Adds(m) => V[z + Len(Data!Digits[m])] = m
           T == {m \in Nat : Good(m)}
<1>1. ASSUME NEW m \in Nat, \A k \in 0 .. (m - 1) : k \in T, Adds(m)
      PROVE  V[z + Len(Data!Digits[m])] = m
  <2>1. CASE m < Radix
    <3>1. Data!Digits[m] = <<m>>
      BY <2>1, DigitsOf
    <3>2. Len(Data!Digits[m]) = 1 /\ Data!Digits[m][1] = m /\ 1 \in 1 .. Len(Data!Digits[m])
      BY <3>1
    <3>3. V[z + 1] = Radix * V[(z + 1) - 1] + m
      BY <1>1, <3>2
    <3>4. (z + 1) - 1 = z /\ Radix * 0 = 0
      BY DataNumbers
    <3>5. V[z + 1] = Radix * 0 + m
      BY <3>3, <3>4
    <3> QED
      BY <3>2, <3>4, <3>5
  <2>2. CASE ~(m < Radix)
    <3> DEFINE q == m \div Radix
               r == m % Radix
               d == Data!Digits[q]
    <3>1. q \in 0 .. (m - 1) /\ q \in Nat
      <4>1. Radix <= m
        BY <2>2, DataNumbers
      <4>2. q \in 0 .. (m - 1)
        BY <4>1, DataNumbers, Shrinks
      <4> QED
        BY <4>2
    <3>2. r \in Nat /\ m = Radix * q + r
      BY DataNumbers, Division
    <3>3. Data!Digits[m] = Append(d, r)
      BY <2>2, DigitsOf
    <3>4. d \in Seq(Nat)
      BY <3>1, DigitsType
    <3>5. Good(q)
      BY <1>1, <3>1
    <3> HIDE DEF q, r, d, Good
    <3>6. /\ Len(Data!Digits[m]) = Len(d) + 1 /\ Len(d) \in Nat
          /\ \A i \in 1 .. Len(d) : Data!Digits[m][i] = d[i]
          /\ Data!Digits[m][Len(d) + 1] = r
      BY <3>2, <3>3, <3>4, AppendProperties, LenProperties
    <3>7. Adds(q)
      <4>1. \A j \in 1 .. Len(d) :
               V[z + j] = Radix * V[(z + j) - 1] + d[j]
        BY <1>1, <3>6
      <4> QED
        BY <4>1 DEF d
    <3>8. V[z + Len(d)] = q
      BY <3>5, <3>7 DEF d, Good
    <3>9. Len(d) + 1 \in 1 .. Len(Data!Digits[m]) /\ (z + (Len(d) + 1)) - 1 = z + Len(d)
      BY <3>6
    <3>10. V[z + (Len(d) + 1)] = Radix * V[z + Len(d)] + r
      BY <1>1, <3>6, <3>9
    <3> QED
      BY <3>2, <3>6, <3>8, <3>10
  <2> QED
    BY <2>1, <2>2
<1> HIDE DEF Adds
<1>2. \A m \in Nat : (\A k \in 0 .. (m - 1) : k \in T) => m \in T
  BY <1>1
<1>3. T \in SUBSET Nat
  OBVIOUS
<1>4. n \in T
  <2> HIDE DEF T
  <2> QED
    BY <1>2, <1>3, LadderFromAllBelow
<1>5. Adds(n)
  BY DEF Adds
<1> QED
  BY <1>4, <1>5

\* The zeros in front make the digits fill whole elements.
LEMMA Padding ==
    ASSUME NEW l \in Nat, NEW g \in Nat \ {0}
    PROVE  LET z == (g - (l % g)) % g
           IN  /\ z \in 0 .. (g - 1) /\ z + l = g * ((z + l) \div g)
               /\ (z + l) \div g \in Nat
<1> DEFINE q == l \div g
           r == l % g
           z == (g - r) % g
<1>1. l = g * q + r /\ r \in 0 .. (g - 1) /\ q \in Nat
  BY Division
<1> HIDE DEF q, r
<1>2. CASE r = 0
  <2>1. (g * 1 + 0) % g = 0 /\ g * 1 + 0 = g
    BY Quotient
  <2>2. z = 0
    BY <1>2, <2>1
  <2>3. z + l = g * q + 0
    BY <1>1, <1>2, <2>2
  <2>4. (g * q + 0) \div g = q
    BY <1>1, Quotient
  <2> QED
    BY <1>1, <2>2, <2>3, <2>4 DEF r
<1>3. CASE r # 0
  <2>1. g - r \in 0 .. (g - 1) /\ g * 0 + (g - r) = g - r
    BY <1>1, <1>3
  <2>2. (g * 0 + (g - r)) % g = g - r
    BY <2>1, Quotient
  <2>3. z = g - r
    BY <2>1, <2>2
  <2>4. z + l = g * (q + 1) + 0
    <3>1. g * (q + 1) = g * q + g
      BY <1>1
    <3> QED
      BY <1>1, <2>3, <3>1
  <2>5. (g * (q + 1) + 0) \div g = q + 1
    BY <1>1, Quotient
  <2>6. z + l = g * ((z + l) \div g) /\ (z + l) \div g = q + 1
    <3>1. g * (q + 1) + 0 = g * (q + 1)
      BY <1>1
    <3> HIDE DEF z
    <3> QED
      BY <2>4, <2>5, <3>1
  <2> QED
    BY <1>1, <2>1, <2>3, <2>6 DEF r
<1> QED
  BY <1>2, <1>3

\* What the digits of a number are filled up to.
Fills(n, s, z, q) ==
    /\ z \in 0 .. (Group - 1) /\ q \in Nat \ {0}
    /\ s = Data!Padded(Data!Digits[n]) /\ s \in Seq(Nat)
    /\ Len(s) = Group * q /\ Len(s) \div Group = q
    /\ z + Len(Data!Digits[n]) = Group * q
    /\ \A i \in 1 .. z : s[i] = 0
    /\ \A j \in 1 .. Len(Data!Digits[n]) : s[z + j] = Data!Digits[n][j]

LEMMA PaddedIs ==
    ASSUME NEW n \in Nat
    PROVE  \E s, z, q : Fills(n, s, z, q)
<1> DEFINE d == Data!Digits[n]
           z == (Group - (Len(d) % Group)) % Group
           q == (z + Len(d)) \div Group
           zeros == [i \in 1 .. z |-> 0]
           s == zeros \o d
<1>1. d \in Seq(Nat) /\ 1 <= Len(d) /\ Len(d) \in Nat
  BY DigitsType, LenProperties
<1>2. z \in 0 .. (Group - 1) /\ z + Len(d) = Group * q /\ q \in Nat
  <2> HIDE DEF d
  <2> QED
    BY <1>1, DataNumbers, Padding
<1>3. s = Data!Padded(Data!Digits[n])
  BY DEF Data!Padded
<1> HIDE DEF z, d, q
<1>4. zeros \in Seq(Nat) /\ Len(zeros) = z /\ \A i \in 1 .. z : zeros[i] = 0
  BY <1>2, DataNumbers
<1> HIDE DEF zeros
<1>5. /\ s \in Seq(Nat) /\ Len(s) = z + Len(d)
      /\ \A i \in 1 .. (z + Len(d)) : s[i] = IF i <= z THEN zeros[i] ELSE d[i - z]
  BY <1>1, <1>4, ConcatProperties
<1> HIDE DEF s
<1>6. \A i \in 1 .. z : s[i] = 0
  BY <1>1, <1>2, <1>4, <1>5, DataNumbers
<1>7. \A j \in 1 .. Len(d) : s[z + j] = d[j]
  <2> TAKE j \in 1 .. Len(d)
  <2>1. z + j \in 1 .. (z + Len(d)) /\ ~(z + j <= z) /\ (z + j) - z = j
    BY <1>1, <1>2, DataNumbers
  <2> QED
    BY <1>5, <2>1
<1>8. q # 0
  <2>1. Group * 0 = 0
    BY DataNumbers
  <2> QED
    BY <1>1, <1>2, <2>1, DataNumbers
<1>9. Len(s) \div Group = q
  BY <1>5 DEF q
<1>10. Fills(n, s, z, q)
  BY <1>2, <1>3, <1>5, <1>6, <1>7, <1>8, <1>9 DEF Fills, d
<1> QED
  BY <1>10

\* The elements of a tile path, and where each digit went.
LEMMA PathIs ==
    ASSUME NEW n \in Nat, NEW s, NEW z, NEW q, Fills(n, s, z, q)
    PROVE  LET path == Data!TileIndexPath(n)
           IN  /\ DOMAIN path = 1 .. q /\ Len(path) = q /\ path # <<>>
               /\ \A k \in 1 .. q : Len(path[k].digits) = Group /\ path[k].x = (k < q)
               /\ \A i \in 1 .. (Group * q) :
                    path[((i - 1) \div Group) + 1].digits[((i - 1) % Group) + 1] = s[i]
<1> DEFINE path == Data!TileIndexPath(n)
           Element(k) == SubSeq(s, (k - 1) * Group + 1, k * Group)
<1>1. q \in Nat \ {0} /\ s \in Seq(Nat) /\ Len(s) = Group * q
  BY DEF Fills
<1>2. path = [k \in 1 .. q |-> [x |-> k * Group < Len(s), digits |-> Element(k)]]
  BY DEF Data!TileIndexPath, Fills
<1> HIDE DEF path
<1>3. ASSUME NEW k \in 1 .. q
      PROVE  /\ Len(Element(k)) = Group
             /\ \A c \in 1 .. Group : Element(k)[c] = s[(k - 1) * Group + c]
  <2> DEFINE m == (k - 1) * Group + 1
             e == k * Group
  <2>1. k * Group <= Group * q /\ 0 * Group <= (k - 1) * Group /\ 0 * Group = 0
    BY <1>1, DataNumbers, Grows
  <2>2. m \in Nat /\ e \in Nat /\ 1 <= m /\ e <= Len(s) /\ (e - m) + 1 = Group /\ m <= e
    <3>1. k * Group = (k - 1) * Group + Group /\ (k - 1) * Group \in Int
      BY <1>1, DataNumbers
    <3> QED
      BY <1>1, <2>1, <3>1, DataNumbers
  <2> HIDE DEF m, e
  <2>3. \A i \in m .. e : s[i] \in Nat
    BY <1>1, <2>2, ElementOfSeq
  <2>4. /\ Len(SubSeq(s, m, e)) = Group
        /\ \A i \in 1 .. Group : SubSeq(s, m, e)[i] = s[(m + i) - 1]
    BY <2>2, <2>3, SubSeqProperties
  <2>5. \A i \in 1 .. Group : (m + i) - 1 = (k - 1) * Group + i
    <3>1. (k - 1) * Group \in Int
      BY <1>1, DataNumbers
    <3> QED
      BY <3>1, DataNumbers DEF m
  <2> QED
    BY <2>4, <2>5 DEF m, e
<1>4. ASSUME NEW k \in 1 .. q
      PROVE  (k * Group < Len(s)) = (k < q)
  <2>1. k < q => k * Group < Group * q
    <3>1. k < q => (k + 1) * Group <= Group * q
      BY <1>1, DataNumbers, Grows
    <3>2. (k + 1) * Group = k * Group + Group /\ k * Group \in Int
      BY <1>1, DataNumbers
    <3> QED
      BY <1>1, <3>1, <3>2, DataNumbers
  <2>2. ~(k < q) => k = q
    BY <1>1
  <2>3. q * Group = Group * q /\ Group * q \in Int
    BY <1>1, DataNumbers
  <2> QED
    BY <1>1, <2>1, <2>2, <2>3
<1>5. ASSUME NEW i \in 1 .. (Group * q)
      PROVE  path[((i - 1) \div Group) + 1].digits[((i - 1) % Group) + 1] = s[i]
  <2> DEFINE b == (i - 1) \div Group
             c == (i - 1) % Group
  <2>1. i - 1 \in Nat /\ Group * q \in Nat
    BY <1>1, DataNumbers
  <2>2. i - 1 = Group * b + c /\ c \in 0 .. (Group - 1) /\ b \in Nat
    BY <2>1, DataNumbers, Division
  <2> HIDE DEF b, c
  <2>3. b < q
    <3> SUFFICES ASSUME q <= b PROVE FALSE
      BY <1>1, <2>2
    <3>1. Group * q <= Group * b
      BY <1>1, <2>2, DataNumbers, Grows
    <3> QED
      BY <2>1, <2>2, <3>1, DataNumbers
  <2>4. b + 1 \in 1 .. q /\ c + 1 \in 1 .. Group
    BY <1>1, <2>2, <2>3, DataNumbers
  <2>5. path[b + 1].digits = Element(b + 1)
    BY <1>2, <2>4
  <2>6. Element(b + 1)[c + 1] = s[((b + 1) - 1) * Group + (c + 1)]
    <3> HIDE DEF Element
    <3> QED
      BY <1>3, <2>4
  <2>7. ((b + 1) - 1) * Group + (c + 1) = i
    <3>1. (b + 1) - 1 = b /\ b * Group = Group * b /\ Group * b \in Int
      BY <2>2, DataNumbers
    <3> QED
      BY <2>1, <2>2, <3>1
  <2> QED
    BY <2>5, <2>6, <2>7 DEF b, c
<1>6. DOMAIN path = 1 .. q /\ Len(path) = q /\ path # <<>>
  <2>1. DOMAIN path = 1 .. q
    BY <1>2
  <2> HIDE DEF Element
  <2>2. Len(path) = q
    BY <1>1, <1>2
  <2> QED
    BY <1>1, <2>1, <2>2
<1>7. \A k \in 1 .. q : Len(path[k].digits) = Group /\ path[k].x = (k < q)
  <2> TAKE k \in 1 .. q
  <2>1. path[k].digits = Element(k) /\ path[k].x = (k * Group < Len(s))
    BY <1>2
  <2> QED
    BY <1>3, <1>4, <2>1
<1> QED
  BY <1>5, <1>6, <1>7 DEF path

\* The path of a tile is one a log understands, and stands for that tile.
LEMMA PathNames ==
    ASSUME NEW n \in Nat
    PROVE  /\ Data!IsIndexPath(Data!TileIndexPath(n))
           /\ Data!IndexOf(Data!TileIndexPath(n)) = n
<1> DEFINE path == Data!TileIndexPath(n)
           d == Data!Digits[n]
<1>1. PICK s, z, q : Fills(n, s, z, q)
  BY PaddedIs
<1>2. /\ z \in 0 .. (Group - 1) /\ q \in Nat \ {0} /\ s \in Seq(Nat)
      /\ z + Len(d) = Group * q
      /\ \A i \in 1 .. z : s[i] = 0
      /\ \A j \in 1 .. Len(d) : s[z + j] = d[j]
  BY <1>1 DEF Fills
<1>3. /\ DOMAIN path = 1 .. q /\ Len(path) = q /\ path # <<>>
      /\ \A k \in 1 .. q : Len(path[k].digits) = Group /\ path[k].x = (k < q)
      /\ \A i \in 1 .. (Group * q) :
           path[((i - 1) \div Group) + 1].digits[((i - 1) % Group) + 1] = s[i]
  BY <1>1, PathIs
<1>4. d \in Seq(Nat) /\ 1 <= Len(d) /\ Len(d) \in Nat /\ (1 < Len(d) => d[1] # 0)
  BY DigitsType, LenProperties
<1>5. 1 < q => \E i \in 1 .. Group : path[1].digits[i] # 0
  <2> SUFFICES ASSUME 1 < q
               PROVE  \E i \in 1 .. Group : path[1].digits[i] # 0
    OBVIOUS
  <2>1. Group * 2 <= Group * q /\ Group * q \in Nat
    BY <1>2, DataNumbers, Grows
  <2> HIDE DEF path, d
  <2>2. 1 < Len(d) /\ z \in 0 .. (Group - 1) /\ z + 1 \in 1 .. (Group * q)
    BY <1>2, <1>4, <2>1, DataNumbers
  <2>3. s[z + 1] = d[1] /\ d[1] # 0
    BY <1>2, <1>4, <2>2
  <2>4. ((z + 1) - 1) \div Group = 0 /\ ((z + 1) - 1) % Group = z
    <3>1. Group * 0 + z = (z + 1) - 1
      BY <2>2, DataNumbers
    <3>2. (Group * 0 + z) \div Group = 0 /\ (Group * 0 + z) % Group = z
      BY <2>2, DataNumbers, Quotient
    <3> QED
      BY <3>1, <3>2
  <2>5. path[0 + 1].digits[z + 1] = s[z + 1]
    BY <1>3, <2>2, <2>4
  <2>6. z + 1 \in 1 .. Group /\ 0 + 1 = 1
    BY <2>2, DataNumbers
  <2>7. path[1].digits[z + 1] # 0
    BY <2>3, <2>5, <2>6
  <2> QED
    BY <2>6, <2>7
<1>6. Data!IsIndexPath(path)
  <2> HIDE DEF path
  <2> QED
    BY <1>3, <1>5 DEF Data!IsIndexPath
<1> HIDE DEF path, d
<1>7. Causal("value", path, 0, 0, 0)
  <2> SUFFICES ASSUME NEW f, NEW g, NEW m \in Nat, \A i \in 0 .. (m - 1) : f[i] = g[i]
               PROVE  ValueStep(path, f, m) = ValueStep(path, g, m)
    BY DEF Causal, Body
  <2>1. m # 0 => f[m - 1] = g[m - 1]
    OBVIOUS
  <2> QED
    BY <2>1 DEF ValueStep
<1>8. PICK f : f = [m \in Nat |-> ValueStep(path, f, m)]
  BY <1>7, Recursion DEF Body
<1> DEFINE V == CHOOSE h : h = [m \in Nat |-> ValueStep(path, h, m)]
<1>9. V = [m \in Nat |-> ValueStep(path, V, m)]
  BY <1>8
<1>10. Data!IndexOf(path) = V[Group * q]
  BY <1>3 DEF Data!IndexOf, ValueStep
<1> HIDE DEF V
<1>11. V[0] = 0 /\ \A i \in 1 .. (Group * q) : V[i] = Radix * V[i - 1] + s[i]
  <2>1. V[0] = 0
    BY <1>9 DEF ValueStep
  <2>2. ASSUME NEW i \in 1 .. (Group * q)
        PROVE  V[i] = Radix * V[i - 1] + s[i]
    <3>1. i \in Nat /\ i # 0
      BY <1>2, DataNumbers
    <3>2. V[i] = Radix * V[i - 1]
                   + path[((i - 1) \div Group) + 1].digits[((i - 1) % Group) + 1]
      BY <1>9, <3>1 DEF ValueStep
    <3> QED
      BY <1>3, <3>2
  <2> QED
    BY <2>1, <2>2
<1>12. \A i \in 0 .. z : V[i] = 0
  <2> DEFINE T == {i \in Nat : i <= z => V[i] = 0}
  <2>1. 0 \in T
    BY <1>11
  <2>2. \A i \in T : i + 1 \in T
    <3> SUFFICES ASSUME NEW i \in T, i + 1 <= z
                 PROVE  V[i + 1] = 0
      OBVIOUS
    <3>1. i \in Nat /\ V[i] = 0
      BY <1>2, DataNumbers
    <3>2. i + 1 \in 1 .. z /\ i + 1 \in 1 .. (Group * q) /\ (i + 1) - 1 = i
      <4>1. Group * q \in Nat
        BY <1>2, DataNumbers
      <4> QED
        BY <1>2, <1>4, <3>1, <4>1, DataNumbers
    <3>3. V[i + 1] = Radix * V[(i + 1) - 1] + s[i + 1]
      BY <1>11, <3>2
    <3>4. Radix * 0 + 0 = 0
      BY DataNumbers
    <3> QED
      BY <1>2, <3>1, <3>2, <3>3, <3>4
  <2>3. T \in SUBSET Nat
    OBVIOUS
  <2>4. \A i \in Nat : i \in T
    <3> HIDE DEF T
    <3> QED
      BY <2>1, <2>2, <2>3, Ladder
  <2> QED
    BY <2>4, <1>2, DataNumbers
<1>13. V[z + Len(d)] = n
  <2>1. \A j \in 1 .. Len(d) : V[z + j] = Radix * V[(z + j) - 1] + d[j]
    <3> TAKE j \in 1 .. Len(d)
    <3>1. z + j \in 1 .. (Group * q)
      <4>1. Group * q \in Nat
        BY <1>2, DataNumbers
      <4> QED
        BY <1>2, <1>4, <4>1, DataNumbers
    <3>2. V[z + j] = Radix * V[(z + j) - 1] + s[z + j]
      BY <1>11, <3>1
    <3> QED
      BY <1>2, <3>2
  <2>2. z \in Nat /\ V[z] = 0
    BY <1>2, <1>12, DataNumbers
  <2> QED
    BY <2>1, <2>2, DigitsValue DEF d
<1> QED
  BY <1>2, <1>6, <1>10, <1>13 DEF path

\* The width a tile is asked for, when an entry in it is wanted.
LEMMA WidthIs ==
    ASSUME NEW c \in Nat, NEW size \in Nat, c < size
    PROVE  LET t == c \div DataWidth
               o == c % DataWidth
               w == Data!WidthOf(t, size)
           IN  /\ t \in Nat /\ o \in Nat /\ DataWidth * t \in Nat /\ c = DataWidth * t + o
               /\ w \in 1 .. DataWidth /\ o < w /\ DataWidth * t + w <= size
               /\ \/ w = DataWidth /\ DataWidth * (t + 1) <= size
                  \/ /\ w < DataWidth /\ w = size % DataWidth /\ t = size \div DataWidth
                     /\ DataWidth * t + w = size
<1> DEFINE t == c \div DataWidth
           o == c % DataWidth
           Q == size \div DataWidth
           R == size % DataWidth
           w == Data!WidthOf(t, size)
<1>1. /\ c = DataWidth * t + o /\ o \in 0 .. (DataWidth - 1) /\ t \in Nat
      /\ size = DataWidth * Q + R /\ R \in 0 .. (DataWidth - 1) /\ Q \in Nat
  BY DataNumbers, Division
<1>2. w = IF t = Q /\ R > 0 THEN R ELSE DataWidth
  BY DEF Data!WidthOf
<1>3. DataWidth * t \in Nat /\ t * DataWidth = DataWidth * t
  BY <1>1, DataNumbers
<1>4. t <= Q
  <2>1. t * DataWidth <= size
    BY <1>1, <1>3
  <2> HIDE DEF Q
  <2>2. t <= size \div DataWidth
    BY <1>1, <2>1, DataNumbers, QuotientGrows
  <2> QED
    BY <2>2 DEF Q
<1> HIDE DEF t, o, Q, R, w
<1>5. CASE t = Q
  <2>1. R > 0 /\ o < R
    BY <1>1, <1>3, <1>5
  <2>2. w = R
    BY <1>2, <1>5, <2>1
  <2> QED
    BY <1>1, <1>3, <1>5, <2>1, <2>2, DataNumbers DEF Q, R, w
<1>6. CASE t # Q
  <2>1. w = DataWidth
    BY <1>2, <1>6
  <2>2. DataWidth * (t + 1) <= DataWidth * Q /\ DataWidth * Q \in Nat
    BY <1>1, <1>4, <1>6, DataNumbers, Grows
  <2>3. DataWidth * (t + 1) = DataWidth * t + DataWidth
    BY <1>1, DataNumbers
  <2> QED
    BY <1>1, <1>3, <2>1, <2>2, <2>3, DataNumbers DEF w
<1> QED
  BY <1>5, <1>6 DEF t, o, Q, R, w

\* What one pass of the loop of GetRawEntries takes, when n entries are left.
LEMMA PassIs ==
    ASSUME NEW end \in Nat, NEW size \in Nat, end < size, NEW n \in 1 .. (end + 1)
    PROVE  LET c == end - n + 1
               t == c \div DataWidth
               o == c % DataWidth
               k == Data!Take(c, end, size)
               w == Data!WidthOf(t, size)
           IN  /\ k \in 1 .. n /\ o + k <= w /\ t <= end \div DataWidth
               /\ t = end \div DataWidth => k = n
               /\ t # end \div DataWidth =>
                     k < n /\ k = DataWidth - o /\ w = DataWidth /\ DataWidth * (t + 1) <= size
<1> DEFINE c == end - n + 1
           t == c \div DataWidth
           o == c % DataWidth
           k == Data!Take(c, end, size)
           w == Data!WidthOf(t, size)
           T == end \div DataWidth
           O == end % DataWidth
<1>1. c \in Nat /\ c <= end /\ (end - c) + 1 = n
  OBVIOUS
<1>2. t = c \div DataWidth /\ o = c % DataWidth /\ c < size
  OBVIOUS
<1>3. k = IF n < w - o THEN n ELSE w - o
  BY <1>1, <1>2 DEF Data!Take
<1> HIDE DEF c, k, w, t, o
<1>4. /\ t \in Nat /\ o \in Nat /\ DataWidth * t \in Nat /\ c = DataWidth * t + o
      /\ w \in 1 .. DataWidth /\ o < w /\ DataWidth * t + w <= size
      /\ \/ w = DataWidth /\ DataWidth * (t + 1) <= size
         \/ w < DataWidth /\ DataWidth * t + w = size
  BY <1>1, <1>2, WidthIs DEF w, t, o
<1>5. end = DataWidth * T + O /\ O \in 0 .. (DataWidth - 1) /\ T \in Nat
  BY DataNumbers, Division
<1>6. t <= T
  <2>1. t * DataWidth = DataWidth * t
    BY <1>4, DataNumbers
  <2>2. t * DataWidth <= end
    BY <1>1, <1>4, <2>1
  <2> HIDE DEF T
  <2>3. t <= end \div DataWidth
    BY <1>4, <2>2, DataNumbers, QuotientGrows
  <2> QED
    BY <2>3 DEF T
<1> HIDE DEF T, O
<1>7. k \in 1 .. n /\ o + k <= w
  BY <1>3, <1>4
<1>8. ASSUME t = T
      PROVE  k = n
  <2>1. DataWidth * t + w > end
    <3>1. w = DataWidth => DataWidth * t + w > end
      BY <1>4, <1>5, <1>8, DataNumbers
    <3> QED
      BY <1>4, <3>1
  <2>2. n <= w - o
    BY <1>1, <1>4, <2>1
  <2>3. ~(n < w - o) => w - o = n
    BY <1>4, <2>2, DataNumbers
  <2> QED
    BY <1>3, <2>3
<1>9. ASSUME t # T
      PROVE  k < n /\ k = DataWidth - o /\ w = DataWidth /\ DataWidth * (t + 1) <= size
  <2>1. DataWidth * (t + 1) <= DataWidth * T /\ DataWidth * T \in Nat
    BY <1>4, <1>5, <1>6, <1>9, DataNumbers, Grows
  <2>2. DataWidth * (t + 1) = DataWidth * t + DataWidth
    BY <1>4, DataNumbers
  <2>3. DataWidth * t + DataWidth <= end
    BY <1>4, <1>5, <2>1, <2>2, DataNumbers
  <2>4. w = DataWidth
    BY <1>4, <2>3, DataNumbers
  <2>5. w - o < n
    BY <1>1, <1>4, <2>3, <2>4
  <2> QED
    BY <1>3, <1>4, <2>2, <2>3, <2>4, <2>5
<1> QED
  BY <1>6, <1>7, <1>8, <1>9 DEF c, k, w, t, o, T

\* A part of a log's leaves, which is never what stands for an error.
LEMMA PartOfLeaves ==
    ASSUME NEW leaves \in Seq(Entries), NEW m \in 1 .. Len(leaves), NEW e \in m .. Len(leaves)
    PROVE  /\ SubSeq(leaves, m, e) \in Seq(Entries) /\ Len(SubSeq(leaves, m, e)) = e - m + 1
           /\ SubSeq(leaves, m, e) # Data!Error
<1>1. Len(leaves) \in Nat
  BY LenProperties
<1>2. m \in Int /\ e \in Int /\ m <= e /\ \A i \in m .. e : leaves[i] \in Entries
  BY <1>1, ElementOfSeq
<1>3. SubSeq(leaves, m, e) \in Seq(Entries) /\ Len(SubSeq(leaves, m, e)) = e - m + 1
  BY <1>2, SubSeqProperties
<1> QED
  BY <1>3, DataConstants

\* A part of a part is a part.
LEMMA PartOfPart ==
    ASSUME NEW S, NEW s \in Seq(S), NEW i \in 1 .. Len(s), NEW j \in i .. Len(s),
           NEW m \in 1 .. (j - i + 1), NEW n \in m .. (j - i + 1)
    PROVE  SubSeq(SubSeq(s, i, j), m, n) = SubSeq(s, i + m - 1, i + n - 1)
<1>1. Len(s) \in Nat
  BY LenProperties
<1> DEFINE p == SubSeq(s, i, j)
           u == SubSeq(p, m, n)
           v == SubSeq(s, i + m - 1, i + n - 1)
<1>2. /\ Len(p) = j - i + 1 /\ p \in Seq(S)
      /\ \A k \in 1 .. (j - i + 1) : p[k] = s[i + k - 1]
  <2>1. i \in Int /\ j \in Int /\ i <= j /\ \A k \in i .. j : s[k] \in S
    BY <1>1, ElementOfSeq
  <2> QED
    BY <2>1, SubSeqProperties
<1> HIDE DEF p
<1>3. /\ Len(u) = n - m + 1 /\ u \in Seq(S)
      /\ \A k \in 1 .. (n - m + 1) : u[k] = p[m + k - 1]
  <2>1. m \in Int /\ n \in Int /\ m <= n /\ \A k \in m .. n : p[k] \in S
    BY <1>1, <1>2, ElementOfSeq
  <2> QED
    BY <2>1, SubSeqProperties
<1>4. /\ Len(v) = n - m + 1 /\ v \in Seq(S)
      /\ \A k \in 1 .. (n - m + 1) : v[k] = s[(i + m - 1) + k - 1]
  <2> DEFINE a == i + m - 1
             b == i + n - 1
  <2>1. a \in Int /\ b \in Int /\ a <= b /\ b - a = n - m /\ \A k \in a .. b : s[k] \in S
    BY <1>1, ElementOfSeq
  <2> HIDE DEF a, b
  <2>2. /\ Len(SubSeq(s, a, b)) = n - m + 1 /\ SubSeq(s, a, b) \in Seq(S)
        /\ \A k \in 1 .. (n - m + 1) : SubSeq(s, a, b)[k] = s[a + k - 1]
    BY <2>1, SubSeqProperties
  <2> QED
    BY <2>2 DEF a, b
<1> HIDE DEF u, v
<1>5. \A k \in 1 .. Len(u) : u[k] = v[k]
  <2> TAKE k \in 1 .. Len(u)
  <2>1. k \in 1 .. (n - m + 1) /\ m + k - 1 \in 1 .. (j - i + 1)
    BY <1>1, <1>3
  <2>2. u[k] = p[m + k - 1] /\ p[m + k - 1] = s[i + (m + k - 1) - 1]
    BY <1>2, <1>3, <2>1
  <2>3. i + (m + k - 1) - 1 = (i + m - 1) + k - 1
    BY <1>1, <2>1
  <2> QED
    BY <1>4, <2>1, <2>2, <2>3
<1>6. u = v
  BY <1>3, <1>4, <1>5, SeqEqual
<1> QED
  BY <1>6 DEF u, v, p

\* What a log serves under the path of a tile.
LEMMA ServeIs ==
    ASSUME NEW log, NEW t \in Nat, NEW w \in 1 .. DataWidth
    PROVE  Data!Serve(log, Data!DataTilePath(t, w))
             = IF DataWidth * t + w <= Len(log.leaves) /\ (w < DataWidth => w \in log.partials)
               THEN SubSeq(log.leaves, DataWidth * t + 1, DataWidth * t + w)
               ELSE Data!Error
<1> DEFINE path == Data!DataTilePath(t, w)
<1>1. path.index = Data!TileIndexPath(t) /\ path.width = IF w < DataWidth THEN w ELSE 0
  BY DEF Data!DataTilePath
<1> HIDE DEF path
<1>2. Data!IsIndexPath(path.index) /\ Data!IndexOf(path.index) = t
  BY <1>1, PathNames
<1>3. (IF path.width = 0 THEN DataWidth ELSE path.width) = w
      /\ (path.width # 0 <=> w < DataWidth) /\ (w < DataWidth => path.width = w)
  BY <1>1, DataNumbers
<1>4. t * DataWidth = DataWidth * t
  BY DataNumbers
<1> QED
  BY <1>2, <1>3, <1>4 DEF Data!Serve, path

\* A tile the log has not got any more, and not yet in full.
Gone(leaves, partials, size, t) ==
    size % DataWidth \notin partials /\ DataWidth * (t + 1) > Len(leaves)

\* getDataTile: the entries of the tile, unless it is gone.
LEMMA DataTileIs ==
    ASSUME NEW leaves \in Seq(Entries), NEW partials, NEW size \in Nat, size <= Len(leaves),
           NEW c \in Nat, c < size
    PROVE  LET t == c \div DataWidth
               w == Data!WidthOf(t, size)
           IN  Data!GetDataTile(t, w, [leaves |-> leaves, partials |-> partials])
                 = IF Gone(leaves, partials, size, t) THEN Data!Error
                   ELSE SubSeq(leaves, DataWidth * t + 1, DataWidth * t + w)
<1> DEFINE t == c \div DataWidth
           w == Data!WidthOf(t, size)
           log == [leaves |-> leaves, partials |-> partials]
           body == Data!Serve(log, Data!DataTilePath(t, w))
           full == Data!Serve(log, Data!DataTilePath(t, DataWidth))
           a == DataWidth * t
<1> HIDE DEF a, log, body, full
<1>1. /\ t \in Nat /\ a \in Nat /\ w \in 1 .. DataWidth /\ a + w <= size
      /\ \/ w = DataWidth /\ DataWidth * (t + 1) <= size
         \/ w < DataWidth /\ w = size % DataWidth /\ t = size \div DataWidth
  BY WidthIs DEF a
<1> HIDE DEF t, w
<1>2. Len(leaves) \in Nat
  BY LenProperties
<1>3. body = IF w < DataWidth => w \in partials
             THEN SubSeq(leaves, a + 1, a + w) ELSE Data!Error
  <2>1. log.leaves = leaves /\ log.partials = partials
    BY DEF log
  <2>2. body = IF a + w <= Len(log.leaves) /\ (w < DataWidth => w \in log.partials)
               THEN SubSeq(log.leaves, a + 1, a + w) ELSE Data!Error
    BY <1>1, ServeIs DEF a, body
  <2>3. a + w <= Len(leaves)
    BY <1>1, <1>2, DataNumbers
  <2> QED
    BY <2>1, <2>2, <2>3
<1>4. full = IF a + DataWidth <= Len(leaves)
             THEN SubSeq(leaves, a + 1, a + DataWidth) ELSE Data!Error
  <2>1. log.leaves = leaves
    BY DEF log
  <2>2. DataWidth \in 1 .. DataWidth /\ ~(DataWidth < DataWidth)
    BY DataNumbers
  <2>3. full = IF a + DataWidth <= Len(log.leaves)
                    /\ (DataWidth < DataWidth => DataWidth \in log.partials)
               THEN SubSeq(log.leaves, a + 1, a + DataWidth) ELSE Data!Error
    BY <1>1, <2>2, ServeIs DEF a, full
  <2> QED
    BY <2>1, <2>2, <2>3
<1>5. Data!GetDataTile(t, w, log)
        = IF body # Data!Error
          THEN IF Len(body) = w THEN body ELSE Data!Error
          ELSE IF w < DataWidth /\ full # Data!Error /\ Len(full) >= w
               THEN SubSeq(full, 1, w) ELSE Data!Error
  BY DEF Data!GetDataTile, body, full
<1>6. SubSeq(leaves, a + 1, a + w) # Data!Error /\ Len(SubSeq(leaves, a + 1, a + w)) = w
  <2>1. a + 1 \in 1 .. Len(leaves) /\ a + w \in (a + 1) .. Len(leaves)
    BY <1>1, <1>2, DataNumbers
  <2>2. (a + w) - (a + 1) + 1 = w
    BY <1>1, DataNumbers
  <2> QED
    BY <2>1, <2>2, PartOfLeaves
<1>7. DataWidth * (t + 1) = a + DataWidth
  BY <1>1, DataNumbers DEF a
<1>8. CASE w < DataWidth => w \in partials
  <2>1. Data!GetDataTile(t, w, log) = SubSeq(leaves, a + 1, a + w)
    BY <1>3, <1>5, <1>6, <1>8
  <2>2. ~Gone(leaves, partials, size, t)
    <3>1. CASE w < DataWidth
      BY <1>1, <1>8, <3>1 DEF Gone
    <3>2. CASE ~(w < DataWidth)
      <4>1. DataWidth * (t + 1) <= size
        BY <1>1, <3>2
      <4> QED
        BY <1>1, <1>2, <1>7, <4>1, DataNumbers DEF Gone
    <3> QED
      BY <3>1, <3>2
  <2> QED
    BY <2>1, <2>2 DEF log, a, t, w
<1>9. CASE ~(w < DataWidth => w \in partials)
  <2>1. body = Data!Error /\ w < DataWidth /\ size % DataWidth \notin partials
    BY <1>1, <1>3, <1>9, DataNumbers
  <2>2. Gone(leaves, partials, size, t) <=> ~(a + DataWidth <= Len(leaves))
    BY <1>1, <1>2, <1>7, <2>1, DataNumbers DEF Gone
  <2>3. CASE a + DataWidth <= Len(leaves)
    <3>1. full = SubSeq(leaves, a + 1, a + DataWidth)
      BY <1>4, <2>3
    <3>2. full # Data!Error /\ Len(full) = DataWidth
      <4>1. a + 1 \in 1 .. Len(leaves) /\ a + DataWidth \in (a + 1) .. Len(leaves)
        BY <1>1, <1>2, <2>3, DataNumbers
      <4>2. (a + DataWidth) - (a + 1) + 1 = DataWidth
        BY <1>1, DataNumbers
      <4> QED
        BY <3>1, <4>1, <4>2, PartOfLeaves
    <3> DEFINE m == a + 1
               e == a + DataWidth
               k == 1
    <3>3. /\ m \in 1 .. Len(leaves) /\ e \in m .. Len(leaves)
          /\ k \in 1 .. (e - m + 1) /\ w \in k .. (e - m + 1)
      BY <1>1, <1>2, <2>3, DataNumbers
    <3>4. /\ m + k - 1 = a + 1 /\ m + w - 1 = a + w /\ k = 1 /\ DataWidth >= w
      BY <1>1, <1>2, <2>3, DataNumbers
    <3>5. full = SubSeq(leaves, m, e)
      BY <3>1
    <3> HIDE DEF m, e, k
    <3>6. SubSeq(SubSeq(leaves, m, e), k, w) = SubSeq(leaves, m + k - 1, m + w - 1)
      BY <3>3, PartOfPart
    <3>7. SubSeq(full, 1, w) = SubSeq(leaves, a + 1, a + w)
      BY <3>5, <3>6, <3>4
    <3> QED
      BY <1>5, <2>1, <2>2, <2>3, <3>2, <3>7, <3>4 DEF log, a, t, w
  <2>4. CASE ~(a + DataWidth <= Len(leaves))
    BY <1>4, <1>5, <2>1, <2>2, <2>4 DEF log, a, t, w
  <2> QED
    BY <2>3, <2>4
<1> QED
  BY <1>8, <1>9 DEF log, t, w

\* What is read of the last n entries of a range.
LastOf(leaves, partials, size, end, n) ==
    IF n > 0 /\ Gone(leaves, partials, size, end \div DataWidth) THEN Data!Error
    ELSE SubSeq(leaves, end - n + 2, end + 1)

LEMMA LastOfType ==
    ASSUME NEW leaves \in Seq(Entries), NEW partials, NEW size \in Nat, size <= Len(leaves),
           NEW end \in Nat, end < size, NEW n \in 1 .. (end + 1)
    PROVE  LastOf(leaves, partials, size, end, n) = Data!Error
             <=> Gone(leaves, partials, size, end \div DataWidth)
<1> DEFINE m == end - n + 2
           e == end + 1
<1>1. m \in 1 .. Len(leaves) /\ e \in m .. Len(leaves) /\ n > 0
  BY LenProperties
<1> HIDE DEF m, e
<1>2. SubSeq(leaves, m, e) # Data!Error
  BY <1>1, PartOfLeaves
<1> QED
  BY <1>1, <1>2 DEF LastOf, m, e

\* One pass: the part of a tile it takes, in front of what the passes behind it read.
LEMMA RangeStepIs ==
    ASSUME NEW leaves \in Seq(Entries), NEW partials, NEW size \in Nat, size <= Len(leaves),
           NEW end \in Nat, end < size, NEW n \in 1 .. (end + 1), NEW f,
           \A i \in 0 .. (n - 1) : f[i] = LastOf(leaves, partials, size, end, i)
    PROVE  RangeStep(end, size, [leaves |-> leaves, partials |-> partials], f, n)
             = LastOf(leaves, partials, size, end, n)
<1> DEFINE log == [leaves |-> leaves, partials |-> partials]
           c == end - n + 1
           t == c \div DataWidth
           o == c % DataWidth
           k == Data!Take(c, end, size)
           w == Data!WidthOf(t, size)
           T == end \div DataWidth
           entries == Data!GetDataTile(t, w, log)
           a == DataWidth * t
<1>1. c \in Nat /\ c < size /\ c <= end /\ Len(leaves) \in Nat
  BY LenProperties
<1>2. RangeStep(end, size, log, f, n)
        = IF entries = Data!Error \/ f[n - k] = Data!Error THEN Data!Error
          ELSE SubSeq(entries, o + 1, o + k) \o f[n - k]
  BY DEF RangeStep
<1>3. /\ k \in 1 .. n /\ o + k <= w /\ t <= T
      /\ t = T => k = n
      /\ t # T => k < n /\ w = DataWidth /\ DataWidth * (t + 1) <= size
  BY PassIs
<1>4. /\ t \in Nat /\ o \in Nat /\ a \in Nat /\ c = a + o /\ w \in 1 .. DataWidth
      /\ o < w /\ a + w <= size
  <2> HIDE DEF c
  <2> QED
    BY <1>1, WidthIs
<1> HIDE DEF c, k, o
<1>5. entries = IF Gone(leaves, partials, size, t) THEN Data!Error
                ELSE SubSeq(leaves, a + 1, a + w)
  <2> HIDE DEF log
  <2>1. Data!GetDataTile(t, w, [leaves |-> leaves, partials |-> partials])
          = IF Gone(leaves, partials, size, t) THEN Data!Error
            ELSE SubSeq(leaves, DataWidth * t + 1, DataWidth * t + w)
    BY <1>1, DataTileIs
  <2> QED
    BY <2>1 DEF log
<1> HIDE DEF entries, log, a, t, w, T
<1>6. ASSUME ~Gone(leaves, partials, size, t)
      PROVE  /\ entries # Data!Error
             /\ SubSeq(entries, o + 1, o + k) = SubSeq(leaves, c + 1, c + k)
  <2> DEFINE m == a + 1
             e == a + w
             x == o + 1
             y == o + k
  <2>1. entries = SubSeq(leaves, m, e)
    BY <1>5, <1>6
  <2>2. /\ m \in 1 .. Len(leaves) /\ e \in m .. Len(leaves)
        /\ x \in 1 .. (e - m + 1) /\ y \in x .. (e - m + 1)
    BY <1>1, <1>3, <1>4, DataNumbers
  <2>3. m + x - 1 = c + 1 /\ m + y - 1 = c + k
    BY <1>3, <1>4, DataNumbers
  <2> HIDE DEF m, e, x, y
  <2>4. entries # Data!Error
    BY <2>1, <2>2, PartOfLeaves
  <2>5. SubSeq(SubSeq(leaves, m, e), x, y) = SubSeq(leaves, m + x - 1, m + y - 1)
    BY <2>2, PartOfPart
  <2> QED
    BY <2>1, <2>3, <2>4, <2>5 DEF x, y
<1>7. CASE t = T
  <2>1. k = n /\ n - k = 0 /\ f[0] = LastOf(leaves, partials, size, end, 0)
    BY <1>3, <1>7
  <2>2. end - 0 + 2 \in Int /\ end + 1 \in Int /\ end + 1 < end - 0 + 2 /\ ~(0 > 0)
    OBVIOUS
  <2>3. f[n - k] = <<>>
    BY <2>1, <2>2, SubSeqEmpty DEF LastOf
  <2>4. <<>> # Data!Error
    BY EmptySeq, DataConstants
  <2>5. CASE Gone(leaves, partials, size, t)
    <3>1. RangeStep(end, size, log, f, n) = Data!Error
      BY <1>2, <1>5, <2>5
    <3>2. LastOf(leaves, partials, size, end, n) = Data!Error
      BY <1>7, <2>5, LastOfType DEF T
    <3> QED
      BY <3>1, <3>2 DEF log
  <2>6. CASE ~Gone(leaves, partials, size, t)
    <3>1. RangeStep(end, size, log, f, n) = SubSeq(leaves, c + 1, c + k) \o <<>>
      BY <1>2, <1>6, <2>3, <2>4, <2>6
    <3> DEFINE m == c + 1
               e == c + k
    <3>2. /\ m \in 1 .. Len(leaves) /\ e \in m .. Len(leaves)
          /\ m = end - n + 2 /\ e = end + 1
      BY <1>1, <1>3, <2>1 DEF c
    <3> HIDE DEF m, e
    <3>3. SubSeq(leaves, m, e) \in Seq(Entries)
      BY <3>2, PartOfLeaves
    <3>4. SubSeq(leaves, m, e) \o <<>> = SubSeq(leaves, m, e)
      BY <3>3, ConcatEmptySeq
    <3>5. LastOf(leaves, partials, size, end, n) = SubSeq(leaves, m, e)
      BY <1>7, <2>6, <3>2 DEF LastOf, T
    <3> QED
      BY <3>1, <3>4, <3>5 DEF log, m, e
  <2> QED
    BY <2>5, <2>6
<1>8. CASE t # T
  <2>1. k < n /\ w = DataWidth /\ DataWidth * (t + 1) <= size
    BY <1>3, <1>8
  <2>2. ~Gone(leaves, partials, size, t)
    <3>1. DataWidth * (t + 1) \in Nat
      BY <1>4, DataNumbers
    <3> QED
      BY <1>1, <2>1, <3>1 DEF Gone
  <2>3. n - k \in 1 .. (end + 1) /\ n - k \in 0 .. (n - 1)
    BY <1>3, <2>1
  <2>4. f[n - k] = LastOf(leaves, partials, size, end, n - k)
    BY <2>3
  <2>5. f[n - k] = Data!Error <=> Gone(leaves, partials, size, T)
    BY <2>3, <2>4, LastOfType DEF T
  <2>6. CASE Gone(leaves, partials, size, T)
    <3>1. RangeStep(end, size, log, f, n) = Data!Error
      BY <1>2, <2>5, <2>6
    <3>2. LastOf(leaves, partials, size, end, n) = Data!Error
      BY <2>6, LastOfType DEF T
    <3> QED
      BY <3>1, <3>2 DEF log
  <2>7. CASE ~Gone(leaves, partials, size, T)
    <3> DEFINE m == c + 1
               x == c + k
               e == end + 1
    <3>1. /\ m \in 1 .. (Len(leaves) + 1) /\ x \in (m - 1) .. Len(leaves)
          /\ e \in x .. Len(leaves) /\ m = end - n + 2 /\ x + 1 = end - (n - k) + 2
      BY <1>1, <1>3, <2>1 DEF c
    <3>2. f[n - k] = SubSeq(leaves, x + 1, e)
      BY <2>4, <2>7, <3>1 DEF LastOf, T
    <3>3. RangeStep(end, size, log, f, n) = SubSeq(leaves, m, x) \o SubSeq(leaves, x + 1, e)
      BY <1>2, <1>6, <2>2, <2>5, <2>7, <3>2
    <3> HIDE DEF m, x, e
    <3>4. SubSeq(leaves, m, x) \o SubSeq(leaves, x + 1, e) = SubSeq(leaves, m, e)
      BY <3>1, ConcatAdjacentSubSeq
    <3>5. LastOf(leaves, partials, size, end, n) = SubSeq(leaves, m, e)
      BY <2>7, <3>1 DEF LastOf, T, e
    <3> QED
      BY <3>3, <3>4, <3>5 DEF log
  <2> QED
    BY <2>6, <2>7
<1> QED
  BY <1>7, <1>8

LEMMA RangeCausal ==
    ASSUME NEW end \in Nat, NEW size \in Nat, end < size, NEW m \in 1 .. (end + 1), NEW log
    PROVE  Causal("range", m, end, size, log)
<1> SUFFICES ASSUME NEW f, NEW g, NEW n \in Nat, n <= m, \A i \in 0 .. (n - 1) : f[i] = g[i]
             PROVE  RangeStep(end, size, log, f, n) = RangeStep(end, size, log, g, n)
  BY DEF Causal, Body
<1>1. CASE n = 0
  BY <1>1 DEF RangeStep
<1>2. CASE n # 0
  <2> DEFINE k == Data!Take(end - n + 1, end, size)
  <2>1. n \in 1 .. (end + 1)
    BY <1>2
  <2>2. k \in 1 .. n
    BY <2>1, PassIs
  <2> HIDE DEF k
  <2>3. f[n - k] = g[n - k]
    BY <2>2
  <2> QED
    BY <2>3 DEF RangeStep, k
<1> QED
  BY <1>1, <1>2

\* GetRawEntries: the range, unless the last tile of it is gone.
LEMMA RangeIsRead ==
    ASSUME NEW leaves \in Seq(Entries), NEW partials, NEW size \in Nat, size <= Len(leaves),
           NEW end \in Nat, end < size, NEW start \in 0 .. end
    PROVE  Data!GetRawEntries(start, end, size, [leaves |-> leaves, partials |-> partials])
             = LastOf(leaves, partials, size, end, end - start + 1)
<1> DEFINE log == [leaves |-> leaves, partials |-> partials]
           m == end - start + 1
           Read == CHOOSE f : f = [n \in 0 .. m |-> RangeStep(end, size, log, f, n)]
           Rest(n) == LastOf(leaves, partials, size, end, n)
<1>1. m \in 1 .. (end + 1) /\ m \in Nat
  OBVIOUS
<1>2. Data!GetRawEntries(start, end, size, log) = Read[m]
  BY DEF Data!GetRawEntries, RangeStep
<1> HIDE DEF m, log
<1>3. Read = [n \in 0 .. m |-> RangeStep(end, size, log, Read, n)]
  <2>1. Causal("range", m, end, size, log)
    BY <1>1, RangeCausal
  <2>2. PICK f : f = [n \in 0 .. m |-> Body("range", m, end, size, log, f, n)]
    BY <1>1, <2>1, RecursionUpTo
  <2>3. \A n \in 0 .. m : Body("range", m, end, size, log, f, n)
                            = RangeStep(end, size, log, f, n)
    BY <1>1 DEF Body
  <2>4. f = [n \in 0 .. m |-> RangeStep(end, size, log, f, n)]
    BY <2>2, <2>3
  <2> QED
    BY <2>4
<1> HIDE DEF Read
<1> DEFINE R == {n \in Nat : n <= m => Read[n] = Rest(n)}
<1>4. ASSUME NEW n \in Nat, \A i \in 0 .. (n - 1) : i \in R
      PROVE  n \in R
  <2> SUFFICES ASSUME n <= m PROVE Read[n] = Rest(n)
    OBVIOUS
  <2>1. Read[n] = RangeStep(end, size, log, Read, n)
    BY <1>1, <1>3
  <2>2. CASE n = 0
    <3>1. end - 0 + 2 \in Int /\ end + 1 \in Int /\ end + 1 < end - 0 + 2 /\ ~(0 > 0)
      OBVIOUS
    <3>2. Rest(0) = <<>>
      BY <3>1, SubSeqEmpty DEF LastOf
    <3> QED
      BY <2>1, <2>2, <3>2 DEF RangeStep
  <2>3. CASE n # 0
    <3>1. n \in 1 .. (end + 1) /\ \A i \in 0 .. (n - 1) : Read[i] = Rest(i)
      BY <1>1, <1>4, <2>3
    <3>2. RangeStep(end, size, log, Read, n) = Rest(n)
      BY <3>1, RangeStepIs DEF log
    <3> QED
      BY <2>1, <3>2
  <2> QED
    BY <2>2, <2>3
<1>5. R \in SUBSET Nat
  OBVIOUS
<1>6. m \in R
  <2> HIDE DEF R
  <2> QED
    BY <1>1, <1>4, <1>5, LadderFromAllBelow
<1> QED
  BY <1>1, <1>2, <1>6 DEF log, m

\* For every log, every range of a checkpoint of it and every set of partial tiles that are
\* left: GetRawEntries (client.go) finds its way through the tile paths and reads the range,
\* or fails where the last tile is there neither in part nor in full.
THEOREM RangesReadThemselves == (question \in RangeQuestions) => RangeReadsItself
<1> SUFFICES ASSUME question \in RangeQuestions PROVE RangeReadsItself
  OBVIOUS
<1> DEFINE leaves == question.leaves
           partials == question.partials
           size == question.size
           start == question.from
           end == question.to
           T == end \div DataWidth
<1>1. /\ leaves \in Seq(Entries) /\ size \in 1 .. Len(leaves)
      /\ start \in 0 .. Len(leaves) /\ end \in 0 .. Len(leaves) /\ start <= end /\ end < size
  <2>1. PICK t \in Trees :
          question \in [kind : {"range"}, leaves : {t}, size : 1 .. Len(t), from : 0 .. Len(t),
                        to : 0 .. Len(t), partials : SUBSET (1 .. (DataWidth - 1))]
    BY DEF RangeQuestions
  <2>2. question.from <= question.to /\ question.to < question.size
    BY DEF RangeQuestions
  <2>3. /\ leaves = t /\ size \in 1 .. Len(t) /\ start \in 0 .. Len(t)
        /\ end \in 0 .. Len(t)
    BY <2>1
  <2> QED
    BY <2>2, <2>3, AlgorithmConstants
<1>2. Len(leaves) \in Nat
  BY <1>1, LenProperties
<1>3. /\ size \in Nat /\ size <= Len(leaves) /\ end \in Nat /\ start \in 0 .. end
  BY <1>1, <1>2
<1> HIDE DEF leaves, partials, size, start, end
<1>4. Data!GetRawEntries(start, end, size, [leaves |-> leaves, partials |-> partials])
        = LastOf(leaves, partials, size, end, end - start + 1)
  BY <1>1, <1>3, RangeIsRead
<1>5. end - start + 1 > 0 /\ end - (end - start + 1) + 2 = start + 1
  BY <1>3
<1>6. LastOf(leaves, partials, size, end, end - start + 1)
        = IF Gone(leaves, partials, size, T) THEN Data!Error
          ELSE SubSeq(leaves, start + 1, end + 1)
  BY <1>5 DEF LastOf
<1> QED
  BY <1>4, <1>6 DEF RangeReadsItself, Gone, leaves, partials, size, start, end

-----------------------------------------------------------------------------
(* The bytes of an entry.                                                  *)

\* The data goes on with these cells from p on, as far as it goes.
Begins(data, p, s) ==
    \A i \in 1 .. Len(s) : p - 1 + i <= Len(data) => data[p - 1 + i] = s[i]

LEMMA BeginsBoth ==
    ASSUME NEW data, NEW p \in Nat, NEW s \in Seq(Nat), NEW t \in Seq(Nat),
           Begins(data, p, s \o t)
    PROVE  Begins(data, p, s) /\ Begins(data, p + Len(s), t)
<1>1. /\ Len(s) \in Nat /\ Len(t) \in Nat /\ Len(s \o t) = Len(s) + Len(t)
      /\ \A i \in 1 .. (Len(s) + Len(t)) :
           (s \o t)[i] = IF i <= Len(s) THEN s[i] ELSE t[i - Len(s)]
  BY LenProperties, ConcatProperties
<1>2. \A i \in 1 .. (Len(s) + Len(t)) :
         p - 1 + i <= Len(data) => data[p - 1 + i] = (s \o t)[i]
  BY <1>1 DEF Begins
<1>3. ASSUME NEW i \in 1 .. Len(s), p - 1 + i <= Len(data)
      PROVE  data[p - 1 + i] = s[i]
  <2>1. i \in 1 .. (Len(s) + Len(t)) /\ i <= Len(s)
    BY <1>1
  <2> QED
    BY <1>1, <1>2, <1>3, <2>1
<1>4. ASSUME NEW i \in 1 .. Len(t), (p + Len(s)) - 1 + i <= Len(data)
      PROVE  data[(p + Len(s)) - 1 + i] = t[i]
  <2> DEFINE j == Len(s) + i
  <2>1. /\ j \in 1 .. (Len(s) + Len(t)) /\ ~(j <= Len(s)) /\ j - Len(s) = i
        /\ p - 1 + j = (p + Len(s)) - 1 + i
    BY <1>1
  <2> HIDE DEF j
  <2>2. data[p - 1 + j] = (s \o t)[j]
    BY <1>2, <1>4, <2>1
  <2> QED
    BY <1>1, <2>1, <2>2
<1> QED
  BY <1>3, <1>4 DEF Begins

LEMMA BeginsOne ==
    ASSUME NEW data, NEW p \in Nat, NEW x, Begins(data, p, <<x>>), p <= Len(data)
    PROVE  data[p] = x
<1>1. 1 \in 1 .. Len(<<x>>) /\ p - 1 + 1 = p /\ <<x>>[1] = x
  OBVIOUS
<1>2. data[p - 1 + 1] = <<x>>[1]
  BY <1>1 DEF Begins
<1> QED
  BY <1>1, <1>2

\* Data that is long enough contains them.
LEMMA CutIs ==
    ASSUME NEW data \in Seq(Nat), NEW p \in Nat \ {0}, NEW s \in Seq(Nat),
           Begins(data, p, s), p - 1 + Len(s) <= Len(data)
    PROVE  Codec!Cut(data, p, p + Len(s) - 1) = s
<1> DEFINE e == p + Len(s) - 1
<1>1. Len(data) \in Nat /\ Len(s) \in Nat /\ e \in Int /\ e <= Len(data)
  BY LenProperties
<1>2. /\ SubSeq(data, p, e) \in Seq(Nat)
      /\ Len(SubSeq(data, p, e)) = IF p <= e THEN e - p + 1 ELSE 0
      /\ \A i \in 1 .. (e - p + 1) : SubSeq(data, p, e)[i] = data[p + i - 1]
  <2>1. \A i \in p .. e : data[i] \in Nat
    BY <1>1, ElementOfSeq
  <2> HIDE DEF e
  <2> QED
    BY <1>1, <2>1, SubSeqProperties
<1>3. Len(SubSeq(data, p, e)) = Len(s) /\ e - p + 1 = Len(s)
  BY <1>1, <1>2
<1>4. \A i \in 1 .. Len(s) : SubSeq(data, p, e)[i] = s[i]
  <2> TAKE i \in 1 .. Len(s)
  <2>1. p - 1 + i <= Len(data) /\ p + i - 1 = p - 1 + i
    BY <1>1
  <2>2. data[p - 1 + i] = s[i]
    BY <2>1 DEF Begins
  <2> QED
    BY <1>2, <1>3, <2>1, <2>2
<1> HIDE DEF e
<1>5. SubSeq(data, p, e) = s
  BY <1>2, <1>3, <1>4, SeqEqual
<1> QED
  BY <1>5 DEF e, Codec!Cut

LEMMA BeginsFrom ==
    ASSUME NEW data \in Seq(Nat), NEW p \in Nat \ {0}, NEW k \in Nat, NEW s,
           Begins(data, p + k, s), Len(s) \in Nat, p <= Len(data)
    PROVE  /\ Codec!From(data, p) \in Seq(Nat) /\ Begins(Codec!From(data, p), 1 + k, s)
           /\ Len(Codec!From(data, p)) = Len(data) - p + 1
<1> DEFINE d == SubSeq(data, p, Len(data))
<1>1. Len(data) \in Nat
  BY LenProperties
<1>2. d \in Seq(Nat) /\ Len(d) = Len(data) - p + 1
      /\ \A i \in 1 .. (Len(data) - p + 1) : d[i] = data[p + i - 1]
  <2>1. \A i \in p .. Len(data) : data[i] \in Nat
    BY <1>1, ElementOfSeq
  <2> QED
    BY <1>1, <2>1, SubSeqProperties
<1>3. ASSUME NEW i \in 1 .. Len(s), (1 + k) - 1 + i <= Len(d)
      PROVE  d[(1 + k) - 1 + i] = s[i]
  <2> DEFINE j == k + i
  <2>1. /\ (1 + k) - 1 + i = j /\ j \in 1 .. (Len(data) - p + 1)
        /\ (p + k) - 1 + i = p + j - 1 /\ (p + k) - 1 + i <= Len(data)
    BY <1>1, <1>2, <1>3
  <2> HIDE DEF d, j
  <2>2. data[(p + k) - 1 + i] = s[i]
    BY <2>1 DEF Begins
  <2> QED
    BY <1>2, <2>1, <2>2
<1> HIDE DEF d
<1> QED
  BY <1>2, <1>3 DEF d, Codec!From, Begins

LEMMA OpaqueType ==
    ASSUME NEW s \in Seq(Nat)
    PROVE  Codec!Opaque(s) \in Seq(Nat) /\ Len(Codec!Opaque(s)) = Len(s) + 1
           /\ Codec!Opaque(s) = <<Len(s)>> \o s /\ <<Len(s)>> \in Seq(Nat)
           /\ Len(<<Len(s)>>) = 1 /\ Len(s) \in Nat
<1>1. Len(s) \in Nat
  BY LenProperties
<1>2. <<Len(s)>> \in Seq(Nat) /\ Len(<<Len(s)>>) = 1
  BY <1>1
<1> QED
  BY <1>1, <1>2, ConcatProperties DEF Codec!Opaque

\* Where a field starts that is reached, and 0 for one that is not.
Reached(data, b) == IF b <= Len(data) + 1 THEN b ELSE 0

\* readOpaque: a variable field that is there is read, any other is not.
LEMMA ReadOpaqueIs ==
    ASSUME NEW data \in Seq(Nat), NEW b \in Nat \ {0}, NEW pos \in {b, Reached(data, b)},
           NEW s \in Seq(Nat), Begins(data, b, Codec!Opaque(s)),
           NEW least \in Nat, least <= Len(s)
    PROVE  Codec!ReadOpaque(data, pos, least)
             = IF b + Len(s) <= Len(data) THEN [value |-> s, next |-> b + Len(s) + 1]
               ELSE Codec!Unread
<1>1. Len(data) \in Nat /\ Len(s) \in Nat
  BY LenProperties
<1>2. CASE b > Len(data)
  <2>1. pos = 0 \/ pos > Len(data)
    BY <1>1, <1>2 DEF Reached
  <2>2. ~(b + Len(s) <= Len(data))
    BY <1>1, <1>2
  <2> QED
    BY <2>1, <2>2 DEF Codec!ReadOpaque
<1>3. CASE b <= Len(data)
  <2>1. pos = b /\ pos # 0 /\ ~(pos > Len(data))
    BY <1>1, <1>3 DEF Reached
  <2>2. Begins(data, b, <<Len(s)>>) /\ Begins(data, b + 1, s)
    <3> DEFINE l == <<Len(s)>>
    <3>1. b \in Nat /\ l \in Seq(Nat) /\ Len(l) = 1 /\ Begins(data, b, l \o s)
      BY OpaqueType
    <3> HIDE DEF l
    <3>2. Begins(data, b, l) /\ Begins(data, b + Len(l), s)
      BY <3>1, BeginsBoth
    <3> QED
      BY <3>1, <3>2 DEF l
  <2>3. data[b] = Len(s)
    BY <1>3, <2>2, BeginsOne
  <2>4. CASE b + Len(s) <= Len(data)
    <3> DEFINE p == b + 1
    <3>1. p \in Nat \ {0} /\ p - 1 + Len(s) <= Len(data) /\ p + Len(s) - 1 = b + Len(s)
      BY <1>1, <2>4
    <3> HIDE DEF p
    <3>2. Codec!Cut(data, p, p + Len(s) - 1) = s
      BY <2>2, <3>1, CutIs DEF p
    <3>3. Codec!Cut(data, b + 1, b + data[b]) = s
      BY <2>3, <3>1, <3>2 DEF p
    <3>4. ~(data[pos] < least) /\ ~(pos + data[pos] > Len(data))
      BY <1>1, <2>1, <2>3, <2>4
    <3> QED
      BY <2>1, <2>3, <2>4, <3>3, <3>4 DEF Codec!ReadOpaque
  <2>5. CASE ~(b + Len(s) <= Len(data))
    <3>1. pos + data[pos] > Len(data)
      BY <1>1, <2>1, <2>3, <2>5
    <3> QED
      BY <2>5, <3>1 DEF Codec!ReadOpaque
  <2> QED
    BY <2>4, <2>5
<1> QED
  BY <1>1, <1>2, <1>3

\* So the next field is reached if this one is there.
LEMMA ReadOpaqueNext ==
    ASSUME NEW data \in Seq(Nat), NEW b \in Nat \ {0}, NEW pos, NEW s \in Seq(Nat),
           NEW least \in Nat, NEW c, pos = b \/ pos = Reached(data, b),
           Begins(data, b, Codec!Opaque(s)), least <= Len(s), c = b + Len(s) + 1
    PROVE  /\ Codec!ReadOpaque(data, pos, least).next = Reached(data, c)
           /\ c <= Len(data) + 1 => Codec!ReadOpaque(data, pos, least).value = s
<1>1. Len(data) \in Nat /\ Len(s) \in Nat /\ pos \in {b, Reached(data, b)}
  BY LenProperties
<1>2. Codec!ReadOpaque(data, pos, least)
        = IF b + Len(s) <= Len(data) THEN [value |-> s, next |-> b + Len(s) + 1]
          ELSE Codec!Unread
  BY <1>1, ReadOpaqueIs
<1>3. b + Len(s) <= Len(data) <=> c <= Len(data) + 1
  BY <1>1
<1>4. Codec!Unread.next = 0
  BY DEF Codec!Unread
<1> QED
  BY <1>1, <1>2, <1>3, <1>4 DEF Reached

\* Whatever is read, the reader moves on.
LEMMA ReadOpaqueMoves ==
    ASSUME NEW data \in Seq(Nat), NEW pos \in 0 .. (Len(data) + 2), NEW least
    PROVE  LET next == Codec!ReadOpaque(data, pos, least).next
           IN  next = 0 \/ (pos # 0 /\ next \in (pos + 1) .. (Len(data) + 1))
<1>1. Len(data) \in Nat /\ Codec!Unread.next = 0
  BY LenProperties DEF Codec!Unread
<1>2. CASE pos = 0 \/ pos > Len(data) \/ data[pos] < least \/ pos + data[pos] > Len(data)
  BY <1>1, <1>2 DEF Codec!ReadOpaque
<1>3. CASE ~(pos = 0 \/ pos > Len(data) \/ data[pos] < least \/ pos + data[pos] > Len(data))
  <2>1. pos \in 1 .. Len(data)
    BY <1>1, <1>3
  <2>2. data[pos] \in Nat
    BY <2>1, ElementOfSeq
  <2>3. Codec!ReadOpaque(data, pos, least).next = pos + data[pos] + 1
    BY <1>3 DEF Codec!ReadOpaque
  <2> QED
    BY <1>1, <1>3, <2>1, <2>2, <2>3
<1> QED
  BY <1>2, <1>3

LEMMA ReadEntryMoves ==
    ASSUME NEW data \in Seq(Nat), NEW pos \in 1 .. Len(data)
    PROVE  LET next == Codec!ReadEntry(data, pos).next
           IN  next = 0 \/ next \in (pos + 1) .. (Len(data) + 1)
<1>1. Len(data) \in Nat /\ Codec!Unread.next = 0
  BY LenProperties DEF Codec!Unread
<1>2. CASE ~Codec!HasType(data, pos + 1)
  BY <1>1, <1>2 DEF Codec!ReadEntry
<1>3. CASE Codec!HasType(data, pos + 1)
  <2> DEFINE precert == data[pos + 1] = Codec!Precert
             start == IF precert THEN pos + 3 ELSE pos + 2
             signed == Codec!ReadOpaque(data, start, 1)
             extensions == Codec!ReadOpaque(data, signed.next, 0)
             cert == IF precert THEN Codec!ReadOpaque(data, extensions.next, 1)
                     ELSE extensions
             chain == Codec!ReadOpaque(data, cert.next, 0)
             Moved(n) == n = 0 \/ n \in (pos + 1) .. (Len(data) + 1)
  <2>1. pos + 1 <= Len(data)
    BY <1>3 DEF Codec!HasType
  <2>2. start \in 0 .. (Len(data) + 2) /\ start > pos
    BY <1>1, <2>1
  <2>3. Codec!ReadEntry(data, pos).next = chain.next
    BY <1>3 DEF Codec!ReadEntry
  <2> HIDE DEF start, signed
  <2>4. Moved(signed.next)
    BY <1>1, <2>2, ReadOpaqueMoves DEF signed
  <2>5. \A n : \A least : Moved(n) => Moved(Codec!ReadOpaque(data, n, least).next)
    <3> SUFFICES ASSUME NEW n, NEW least, Moved(n)
                 PROVE  Moved(Codec!ReadOpaque(data, n, least).next)
      OBVIOUS
    <3>1. n \in 0 .. (Len(data) + 2)
      BY <1>1
    <3>2. LET next == Codec!ReadOpaque(data, n, least).next
          IN  next = 0 \/ (n # 0 /\ next \in (n + 1) .. (Len(data) + 1))
      BY <3>1, ReadOpaqueMoves
    <3> QED
      BY <1>1, <3>2
  <2> HIDE DEF Moved, precert
  <2>6. Moved(extensions.next)
    BY <2>4, <2>5
  <2> HIDE DEF extensions
  <2>7. Moved(cert.next)
    BY <2>5, <2>6
  <2> HIDE DEF cert
  <2>8. Moved(chain.next)
    BY <2>5, <2>7
  <2> QED
    BY <2>3, <2>8 DEF Moved
<1> QED
  BY <1>2, <1>3

\* The parts of an entry: the fields of fixed width, what the log has signed, and the
\* pre-certificate.
Fixed(e) == IF e.type = Codec!X509 THEN <<e.timestamp, e.type>>
            ELSE <<e.timestamp, e.type, e.hash>>
Signed(e) == IF e.type = Codec!X509 THEN e.cert ELSE e.tbs
Behind(e) == IF e.type = Codec!Precert THEN Codec!Opaque(e.cert) ELSE <<>>

LEMMA EntryType ==
    ASSUME NEW e \in Codec!LogEntry
    PROVE  /\ e.type \in {Codec!X509, Codec!Precert} /\ Codec!X509 # Codec!Precert
           /\ e.type \in Nat /\ e.timestamp \in Nat
           /\ e.cert \in Seq(Nat) /\ 1 <= Len(e.cert) /\ Signed(e) \in Seq(Nat)
           /\ 1 <= Len(Signed(e)) /\ e.extensions \in Seq(Nat) /\ e.chain \in Seq(Nat)
           /\ e.type = Codec!Precert => e.hash \in Nat
<1>1. \A s \in Seq(Nat) \ {<<>>} : 1 <= Len(s)
  BY EmptySeq
<1>2. CASE e \in [type : {Codec!X509}, timestamp : Nat, cert : Seq(Nat) \ {<<>>},
                  extensions : Seq(Nat), chain : Seq(Nat)]
  <2>1. /\ e.type = Codec!X509 /\ e.timestamp \in Nat /\ e.cert \in Seq(Nat) \ {<<>>}
        /\ e.extensions \in Seq(Nat) /\ e.chain \in Seq(Nat)
    BY <1>2
  <2> QED
    BY <1>1, <2>1 DEF Signed, Codec!X509, Codec!Precert
<1>3. CASE e \in [type : {Codec!Precert}, timestamp : Nat, hash : Nat,
                  tbs : Seq(Nat) \ {<<>>}, cert : Seq(Nat) \ {<<>>},
                  extensions : Seq(Nat), chain : Seq(Nat)]
  <2>1. /\ e.type = Codec!Precert /\ e.timestamp \in Nat /\ e.cert \in Seq(Nat) \ {<<>>}
        /\ e.extensions \in Seq(Nat) /\ e.chain \in Seq(Nat)
        /\ e.hash \in Nat /\ e.tbs \in Seq(Nat) \ {<<>>}
    BY <1>3
  <2> QED
    BY <1>1, <2>1 DEF Signed, Codec!X509, Codec!Precert
<1> QED
  BY <1>2, <1>3 DEF Codec!LogEntry

LEMMA FixedType ==
    ASSUME NEW e \in Codec!LogEntry
    PROVE  /\ Fixed(e) \in Seq(Nat) /\ Len(Fixed(e)) = IF e.type = Codec!X509 THEN 2 ELSE 3
           /\ Fixed(e)[1] = e.timestamp /\ Fixed(e)[2] = e.type
BY EntryType DEF Fixed

LEMMA BehindType ==
    ASSUME NEW e \in Codec!LogEntry
    PROVE  /\ Behind(e) \in Seq(Nat)
           /\ Len(Behind(e)) = IF e.type = Codec!Precert THEN Len(e.cert) + 1 ELSE 0
<1>1. <<>> \in Seq(Nat) /\ Len(<<>>) = 0
  BY EmptySeq
<1>2. Codec!Opaque(e.cert) \in Seq(Nat) /\ Len(Codec!Opaque(e.cert)) = Len(e.cert) + 1
  BY EntryType, OpaqueType
<1> QED
  BY <1>1, <1>2 DEF Behind

LEMMA Joined ==
    ASSUME NEW s \in Seq(Nat), NEW t \in Seq(Nat)
    PROVE  /\ s \o t \in Seq(Nat) /\ Len(s \o t) = Len(s) + Len(t)
           /\ Len(s) \in Nat /\ Len(t) \in Nat
BY ConcatProperties, LenProperties

LEMMA JoinedAnyway ==
    ASSUME NEW s \in Seq(Nat), NEW t \in Seq(Nat), NEW u \in Seq(Nat)
    PROVE  (s \o t) \o u = s \o (t \o u)
BY ConcatAssociative

LEMMA TwoAndOne ==
    ASSUME NEW a \in Nat, NEW b \in Nat, NEW c \in Nat
    PROVE  /\ <<a, b>> \in Seq(Nat) /\ <<c>> \in Seq(Nat)
           /\ <<a, b>> \o <<c>> = <<a, b, c>>
<1>1. <<a, b>> \in Seq(Nat) /\ <<c>> \in Seq(Nat) /\ <<a, b, c>> \in Seq(Nat)
  OBVIOUS
<1>2. Len(<<a, b>>) = 2 /\ Len(<<c>>) = 1 /\ Len(<<a, b, c>>) = 3
  OBVIOUS
<1> DEFINE s == <<a, b>> \o <<c>>
<1>3. /\ s \in Seq(Nat) /\ Len(s) = 3
      /\ \A i \in 1 .. 3 : s[i] = IF i <= 2 THEN <<a, b>>[i] ELSE <<c>>[i - 2]
  BY <1>1, <1>2, ConcatProperties
<1>4. s[1] = a /\ s[2] = b /\ s[3] = c
  BY <1>3
<1> HIDE DEF s
<1>5. \A i \in 1 .. 3 : s[i] = <<a, b, c>>[i]
  BY <1>4
<1>6. s = <<a, b, c>>
  BY <1>1, <1>2, <1>3, <1>5, SeqEqual
<1> QED
  BY <1>1, <1>6 DEF s

\* An entry is its parts.
LEMMA EntryParts ==
    ASSUME NEW e \in Codec!LogEntry
    PROVE  /\ Codec!Timestamped(e)
                = (Fixed(e) \o Codec!Opaque(Signed(e))) \o Codec!Opaque(e.extensions)
           /\ Codec!TileLeaf(e)
                = (Codec!Timestamped(e) \o Behind(e)) \o Codec!Opaque(e.chain)
           /\ Codec!Timestamped(e) \in Seq(Nat) /\ Codec!TileLeaf(e) \in Seq(Nat)
           /\ Len(Codec!Timestamped(e))
                = Len(Fixed(e)) + (Len(Signed(e)) + 1) + (Len(e.extensions) + 1)
           /\ Len(Codec!TileLeaf(e))
                = Len(Codec!Timestamped(e)) + Len(Behind(e)) + (Len(e.chain) + 1)
<1> DEFINE o == Codec!Opaque(Signed(e))
           x == Codec!Opaque(e.extensions)
           c == Codec!Opaque(e.chain)
<1>1. /\ o \in Seq(Nat) /\ Len(o) = Len(Signed(e)) + 1
      /\ x \in Seq(Nat) /\ Len(x) = Len(e.extensions) + 1
      /\ c \in Seq(Nat) /\ Len(c) = Len(e.chain) + 1
  BY EntryType, OpaqueType
<1>2. Fixed(e) \in Seq(Nat) /\ Behind(e) \in Seq(Nat)
  BY FixedType, BehindType
<1> HIDE DEF o, x, c
<1>3. Codec!Timestamped(e) = (Fixed(e) \o o) \o x
  <2>1. CASE e.type = Codec!X509
    BY <2>1 DEF Codec!Timestamped, Fixed, Signed, o, x
  <2>2. CASE e.type = Codec!Precert
    <3> DEFINE a == <<e.timestamp, e.type>>
               b == <<e.hash>>
    <3>1. a \in Seq(Nat) /\ b \in Seq(Nat) /\ a \o b = <<e.timestamp, e.type, e.hash>>
      <4>1. e.timestamp \in Nat /\ e.type \in Nat /\ e.hash \in Nat
        BY <2>2, EntryType
      <4> QED
        BY <4>1, TwoAndOne
    <3>2. Fixed(e) = a \o b /\ Signed(e) = e.tbs /\ e.type # Codec!X509
      BY <2>2, <3>1, EntryType DEF Fixed, Signed
    <3>3. Codec!Timestamped(e) = (a \o (b \o o)) \o x
      BY <3>2 DEF Codec!Timestamped, o, x
    <3>4. a \in Seq(Nat) /\ b \in Seq(Nat)
      BY <3>1
    <3> HIDE DEF a, b
    <3>5. o \in Seq(Nat)
      BY <1>1
    <3>6. (a \o b) \o o = a \o (b \o o)
      BY ONLY <3>4, <3>5, JoinedAnyway
    <3> QED
      BY <3>2, <3>3, <3>6
  <2> QED
    BY <2>1, <2>2, EntryType
<1>4. Codec!TileLeaf(e) = (Codec!Timestamped(e) \o Behind(e)) \o c
  BY DEF Codec!TileLeaf, Behind, c
<1> DEFINE y == Fixed(e) \o o
           t == Codec!Timestamped(e)
           u == t \o Behind(e)
<1>5. y \in Seq(Nat) /\ Len(y) = Len(Fixed(e)) + Len(o)
  BY <1>1, <1>2, Joined
<1>6. t = y \o x
  BY <1>3
<1>7. Codec!TileLeaf(e) = u \o c
  BY <1>4
<1> HIDE DEF y, t
<1>8. t \in Seq(Nat) /\ Len(t) = Len(y) + Len(x)
  BY <1>1, <1>5, <1>6, Joined
<1>9. u \in Seq(Nat) /\ Len(u) = Len(t) + Len(Behind(e))
  BY <1>2, <1>8, Joined
<1> HIDE DEF u
<1>10. Codec!TileLeaf(e) \in Seq(Nat) /\ Len(Codec!TileLeaf(e)) = Len(u) + Len(c)
  BY <1>1, <1>7, <1>9, Joined
<1>11. /\ Len(t) = Len(Fixed(e)) + (Len(Signed(e)) + 1) + (Len(e.extensions) + 1)
       /\ Len(Codec!TileLeaf(e)) = Len(t) + Len(Behind(e)) + (Len(e.chain) + 1)
  BY <1>1, <1>5, <1>8, <1>9, <1>10
<1> QED
  BY <1>3, <1>4, <1>8, <1>10, <1>11 DEF o, x, c, t

\* Where the parts of an entry are that starts at p.
LEMMA Layout ==
    ASSUME NEW data, NEW p \in Nat, NEW e \in Codec!LogEntry,
           Begins(data, p, Codec!TileLeaf(e))
    PROVE  LET b1 == p + Len(Fixed(e))
               b2 == b1 + Len(Signed(e)) + 1
               b3 == b2 + Len(e.extensions) + 1
               b4 == b3 + Len(Behind(e))
               b5 == b4 + Len(e.chain) + 1
           IN  /\ Begins(data, p, Fixed(e)) /\ Begins(data, b1, Codec!Opaque(Signed(e)))
               /\ Begins(data, b2, Codec!Opaque(e.extensions)) /\ Begins(data, b3, Behind(e))
               /\ Begins(data, b4, Codec!Opaque(e.chain))
               /\ Begins(data, p, Codec!Timestamped(e))
               /\ b3 = p + Len(Codec!Timestamped(e)) /\ b5 = p + Len(Codec!TileLeaf(e))
<1> DEFINE f == Fixed(e)
           o == Codec!Opaque(Signed(e))
           x == Codec!Opaque(e.extensions)
           c == Codec!Opaque(e.chain)
           t == Codec!Timestamped(e)
           g == Behind(e)
           s == Codec!TileLeaf(e)
           b1 == p + Len(f)
           b2 == b1 + Len(Signed(e)) + 1
           b3 == b2 + Len(e.extensions) + 1
           b4 == b3 + Len(g)
<1>1. /\ o \in Seq(Nat) /\ Len(o) = Len(Signed(e)) + 1 /\ Len(Signed(e)) \in Nat
      /\ x \in Seq(Nat) /\ Len(x) = Len(e.extensions) + 1 /\ Len(e.extensions) \in Nat
      /\ c \in Seq(Nat) /\ Len(c) = Len(e.chain) + 1 /\ Len(e.chain) \in Nat
  BY EntryType, OpaqueType
<1>2. f \in Seq(Nat) /\ g \in Seq(Nat) /\ Len(f) \in Nat /\ Len(g) \in Nat
  BY FixedType, BehindType, LenProperties
<1>3. /\ t = (f \o o) \o x /\ s = (t \o g) \o c /\ t \in Seq(Nat)
      /\ Len(t) = Len(f) + (Len(Signed(e)) + 1) + (Len(e.extensions) + 1)
      /\ Len(s) = Len(t) + Len(g) + (Len(e.chain) + 1)
      /\ Begins(data, p, s)
  BY EntryParts
<1> HIDE DEF f, o, x, c, t, g, s
<1>4. b1 \in Nat /\ b2 \in Nat /\ b3 \in Nat /\ b4 \in Nat /\ Len(t) \in Nat
      /\ b1 = p + Len(f) /\ b2 = p + (Len(f) + Len(o))
      /\ b3 = p + Len(t) /\ b4 = p + (Len(t) + Len(g))
  <2> DEFINE lf == Len(f)
             lo == Len(Signed(e))
             lx == Len(e.extensions)
             lg == Len(g)
  <2>1. /\ lf \in Nat /\ lo \in Nat /\ lx \in Nat /\ lg \in Nat /\ Len(o) = lo + 1
        /\ Len(t) = lf + (lo + 1) + (lx + 1)
    BY <1>1, <1>2, <1>3 DEF f, o, x, g, t
  <2> HIDE DEF lf, lo, lx, lg
  <2>2. b1 = p + lf /\ b2 = (p + lf) + lo + 1 /\ b3 = ((p + lf) + lo + 1) + lx + 1
        /\ b4 = (((p + lf) + lo + 1) + lx + 1) + lg
    BY DEF lf, lo, lx, lg
  <2> HIDE DEF b1, b2, b3, b4
  <2> QED
    BY <2>1, <2>2 DEF lf, lg
<1>5. b4 + Len(e.chain) + 1 = p + Len(s)
  <2> DEFINE l == Len(e.chain)
             lt == Len(t)
             lg == Len(g)
  <2>1. l \in Nat /\ lg \in Nat /\ lt \in Nat /\ Len(s) = lt + lg + (l + 1)
        /\ b4 = p + (lt + lg)
    BY <1>1, <1>2, <1>3, <1>4
  <2> HIDE DEF b4, l, lt, lg
  <2>2. b4 + l + 1 = p + Len(s)
    BY <2>1
  <2> QED
    BY <2>2 DEF l
<1> HIDE DEF b1, b2, b3, b4
<1>6. /\ t \o g \in Seq(Nat) /\ Len(t \o g) = Len(t) + Len(g)
      /\ f \o o \in Seq(Nat) /\ Len(f \o o) = Len(f) + Len(o)
  BY <1>1, <1>2, <1>3, Joined
<1>7. Begins(data, p, t \o g) /\ Begins(data, b4, c)
  BY <1>1, <1>3, <1>4, <1>6, BeginsBoth
<1>8. Begins(data, p, t) /\ Begins(data, b3, g)
  BY <1>2, <1>3, <1>4, <1>7, BeginsBoth
<1>9. Begins(data, p, f \o o) /\ Begins(data, b2, x)
  BY <1>1, <1>3, <1>4, <1>6, <1>8, BeginsBoth
<1>10. Begins(data, p, f) /\ Begins(data, b1, o)
  BY <1>1, <1>2, <1>4, <1>9, BeginsBoth
<1> QED
  BY <1>4, <1>5, <1>7, <1>8, <1>9, <1>10 DEF b1, b2, b3, b4, f, o, x, c, t, g, s

\* The same of the field that a previous one leads to.
LEMMA ReachedNext ==
    ASSUME NEW data \in Seq(Nat), NEW b \in Nat \ {0}, NEW s \in Seq(Nat),
           NEW least \in Nat, Begins(data, b, Codec!Opaque(s)), least <= Len(s)
    PROVE  LET read == Codec!ReadOpaque(data, Reached(data, b), least)
               c == b + Len(s) + 1
           IN  read.next = Reached(data, c) /\ (c <= Len(data) + 1 => read.value = s)
<1> DEFINE c == b + Len(s) + 1
           pos == Reached(data, b)
<1>1. c = b + Len(s) + 1 /\ (pos = b \/ pos = Reached(data, b))
  OBVIOUS
<1> HIDE DEF c, pos
<1>2. /\ Codec!ReadOpaque(data, pos, least).next = Reached(data, c)
      /\ c <= Len(data) + 1 => Codec!ReadOpaque(data, pos, least).value = s
  BY <1>1, ReadOpaqueNext
<1> QED
  BY <1>2 DEF c, pos

\* What the client makes of an entry.
Written(e) == [leaf |-> Codec!MerkleTreeLeaf(e), extra |-> Append(Behind(e), 0),
               fingerprints |-> e.chain]

\* An entry that is there is read, and one that is cut off is not.
LEMMA ReadEntryIs ==
    ASSUME NEW data \in Seq(Nat), NEW p \in 1 .. Len(data), NEW e \in Codec!LogEntry,
           Begins(data, p, Codec!TileLeaf(e))
    PROVE  LET end == p + Len(Codec!TileLeaf(e))
           IN  /\ Codec!ReadEntry(data, p).next = Reached(data, end)
               /\ end <= Len(data) + 1 => Codec!ReadEntry(data, p).value = Written(e)
<1> DEFINE b1 == p + Len(Fixed(e))
           b2 == b1 + Len(Signed(e)) + 1
           b3 == b2 + Len(e.extensions) + 1
           b4 == b3 + Len(Behind(e))
           b5 == b4 + Len(e.chain) + 1
<1>1. /\ Begins(data, p, Fixed(e)) /\ Begins(data, b1, Codec!Opaque(Signed(e)))
      /\ Begins(data, b2, Codec!Opaque(e.extensions)) /\ Begins(data, b3, Behind(e))
      /\ Begins(data, b4, Codec!Opaque(e.chain))
      /\ Begins(data, p, Codec!Timestamped(e))
      /\ b3 = p + Len(Codec!Timestamped(e)) /\ b5 = p + Len(Codec!TileLeaf(e))
  <2>1. p \in Nat
    BY LenProperties
  <2> QED
    BY <2>1, Layout
<1>2. /\ Len(data) \in Nat /\ p \in Nat \ {0} /\ Len(Signed(e)) \in Nat
      /\ Len(e.extensions) \in Nat /\ Len(e.chain) \in Nat /\ Len(Behind(e)) \in Nat
      /\ Len(Fixed(e)) \in {2, 3}
  BY EntryType, FixedType, BehindType, LenProperties
<1>3. /\ b1 \in Nat \ {0} /\ b2 \in Nat \ {0} /\ b3 \in Nat \ {0} /\ b4 \in Nat \ {0}
      /\ b5 \in Nat /\ p + 2 <= b1 /\ b1 < b2 /\ b2 < b3 /\ b3 <= b4 /\ b4 < b5
  <2> DEFINE l1 == Len(Fixed(e))
             l2 == Len(Signed(e))
             l3 == Len(e.extensions)
             l4 == Len(Behind(e))
             l5 == Len(e.chain)
  <2>1. l1 \in {2, 3} /\ l2 \in Nat /\ l3 \in Nat /\ l4 \in Nat /\ l5 \in Nat
    BY <1>2
  <2> HIDE DEF l1, l2, l3, l4, l5
  <2>2. /\ b1 = p + l1 /\ b2 = (p + l1) + l2 + 1 /\ b3 = ((p + l1) + l2 + 1) + l3 + 1
        /\ b4 = (((p + l1) + l2 + 1) + l3 + 1) + l4
        /\ b5 = ((((p + l1) + l2 + 1) + l3 + 1) + l4) + l5 + 1
    BY DEF l1, l2, l3, l4, l5
  <2> HIDE DEF b1, b2, b3, b4, b5
  <2> QED
    BY <1>2, <2>1, <2>2
<1>4. p + 1 <= Len(data) => data[p + 1] = e.type
  <2>1. 2 \in 1 .. Len(Fixed(e)) /\ p - 1 + 2 = p + 1 /\ Fixed(e)[2] = e.type
    BY <1>2, FixedType
  <2> QED
    BY <1>1, <2>1 DEF Begins
<1>5. b4 = IF e.type = Codec!Precert THEN b3 + Len(e.cert) + 1 ELSE b3
  <2> DEFINE l == Len(e.cert)
  <2>1. Len(Behind(e)) = (IF e.type = Codec!Precert THEN l + 1 ELSE 0) /\ l \in Nat
    BY BehindType, EntryType, LenProperties
  <2> HIDE DEF b3, l
  <2> QED
    BY <1>3, <2>1 DEF l
<1>6. b1 = IF e.type = Codec!Precert THEN p + 3 ELSE p + 2
  BY FixedType, EntryType
<1>7. /\ Signed(e) \in Seq(Nat) /\ 1 <= Len(Signed(e)) /\ e.extensions \in Seq(Nat)
      /\ e.chain \in Seq(Nat) /\ e.cert \in Seq(Nat) /\ 1 <= Len(e.cert)
      /\ 0 <= Len(e.extensions) /\ 0 <= Len(e.chain) /\ 0 \in Nat /\ 1 \in Nat
      /\ e.type \in {Codec!X509, Codec!Precert}
  BY <1>2, EntryType
<1>8. b2 = b1 + Len(Signed(e)) + 1 /\ b3 = b2 + Len(e.extensions) + 1
      /\ b5 = b4 + Len(e.chain) + 1
  OBVIOUS
<1> HIDE DEF b1, b2, b3, b4, b5
<1>9. CASE ~Codec!HasType(data, p + 1)
  <2>1. ~(p + 1 <= Len(data))
    BY <1>4, <1>7, <1>9 DEF Codec!HasType
  <2>2. Codec!ReadEntry(data, p).next = 0
    BY <1>9 DEF Codec!ReadEntry, Codec!Unread
  <2>3. ~(b5 <= Len(data) + 1)
    BY <1>2, <1>3, <2>1
  <2> QED
    BY <1>1, <2>2, <2>3 DEF Reached
<1>10. CASE Codec!HasType(data, p + 1)
  <2> DEFINE precert == data[p + 1] = Codec!Precert
             start == IF precert THEN p + 3 ELSE p + 2
             signed == Codec!ReadOpaque(data, start, 1)
             extensions == Codec!ReadOpaque(data, signed.next, 0)
             cert == IF precert THEN Codec!ReadOpaque(data, extensions.next, 1)
                     ELSE extensions
             chain == Codec!ReadOpaque(data, cert.next, 0)
  <2>1. precert <=> e.type = Codec!Precert
    BY <1>4, <1>10 DEF Codec!HasType
  <2>2. /\ Codec!ReadEntry(data, p).next = chain.next
        /\ Codec!ReadEntry(data, p).value
             = [leaf |-> Codec!Leaf(data, p, signed, extensions),
                extra |-> Append(Codec!Cut(data, extensions.next, cert.next - 1), 0),
                fingerprints |-> chain.value]
    BY <1>10 DEF Codec!ReadEntry
  <2>3. start = b1
    BY <1>6, <2>1
  <2> HIDE DEF precert, start
  <2>4. signed.next = Reached(data, b2)
    <3>1. /\ b1 \in Nat \ {0} /\ Signed(e) \in Seq(Nat) /\ 1 \in Nat
          /\ Begins(data, b1, Codec!Opaque(Signed(e))) /\ 1 <= Len(Signed(e))
          /\ b2 = b1 + Len(Signed(e)) + 1
      BY <1>1, <1>3, <1>7, <1>8
    <3> QED
      BY <2>3, <3>1, ReadOpaqueNext
  <2> HIDE DEF signed
  <2>5. extensions.next = Reached(data, b3)
    <3>1. /\ b2 \in Nat \ {0} /\ e.extensions \in Seq(Nat) /\ 0 \in Nat
          /\ Begins(data, b2, Codec!Opaque(e.extensions)) /\ 0 <= Len(e.extensions)
          /\ b3 = b2 + Len(e.extensions) + 1
      BY <1>1, <1>3, <1>7, <1>8
    <3> DEFINE q == signed.next
    <3>2. q = Reached(data, b2)
      BY <2>4
    <3> HIDE DEF q
    <3>3. LET read == Codec!ReadOpaque(data, Reached(data, b2), 0)
              c == b2 + Len(e.extensions) + 1
          IN  /\ read.next = Reached(data, c)
              /\ c <= Len(data) + 1 => read.value = e.extensions
      BY <3>1, ReachedNext
    <3> QED
      BY <3>1, <3>2, <3>3 DEF q
  <2> HIDE DEF extensions
  <2>6. cert.next = Reached(data, b4)
    <3>1. CASE e.type = Codec!Precert
      <4>1. Begins(data, b3, Codec!Opaque(e.cert))
        BY <1>1, <3>1 DEF Behind
      <4>2. /\ b3 \in Nat \ {0} /\ e.cert \in Seq(Nat) /\ 1 \in Nat /\ 1 <= Len(e.cert)
            /\ b4 = b3 + Len(e.cert) + 1
        BY <1>3, <1>5, <1>7, <3>1
      <4> DEFINE q == extensions.next
      <4>3. q = Reached(data, b3)
        BY <2>5
      <4> HIDE DEF q
      <4>4. LET read == Codec!ReadOpaque(data, Reached(data, b3), 1)
                c == b3 + Len(e.cert) + 1
            IN  /\ read.next = Reached(data, c)
                /\ c <= Len(data) + 1 => read.value = e.cert
        BY <4>1, <4>2, ReachedNext
      <4> QED
        BY <2>1, <3>1, <4>2, <4>3, <4>4 DEF q
    <3>2. CASE e.type # Codec!Precert
      BY <1>5, <2>1, <2>5, <3>2
    <3> QED
      BY <3>1, <3>2
  <2> HIDE DEF cert
  <2>7. chain.next = Reached(data, b5) /\ (b5 <= Len(data) + 1 => chain.value = e.chain)
    <3>1. /\ b4 \in Nat \ {0} /\ e.chain \in Seq(Nat) /\ 0 \in Nat
          /\ Begins(data, b4, Codec!Opaque(e.chain)) /\ 0 <= Len(e.chain)
          /\ b5 = b4 + Len(e.chain) + 1
      BY <1>1, <1>3, <1>7, <1>8
    <3> DEFINE q == cert.next
    <3>2. q = Reached(data, b4)
      BY <2>6
    <3> HIDE DEF q
    <3>3. LET read == Codec!ReadOpaque(data, Reached(data, b4), 0)
              c == b4 + Len(e.chain) + 1
          IN  /\ read.next = Reached(data, c)
              /\ c <= Len(data) + 1 => read.value = e.chain
      BY <3>1, ReachedNext
    <3> QED
      BY <3>1, <3>2, <3>3 DEF q
  <2> HIDE DEF chain
  <2>8. ASSUME b5 <= Len(data) + 1
        PROVE  Codec!ReadEntry(data, p).value = Written(e)
    <3>1. extensions.next = b3 /\ cert.next = b4 /\ chain.value = e.chain
      <4>1. b3 <= Len(data) + 1 /\ b4 <= Len(data) + 1
        BY <1>2, <1>3, <2>8
      <4> QED
        BY <2>5, <2>6, <2>7, <2>8, <4>1 DEF Reached
    <3>2. Codec!Cut(data, p, p + Len(Codec!Timestamped(e)) - 1) = Codec!Timestamped(e)
      <4>1. p - 1 + Len(Codec!Timestamped(e)) <= Len(data) /\ Codec!Timestamped(e) \in Seq(Nat)
        <5>1. Codec!Timestamped(e) \in Seq(Nat) /\ Len(Codec!Timestamped(e)) \in Nat
          BY EntryParts, LenProperties
        <5> QED
          BY <1>1, <1>2, <1>3, <2>8, <5>1
      <4> QED
        BY <1>1, <1>2, <4>1, CutIs
    <3>3. Codec!Leaf(data, p, signed, extensions) = Codec!MerkleTreeLeaf(e)
      BY <1>1, <3>1, <3>2 DEF Codec!Leaf, Codec!MerkleTreeLeaf
    <3>4. Codec!Cut(data, b3, b3 + Len(Behind(e)) - 1) = Behind(e)
      <4>1. b3 - 1 + Len(Behind(e)) <= Len(data)
        <5>1. b4 = b3 + Len(Behind(e))
          BY DEF b4
        <5> QED
          BY <1>2, <1>3, <2>8, <5>1
      <4> QED
        BY <1>1, <1>3, <4>1, BehindType, CutIs
    <3>5. Codec!Cut(data, extensions.next, cert.next - 1) = Behind(e)
      <4>1. b4 = b3 + Len(Behind(e))
        BY DEF b4
      <4> DEFINE l == Len(Behind(e))
                 x == extensions.next
                 y == cert.next
      <4>2. l \in Nat /\ b4 = b3 + l /\ x = b3 /\ y = b4
        BY <1>2, <3>1, <4>1
      <4> HIDE DEF l, x, y
      <4>3. y - 1 = b3 + l - 1
        BY <1>3, <4>2
      <4>4. Codec!Cut(data, x, y - 1) = Codec!Cut(data, b3, b3 + l - 1)
        BY <4>2, <4>3
      <4> QED
        BY <3>4, <4>4 DEF l, x, y
    <3> QED
      BY <2>2, <3>1, <3>3, <3>5 DEF Written
  <2> QED
    BY <1>1, <2>2, <2>7, <2>8
<1> QED
  BY <1>9, <1>10

\* certparser: what it finds in what the client has made of an entry.
LEMMA ParsedIs ==
    ASSUME NEW e \in Codec!LogEntry
    PROVE  Codec!ParseMerkleTreeLeaf(Codec!MerkleTreeLeaf(e), Append(Behind(e), 0))
             = [timestamp |-> e.timestamp, isPrecert |-> e.type = Codec!Precert,
                certificate |-> e.cert]
<1> DEFINE t == Codec!Timestamped(e)
           v == <<0, 0>>
           leaf == v \o t
           f == Fixed(e)
           o == Codec!Opaque(Signed(e))
           x == Codec!Opaque(e.extensions)
           extra == Append(Behind(e), 0)
           n == Len(f)
           l == Len(Signed(e))
<1>1. /\ t = (f \o o) \o x /\ t \in Seq(Nat)
      /\ Len(t) = n + (l + 1) + (Len(e.extensions) + 1)
  BY EntryParts
<1>2. /\ o \in Seq(Nat) /\ x \in Seq(Nat) /\ Len(o) = l + 1
      /\ f \in Seq(Nat) /\ f[1] = e.timestamp /\ f[2] = e.type
      /\ n = IF e.type = Codec!X509 THEN 2 ELSE 3
  BY EntryType, OpaqueType, FixedType
<1>3. /\ Signed(e) \in Seq(Nat) /\ 1 <= l /\ l \in Nat /\ Len(e.extensions) \in Nat
      /\ e.cert \in Seq(Nat) /\ 1 <= Len(e.cert) /\ Len(e.cert) \in Nat
      /\ e.type \in {Codec!X509, Codec!Precert} /\ Codec!X509 # Codec!Precert
  BY EntryType, LenProperties
<1>4. v \in Seq(Nat) /\ Len(v) = 2
  OBVIOUS
<1>5. Codec!MerkleTreeLeaf(e) = leaf
  BY DEF Codec!MerkleTreeLeaf
<1> HIDE DEF t, v, f, o, x, extra, n, l
<1>6. leaf \in Seq(Nat) /\ Len(leaf) = 2 + (n + (l + 1) + (Len(e.extensions) + 1))
  BY <1>1, <1>4, Joined
<1>7. 5 <= Len(leaf) /\ Len(leaf) = n + l + Len(e.extensions) + 4 /\ n \in {2, 3}
  <2> DEFINE m == Len(e.extensions)
  <2>1. m \in Nat /\ l \in Nat /\ n \in {2, 3} /\ Len(leaf) = 2 + (n + (l + 1) + (m + 1))
    BY <1>2, <1>3, <1>6
  <2> HIDE DEF m, leaf
  <2>2. 5 <= Len(leaf) /\ Len(leaf) = n + l + m + 4
    BY <2>1
  <2> QED
    BY <2>1, <2>2 DEF m
<1>8. Begins(leaf, 1, v \o t)
  <2>1. \A i \in 1 .. Len(leaf) : 1 - 1 + i = i
    BY <1>6, LenProperties
  <2> HIDE DEF leaf
  <2>2. Begins(leaf, 1, leaf)
    BY <2>1 DEF Begins
  <2> QED
    BY <2>2 DEF leaf
<1> HIDE DEF leaf
<1>9. Begins(leaf, 3, (f \o o) \o x)
  <2>1. Begins(leaf, 1 + Len(v), t)
    BY <1>1, <1>4, <1>8, BeginsBoth
  <2>2. 1 + Len(v) = 3
    BY <1>4
  <2> QED
    BY <1>1, <2>1, <2>2
<1>10. f \o o \in Seq(Nat)
  BY <1>2, Joined
<1>11. Begins(leaf, 3, f \o o)
  <2> DEFINE y == f \o o
  <2>1. y \in Seq(Nat) /\ x \in Seq(Nat) /\ Begins(leaf, 3, y \o x) /\ 3 \in Nat
    BY <1>2, <1>9, <1>10
  <2> HIDE DEF y
  <2>2. Begins(leaf, 3, y)
    BY <2>1, BeginsBoth
  <2> QED
    BY <2>2 DEF y
<1>12. Begins(leaf, 3, f) /\ Begins(leaf, 3 + n, o)
  BY <1>2, <1>11, BeginsBoth DEF n
<1>13. leaf[3] = e.timestamp /\ leaf[4] = e.type
  <2>1. 1 \in 1 .. Len(f) /\ 2 \in 1 .. Len(f) /\ 3 - 1 + 1 = 3 /\ 3 - 1 + 2 = 4
    BY <1>2 DEF n
  <2>2. 3 <= Len(leaf) /\ 4 <= Len(leaf)
    BY <1>7
  <2> QED
    BY <1>2, <1>12, <2>1, <2>2 DEF Begins
<1>14. Codec!HasType(leaf, 4)
  <2>1. 4 <= Len(leaf)
    BY <1>7
  <2> QED
    BY <1>3, <1>13, <2>1 DEF Codec!HasType
<1> DEFINE body == Codec!From(leaf, 5)
           k == n - 2
<1>15. /\ body \in Seq(Nat) /\ Begins(body, 1 + k, o)
       /\ Len(body) = k + (l + 1) + (Len(e.extensions) + 1) /\ k \in Nat
       /\ k = IF e.type = Codec!X509 THEN 0 ELSE 1
  <2>1. k \in Nat /\ 5 + k = 3 + n /\ k = IF e.type = Codec!X509 THEN 0 ELSE 1
    BY <1>2
  <2>2. 5 <= Len(leaf) /\ 5 \in Nat \ {0}
        /\ Len(leaf) - 5 + 1 = k + (l + 1) + (Len(e.extensions) + 1)
    <3> DEFINE m == Len(e.extensions)
    <3>1. m \in Nat /\ l \in Nat /\ n \in {2, 3} /\ 5 <= Len(leaf) /\ Len(leaf) = n + l + m + 4
      BY <1>3, <1>7
    <3> HIDE DEF m
    <3>2. Len(leaf) - 5 + 1 = k + (l + 1) + (m + 1)
      BY <3>1
    <3> HIDE DEF k
    <3>3. Len(leaf) - 5 + 1 = k + (l + 1) + (Len(e.extensions) + 1)
      BY <3>2 DEF m
    <3> QED
      BY <3>1, <3>3
  <2>3. Begins(leaf, 5 + k, o) /\ Len(o) \in Nat
    BY <1>2, <1>3, <1>12, <2>1
  <2> HIDE DEF k
  <2>4. /\ Codec!From(leaf, 5) \in Seq(Nat) /\ Begins(Codec!From(leaf, 5), 1 + k, o)
        /\ Len(Codec!From(leaf, 5)) = Len(leaf) - 5 + 1
    BY <1>6, <2>1, <2>2, <2>3, BeginsFrom
  <2> QED
    BY <2>1, <2>2, <2>4
<1> HIDE DEF k, body
<1>16. Codec!ReadOpaque(body, 1 + k, 1) = [value |-> Signed(e), next |-> (1 + k) + l + 1]
  <2> DEFINE b == 1 + k
  <2>1. b \in Nat \ {0} /\ b + l <= Len(body) /\ 1 \in Nat /\ 1 <= Len(Signed(e))
    <3> DEFINE m == Len(e.extensions)
    <3>1. m \in Nat /\ l \in Nat /\ k \in Nat /\ Len(body) = k + (l + 1) + (m + 1)
      BY <1>3, <1>15
    <3>2. 1 <= Len(Signed(e))
      BY <1>3 DEF l
    <3> HIDE DEF m
    <3> QED
      BY <3>1, <3>2
  <2>2. b \in {b, Reached(body, b)} /\ Begins(body, b, Codec!Opaque(Signed(e)))
    BY <1>15 DEF o
  <2> HIDE DEF b
  <2>3. Codec!ReadOpaque(body, b, 1) = IF b + Len(Signed(e)) <= Len(body)
                                       THEN [value |-> Signed(e), next |-> b + Len(Signed(e)) + 1]
                                       ELSE Codec!Unread
    BY <1>3, <1>15, <2>1, <2>2, ReadOpaqueIs
  <2> QED
    BY <2>1, <2>3 DEF b, l
<1>17. CASE e.type = Codec!X509
  <2>1. 1 + k = 1 /\ Signed(e) = e.cert
    BY <1>15, <1>17 DEF Signed
  <2>2. Codec!ParseX509Entry(body) = e.cert
    BY <1>16, <2>1 DEF Codec!ParseX509Entry
  <2> QED
    BY <1>5, <1>13, <1>14, <1>17, <2>2 DEF Codec!ParseMerkleTreeLeaf, body
<1>18. CASE e.type = Codec!Precert
  <2>1. 1 + k = 2
    BY <1>3, <1>15, <1>18
  <2>2. Codec!ReadOpaque(body, 2, 1) # Codec!Unread
    <3>1. Codec!ReadOpaque(body, 2, 1).next = 2 + l + 1
      BY <1>16, <2>1
    <3> QED
      BY <1>3, <3>1 DEF Codec!Unread
  <2>3. /\ extra \in Seq(Nat) /\ Len(extra) = Len(e.cert) + 2
        /\ Begins(extra, 1, Codec!Opaque(e.cert))
    <3> DEFINE c == Codec!Opaque(e.cert)
    <3>1. c \in Seq(Nat) /\ Len(c) = Len(e.cert) + 1 /\ extra = Append(c, 0)
      BY <1>3, <1>18, OpaqueType DEF extra, Behind
    <3> HIDE DEF c
    <3>2. /\ Append(c, 0) \in Seq(Nat) /\ Len(Append(c, 0)) = Len(c) + 1
          /\ \A i \in 1 .. Len(c) : Append(c, 0)[i] = c[i]
      BY <3>1, AppendProperties
    <3>3. \A i \in 1 .. Len(c) : 1 - 1 + i = i
      BY <1>3, <3>1
    <3>4. Begins(extra, 1, c)
      BY <3>1, <3>2, <3>3 DEF Begins
    <3> QED
      BY <1>3, <3>1, <3>2, <3>4 DEF c
  <2>4. Codec!ReadOpaque(extra, 1, 1) = [value |-> e.cert, next |-> 1 + Len(e.cert) + 1]
    <3> DEFINE b == 1
    <3>1. b \in Nat \ {0} /\ b + Len(e.cert) <= Len(extra) /\ 1 \in Nat
          /\ b \in {b, Reached(extra, b)}
      BY <1>3, <2>3
    <3>2. Begins(extra, b, Codec!Opaque(e.cert))
      BY <2>3
    <3> HIDE DEF b
    <3>3. Codec!ReadOpaque(extra, b, 1) = IF b + Len(e.cert) <= Len(extra)
                                          THEN [value |-> e.cert, next |-> b + Len(e.cert) + 1]
                                          ELSE Codec!Unread
      BY <1>3, <2>3, <3>1, <3>2, ReadOpaqueIs
    <3> QED
      BY <3>1, <3>3 DEF b
  <2>5. Codec!ParsePrecertEntry(body, extra) = e.cert
    BY <2>2, <2>4 DEF Codec!ParsePrecertEntry, Codec!ParseX509Entry
  <2>6. leaf[4] = Codec!Precert /\ leaf[4] # Codec!X509
    BY <1>3, <1>13, <1>18
  <2> QED
    BY <1>5, <1>13, <1>14, <1>18, <2>5, <2>6
       DEF Codec!ParseMerkleTreeLeaf, body, extra
<1> QED
  BY <1>3, <1>17, <1>18

-----------------------------------------------------------------------------
(* The entries of a tile.                                                  *)

\* The bytes of the first entries.
FirstOf(es) == CHOOSE f : f = [n \in Nat |-> FirstStep(es, f, n)]

LEMMA FirstOfIs ==
    ASSUME NEW es
    PROVE  /\ Codec!DataTile(es) = FirstOf(es)[Len(es)]
           /\ FirstOf(es)[0] = <<>>
           /\ \A n \in Nat : FirstOf(es)[n + 1] = FirstOf(es)[n] \o Codec!TileLeaf(es[n + 1])
<1> DEFINE F == FirstOf(es)
<1>1. Causal("first", es, 0, 0, 0)
  <2> SUFFICES ASSUME NEW f, NEW g, NEW n \in Nat, \A i \in 0 .. (n - 1) : f[i] = g[i]
               PROVE  FirstStep(es, f, n) = FirstStep(es, g, n)
    BY DEF Causal, Body
  <2> QED
    BY DEF FirstStep
<1>2. PICK f : f = [n \in Nat |-> Body("first", es, 0, 0, 0, f, n)]
  BY <1>1, Recursion
<1>3. f = [n \in Nat |-> FirstStep(es, f, n)]
  BY <1>2 DEF Body
<1>4. F = [n \in Nat |-> FirstStep(es, F, n)]
  BY <1>3 DEF FirstOf
<1>5. Codec!DataTile(es) = F[Len(es)]
  BY DEF Codec!DataTile, FirstOf, FirstStep
<1> HIDE DEF F
<1>6. F[0] = <<>>
  BY <1>4 DEF FirstStep
<1>7. ASSUME NEW n \in Nat
      PROVE  F[n + 1] = F[n] \o Codec!TileLeaf(es[n + 1])
  <2>1. n + 1 \in Nat /\ n + 1 # 0 /\ (n + 1) - 1 = n
    OBVIOUS
  <2>2. F[n + 1] = FirstStep(es, F, n + 1)
    BY <1>4, <2>1
  <2> QED
    BY <2>1, <2>2 DEF FirstStep
<1> QED
  BY <1>5, <1>6, <1>7 DEF F

LEMMA LeafOfEntry ==
    ASSUME NEW e \in Codec!LogEntry
    PROVE  Codec!TileLeaf(e) \in Seq(Nat) /\ 1 <= Len(Codec!TileLeaf(e))
<1> DEFINE a == Len(Codec!Timestamped(e))
           b == Len(Behind(e))
           c == Len(e.chain)
<1>1. a \in Nat /\ b \in Nat /\ c \in Nat /\ Len(Codec!TileLeaf(e)) = a + b + (c + 1)
      /\ Codec!TileLeaf(e) \in Seq(Nat)
  <2>1. Codec!Timestamped(e) \in Seq(Nat) /\ Behind(e) \in Seq(Nat) /\ e.chain \in Seq(Nat)
    BY EntryType, EntryParts, BehindType
  <2> QED
    BY <2>1, EntryParts, LenProperties
<1> HIDE DEF a, b, c
<1> QED
  BY <1>1

LEMMA FirstType ==
    ASSUME NEW es \in Seq(Codec!LogEntry)
    PROVE  \A n \in 0 .. Len(es) : FirstOf(es)[n] \in Seq(Nat)
<1> DEFINE F == FirstOf(es)
           T == {n \in Nat : n <= Len(es) => F[n] \in Seq(Nat)}
<1>1. Len(es) \in Nat
  BY LenProperties
<1>2. F[0] = <<>> /\ \A n \in Nat : F[n + 1] = F[n] \o Codec!TileLeaf(es[n + 1])
  BY FirstOfIs
<1> HIDE DEF F
<1>3. 0 \in T
  BY <1>2, EmptySeq
<1>4. ASSUME NEW n \in T PROVE n + 1 \in T
  <2> SUFFICES ASSUME n + 1 <= Len(es) PROVE F[n + 1] \in Seq(Nat)
    OBVIOUS
  <2>1. n + 1 \in 1 .. Len(es) /\ n <= Len(es)
    BY <1>1
  <2>2. es[n + 1] \in Codec!LogEntry
    BY <2>1, ElementOfSeq
  <2>3. Codec!TileLeaf(es[n + 1]) \in Seq(Nat) /\ F[n] \in Seq(Nat)
    BY <2>1, <2>2, LeafOfEntry
  <2>4. F[n] \o Codec!TileLeaf(es[n + 1]) \in Seq(Nat)
    BY <2>3, Joined
  <2> QED
    BY <1>2, <2>4
<1>5. T \in SUBSET Nat
  OBVIOUS
<1>6. \A n \in Nat : n \in T
  <2> HIDE DEF T
  <2> QED
    BY <1>3, <1>4, <1>5, Ladder
<1> QED
  BY <1>1, <1>6 DEF F

\* Where an entry ends.
EndOf(es, n) == Len(FirstOf(es)[n])

LEMMA FirstNext ==
    ASSUME NEW es \in Seq(Codec!LogEntry), NEW n \in Nat, n + 1 <= Len(es)
    PROVE  /\ es[n + 1] \in Codec!LogEntry /\ EndOf(es, n) \in Nat
           /\ EndOf(es, n + 1) \in Nat /\ FirstOf(es)[n] \in Seq(Nat)
           /\ Codec!TileLeaf(es[n + 1]) \in Seq(Nat)
           /\ FirstOf(es)[n + 1] = FirstOf(es)[n] \o Codec!TileLeaf(es[n + 1])
           /\ EndOf(es, n + 1) = EndOf(es, n) + Len(Codec!TileLeaf(es[n + 1]))
           /\ EndOf(es, n) < EndOf(es, n + 1)
<1> DEFINE x == FirstOf(es)[n]
           y == Codec!TileLeaf(es[n + 1])
<1>1. n + 1 \in 1 .. Len(es) /\ n \in 0 .. Len(es)
  BY LenProperties
<1>2. es[n + 1] \in Codec!LogEntry
  BY <1>1, ElementOfSeq
<1>3. x \in Seq(Nat) /\ y \in Seq(Nat) /\ 1 <= Len(y)
  BY <1>1, <1>2, FirstType, LeafOfEntry
<1>4. FirstOf(es)[n + 1] = x \o y
  BY FirstOfIs
<1> HIDE DEF x, y
<1>5. Len(x \o y) = Len(x) + Len(y) /\ Len(x) \in Nat /\ Len(y) \in Nat
  BY <1>3, Joined
<1>6. Len(x \o y) \in Nat /\ Len(x) < Len(x \o y)
  BY <1>3, <1>5
<1> QED
  BY <1>2, <1>3, <1>4, <1>5, <1>6 DEF EndOf, x, y

LEMMA FirstGrows ==
    ASSUME NEW es \in Seq(Codec!LogEntry)
    PROVE  /\ \A n \in 0 .. Len(es) : EndOf(es, n) \in Nat
           /\ \A n, m \in 0 .. Len(es) : n < m => EndOf(es, n) < EndOf(es, m)
<1> DEFINE E(n) == EndOf(es, n)
           N == Len(es)
           T == {m \in Nat : m <= N => \A n \in 0 .. N : n < m => E(n) < E(m)}
<1>1. N \in Nat
  BY LenProperties
<1>2. \A n \in 0 .. N : E(n) \in Nat
  <2> TAKE n \in 0 .. N
  <2>1. FirstOf(es)[n] \in Seq(Nat)
    BY FirstType
  <2> QED
    BY <2>1, LenProperties DEF EndOf
<1>3. \A n \in Nat : n + 1 <= N => E(n) < E(n + 1)
  BY FirstNext
<1> HIDE DEF E, N
<1>4. 0 \in T
  OBVIOUS
<1>5. ASSUME NEW m \in T PROVE m + 1 \in T
  <2> SUFFICES ASSUME m + 1 <= N, NEW n \in 0 .. N, n < m + 1 PROVE E(n) < E(m + 1)
    OBVIOUS
  <2>1. m \in 0 .. N /\ m + 1 \in 0 .. N /\ m <= N
    BY <1>1
  <2>2. E(m) < E(m + 1) /\ E(n) \in Nat /\ E(m) \in Nat /\ E(m + 1) \in Nat
    BY <1>2, <1>3, <2>1
  <2>3. CASE n = m
    BY <2>2, <2>3
  <2>4. CASE n # m
    <3>1. n < m
      BY <2>1, <2>4
    <3>2. E(n) < E(m)
      BY <2>1, <3>1
    <3> QED
      BY <2>2, <3>2
  <2> QED
    BY <2>3, <2>4
<1>6. T \in SUBSET Nat
  OBVIOUS
<1>7. \A m \in Nat : m \in T
  <2> HIDE DEF T
  <2> QED
    BY <1>4, <1>5, <1>6, Ladder
<1>8. \A n, m \in 0 .. N : n < m => E(n) < E(m)
  BY <1>1, <1>7
<1> QED
  BY <1>2, <1>8 DEF E, N

\* What data goes on with it does not lose when more data follows.
LEMMA BeginsLonger ==
    ASSUME NEW x \in Seq(Nat), NEW y \in Seq(Nat), NEW p \in Nat \ {0}, NEW s \in Seq(Nat),
           Begins(x, p, s), p - 1 + Len(s) <= Len(x)
    PROVE  Begins(x \o y, p, s)
<1>1. Len(x) \in Nat /\ Len(y) \in Nat /\ Len(s) \in Nat
      /\ \A i \in 1 .. (Len(x) + Len(y)) :
           (x \o y)[i] = IF i <= Len(x) THEN x[i] ELSE y[i - Len(x)]
  BY LenProperties, ConcatProperties
<1>2. ASSUME NEW i \in 1 .. Len(s)
      PROVE  (x \o y)[p - 1 + i] = s[i]
  <2>1. p - 1 + i \in 1 .. (Len(x) + Len(y)) /\ p - 1 + i <= Len(x)
    BY <1>1
  <2>2. x[p - 1 + i] = s[i]
    BY <2>1 DEF Begins
  <2> QED
    BY <1>1, <2>1, <2>2
<1> QED
  BY <1>2 DEF Begins

\* An entry is where the previous one ends.
LEMMA FirstBegins ==
    ASSUME NEW es \in Seq(Codec!LogEntry), NEW n \in Nat
    PROVE  \A m \in 0 .. Len(es) :
             n < m => Begins(FirstOf(es)[m], EndOf(es, n) + 1, Codec!TileLeaf(es[n + 1]))
<1> DEFINE F == FirstOf(es)
           N == Len(es)
           s == Codec!TileLeaf(es[n + 1])
           p == EndOf(es, n) + 1
           T == {m \in Nat : n < m /\ m <= N => Begins(F[m], p, s)}
<1>1. N \in Nat
  BY LenProperties
<1>2. 0 \in T
  OBVIOUS
<1>3. ASSUME NEW m \in T PROVE m + 1 \in T
  <2> SUFFICES ASSUME n < m + 1, m + 1 <= N PROVE Begins(F[m + 1], p, s)
    OBVIOUS
  <2> DEFINE x == F[m]
             y == Codec!TileLeaf(es[m + 1])
  <2>1. n + 1 <= N /\ n \in 0 .. N /\ n + 1 \in 0 .. N /\ m \in 0 .. N
    BY <1>1
  <2>2. /\ x \in Seq(Nat) /\ y \in Seq(Nat) /\ F[m + 1] = x \o y
        /\ s \in Seq(Nat) /\ p \in Nat \ {0} /\ EndOf(es, n + 1) = p - 1 + Len(s)
        /\ EndOf(es, n) \in Nat
    <3>1. /\ es[n + 1] \in Codec!LogEntry /\ EndOf(es, n) \in Nat
          /\ s \in Seq(Nat) /\ EndOf(es, n + 1) = EndOf(es, n) + Len(s)
      BY <2>1, FirstNext
    <3>2. x \in Seq(Nat) /\ y \in Seq(Nat) /\ F[m + 1] = x \o y
      BY FirstNext
    <3>3. p \in Nat \ {0} /\ p - 1 = EndOf(es, n)
      BY <3>1
    <3> HIDE DEF s, p, x, y, F
    <3> QED
      BY <3>1, <3>2, <3>3
  <2>3. CASE m = n
    <3> DEFINE q == Len(x)
    <3>1. q \in Nat /\ Len(s) \in Nat /\ p - 1 = q /\ s = y
      BY <2>2, <2>3, LenProperties DEF EndOf
    <3> HIDE DEF s, p, x, y, F
    <3>2. \A i \in 1 .. (q + Len(y)) : (x \o y)[i] = IF i <= q THEN x[i] ELSE y[i - q]
      BY <2>2, ConcatProperties DEF q
    <3> HIDE DEF q
    <3>3. ASSUME NEW i \in 1 .. Len(s) PROVE (x \o y)[p - 1 + i] = s[i]
      <4>1. /\ p - 1 + i \in 1 .. (q + Len(y)) /\ ~(p - 1 + i <= q)
            /\ (p - 1 + i) - q = i
        BY <3>1
      <4> QED
        BY <3>1, <3>2, <4>1
    <3> QED
      BY <2>2, <3>3 DEF Begins
  <2>4. CASE m # n
    <3>1. n < m /\ m <= N
      BY <1>1, <2>4
    <3>2. Begins(x, p, s)
      BY <3>1
    <3>3. EndOf(es, n + 1) <= EndOf(es, m)
      <4>1. EndOf(es, n + 1) \in Nat /\ EndOf(es, m) \in Nat
        BY <2>1, FirstGrows
      <4>2. n + 1 = m \/ n + 1 < m
        BY <3>1
      <4>3. n + 1 < m => EndOf(es, n + 1) < EndOf(es, m)
        BY <2>1, FirstGrows
      <4> QED
        BY <4>1, <4>2, <4>3
    <3>4. p - 1 + Len(s) <= Len(x)
      BY <2>2, <3>3 DEF EndOf
    <3> HIDE DEF s, p, x, y, F
    <3>5. Begins(x \o y, p, s)
      BY <2>2, <3>2, <3>4, BeginsLonger
    <3> QED
      BY <2>2, <3>5
  <2> QED
    BY <2>3, <2>4
<1>4. T \in SUBSET Nat
  OBVIOUS
<1>5. \A m \in Nat : m \in T
  <2> HIDE DEF T
  <2> QED
    BY <1>2, <1>3, <1>4, Ladder
<1> QED
  BY <1>1, <1>5

\* The first entries of a tile are a tile of their own.
LEMMA FirstOfPart ==
    ASSUME NEW es \in Seq(Codec!LogEntry), NEW n \in 0 .. Len(es)
    PROVE  Codec!DataTile(SubSeq(es, 1, n)) = FirstOf(es)[n]
<1> DEFINE part == SubSeq(es, 1, n)
           F == FirstOf(es)
           G == FirstOf(part)
           T == {k \in Nat : k <= n => G[k] = F[k]}
<1>1. Len(es) \in Nat /\ \A i \in 1 .. n : es[i] \in Codec!LogEntry
  BY LenProperties, ElementOfSeq
<1>2. Len(part) = n /\ \A i \in 1 .. n : part[i] = es[i]
  <2>1. /\ Len(part) = IF 1 <= n THEN n - 1 + 1 ELSE 0
        /\ \A i \in 1 .. (n - 1 + 1) : part[i] = es[1 + i - 1]
    BY <1>1, SubSeqProperties
  <2> HIDE DEF part
  <2> QED
    BY <1>1, <2>1
<1>3. /\ F[0] = <<>> /\ \A k \in Nat : F[k + 1] = F[k] \o Codec!TileLeaf(es[k + 1])
      /\ G[0] = <<>> /\ \A k \in Nat : G[k + 1] = G[k] \o Codec!TileLeaf(part[k + 1])
      /\ Codec!DataTile(part) = G[Len(part)]
  BY FirstOfIs
<1> HIDE DEF part, F, G
<1>4. 0 \in T
  BY <1>3
<1>5. ASSUME NEW k \in T PROVE k + 1 \in T
  <2> SUFFICES ASSUME k + 1 <= n PROVE G[k + 1] = F[k + 1]
    OBVIOUS
  <2>1. k + 1 \in 1 .. n /\ k <= n
    BY <1>1
  <2> QED
    BY <1>2, <1>3, <2>1
<1>6. T \in SUBSET Nat
  OBVIOUS
<1>7. n \in T
  <2> HIDE DEF T
  <2> QED
    BY <1>4, <1>5, <1>6, Ladder
<1> QED
  BY <1>2, <1>3, <1>7 DEF part, F, G

\* As much of a tile as arrives goes on as the tile does.
LEMMA BeginsCut ==
    ASSUME NEW x \in Seq(Nat), NEW cut \in 0 .. Len(x), NEW p \in Nat \ {0},
           NEW s \in Seq(Nat), Begins(x, p, s)
    PROVE  /\ SubSeq(x, 1, cut) \in Seq(Nat) /\ Len(SubSeq(x, 1, cut)) = cut
           /\ Begins(SubSeq(x, 1, cut), p, s)
<1> DEFINE d == SubSeq(x, 1, cut)
<1>1. Len(x) \in Nat /\ Len(s) \in Nat
  BY LenProperties
<1>2. d \in Seq(Nat) /\ Len(d) = cut /\ \A i \in 1 .. cut : d[i] = x[i]
  <2>1. \A i \in 1 .. cut : x[i] \in Nat
    BY <1>1, ElementOfSeq
  <2>2. /\ d \in Seq(Nat) /\ Len(d) = IF 1 <= cut THEN cut - 1 + 1 ELSE 0
        /\ \A i \in 1 .. (cut - 1 + 1) : d[i] = x[1 + i - 1]
    BY <1>1, <2>1, SubSeqProperties
  <2> HIDE DEF d
  <2> QED
    BY <1>1, <2>2
<1> HIDE DEF d
<1>3. ASSUME NEW i \in 1 .. Len(s), p - 1 + i <= Len(d)
      PROVE  d[p - 1 + i] = s[i]
  <2>1. p - 1 + i \in 1 .. cut /\ p - 1 + i <= Len(x)
    BY <1>1, <1>2, <1>3
  <2>2. x[p - 1 + i] = s[i]
    BY <2>1 DEF Begins
  <2> QED
    BY <1>2, <2>1, <2>2
<1> QED
  BY <1>2, <1>3 DEF Begins, d

\* parseDataTile, from its cells to its entries, one step of the loop after the other.
ParseOf(data) == CHOOSE f : f = [n \in 0 .. Len(data) |-> ParseStep(data, f, n)]

LEMMA ParseOfIs ==
    ASSUME NEW data \in Seq(Nat)
    PROVE  /\ Codec!ParseDataTile(data) = ParseOf(data)[Len(data)]
           /\ \A n \in 0 .. Len(data) : ParseOf(data)[n] = ParseStep(data, ParseOf(data), n)
<1>1. Len(data) \in Nat
  BY LenProperties
<1>2. Causal("parse", data, 0, 0, 0)
  <2> SUFFICES ASSUME NEW f, NEW g, NEW n \in Nat, n <= Len(data),
                      \A i \in 0 .. (n - 1) : f[i] = g[i]
               PROVE  ParseStep(data, f, n) = ParseStep(data, g, n)
    BY <1>1 DEF Causal, Body
  <2>1. CASE n = 0
    BY <2>1 DEF ParseStep
  <2>2. CASE n # 0
    <3> DEFINE next == Codec!ReadEntry(data, Len(data) - n + 1).next
               pos == Len(data) - n + 1
    <3>1. pos \in 1 .. Len(data)
      BY <1>1, <2>2
    <3>2. next = 0 \/ next \in (pos + 1) .. (Len(data) + 1)
      BY <3>1, ReadEntryMoves
    <3> HIDE DEF next
    <3>3. next # 0 => f[Len(data) - next + 1] = g[Len(data) - next + 1]
      <4>1. next # 0 => Len(data) - next + 1 \in 0 .. (n - 1)
        BY <1>1, <3>1, <3>2
      <4> QED
        BY <4>1
    <3> QED
      BY <3>3 DEF ParseStep, next
  <2> QED
    BY <2>1, <2>2
<1>3. PICK f : f = [n \in 0 .. Len(data) |-> Body("parse", data, 0, 0, 0, f, n)]
  BY <1>1, <1>2, RecursionUpTo
<1>4. \A n \in 0 .. Len(data) : Body("parse", data, 0, 0, 0, f, n) = ParseStep(data, f, n)
  BY <1>1 DEF Body
<1>5. f = [n \in 0 .. Len(data) |-> ParseStep(data, f, n)]
  BY <1>3, <1>4
<1>6. ParseOf(data) = [n \in 0 .. Len(data) |-> ParseStep(data, ParseOf(data), n)]
  BY <1>5 DEF ParseOf
<1>7. Codec!ParseDataTile(data) = ParseOf(data)[Len(data)]
  BY DEF Codec!ParseDataTile, ParseOf, ParseStep
<1> QED
  BY <1>6, <1>7

\* The entries of the tile behind the first n of them, the last one being the m-th.
Reads(es, n, m, entries) ==
    /\ entries \in Seq({Written(es[i]) : i \in DOMAIN es}) /\ Len(entries) = m - n
    /\ \A i \in 1 .. (m - n) : entries[i] = Written(es[n + i])

\* What the parser makes of what has arrived behind the first n entries.
ReadsFrom(es, cut, n, parsed) ==
    /\ parsed.ok <=> \E m \in n .. Len(es) : cut = EndOf(es, m)
    /\ \A m \in n .. Len(es) : cut = EndOf(es, m) => Reads(es, n, m, parsed.entries)

LEMMA ParseEnds ==
    ASSUME NEW es \in Seq(Codec!LogEntry), NEW n \in 0 .. Len(es)
    PROVE  ReadsFrom(es, EndOf(es, n), n, [ok |-> TRUE, entries |-> <<>>])
<1>1. Len(es) \in Nat
  BY LenProperties
<1>2. ASSUME NEW m \in n .. Len(es), EndOf(es, n) = EndOf(es, m) PROVE m = n
  <2>1. m \in 0 .. Len(es) /\ (m = n \/ n < m)
    BY <1>1
  <2>2. EndOf(es, n) \in Nat /\ (n < m => EndOf(es, n) < EndOf(es, m))
    BY <2>1, FirstGrows
  <2> QED
    BY <1>2, <2>1, <2>2
<1>3. Reads(es, n, n, <<>>)
  <2>1. n - n = 0 /\ \A i \in 1 .. 0 : FALSE
    OBVIOUS
  <2> QED
    BY <2>1, EmptySeq DEF Reads
<1>4. n \in n .. Len(es)
  BY <1>1
<1> QED
  BY <1>2, <1>3, <1>4 DEF ReadsFrom

LEMMA ReadsOneMore ==
    ASSUME NEW es \in Seq(Codec!LogEntry), NEW n \in Nat, NEW m \in (n + 1) .. Len(es),
           NEW entries, Reads(es, n + 1, m, entries)
    PROVE  Reads(es, n, m, <<Written(es[n + 1])>> \o entries)
<1> DEFINE S == {Written(es[i]) : i \in DOMAIN es}
           v == Written(es[n + 1])
           l == m - n
<1>1. Len(es) \in Nat /\ DOMAIN es = 1 .. Len(es)
  BY LenProperties
<1>2. n + 1 \in DOMAIN es
  BY <1>1
<1>3. v \in S
  BY <1>2
<1>4. /\ entries \in Seq(S) /\ Len(entries) = l - 1 /\ l \in Nat
      /\ \A i \in 1 .. (l - 1) : entries[i] = Written(es[(n + 1) + i])
  BY <1>1 DEF Reads
<1> HIDE DEF S, v, l
<1>5. <<v>> \in Seq(S) /\ Len(<<v>>) = 1 /\ <<v>>[1] = v
  BY <1>3
<1> DEFINE s == <<v>>
           t == s \o entries
<1> HIDE DEF s
<1>6. /\ t \in Seq(S) /\ Len(t) = 1 + (l - 1)
      /\ \A i \in 1 .. (1 + (l - 1)) : t[i] = IF i <= 1 THEN s[i] ELSE entries[i - 1]
  BY <1>4, <1>5, ConcatProperties DEF s
<1> HIDE DEF t
<1>7. ASSUME NEW i \in 1 .. l PROVE t[i] = Written(es[n + i])
  <2>1. CASE i = 1
    BY <1>4, <1>5, <1>6, <2>1 DEF s, v
  <2>2. CASE i # 1
    <3>1. i - 1 \in 1 .. (l - 1) /\ ~(i <= 1) /\ i \in 1 .. (1 + (l - 1))
          /\ (n + 1) + (i - 1) = n + i
      BY <1>4, <2>2
    <3> QED
      BY <1>4, <1>6, <3>1
  <2> QED
    BY <2>1, <2>2
<1>8. Len(t) = l
  BY <1>4, <1>6
<1> QED
  BY <1>6, <1>7, <1>8 DEF Reads, S, s, t, v, l

\* One step: an entry that has arrived, in front of what is read behind it.
LEMMA ParseGoesOn ==
    ASSUME NEW es \in Seq(Codec!LogEntry), NEW n \in 0 .. Len(es), NEW data \in Seq(Nat),
           EndOf(es, n) < Len(data), Len(data) <= EndOf(es, Len(es)), NEW f,
           n < Len(es) => Begins(data, EndOf(es, n) + 1, Codec!TileLeaf(es[n + 1])),
           n < Len(es) /\ EndOf(es, n + 1) <= Len(data)
             => ReadsFrom(es, Len(data), n + 1, f[Len(data) - EndOf(es, n + 1)])
    PROVE  ReadsFrom(es, Len(data), n, ParseStep(data, f, Len(data) - EndOf(es, n)))
<1> DEFINE cut == Len(data)
           a == EndOf(es, n)
           b == EndOf(es, n + 1)
           x == Codec!TileLeaf(es[n + 1])
           p == a + 1
           entry == Codec!ReadEntry(data, p)
           v == Written(es[n + 1])
           rest == f[cut - b]
           parsed == ParseStep(data, f, cut - a)
<1>1. Len(es) \in Nat /\ cut \in Nat
  BY LenProperties
<1>2. n < Len(es)
  <2>1. a \in Nat /\ EndOf(es, Len(es)) \in Nat
    BY <1>1, FirstGrows
  <2> QED
    BY <1>1, <2>1
<1>3. /\ es[n + 1] \in Codec!LogEntry /\ a \in Nat /\ b \in Nat /\ b = a + Len(x)
      /\ Len(x) \in Nat /\ Begins(data, p, x)
  <2>1. n \in Nat /\ n + 1 <= Len(es)
    BY <1>1, <1>2
  <2> QED
    BY <1>2, <2>1, FirstNext, LenProperties
<1>4. p \in 1 .. cut /\ p + Len(x) = b + 1
  <2> DEFINE l == Len(x)
  <2>1. a \in Nat /\ l \in Nat /\ b = a + l /\ a < cut
    BY <1>3
  <2> HIDE DEF a, b, cut, l
  <2>2. p \in 1 .. cut /\ p + l = b + 1
    BY <1>1, <2>1
  <2> QED
    BY <2>2 DEF l
<1>5. /\ entry.next = Reached(data, b + 1)
      /\ b + 1 <= cut + 1 => entry.value = v
  BY <1>3, <1>4, ReadEntryIs
<1>6. parsed = IF entry.next = 0 THEN [ok |-> FALSE, entries |-> <<>>]
               ELSE LET r == f[cut - entry.next + 1]
                    IN  [ok |-> r.ok, entries |-> <<entry.value>> \o r.entries]
  <2> DEFINE k == cut - a
  <2>1. k # 0 /\ cut - k + 1 = p
    BY <1>1, <1>3
  <2> HIDE DEF k, p
  <2>2. ParseStep(data, f, k) = IF entry.next = 0 THEN [ok |-> FALSE, entries |-> <<>>]
                                ELSE LET r == f[cut - entry.next + 1]
                                     IN  [ok |-> r.ok, entries |-> <<entry.value>> \o r.entries]
    BY <2>1 DEF ParseStep
  <2> QED
    BY <2>2 DEF k
<1>7. \A m \in n .. Len(es) : m # n => m \in (n + 1) .. Len(es) /\ b <= EndOf(es, m)
  <2> SUFFICES ASSUME NEW m \in n .. Len(es), m # n
               PROVE  m \in (n + 1) .. Len(es) /\ b <= EndOf(es, m)
    OBVIOUS
  <2>1. m \in (n + 1) .. Len(es) /\ m \in 0 .. Len(es) /\ n + 1 \in 0 .. Len(es)
        /\ (m = n + 1 \/ n + 1 < m)
    BY <1>1, <1>2
  <2>2. EndOf(es, m) \in Nat /\ (n + 1 < m => b < EndOf(es, m))
    BY <2>1, FirstGrows
  <2> QED
    BY <1>3, <2>1, <2>2
<1>8. (n + 1) .. Len(es) \subseteq n .. Len(es)
  BY <1>1
<1> HIDE DEF cut, a, b, x, p, entry, v, rest, parsed
<1>9. a # cut
  BY <1>1, <1>3 DEF a, cut
<1>10. CASE b <= cut
  <2>1. entry.next = b + 1 /\ entry.next # 0 /\ entry.value = v /\ cut - entry.next + 1 = cut - b
    BY <1>1, <1>3, <1>5, <1>10 DEF Reached, cut
  <2>2. parsed.ok = rest.ok /\ parsed.entries = <<v>> \o rest.entries
    BY <1>6, <2>1 DEF rest
  <2>3. ReadsFrom(es, cut, n + 1, rest)
    BY <1>2, <1>10 DEF cut, b, rest
  <2>4. /\ rest.ok <=> \E m \in (n + 1) .. Len(es) : cut = EndOf(es, m)
        /\ \A m \in (n + 1) .. Len(es) :
             cut = EndOf(es, m) => Reads(es, n + 1, m, rest.entries)
    BY <2>3 DEF ReadsFrom
  <2>5. parsed.ok <=> \E m \in n .. Len(es) : cut = EndOf(es, m)
    BY <1>7, <1>8, <1>9, <2>2, <2>4 DEF a
  <2>6. ASSUME NEW m \in n .. Len(es), cut = EndOf(es, m)
        PROVE  Reads(es, n, m, parsed.entries)
    <3>1. m \in (n + 1) .. Len(es)
      BY <1>7, <1>9, <2>6 DEF a
    <3>2. Reads(es, n + 1, m, rest.entries)
      BY <2>4, <2>6, <3>1
    <3>3. Reads(es, n, m, <<Written(es[n + 1])>> \o rest.entries)
      BY <3>1, <3>2, ReadsOneMore
    <3> QED
      BY <2>2, <3>3 DEF v
  <2>7. ReadsFrom(es, cut, n, parsed)
    BY <2>5, <2>6 DEF ReadsFrom
  <2> QED
    BY <2>7 DEF parsed, cut, a
<1>11. CASE ~(b <= cut)
  <2>1. entry.next = 0
    BY <1>1, <1>3, <1>5, <1>11 DEF Reached, cut
  <2>2. parsed.ok = FALSE
    BY <1>6, <2>1
  <2>3. ASSUME NEW m \in n .. Len(es), cut = EndOf(es, m) PROVE FALSE
    BY <1>7, <1>9, <1>11, <2>3 DEF a
  <2>4. ReadsFrom(es, cut, n, parsed)
    BY <2>2, <2>3 DEF ReadsFrom
  <2> QED
    BY <2>4 DEF parsed, cut, a
<1> QED
  BY <1>10, <1>11

\* parseDataTile: as many entries as have arrived, if all of them have arrived whole.
LEMMA TileIsRead ==
    ASSUME NEW es \in Seq(Codec!LogEntry), NEW cut \in 0 .. Len(Codec!DataTile(es))
    PROVE  ReadsFrom(es, cut, 0, Codec!ParseDataTile(SubSeq(Codec!DataTile(es), 1, cut)))
<1> DEFINE N == Len(es)
           tile == Codec!DataTile(es)
           data == SubSeq(tile, 1, cut)
           P == ParseOf(data)
           Right(n) == EndOf(es, n) <= cut => ReadsFrom(es, cut, n, P[cut - EndOf(es, n)])
           T == {k \in Nat : k <= N => Right(N - k)}
<1>1. N \in Nat /\ tile = FirstOf(es)[N] /\ EndOf(es, N) = Len(tile)
  BY FirstOfIs, LenProperties DEF EndOf
<1>2. tile \in Seq(Nat) /\ Len(tile) \in Nat
  <2>1. N \in 0 .. N
    BY <1>1
  <2> QED
    BY <1>1, <2>1, FirstType, LenProperties
<1>3. /\ data \in Seq(Nat) /\ Len(data) = cut /\ cut \in Nat /\ cut <= EndOf(es, N)
      /\ \A n \in 0 .. N : n < N => Begins(data, EndOf(es, n) + 1, Codec!TileLeaf(es[n + 1]))
  <2> HIDE DEF tile
  <2>1. \A p \in Nat \ {0} : \A s \in Seq(Nat) :
           Begins(tile, p, s) => data \in Seq(Nat) /\ Len(data) = cut /\ Begins(data, p, s)
    <3> SUFFICES ASSUME NEW p \in Nat \ {0}, NEW s \in Seq(Nat), Begins(tile, p, s)
                 PROVE  data \in Seq(Nat) /\ Len(data) = cut /\ Begins(data, p, s)
      OBVIOUS
    <3>1. cut \in 0 .. Len(tile)
      BY DEF tile
    <3> QED
      BY <1>2, <3>1, BeginsCut
  <2>2. data \in Seq(Nat) /\ Len(data) = cut
    <3>1. 1 \in Nat \ {0} /\ <<>> \in Seq(Nat) /\ Begins(tile, 1, <<>>)
      <4>1. Len(<<>>) = 0 /\ <<>> \in Seq(Nat) /\ \A i \in 1 .. 0 : FALSE
        BY EmptySeq
      <4> QED
        BY <4>1 DEF Begins
    <3> QED
      BY <2>1, <3>1
  <2>3. ASSUME NEW n \in 0 .. N, n < N
        PROVE  Begins(data, EndOf(es, n) + 1, Codec!TileLeaf(es[n + 1]))
    <3>1. n \in Nat /\ n + 1 <= N /\ N \in 0 .. N
      BY <1>1, <2>3
    <3>2. Codec!TileLeaf(es[n + 1]) \in Seq(Nat) /\ EndOf(es, n) \in Nat
      BY <3>1, FirstNext
    <3>3. Begins(tile, EndOf(es, n) + 1, Codec!TileLeaf(es[n + 1]))
      BY <1>1, <2>3, <3>1, FirstBegins
    <3>4. EndOf(es, n) + 1 \in Nat \ {0}
      BY <3>2
    <3> QED
      BY <2>1, <3>2, <3>3, <3>4
  <2> QED
    BY <1>1, <1>2, <2>2, <2>3 DEF tile
<1>4. /\ Codec!ParseDataTile(data) = P[cut]
      /\ \A k \in 0 .. cut : P[k] = ParseStep(data, P, k)
  BY <1>3, ParseOfIs
<1> HIDE DEF N, tile, data, P
<1>5. ASSUME NEW n \in 0 .. N, n < N => Right(n + 1)
      PROVE  Right(n)
  <2> SUFFICES ASSUME EndOf(es, n) <= cut
               PROVE  ReadsFrom(es, cut, n, P[cut - EndOf(es, n)])
    OBVIOUS
  <2>1. n \in 0 .. Len(es) /\ EndOf(es, n) \in Nat
    BY FirstGrows DEF N
  <2>2. cut - EndOf(es, n) \in 0 .. cut
    BY <1>3, <2>1
  <2>3. P[cut - EndOf(es, n)] = ParseStep(data, P, cut - EndOf(es, n))
    BY <1>4, <2>2
  <2>4. CASE EndOf(es, n) = cut
    <3>1. cut - EndOf(es, n) = 0
      BY <1>3, <2>4
    <3>2. P[cut - EndOf(es, n)] = [ok |-> TRUE, entries |-> <<>>]
      BY <2>3, <3>1 DEF ParseStep
    <3> QED
      BY <2>1, <2>4, <3>2, ParseEnds
  <2>5. CASE EndOf(es, n) # cut
    <3>1. EndOf(es, n) < Len(data) /\ Len(data) <= EndOf(es, Len(es))
      BY <1>3, <2>1, <2>5 DEF N
    <3>2. /\ n < Len(es) => Begins(data, EndOf(es, n) + 1, Codec!TileLeaf(es[n + 1]))
          /\ n < Len(es) /\ EndOf(es, n + 1) <= Len(data)
               => ReadsFrom(es, Len(data), n + 1, P[Len(data) - EndOf(es, n + 1)])
      BY <1>3, <1>5 DEF N
    <3>3. ReadsFrom(es, Len(data), n, ParseStep(data, P, Len(data) - EndOf(es, n)))
      BY <1>3, <2>1, <3>1, <3>2, ParseGoesOn
    <3> QED
      BY <1>3, <2>3, <3>3
  <2> QED
    BY <2>4, <2>5
<1> HIDE DEF Right
<1>6. 0 \in T
  <2>1. N - 0 = N /\ N \in 0 .. N /\ ~(N < N)
    BY <1>1
  <2> QED
    BY <1>5, <2>1
<1>7. ASSUME NEW k \in T PROVE k + 1 \in T
  <2> SUFFICES ASSUME k + 1 <= N PROVE Right(N - (k + 1))
    OBVIOUS
  <2>1. /\ N - (k + 1) \in 0 .. N /\ (N - (k + 1)) + 1 = N - k /\ k <= N
    BY <1>1
  <2>2. Right(N - k)
    BY <2>1
  <2> QED
    BY <1>5, <2>1, <2>2
<1>8. T \in SUBSET Nat
  OBVIOUS
<1>9. N \in T
  <2> HIDE DEF T
  <2> QED
    BY <1>1, <1>6, <1>7, <1>8, Ladder
<1>10. Right(0)
  <2>1. N - N = 0 /\ N <= N
    BY <1>1
  <2> QED
    BY <1>9, <2>1
<1>11. EndOf(es, 0) = 0
  BY FirstOfIs, EmptySeq DEF EndOf
<1>12. cut - 0 = cut /\ 0 <= cut
  BY <1>3
<1>13. ReadsFrom(es, cut, 0, P[cut])
  BY <1>10, <1>11, <1>12 DEF Right
<1> QED
  BY <1>4, <1>13 DEF data, tile

\* For every tile and every place where it may be cut off: parseDataTile (tile.go) takes
\* it apart exactly if it ends behind an entry, and the certificate parser (certparser)
\* finds in each entry what the log put there.
THEOREM TilesReadBack == (question \in TileQuestions) => TileReadsBack
<1> SUFFICES ASSUME question \in TileQuestions PROVE TileReadsBack
  OBVIOUS
<1> DEFINE es == question.entries
           cut == question.cut
           N == Len(es)
           tile == Codec!DataTile(es)
           parsed == Codec!ParseDataTile(SubSeq(tile, 1, cut))
           whole == {n \in 0 .. N : cut = Len(Codec!DataTile(SubSeq(es, 1, n)))}
<1>1. es \in Seq(Codec!LogEntry) /\ cut \in 0 .. Len(tile)
  <2>1. PICK t \in Tiles :
          question \in [kind : {"tile"}, entries : {t}, cut : 0 .. Len(Codec!DataTile(t))]
    BY DEF TileQuestions
  <2>2. es = t /\ cut \in 0 .. Len(Codec!DataTile(t))
    BY <2>1
  <2> QED
    BY <2>2, DataConstants
<1> HIDE DEF es, cut
<1>2. N \in Nat
  BY <1>1, LenProperties
<1>3. ReadsFrom(es, cut, 0, parsed)
  BY <1>1, TileIsRead
<1> HIDE DEF tile, parsed
<1>4. /\ parsed.ok <=> \E m \in 0 .. N : cut = EndOf(es, m)
      /\ \A m \in 0 .. N : cut = EndOf(es, m) => Reads(es, 0, m, parsed.entries)
  BY <1>3 DEF ReadsFrom
<1>5. whole = {n \in 0 .. N : cut = EndOf(es, n)}
  <2>1. \A n \in 0 .. N : Len(Codec!DataTile(SubSeq(es, 1, n))) = EndOf(es, n)
    BY <1>1, FirstOfPart DEF EndOf
  <2> QED
    BY <2>1
<1>6. \A n, m \in whole : n = m
  <2> SUFFICES ASSUME NEW n \in 0 .. N, NEW m \in 0 .. N, EndOf(es, n) = EndOf(es, m)
               PROVE  n = m
    BY <1>5
  <2>1. /\ EndOf(es, n) \in Nat
        /\ n < m => EndOf(es, n) < EndOf(es, m)
        /\ m < n => EndOf(es, m) < EndOf(es, n)
    BY <1>1, FirstGrows
  <2> QED
    BY <1>2, <2>1
<1> HIDE DEF whole
<1>7. parsed.ok <=> whole # {}
  BY <1>4, <1>5
<1>8. ASSUME parsed.ok
      PROVE  /\ whole = {Len(parsed.entries)}
             /\ \A i \in DOMAIN parsed.entries :
                  parsed.entries[i] = Written(es[i]) /\ es[i] \in Codec!LogEntry
  <2>1. PICK m \in whole : TRUE
    BY <1>7, <1>8
  <2>2. m \in 0 .. N /\ Reads(es, 0, m, parsed.entries)
    BY <1>4, <1>5, <2>1
  <2> DEFINE raws == parsed.entries
             S == {Written(es[i]) : i \in DOMAIN es}
  <2>3. /\ raws \in Seq(S) /\ Len(raws) = m - 0
        /\ \A i \in 1 .. (m - 0) : raws[i] = Written(es[0 + i])
    BY <2>2 DEF Reads
  <2> HIDE DEF raws, S
  <2>4. DOMAIN raws = 1 .. m /\ Len(raws) = m
    BY <1>2, <2>2, <2>3, LenProperties
  <2>5. whole = {m}
    BY <1>6, <2>1
  <2>6. ASSUME NEW i \in 1 .. m PROVE raws[i] = Written(es[i]) /\ es[i] \in Codec!LogEntry
    <3>1. i \in 1 .. (m - 0) /\ 0 + i = i /\ i \in 1 .. Len(es)
      BY <1>2, <2>2
    <3>2. es[i] \in Codec!LogEntry
      BY <1>1, <3>1, ElementOfSeq
    <3> QED
      BY <2>3, <3>1, <3>2
  <2> QED
    BY <2>4, <2>5, <2>6 DEF raws
<1>9. ASSUME parsed.ok, NEW i \in DOMAIN parsed.entries
      PROVE  LET e == es[i]
                 raw == parsed.entries[i]
             IN  /\ raw.leaf = Codec!MerkleTreeLeaf(e)
                 /\ Codec!ParseMerkleTreeLeaf(raw.leaf, raw.extra)
                      = [timestamp |-> e.timestamp,
                         isPrecert |-> e.type = Codec!Precert,
                         certificate |-> e.cert]
  <2> DEFINE e == es[i]
             raw == parsed.entries[i]
  <2>1. raw = Written(e) /\ e \in Codec!LogEntry
    BY <1>8, <1>9
  <2> HIDE DEF e, raw
  <2>2. raw.leaf = Codec!MerkleTreeLeaf(e) /\ raw.extra = Append(Behind(e), 0)
    BY <2>1 DEF Written
  <2>3. Codec!ParseMerkleTreeLeaf(raw.leaf, raw.extra)
          = [timestamp |-> e.timestamp, isPrecert |-> e.type = Codec!Precert,
             certificate |-> e.cert]
    BY <2>1, <2>2, ParsedIs
  <2> QED
    BY <2>2, <2>3 DEF e, raw
<1>10. /\ parsed.ok <=> whole # {}
       /\ parsed.ok => whole = {Len(parsed.entries)}
       /\ parsed.ok => \A i \in DOMAIN parsed.entries :
            LET e == es[i]
                raw == parsed.entries[i]
            IN  /\ raw.leaf = Codec!MerkleTreeLeaf(e)
                /\ Codec!ParseMerkleTreeLeaf(raw.leaf, raw.extra)
                     = [timestamp |-> e.timestamp,
                        isPrecert |-> e.type = Codec!Precert,
                        certificate |-> e.cert]
  BY <1>7, <1>8, <1>9
<1> QED
  BY <1>10 DEF TileReadsBack, whole, parsed, tile, es, cut

-----------------------------------------------------------------------------
(* The cache.                                                              *)

\* The order lists the paths of the map, each once, and is no longer than the cache may be.
CacheInv == /\ cacheOrder \in Seq(DOMAIN cache) /\ IsInjective(cacheOrder)
            /\ DOMAIN cache = Range(cacheOrder)
            /\ Len(cacheOrder) <= CacheMax

LEMMA CacheInvInit == Init => CacheInv
<1> SUFFICES ASSUME Init PROVE CacheInv
  OBVIOUS
<1>1. cache = Nothing /\ cacheOrder = <<>>
  BY DEF Init
<1>2. DOMAIN cache = {}
  BY <1>1 DEF Nothing
<1>3. cacheOrder \in Seq(DOMAIN cache) /\ Len(cacheOrder) = 0 /\ DOMAIN cacheOrder = {}
  BY <1>1
<1>4. DOMAIN cache = Range(cacheOrder)
  BY <1>2, <1>3 DEF Range
<1> QED
  BY <1>3, <1>4, ClientConstants DEF CacheInv, IsInjective

LEMMA CacheInvKept ==
    ASSUME CacheInv, UNCHANGED <<cache, cacheOrder>>
    PROVE  CacheInv'
BY DEF CacheInv

\* A body for a path the cache does not hold.
LEMMA CacheInvStored ==
    ASSUME CacheInv, NEW url, NEW body, url \notin DOMAIN cache, CacheWith(url, body)
    PROVE  CacheInv'
<1> DEFINE full == Len(cacheOrder) >= CacheMax
           kept == IF full THEN DOMAIN cache \ {cacheOrder[1]} ELSE DOMAIN cache
           rest == IF full THEN Tail(cacheOrder) ELSE cacheOrder
<1>1. CacheMax \in Nat \ {0}
  BY ClientConstants
<1>2. /\ Len(cacheOrder) \in Nat /\ DOMAIN cacheOrder = 1 .. Len(cacheOrder)
      /\ cacheOrder \in Seq(DOMAIN cache) /\ Len(cacheOrder) <= CacheMax
  BY LenProperties DEF CacheInv
<1>3. DOMAIN cache' = kept \cup {url}
  BY DEF CacheWith, With
<1>4. cacheOrder' = Append(rest, url)
  BY DEF CacheWith
<1>5. /\ rest \in Seq(kept) /\ IsInjective(rest) /\ Len(rest) < CacheMax
      /\ kept = Range(rest) /\ url \notin kept
  <2>1. CASE ~full
    BY <1>1, <1>2, <2>1 DEF CacheInv
  <2>2. CASE full
    <3>1. cacheOrder # <<>> /\ 1 \in DOMAIN cacheOrder
      BY <1>1, <1>2, <2>2
    <3>2. /\ Tail(cacheOrder) \in Seq(DOMAIN cache) /\ Len(Tail(cacheOrder)) = Len(cacheOrder) - 1
          /\ \A i \in 1 .. Len(Tail(cacheOrder)) : Tail(cacheOrder)[i] = cacheOrder[i + 1]
      BY <1>2, <3>1, HeadTailProperties
    <3>3. Len(rest) = Len(cacheOrder) - 1 /\ \A i \in 1 .. Len(rest) : rest[i] = cacheOrder[i + 1]
      BY <2>2, <3>2
    <3>4. rest \in Seq(DOMAIN cache) /\ DOMAIN rest = 1 .. Len(rest)
      BY <2>2, <3>2, LenProperties
    <3>5. kept = DOMAIN cache \ {cacheOrder[1]}
      BY <2>2
    <3> HIDE DEF rest, kept, full
    <3>6. \A i, j \in DOMAIN cacheOrder : cacheOrder[i] = cacheOrder[j] => i = j
      BY DEF CacheInv, IsInjective
    <3>7. IsInjective(rest)
      BY <1>2, <3>3, <3>4, <3>6 DEF IsInjective
    <3>8. ASSUME NEW i \in 1 .. Len(rest) PROVE rest[i] \in kept
      <4>1. i + 1 \in DOMAIN cacheOrder /\ i + 1 # 1
        BY <1>2, <3>3
      <4>2. cacheOrder[i + 1] # cacheOrder[1] /\ cacheOrder[i + 1] \in DOMAIN cache
        BY <1>2, <3>1, <3>6, <4>1, ElementOfSeq
      <4> QED
        BY <3>3, <3>5, <4>2
    <3>9. rest \in Seq(kept)
      <4>1. rest = [i \in 1 .. Len(rest) |-> rest[i]]
        BY <3>4, LenProperties
      <4>2. Len(rest) \in Nat
        BY <3>4, LenProperties
      <4> QED
        BY <3>8, <4>1, <4>2
    <3>10. ASSUME NEW x \in kept PROVE x \in Range(rest)
      <4>1. PICK i \in DOMAIN cacheOrder : cacheOrder[i] = x
        BY <3>5 DEF CacheInv, Range
      <4>2. i # 1 /\ i - 1 \in 1 .. Len(rest) /\ (i - 1) + 1 = i
        BY <1>2, <3>3, <3>5, <4>1
      <4>3. rest[i - 1] = x
        BY <3>3, <4>1, <4>2
      <4> QED
        BY <3>4, <4>2, <4>3 DEF Range
    <3>11. kept = Range(rest)
      BY <3>4, <3>8, <3>10 DEF Range
    <3>12. Len(rest) < CacheMax
      BY <1>1, <1>2, <3>3
    <3> QED
      BY <3>5, <3>7, <3>9, <3>11, <3>12
  <2> QED
    BY <2>1, <2>2
<1> HIDE DEF rest, kept, full
<1>6. /\ Len(rest) \in Nat /\ DOMAIN rest = 1 .. Len(rest)
  BY <1>5, LenProperties
<1>7. rest \in Seq(DOMAIN cache')
  BY <1>3, <1>5, SeqMonotonic
<1>8. /\ cacheOrder' \in Seq(DOMAIN cache') /\ Len(cacheOrder') = Len(rest) + 1
      /\ \A i \in 1 .. Len(rest) : cacheOrder'[i] = rest[i]
      /\ cacheOrder'[Len(rest) + 1] = url
  <2>1. url \in DOMAIN cache'
    BY <1>3
  <2> QED
    BY <1>4, <1>7, <2>1, AppendProperties
<1>9. DOMAIN cacheOrder' = 1 .. (Len(rest) + 1)
  BY <1>8, LenProperties
<1>10. IsInjective(cacheOrder')
  <2> SUFFICES ASSUME NEW i \in DOMAIN cacheOrder', NEW j \in DOMAIN cacheOrder',
                      cacheOrder'[i] = cacheOrder'[j]
               PROVE  i = j
    BY DEF IsInjective
  <2>1. \A k \in 1 .. Len(rest) : rest[k] # url
    BY <1>5, <1>6 DEF Range
  <2>2. i \in 1 .. Len(rest) \/ i = Len(rest) + 1
    BY <1>6, <1>9
  <2>3. j \in 1 .. Len(rest) \/ j = Len(rest) + 1
    BY <1>6, <1>9
  <2>4. \A k, l \in 1 .. Len(rest) : rest[k] = rest[l] => k = l
    BY <1>5, <1>6 DEF IsInjective
  <2> QED
    BY <1>8, <2>1, <2>2, <2>3, <2>4
<1>11. DOMAIN cache' = Range(cacheOrder')
  <2>1. ASSUME NEW x \in DOMAIN cache' PROVE x \in Range(cacheOrder')
    <3>1. CASE x = url
      BY <1>6, <1>8, <1>9, <3>1 DEF Range
    <3>2. CASE x \in kept
      <4>1. PICK i \in 1 .. Len(rest) : rest[i] = x
        BY <1>5, <1>6, <3>2 DEF Range
      <4>2. i \in DOMAIN cacheOrder' /\ cacheOrder'[i] = x
        BY <1>6, <1>8, <1>9, <4>1
      <4> QED
        BY <4>2 DEF Range
    <3> QED
      BY <1>3, <3>1, <3>2
  <2>2. ASSUME NEW x \in Range(cacheOrder') PROVE x \in DOMAIN cache'
    <3>1. PICK i \in DOMAIN cacheOrder' : cacheOrder'[i] = x
      BY DEF Range
    <3> QED
      BY <1>8, <1>9, <3>1, ElementOfSeq
  <2> QED
    BY <2>1, <2>2
<1>12. Len(cacheOrder') <= CacheMax
  BY <1>1, <1>5, <1>6, <1>8
<1> QED
  BY <1>8, <1>10, <1>11, <1>12 DEF CacheInv

\* Every step keeps the cache in order.
LEMMA CacheInvNext == CacheInv /\ [Next]_vars => CacheInv'
<1> SUFFICES ASSUME CacheInv, [Next]_vars PROVE CacheInv'
  OBVIOUS
<1>1. ASSUME NEW c, ReadTile(c) PROVE CacheInv'
  <2>1. CASE CacheHit(c)
    BY <2>1, CacheInvKept DEF CacheHit, KeepCache
  <2>2. CASE CacheMiss(c)
    BY <2>2, CacheInvKept DEF CacheMiss, KeepCache
  <2>3. CASE TileArrives(c)
    <3>1. CASE KeepCache
      BY <3>1, CacheInvKept DEF KeepCache
    <3>2. CASE \E url, body : url \notin DOMAIN cache /\ CacheWith(url, body)
      BY <3>2, CacheInvStored
    <3> QED
      BY <2>3, <3>1, <3>2 DEF TileArrives
  <2>4. CASE TileFails(c)
    BY <2>4, CacheInvKept DEF TileFails, KeepCache
  <2> QED
    BY <1>1, <2>1, <2>2, <2>3, <2>4 DEF ReadTile
<1>2. CASE Restart
  <2>1. cache' = Nothing /\ cacheOrder' = <<>>
    BY <1>2 DEF Restart
  <2>2. DOMAIN cache' = {}
    BY <2>1 DEF Nothing
  <2>3. cacheOrder' \in Seq(DOMAIN cache') /\ Len(cacheOrder') = 0 /\ DOMAIN cacheOrder' = {}
    BY <2>1
  <2>4. DOMAIN cache' = Range(cacheOrder')
    BY <2>2, <2>3 DEF Range
  <2> QED
    BY <2>3, <2>4, ClientConstants DEF CacheInv, IsInjective
<1>3. CASE FetchCheckpoint \/ CheckRoot \/ CheckPrefix \/ SaveHead
  BY <1>3, CacheInvKept DEF FetchCheckpoint, CheckRoot, CheckPrefix, SaveHead, KeepCache
<1>4. ASSUME NEW w, ReadEntries(w) \/ VerifyEntries(w) \/ Take(w) PROVE CacheInv'
  BY <1>4, CacheInvKept DEF ReadEntries, VerifyEntries, Take, KeepCache
<1>5. CASE UNCHANGED vars
  BY <1>5, CacheInvKept DEF vars
<1> QED
  BY <1>1, <1>2, <1>3, <1>4, <1>5 DEF Next, Running, Poll

LEMMA CacheInvBounds == CacheInv => CacheBounded
<1> SUFFICES ASSUME CacheInv PROVE CacheBounded
  OBVIOUS
<1> DEFINE n == Len(cacheOrder)
<1>1. n \in Nat /\ n <= CacheMax /\ DOMAIN cacheOrder = 1 .. n
      /\ cacheOrder \in [1 .. n -> DOMAIN cache]
  BY LenProperties DEF CacheInv
<1>2. \A x \in DOMAIN cache : \E i \in 1 .. n : cacheOrder[i] = x
  BY <1>1 DEF CacheInv, Range
<1> HIDE DEF n
<1>3. ExistsSurjection(1 .. n, DOMAIN cache)
  BY <1>1, <1>2 DEF ExistsSurjection, Surjection
<1>4. Cardinality(DOMAIN cache) <= n
  BY <1>1, <1>3, FS_SurjCardinalityBound
<1>5. IsFiniteSet(DOMAIN cache)
  <2>1. IsFiniteSet(1 .. n)
    BY <1>1, FS_Interval
  <2>2. cacheOrder \in Surjection(1 .. n, DOMAIN cache)
    BY <1>1, <1>2 DEF Surjection
  <2> QED
    BY <2>1, <2>2, FS_Surjection
<1>6. Cardinality(DOMAIN cache) \in Nat
  BY <1>5, FS_CardinalityType
<1>7. Cardinality(DOMAIN cache) <= CacheMax
  BY <1>1, <1>4, <1>6, ClientConstants
<1> QED
  BY <1>7 DEF CacheInv, CacheBounded

\* maxStaticCacheEntries (client.go) bounds the map of tiles, and the map and the order it
\* is emptied in hold the same paths, each once, whichever calls miss and store at the same
\* time.
THEOREM ClientCacheBounded == Spec => []CacheBounded
<1>1. Spec => []CacheInv
  BY CacheInvInit, CacheInvNext, PTL DEF Spec
<1> QED
  BY <1>1, CacheInvBounds, PTL

-----------------------------------------------------------------------------
(* What the calls do between a checkpoint and its verdict.                 *)

\* A checkpoint of a view.
IsTree(t) == t \in Seq(Values) /\ Len(t) <= TwoTo[MaxHeight]

Fields == {"at", "tree", "need", "got", "ask"}

\* What a call is about does not change while it reads tiles, and no tile is forgotten.
Continues(call, next) ==
    \/ next = Idle
    \/ /\ DOMAIN next = DOMAIN call /\ next.at = call.at /\ next.tree = call.tree
       /\ "data" \in DOMAIN call => next.data = call.data
       /\ call.need \cup DOMAIN call.got \subseteq next.need \cup DOMAIN next.got

LEMMA WithTileContinues ==
    ASSUME NEW call, Fields \subseteq DOMAIN call, NEW want, NEW body
    PROVE  Continues(call, WithTile(call, want, body))
<1> DEFINE got == With(call.got, want, SubSeq(body, 1, want[3]))
           next == [call EXCEPT !.need = @ \ {want}, !.got = got, !.ask = None]
<1>1. WithTile(call, want, body) = next \/ WithTile(call, want, body) = Idle
  BY DEF WithTile
<1>2. DOMAIN got = DOMAIN call.got \cup {want}
  BY DEF With
<1> HIDE DEF got
<1>3. /\ DOMAIN next = DOMAIN call /\ next.at = call.at /\ next.tree = call.tree
      /\ "data" \in DOMAIN call => next.data = call.data
      /\ next.need = call.need \ {want} /\ next.got = got
  BY DEF Fields
<1> HIDE DEF next
<1>4. call.need \cup DOMAIN call.got \subseteq next.need \cup DOMAIN next.got
  BY <1>2, <1>3
<1>5. Continues(call, next)
  BY <1>3, <1>4 DEF Continues
<1>6. Continues(call, Idle)
  BY DEF Continues
<1> QED
  BY <1>1, <1>5, <1>6

LEMMA AskContinues ==
    ASSUME NEW call, Fields \subseteq DOMAIN call, NEW ask, NEW next,
           next = [call EXCEPT !.ask = ask]
    PROVE  Continues(call, next)
<1>1. /\ DOMAIN next = DOMAIN call /\ next.at = call.at /\ next.tree = call.tree
      /\ "data" \in DOMAIN call => next.data = call.data
      /\ next.need = call.need /\ next.got = call.got
  BY DEF Fields
<1> QED
  BY <1>1 DEF Continues

LEMMA UrlContinues ==
    ASSUME NEW call, Fields \subseteq DOMAIN call, NEW url, NEW next,
           next = [call EXCEPT !.ask.url = url]
    PROVE  Continues(call, next)
<1>1. /\ DOMAIN next = DOMAIN call /\ next.at = call.at /\ next.tree = call.tree
      /\ "data" \in DOMAIN call => next.data = call.data
      /\ next.need = call.need /\ next.got = call.got
  BY DEF Fields
<1> QED
  BY <1>1 DEF Continues

\* getHashTile changes nothing but the cache and the call it serves.
LEMMA ReadTileContinues ==
    ASSUME NEW c, ReadTile(c), Fields \subseteq DOMAIN calls[c]
    PROVE  /\ Reading(c) /\ UNCHANGED <<current, anchor, saved>>
           /\ \E next : Continues(calls[c], next) /\ calls' = [calls EXCEPT ![c] = next]
<1>1. CASE CacheHit(c)
  <2>1. PICK want : Become(c, WithTile(calls[c], want, cache[want]))
    BY <1>1 DEF CacheHit
  <2>2. Continues(calls[c], WithTile(calls[c], want, cache[want]))
    BY WithTileContinues
  <2> QED
    BY <1>1, <2>1, <2>2 DEF CacheHit, KeepCheckpoints, Become
<1>2. CASE CacheMiss(c)
  <2>1. PICK want : Become(c, [calls[c] EXCEPT !.ask = [want |-> want, url |-> want]])
    BY <1>2 DEF CacheMiss
  <2>2. Continues(calls[c], [calls[c] EXCEPT !.ask = [want |-> want, url |-> want]])
    BY AskContinues
  <2> QED
    BY <1>2, <2>1, <2>2 DEF CacheMiss, KeepCheckpoints, Become
<1>3. CASE TileArrives(c)
  <2>1. PICK want, body : Become(c, WithTile(calls[c], want, body))
    BY <1>3 DEF TileArrives
  <2>2. Continues(calls[c], WithTile(calls[c], want, body))
    BY WithTileContinues
  <2> QED
    BY <1>3, <2>1, <2>2 DEF TileArrives, KeepCheckpoints, Become
<1>4. CASE TileFails(c)
  <2> DEFINE want == calls[c].ask.want
             full == FullPath(want)
  <2>1. \/ Become(c, WithTile(calls[c], want, cache[full]))
        \/ Become(c, [calls[c] EXCEPT !.ask.url = full])
        \/ Become(c, Idle)
    BY <1>4 DEF TileFails
  <2>2. Reading(c) /\ UNCHANGED <<current, anchor, saved>>
    BY <1>4 DEF TileFails, KeepCheckpoints
  <2>3. Continues(calls[c], WithTile(calls[c], want, cache[full]))
    BY WithTileContinues
  <2>4. Continues(calls[c], [calls[c] EXCEPT !.ask.url = full])
    BY UrlContinues
  <2>5. Continues(calls[c], Idle)
    BY DEF Continues
  <2> HIDE DEF want, full
  <2> QED
    BY <2>1, <2>2, <2>3, <2>4, <2>5 DEF Become
<1> QED
  BY <1>1, <1>2, <1>3, <1>4 DEF ReadTile

-----------------------------------------------------------------------------
\* What is accepted and what is saved are trees, and the client compares with what it has
\* accepted or, in a new process, with what was saved.
HeadsInv == /\ current = None \/ IsTree(current)
            /\ saved = None \/ IsTree(saved)
            /\ current # None => anchor = current
            /\ current = None => anchor = saved

\* A call of GetTreeHead that verifies consistency has asked for the tiles that takes.
Polling(call) ==
    \/ call = Idle
    \/ /\ call.at \in {"root", "prefix"} /\ Fields \subseteq DOMAIN call
       /\ IsTree(call.tree)
       /\ call.at = "prefix" =>
            /\ Previous # None /\ Len(Previous) < Len(call.tree)
            /\ RangeTiles(0, Len(Previous), Len(call.tree)) \subseteq call.need \cup DOMAIN call.got

\* A call of GetRawEntries is about entries of the tree it verifies them against.
Serving(call) ==
    \/ call = Idle
    \/ /\ call.at \in {"proof", "served"} /\ Fields \cup {"data"} \subseteq DOMAIN call
       /\ IsTree(call.tree)
       /\ DOMAIN call.data \subseteq 0 .. (Len(call.tree) - 1)
       /\ call.at = "served" => Authentic(call)

\* Every call holds only tiles it asked for, and knows what it is about.
CallsInv == /\ DOMAIN calls = Callers
            /\ Polling(calls[Poller])
            /\ \A w \in Workers : Serving(calls[w])

ClientInv == HeadsInv /\ CallsInv

LEMMA IdleHasNoMore == Idle.at = "idle" /\ DOMAIN Idle = {"at"}
BY DEF Idle

LEMMA ClientInvInit == Init => ClientInv
<1> SUFFICES ASSUME Init PROVE ClientInv
  OBVIOUS
<1>1. HeadsInv
  BY DEF Init, HeadsInv
<1>2. calls = [c \in Callers |-> Idle] /\ Poller \in Callers /\ Workers \subseteq Callers
  BY DEF Init, Callers
<1>3. CallsInv
  BY <1>2 DEF CallsInv, Polling, Serving
<1> QED
  BY <1>1, <1>3 DEF ClientInv

\* The call of one caller changes, and the heads do not.
LEMMA CallsInvStep ==
    ASSUME ClientInv, NEW c \in Callers, NEW next, calls' = [calls EXCEPT ![c] = next],
           UNCHANGED <<current, anchor, saved>>,
           c = Poller => Polling(next), c \in Workers => Serving(next)
    PROVE  ClientInv'
<1>1. DOMAIN calls' = Callers /\ Poller \in Callers /\ Workers \subseteq Callers
  BY DEF ClientInv, CallsInv, Callers
<1>2. \A d \in Callers : calls'[d] = IF d = c THEN next ELSE calls[d]
  BY DEF ClientInv, CallsInv
<1>3. HeadsInv'
  BY DEF ClientInv, HeadsInv, IsTree
<1>4. Polling(calls'[Poller])
  BY <1>1, <1>2 DEF ClientInv, CallsInv
<1>5. Previous' = Previous
  BY DEF Previous
<1>6. Polling(calls[Poller])'
  BY <1>4, <1>5 DEF Polling, IsTree
<1>7. \A w \in Workers : Serving(calls'[w])
  BY <1>1, <1>2 DEF ClientInv, CallsInv
<1>8. \A w \in Workers : Serving(calls[w])'
  BY <1>7 DEF Serving, IsTree, Authentic
<1> QED
  BY <1>1, <1>3, <1>6, <1>8 DEF ClientInv, CallsInv

LEMMA ClientInvReads ==
    ASSUME ClientInv, NEW c \in Callers, ReadTile(c)
    PROVE  ClientInv'
<1>1. Reading(c)
  BY DEF ReadTile, CacheHit, CacheMiss, TileArrives, TileFails
<1>2. calls[c] # Idle
  BY <1>1, IdleHasNoMore DEF Reading
<1>3. c = Poller \/ c \in Workers
  BY DEF Callers
<1>4. Fields \subseteq DOMAIN calls[c]
  BY <1>2, <1>3 DEF ClientInv, CallsInv, Polling, Serving
<1>5. UNCHANGED <<current, anchor, saved>>
  BY <1>4, ReadTileContinues
<1>6. PICK next : Continues(calls[c], next) /\ calls' = [calls EXCEPT ![c] = next]
  BY <1>4, ReadTileContinues
<1> DEFINE call == calls[c]
<1>7. ASSUME c = Poller PROVE Polling(next)
  <2>1. CASE next = Idle
    BY <2>1 DEF Polling
  <2>2. CASE next # Idle
    <3>1. /\ DOMAIN next = DOMAIN call /\ next.at = call.at /\ next.tree = call.tree
          /\ call.need \cup DOMAIN call.got \subseteq next.need \cup DOMAIN next.got
      BY <1>6, <2>2 DEF Continues
    <3>2. Polling(call) /\ call # Idle
      BY <1>2, <1>7 DEF ClientInv, CallsInv
    <3> HIDE DEF call
    <3> QED
      BY <3>1, <3>2 DEF Polling
  <2> QED
    BY <2>1, <2>2
<1>8. ASSUME c \in Workers PROVE Serving(next)
  <2>1. CASE next = Idle
    BY <2>1 DEF Serving
  <2>2. CASE next # Idle
    <3>1. Serving(call) /\ call # Idle /\ call.at \in {"root", "prefix", "proof"}
      BY <1>1, <1>2, <1>8 DEF ClientInv, CallsInv, Reading
    <3>2. /\ DOMAIN next = DOMAIN call /\ next.at = call.at /\ next.tree = call.tree
          /\ "data" \in DOMAIN call => next.data = call.data
      BY <1>6, <2>2 DEF Continues
    <3> HIDE DEF call
    <3>3. call.at = "proof" /\ "data" \in DOMAIN call
      BY <3>1 DEF Serving
    <3> QED
      BY <3>1, <3>2, <3>3 DEF Serving
  <2> QED
    BY <2>1, <2>2
<1> QED
  BY <1>5, <1>6, <1>7, <1>8, CallsInvStep

LEMMA CallHas ==
    ASSUME NEW at, NEW tree, NEW need
    PROVE  /\ DOMAIN Call(at, tree, need) = Fields
           /\ Call(at, tree, need).at = at /\ Call(at, tree, need).tree = tree
           /\ Call(at, tree, need).need = need /\ DOMAIN Call(at, tree, need).got = {}
BY DEF Call, Fields, Nothing

LEMMA PrefixIsTree ==
    ASSUME NEW view \in Views, NEW size \in 0 .. Len(view)
    PROVE  IsTree(SubSeq(view, 1, size)) /\ Len(SubSeq(view, 1, size)) = size
<1>1. view \in Seq(Values) /\ Len(view) <= TwoTo[MaxHeight]
  BY ClientConstants
<1>2. Len(view) \in Nat /\ TwoTo[MaxHeight] \in Nat
  <2>1. MaxHeight \in Nat
    BY TileConstants DEF MaxHeight
  <2> QED
    BY <1>1, <2>1, LenProperties, TwoToType
<1>3. \A i \in 1 .. size : view[i] \in Values
  BY <1>1, <1>2, ElementOfSeq
<1>4. /\ SubSeq(view, 1, size) \in Seq(Values)
      /\ Len(SubSeq(view, 1, size)) = IF 1 <= size THEN size - 1 + 1 ELSE 0
  BY <1>2, <1>3, SubSeqProperties
<1>5. Len(SubSeq(view, 1, size)) = size
  BY <1>2, <1>4
<1> QED
  BY <1>1, <1>2, <1>4, <1>5 DEF IsTree

LEMMA TreeIsSome == ASSUME NEW t, IsTree(t) PROVE t # None
BY ClientConstants DEF IsTree

\* All calls end, or none is under way: the heads may change.
LEMMA CallsInvIdle ==
    ASSUME DOMAIN calls' = Callers, \A c \in Callers : calls'[c] = Idle, HeadsInv'
    PROVE  ClientInv'
BY DEF ClientInv, CallsInv, Polling, Serving, Callers

\* A tree head is asked for.
LEMMA ClientInvFetch ==
    ASSUME ClientInv, FetchCheckpoint
    PROVE  ClientInv'
<1>1. PICK view \in Views : \E size \in 0 .. Len(view) :
         Become(Poller, Call("root", SubSeq(view, 1, size), RangeTiles(0, size, size)))
  <2>1. Len(Honest) \in 0 .. Len(Honest) /\ Honest \in Views
    BY ClientConstants, LenProperties
  <2> QED
    BY <2>1 DEF FetchCheckpoint
<1>2. PICK size \in 0 .. Len(view) :
         Become(Poller, Call("root", SubSeq(view, 1, size), RangeTiles(0, size, size)))
  BY <1>1
<1> DEFINE tree == SubSeq(view, 1, size)
           need == RangeTiles(0, size, size)
           next == Call("root", tree, need)
<1>3. IsTree(tree)
  BY PrefixIsTree
<1> HIDE DEF tree, need
<1>4. DOMAIN next = Fields /\ next.at = "root" /\ next.tree = tree
  BY CallHas
<1> HIDE DEF next
<1>5. Polling(next)
  BY <1>4, <1>3 DEF Polling
<1>6. UNCHANGED <<current, anchor, saved>>
  BY DEF FetchCheckpoint, KeepCheckpoints
<1>7. calls' = [calls EXCEPT ![Poller] = next] /\ Poller \in Callers /\ Poller \notin Workers
  BY <1>2, ClientConstants DEF Become, next, tree, need, Callers
<1> QED
  BY <1>5, <1>6, <1>7, CallsInvStep

\* The verdict on a checkpoint.
LEMMA ClientInvAccept ==
    ASSUME ClientInv, Accept, saved' = saved, calls[Poller] # Idle
    PROVE  ClientInv'
<1>1. IsTree(calls[Poller].tree)
  BY DEF ClientInv, CallsInv, Polling
<1>2. current' = calls[Poller].tree /\ anchor' = current' /\ current' # None
  BY <1>1, TreeIsSome DEF Accept
<1>3. HeadsInv'
  BY <1>1, <1>2 DEF ClientInv, HeadsInv, IsTree
<1>4. calls' = [calls EXCEPT ![Poller] = Idle]
  BY DEF Accept, Become
<1>5. DOMAIN calls' = Callers /\ \A c \in Callers : calls'[c] = IF c = Poller THEN Idle ELSE calls[c]
  BY <1>4 DEF ClientInv, CallsInv
<1>6. calls'[Poller] = Idle /\ \A w \in Workers : calls'[w] = calls[w]
  BY <1>5, ClientConstants DEF Callers
<1>7. Polling(calls[Poller])'
  BY <1>6 DEF Polling
<1>8. \A w \in Workers : Serving(calls[w])'
  BY <1>6 DEF ClientInv, CallsInv, Serving, IsTree, Authentic
<1> QED
  BY <1>3, <1>5, <1>7, <1>8 DEF ClientInv, CallsInv

LEMMA ClientInvRefuse ==
    ASSUME ClientInv, Refuse, saved' = saved
    PROVE  ClientInv'
<1>1. UNCHANGED <<current, anchor, saved>> /\ calls' = [calls EXCEPT ![Poller] = Idle]
  BY DEF Refuse, Become
<1>2. Polling(Idle) /\ Poller \in Callers /\ Poller \notin Workers
  BY ClientConstants DEF Polling, Callers
<1> QED
  BY <1>1, <1>2, CallsInvStep

LEMMA ClientInvRoot ==
    ASSUME ClientInv, CheckRoot
    PROVE  ClientInv'
<1> DEFINE call == calls[Poller]
           size == Len(call.tree)
           next == Call("prefix", call.tree, RangeTiles(0, Len(Previous), size))
<1>1. call.at = "root" /\ saved' = saved
  BY DEF CheckRoot
<1>2. call # Idle
  BY <1>1, IdleHasNoMore
<1>3. \/ Accept
      \/ Refuse
      \/ /\ Previous # None /\ Len(Previous) < size
         /\ Become(Poller, next) /\ UNCHANGED <<current, anchor>>
  BY DEF CheckRoot
<1>4. CASE Accept
  BY <1>1, <1>2, <1>4, ClientInvAccept
<1>5. CASE Refuse
  BY <1>1, <1>5, ClientInvRefuse
<1>6. CASE /\ Previous # None /\ Len(Previous) < size
           /\ Become(Poller, next) /\ UNCHANGED <<current, anchor>>
  <2>1. IsTree(call.tree)
    BY <1>2 DEF ClientInv, CallsInv, Polling
  <2>2. /\ DOMAIN next = Fields /\ next.at = "prefix" /\ next.tree = call.tree
        /\ next.need = RangeTiles(0, Len(Previous), size)
    BY CallHas
  <2>3. calls' = [calls EXCEPT ![Poller] = next] /\ Poller \in Callers /\ Poller \notin Workers
    BY <1>6, ClientConstants DEF Become, Callers
  <2> HIDE DEF next, call
  <2>4. Polling(next)
    BY <1>6, <2>1, <2>2 DEF Polling
  <2> QED
    BY <1>1, <1>6, <2>3, <2>4, CallsInvStep
<1> QED
  BY <1>3, <1>4, <1>5, <1>6

LEMMA ClientInvPrefix ==
    ASSUME ClientInv, CheckPrefix
    PROVE  ClientInv'
<1>1. calls[Poller].at = "prefix" /\ saved' = saved /\ (Accept \/ Refuse)
  BY DEF CheckPrefix
<1>2. calls[Poller] # Idle
  BY <1>1, IdleHasNoMore
<1> QED
  BY <1>1, <1>2, ClientInvAccept, ClientInvRefuse

\* Entries are read and verified.
LEMMA ClientInvEntries ==
    ASSUME ClientInv, NEW w \in Workers, ReadEntries(w)
    PROVE  ClientInv'
<1>1. PICK from \in Stretch(0, Len(current)), to \in Stretch(0, Len(current)) :
         \E data \in [from .. to -> Values] :
           Become(w, [at |-> "proof", tree |-> current,
                      need |-> UNION {InclusionTiles(0, Len(current), i, Len(current)) : i \in from .. to},
                      got |-> Nothing, ask |-> None, data |-> data])
  BY DEF ReadEntries
<1>2. PICK data \in [from .. to -> Values] :
         Become(w, [at |-> "proof", tree |-> current,
                    need |-> UNION {InclusionTiles(0, Len(current), i, Len(current)) : i \in from .. to},
                    got |-> Nothing, ask |-> None, data |-> data])
  BY <1>1
<1> DEFINE need == UNION {InclusionTiles(0, Len(current), i, Len(current)) : i \in from .. to}
           next == [at |-> "proof", tree |-> current, need |-> need,
                    got |-> Nothing, ask |-> None, data |-> data]
<1>3. calls' = [calls EXCEPT ![w] = next]
  BY <1>2 DEF Become
<1> HIDE DEF need
<1>4. /\ DOMAIN next = Fields \cup {"data"} /\ next.at = "proof" /\ next.tree = current
      /\ next.data = data
  BY DEF Fields
<1> HIDE DEF next
<1>5. IsTree(current)
  BY DEF ClientInv, HeadsInv, ReadEntries
<1>6. DOMAIN data \subseteq 0 .. (Len(current) - 1)
  <2>1. Len(current) \in Nat
    BY <1>5, LenProperties DEF IsTree
  <2> QED
    BY <2>1 DEF Stretch
<1>7. Serving(next)
  BY <1>4, <1>5, <1>6 DEF Serving
<1>8. w \in Callers /\ w # Poller
  BY ClientConstants DEF Callers
<1>9. UNCHANGED <<current, anchor, saved>>
  BY DEF ReadEntries, KeepCheckpoints
<1> QED
  BY <1>3, <1>7, <1>8, <1>9, CallsInvStep

LEMMA ClientInvVerify ==
    ASSUME ClientInv, NEW w \in Workers, VerifyEntries(w)
    PROVE  ClientInv'
<1> DEFINE call == calls[w]
           next == IF Authentic(call) THEN [call EXCEPT !.at = "served"] ELSE Idle
<1>1. call.at = "proof" /\ UNCHANGED <<current, anchor, saved>>
      /\ calls' = [calls EXCEPT ![w] = next]
  BY DEF VerifyEntries, Become, KeepCheckpoints
<1>2. call # Idle /\ Serving(call)
  BY <1>1, IdleHasNoMore DEF ClientInv, CallsInv
<1>3. w \in Callers /\ w # Poller
  BY ClientConstants DEF Callers
<1>4. Serving(next)
  <2>1. CASE ~Authentic(call)
    BY <2>1 DEF Serving
  <2>2. CASE Authentic(call)
    <3> DEFINE served == [call EXCEPT !.at = "served"]
    <3>1. Fields \cup {"data"} \subseteq DOMAIN call
      BY <1>2 DEF Serving
    <3> HIDE DEF call
    <3>2. /\ DOMAIN served = DOMAIN call /\ served.at = "served" /\ served.tree = call.tree
          /\ served.data = call.data /\ served.got = call.got
      BY <3>1 DEF Fields
    <3>3. next = served
      BY <2>2
    <3> HIDE DEF served, next
    <3>4. Authentic(served)
      BY <2>2, <3>2 DEF Authentic
    <3> QED
      BY <1>2, <3>2, <3>3, <3>4 DEF Serving
  <2> QED
    BY <2>1, <2>2
<1> QED
  BY <1>1, <1>3, <1>4, CallsInvStep

LEMMA ClientInvNext == ClientInv /\ [Next]_vars => ClientInv'
<1> SUFFICES ASSUME ClientInv, [Next]_vars PROVE ClientInv'
  OBVIOUS
<1>1. Poller \in Callers /\ Workers \subseteq Callers
  BY DEF Callers
<1>2. ASSUME NEW w \in Workers, Take(w) PROVE ClientInv'
  <2>1. UNCHANGED <<current, anchor, saved>> /\ calls' = [calls EXCEPT ![w] = Idle]
    BY <1>2 DEF Take, KeepCheckpoints, Become
  <2>2. Serving(Idle) /\ w \in Callers /\ w # Poller
    BY ClientConstants DEF Serving, Callers
  <2> QED
    BY <2>1, <2>2, CallsInvStep
<1>3. CASE SaveHead
  <2>1. \A c \in Callers : calls'[c] = Idle
    BY <1>3 DEF SaveHead
  <2>2. DOMAIN calls' = Callers
    BY <1>3 DEF SaveHead, ClientInv, CallsInv
  <2>3. HeadsInv'
    BY <1>3 DEF SaveHead, ClientInv, HeadsInv, IsTree
  <2> QED
    BY <2>1, <2>2, <2>3, CallsInvIdle
<1>4. CASE Restart
  <2>1. calls' = [c \in Callers |-> Idle]
    BY <1>4 DEF Restart
  <2>2. HeadsInv'
    BY <1>4 DEF Restart, ClientInv, HeadsInv, IsTree
  <2> QED
    BY <2>1, <2>2, CallsInvIdle
<1>5. CASE UNCHANGED vars
  BY <1>5 DEF vars, ClientInv, HeadsInv, CallsInv, Polling, Serving, IsTree, Authentic, Previous
<1>6. CASE Running
  <2>1. CASE Poll
    BY <1>1, <2>1, ClientInvFetch, ClientInvReads, ClientInvRoot, ClientInvPrefix DEF Poll
  <2>2. ASSUME NEW w \in Workers, ReadTile(w) \/ ReadEntries(w) \/ VerifyEntries(w) \/ Take(w)
        PROVE  ClientInv'
    BY <1>1, <1>2, <2>2, ClientInvReads, ClientInvEntries, ClientInvVerify
  <2> QED
    BY <1>3, <1>6, <2>1, <2>2 DEF Running
<1> QED
  BY <1>4, <1>5, <1>6 DEF Next

\* The verified entries are those of the tree.
LEMMA ServedIsLeaf ==
    ASSUME ClientInv, NEW w \in Workers, calls[w].at = "served", NEW i \in DOMAIN calls[w].data
    PROVE  calls[w].data[i] = calls[w].tree[i + 1]
<1> DEFINE call == calls[w]
<1>1. call # Idle
  BY IdleHasNoMore
<1>2. IsTree(call.tree) /\ DOMAIN call.data \subseteq 0 .. (Len(call.tree) - 1) /\ Authentic(call)
  BY <1>1 DEF ClientInv, CallsInv, Serving
<1>3. RootWithLeaf(0, Len(call.tree), i, LeafHash(call.data[i]), Len(call.tree), call.got)
         = TreeHash(call.tree)
  BY <1>2 DEF Authentic
<1>4. call.tree \in Seq(Values) /\ i \in 0 .. (Len(call.tree) - 1)
  BY <1>2 DEF IsTree
<1> HIDE DEF call
<1>5. call.data[i] = call.tree[i + 1]
  BY <1>3, <1>4, LeafOfTree
<1> QED
  BY <1>5 DEF call

\* GetRawEntries (client.go) returns only entries that lead to the accepted root: they are
\* the entries of its tree, at their indices, whatever the log serves and the cache keeps.
THEOREM ClientServesSigned == Spec => []ServedIsSigned
<1>1. Spec => []ClientInv
  BY ClientInvInit, ClientInvNext, PTL DEF Spec
<1>2. ClientInv => ServedIsSigned
  BY ServedIsLeaf DEF ServedIsSigned
<1> QED
  BY <1>1, <1>2, PTL

\* A larger tree whose tiles give the root of the previous one contains it.
LEMMA PrefixContains ==
    ASSUME NEW tree, IsTree(tree), NEW before, IsTree(before), Len(before) <= Len(tree),
           NEW tiles, TilesOf(tree, tiles),
           RangeTiles(0, Len(before), Len(tree)) \subseteq DOMAIN tiles,
           RangeRoot(0, Len(before), Len(tree), tiles) = TreeHash(before)
    PROVE  IsPrefix(before, tree)
<1> DEFINE n == Len(before)
           part == SubSeq(tree, 1, n)
<1>1. /\ tree \in Seq(Values) /\ before \in Seq(Values) /\ n \in Nat /\ Len(tree) \in Nat
      /\ n \in 0 .. Len(tree)
  BY LenProperties DEF IsTree
<1>2. TreeHash(part) = TreeHash(before)
  BY <1>1, PrefixRoots DEF IsTree
<1>3. part \in Seq(Values) /\ Len(part) = n
  <2>1. \A i \in 1 .. n : tree[i] \in Values
    BY <1>1, ElementOfSeq
  <2>2. part \in Seq(Values) /\ Len(part) = IF 1 <= n THEN n - 1 + 1 ELSE 0
    BY <1>1, <2>1, SubSeqProperties
  <2> QED
    BY <1>1, <2>2
<1>4. part = before
  BY <1>1, <1>2, <1>3, TreeHashInjective
<1>5. SubSeq(before, 1, n) = before
  BY <1>1, SubSeqFull
<1> QED
  BY <1>4, <1>5 DEF IsPrefix

LEMMA SameIsPrefix == ASSUME NEW t, IsTree(t) PROVE IsPrefix(t, t)
<1>1. Len(t) \in Nat
  BY LenProperties DEF IsTree
<1> QED
  BY <1>1 DEF IsPrefix

\* Only CheckRoot and CheckPrefix accept, and each compares with the one before.
LEMMA HeadsExtendStep ==
    ASSUME ClientInv, [Next]_vars, Before # None, current' # None, current' # current,
           Genuine(calls[Poller])
    PROVE  IsPrefix(Before, current')
<1> DEFINE call == calls[Poller]
           size == Len(call.tree)
<1>1. Previous = Before /\ IsTree(Before)
  BY DEF Previous, Before, ClientInv, HeadsInv
<1>2. call.at \in {"root", "prefix"} /\ TilesOf(call.tree, call.got)
  BY DEF Genuine, TilesOf
<1>3. IsTree(call.tree) /\ Polling(call) /\ call # Idle
  BY <1>2, IdleHasNoMore DEF ClientInv, CallsInv, Polling
<1>4. Len(Before) \in Nat /\ size \in Nat
  BY <1>1, <1>3, LenProperties DEF IsTree
<1>5. CASE CheckRoot
  <2>1. current' = call.tree /\ Len(Previous) = size /\ TreeHash(Previous) = TreeHash(call.tree)
    BY <1>1, <1>5 DEF CheckRoot, Accept, Refuse
  <2>2. Before = call.tree
    BY <1>1, <1>3, <2>1, TreeHashInjective DEF IsTree
  <2> QED
    BY <1>3, <2>1, <2>2, SameIsPrefix
<1>6. CASE CheckPrefix
  <2>1. /\ current' = call.tree
        /\ RangeRoot(0, Len(Previous), size, call.got) = TreeHash(Previous)
        /\ call.need = {} /\ call.at = "prefix"
    BY <1>6 DEF CheckPrefix, Accept, Refuse, Complete
  <2>2. Len(Previous) < size /\ RangeTiles(0, Len(Previous), size) \subseteq DOMAIN call.got
    <3> HIDE DEF call
    <3> QED
      BY <1>3, <2>1 DEF Polling
  <2> HIDE DEF call
  <2>3. IsPrefix(Before, call.tree)
    BY <1>1, <1>2, <1>3, <1>4, <2>1, <2>2, PrefixContains
  <2> QED
    BY <2>1, <2>3
<1>7. ASSUME NEW c, ReadTile(c) PROVE FALSE
  BY <1>7 DEF ReadTile, CacheHit, CacheMiss, TileArrives, TileFails, KeepCheckpoints
<1>8. ASSUME NEW w, ReadEntries(w) \/ VerifyEntries(w) \/ Take(w) PROVE FALSE
  BY <1>8 DEF ReadEntries, VerifyEntries, Take, KeepCheckpoints
<1>9. CASE FetchCheckpoint \/ SaveHead \/ Restart \/ UNCHANGED vars
  BY <1>9 DEF FetchCheckpoint, SaveHead, Restart, KeepCheckpoints, vars
<1> QED
  BY <1>5, <1>6, <1>7, <1>8, <1>9 DEF Next, Running, Poll

\* verifyConsistency (client.go): of a log that backs a new checkpoint with the tiles of its
\* own tree, only checkpoints that contain the one before are accepted, in the same process
\* and, through the saved head, in the next.
THEOREM ClientHeadsExtend == Spec => HeadsExtend
<1>1. Spec => []ClientInv
  BY ClientInvInit, ClientInvNext, PTL DEF Spec
<1>2. ClientInv /\ [Next]_vars =>
        [(Before # None /\ current' # None /\ Genuine(calls[Poller]))
             => IsPrefix(Before, current')]_current
  BY HeadsExtendStep
<1> QED
  BY <1>1, <1>2, PTL DEF Spec, HeadsExtend
=============================================================================
