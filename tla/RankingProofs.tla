----------------------------- MODULE RankingProofs -----------------------------
(***************************************************************************)
(* What arranging gives, for any finite set and any strict order in which  *)
(* any two of its members stand: each member once, in that order; what     *)
(* filtering, joining and sorting make of lists; and what sums of natural  *)
(* numbers are, in whatever order they are added.                          *)
(***************************************************************************)
EXTENDS Ranking, FiniteSetTheorems, WellFoundedInduction, TLAPS

(* The members of a finite set in order; ahead[x] are those ahead of x.    *)
Arranged(S, ahead) ==
  [n \in 1..Cardinality(S) |-> CHOOSE x \in S : Cardinality(ahead[x]) = n - 1]

StrictOrder(S, ahead) ==
  /\ \A x \in S : ahead[x] \in SUBSET (S \ {x})
  /\ \A x, y, z \in S : x \in ahead[y] /\ y \in ahead[z] => x \in ahead[z]
  /\ \A x, y \in S : x # y => x \in ahead[y] \/ y \in ahead[x]

(* A list that holds each member of a set once, in the order.              *)
IsArranged(list, S, ahead) ==
  /\ list \in Seq(S) /\ Len(list) = Cardinality(S)
  /\ \A x \in S : \E n \in DOMAIN list : list[n] = x
  /\ \A m, n \in DOMAIN list : m < n => list[m] # list[n] /\ list[m] \in ahead[list[n]]

Ranks(S, ahead) == [x \in S |-> Cardinality(ahead[x]) + 1]

(* What is ahead of x is ahead of what x is ahead of, and so is x.         *)
LEMMA RankGrows ==
  ASSUME NEW S, IsFiniteSet(S), NEW ahead, StrictOrder(S, ahead),
         NEW x \in S, NEW y \in S, x \in ahead[y]
  PROVE  Ranks(S, ahead)[x] < Ranks(S, ahead)[y]
<1> DEFINE A == ahead[x]
           B == ahead[y]
<1>1. A \in SUBSET S /\ B \in SUBSET S
  BY DEF StrictOrder
<1>2. IsFiniteSet(A) /\ IsFiniteSet(B)
  BY <1>1, FS_Subset
<1>3. A \in SUBSET B /\ x \in B /\ x \notin A
  BY DEF StrictOrder
<1>4. Cardinality(A) \in Nat /\ Cardinality(B) \in Nat
  BY <1>2, FS_CardinalityType
<1>5. Cardinality(A) <= Cardinality(B) /\ Cardinality(A) # Cardinality(B)
  <2> HIDE DEF A, B
  <2> QED BY <1>2, <1>3, FS_Subset
<1>6. Ranks(S, ahead)[x] = Cardinality(A) + 1 /\ Ranks(S, ahead)[y] = Cardinality(B) + 1
  BY DEF Ranks
<1> HIDE DEF A, B
<1> QED BY <1>4, <1>5, <1>6

(* Ranks number the members of the set from 1.                             *)
LEMMA RankNumbers ==
  ASSUME NEW S, IsFiniteSet(S), NEW ahead, StrictOrder(S, ahead)
  PROVE  /\ Cardinality(S) \in Nat
         /\ Ranks(S, ahead) \in Surjection(S, 1..Cardinality(S))
         /\ \A x, y \in S : Ranks(S, ahead)[x] = Ranks(S, ahead)[y] => x = y
<1> DEFINE N == Cardinality(S)
           rank == Ranks(S, ahead)
<1>1. N \in Nat
  BY FS_CardinalityType
<1>2. \A x \in S : rank[x] \in 1..N
  <2> TAKE x \in S
  <2> DEFINE A == ahead[x]
  <2>1. A \in SUBSET S /\ A # S
    BY DEF StrictOrder
  <2>2. IsFiniteSet(A)
    BY <2>1, FS_Subset
  <2>3. Cardinality(A) \in Nat /\ Cardinality(A) <= N /\ Cardinality(A) # N
    <3> HIDE DEF A
    <3> QED BY <2>1, <2>2, FS_Subset, FS_CardinalityType
  <2>4. rank[x] = Cardinality(A) + 1
    BY DEF Ranks
  <2> HIDE DEF A, N, rank
  <2> QED BY <1>1, <2>3, <2>4
<1>3. ASSUME NEW x \in S, NEW y \in S, rank[x] = rank[y] PROVE x = y
  <2>1. rank[x] \in Int /\ rank[y] \in Int
    BY <1>2
  <2>2. ~(rank[x] < rank[y]) /\ ~(rank[y] < rank[x])
    <3> HIDE DEF rank
    <3> QED BY <1>3, <2>1
  <2>3. x \notin ahead[y] /\ y \notin ahead[x]
    BY <2>2, RankGrows
  <2> QED BY <2>3 DEF StrictOrder
<1>4. rank \in [S -> 1..N]
  BY <1>2 DEF Ranks
<1>5. rank \in Injection(S, 1..N)
  BY <1>3, <1>4 DEF Injection, IsInjective
<1>6. IsFiniteSet(1..N) /\ Cardinality(1..N) = N
  <2> HIDE DEF N
  <2>1. Cardinality(1..N) = IF 1 > N THEN 0 ELSE N - 1 + 1
    BY <1>1, FS_Interval
  <2> QED BY <1>1, <2>1, FS_Interval
<1>7. rank \in Surjection(S, 1..N)
  <2> HIDE DEF rank
  <2> QED BY <1>5, <1>6, FS_Injection
<1> QED BY <1>1, <1>3, <1>7

(* Arranging is arranging, for every finite set and strict order.          *)
THEOREM ArrangedIs ==
  ASSUME NEW S, IsFiniteSet(S), NEW ahead, StrictOrder(S, ahead)
  PROVE  IsArranged(Arranged(S, ahead), S, ahead)
<1> DEFINE N == Cardinality(S)
           rank == Ranks(S, ahead)
           list == Arranged(S, ahead)
<1>1. N \in Nat /\ rank \in Surjection(S, 1..N)
      /\ \A x, y \in S : rank[x] = rank[y] => x = y
  BY RankNumbers
<1>2. ASSUME NEW n \in 1..N PROVE list[n] \in S /\ rank[list[n]] = n
  <2>1. PICK x \in S : rank[x] = n
    BY <1>1 DEF Surjection
  <2>2. \A y \in S : rank[y] \in 1..N
    BY <1>1 DEF Surjection
  <2>3. \A y \in S : Cardinality(ahead[y]) = n - 1 <=> rank[y] = n
    <3> TAKE y \in S
    <3>1. IsFiniteSet(ahead[y])
      BY FS_Subset DEF StrictOrder
    <3>2. Cardinality(ahead[y]) \in Nat
      BY <3>1, FS_CardinalityType
    <3>3. rank[y] = Cardinality(ahead[y]) + 1
      BY DEF Ranks
    <3> HIDE DEF rank, N
    <3> QED BY <1>1, <3>2, <3>3
  <2>4. list[n] = CHOOSE y \in S : Cardinality(ahead[y]) = n - 1
    BY DEF Arranged
  <2> HIDE DEF list, rank
  <2> QED BY <2>1, <2>3, <2>4
<1>3. DOMAIN list = 1..N
  BY DEF Arranged
<1>4. list \in Seq(S) /\ Len(list) = N
  <2>1. list \in [1..N -> S]
    BY <1>2 DEF Arranged
  <2> HIDE DEF list, N
  <2> QED BY <1>1, <2>1
<1>5. \A x \in S : \E n \in 1..N : list[n] = x
  <2> TAKE x \in S
  <2>1. rank[x] \in 1..N
    BY <1>1 DEF Surjection
  <2>2. list[rank[x]] \in S /\ rank[list[rank[x]]] = rank[x]
    <3> HIDE DEF rank, list
    <3> QED BY <1>2, <2>1
  <2> HIDE DEF rank, list
  <2> QED BY <1>1, <2>1, <2>2
<1>6. ASSUME NEW m \in 1..N, NEW n \in 1..N, m < n
      PROVE  list[m] # list[n] /\ list[m] \in ahead[list[n]]
  <2>1. list[m] \in S /\ list[n] \in S /\ rank[list[m]] = m /\ rank[list[n]] = n
    BY <1>2
  <2>2. m # n /\ ~(n < m)
    BY <1>1, <1>6
  <2>3. list[n] \notin ahead[list[m]]
    <3> HIDE DEF list
    <3> QED BY <2>1, <2>2, RankGrows
  <2> HIDE DEF list
  <2> QED BY <2>1, <2>2, <2>3 DEF StrictOrder
<1> HIDE DEF list, N
<1> QED BY <1>3, <1>4, <1>5, <1>6 DEF IsArranged, N, list

-----------------------------------------------------------------------------
(* Induction over the natural numbers, over a set of them: what has 0, and *)
(* with every number the next, has every number.                           *)
LEMMA EveryNumber ==
  ASSUME NEW S, 0 \in S, \A n \in Nat : n \in S => n + 1 \in S
  PROVE  Nat \subseteq S
<1> DEFINE Less == {ss \in Nat \X Nat : ss[1] < ss[2]}
<1>1. IsWellFoundedOn(Less, Nat)
  BY NatLessThanWellFounded DEF OpToRel
<1> SUFFICES ASSUME Nat \ S # {} PROVE FALSE
  OBVIOUS
<1>2. PICK i \in Nat \ S : \A j \in Nat \ S : ~(<<j, i>> \in Less)
  <2> HIDE DEF Less
  <2> QED BY <1>1, WFMin
<1>3. \A j \in Nat \ S : ~(j < i)
  BY <1>2
<1> HIDE DEF Less
<1>4. i # 0 /\ i - 1 \in Nat /\ (i - 1) + 1 = i
  OBVIOUS
<1>5. i - 1 \in S
  BY <1>3, <1>4
<1> QED BY <1>4, <1>5

LEMMA CountedTo ==
  ASSUME NEW n \in Nat
  PROVE  IsFiniteSet(1..n) /\ Cardinality(1..n) = n
BY FS_Interval

LEMMA ItemIn ==
  ASSUME NEW T, NEW list \in Seq(T), NEW n \in DOMAIN list
  PROVE  list[n] \in T
OBVIOUS

-----------------------------------------------------------------------------
(* The first n items of a list, filtered: `from` says where each of them   *)
(* comes from.                                                             *)
KeptTo(list, places, g, n) ==
  IF n = 0 THEN <<>> ELSE IF n \in places THEN Append(g[n - 1], list[n]) ELSE g[n - 1]
Keeps(list, places, g) == g = [n \in 0..Len(list) |-> KeptTo(list, places, g, n)]

ComesFrom(kept, list, places, from) ==
  /\ from \in [1..Len(kept) -> places]
  /\ \A k \in 1..Len(kept) : kept[k] = list[from[k]]
  /\ \A k, l \in 1..Len(kept) : k < l => from[k] < from[l]
  /\ \A x \in places : \E k \in 1..Len(kept) : from[k] = x

KeepsTo(list, places, n, g) == g = [i \in 0..n |-> KeptTo(list, places, g, i)]

LEMMA KeepsToEach ==
  ASSUME NEW list, NEW places, NEW n, NEW g
  PROVE  KeepsTo(list, places, n, g)
           <=> g = [i \in 0..n |-> g[i]] /\ \A i \in 0..n : g[i] = KeptTo(list, places, g, i)
BY DEF KeepsTo

LEMMA KeepsExist ==
  ASSUME NEW list, NEW places, Len(list) \in Nat
  PROVE  \E g : Keeps(list, places, g)
<1> DEFINE S == {n \in Nat : \E g : KeepsTo(list, places, n, g)}
<1>1. 0 \in S
  <2> DEFINE g == [i \in 0..0 |-> <<>>]
  <2>1. g = [i \in 0..0 |-> g[i]] /\ \A i \in 0..0 : g[i] = KeptTo(list, places, g, i)
    BY DEF KeptTo
  <2> HIDE DEF g
  <2>2. KeepsTo(list, places, 0, g)
    BY <2>1, KeepsToEach
  <2> QED BY <2>2
<1>2. ASSUME NEW n \in Nat, n \in S PROVE n + 1 \in S
  <2>1. PICK g : KeepsTo(list, places, n, g)
    BY <1>2
  <2>2. \A i \in 0..n : g[i] = KeptTo(list, places, g, i)
    BY <2>1, KeepsToEach
  <2> DEFINE h == [i \in 0..(n + 1) |-> KeptTo(list, places, g, i)]
  <2>3. h = [i \in 0..(n + 1) |-> h[i]] /\ \A i \in 0..(n + 1) : h[i] = KeptTo(list, places, g, i)
    OBVIOUS
  <2> HIDE DEF h
  <2>4. \A i \in 0..n : h[i] = g[i]
    BY <2>2, <2>3
  <2>5. ASSUME NEW i \in 0..(n + 1) PROVE KeptTo(list, places, g, i) = KeptTo(list, places, h, i)
    <3>1. CASE i = 0
      BY <3>1 DEF KeptTo
    <3>2. CASE i # 0
      <4>1. i - 1 \in 0..n
        BY <3>2
      <4>2. h[i - 1] = g[i - 1]
        BY <2>4, <4>1
      <4> QED BY <4>2 DEF KeptTo
    <3> QED BY <3>1, <3>2
  <2>6. KeepsTo(list, places, n + 1, h)
    BY <2>3, <2>5, KeepsToEach
  <2>7. n + 1 \in Nat
    OBVIOUS
  <2> QED BY <2>6, <2>7
<1> HIDE DEF S
<1>3. Len(list) \in S
  BY <1>1, <1>2, EveryNumber
<1>4. PICK g : KeepsTo(list, places, Len(list), g)
  BY <1>3 DEF S
<1>5. Keeps(list, places, g)
  BY <1>4 DEF Keeps, KeepsTo
<1> QED BY <1>5

(* A list that is filtered holds the items at the places that are kept,    *)
(* each of them once, in the order of the list.                            *)
LEMMA KeptItems ==
  ASSUME NEW T, NEW list \in Seq(T), NEW places, places \subseteq DOMAIN list
  PROVE  /\ Kept(list, places) \in Seq(T) /\ Len(Kept(list, places)) <= Len(list)
         /\ \E from : ComesFrom(Kept(list, places), list, places, from)
<1> DEFINE m == Len(list)
           g == CHOOSE g : Keeps(list, places, g)
           S == {n \in Nat : n <= m =>
                   /\ g[n] \in Seq(T) /\ Len(g[n]) <= n
                   /\ \E from : ComesFrom(g[n], list, places \cap 1..n, from)}
<1>1. m \in Nat /\ places \subseteq 1..m /\ \A n \in 1..m : list[n] \in T
  OBVIOUS
<1>2. Keeps(list, places, g)
  BY KeepsExist
<1>3. Kept(list, places) = g[m]
  BY DEF Kept, Keeps, KeptTo
<1> HIDE DEF g, m
<1>4. \A n \in 0..m : g[n] = KeptTo(list, places, g, n)
  BY <1>2 DEF Keeps, m
<1>5. 0 \in S
  <2>1. g[0] = <<>>
    BY <1>1, <1>4 DEF KeptTo
  <2>2. places \cap 1..0 = {}
    OBVIOUS
  <2>3. ComesFrom(<<>>, list, {}, [k \in {} |-> 0])
    BY DEF ComesFrom
  <2>4. g[0] \in Seq(T) /\ Len(g[0]) <= 0
    BY <2>1
  <2>5. \E from : ComesFrom(g[0], list, places \cap 1..0, from)
    BY <2>1, <2>2, <2>3
  <2> QED BY <2>4, <2>5
<1> HIDE DEF S
<1>6. ASSUME NEW n \in Nat, n \in S PROVE n + 1 \in S
  <2>0. n + 1 \in Nat
    OBVIOUS
  <2> SUFFICES ASSUME n + 1 <= m
               PROVE  /\ g[n + 1] \in Seq(T) /\ Len(g[n + 1]) <= n + 1
                      /\ \E from : ComesFrom(g[n + 1], list, places \cap 1..(n + 1), from)
    BY <2>0 DEF S
  <2> DEFINE s == g[n]
             U == places \cap 1..n
             V == places \cap 1..(n + 1)
  <2>1. n <= m /\ n + 1 \in 1..m
    BY <1>1
  <2>2. s \in Seq(T) /\ Len(s) <= n
    BY <1>6, <2>1 DEF S
  <2>3. PICK from : ComesFrom(s, list, U, from)
    BY <1>6, <2>1 DEF S
  <2>4. g[n + 1] = IF n + 1 \in places THEN Append(s, list[n + 1]) ELSE s
    <3>1. n + 1 \in 0..m /\ n + 1 # 0 /\ (n + 1) - 1 = n
      BY <2>1
    <3> QED BY <1>4, <3>1 DEF KeptTo
  <2>5. CASE n + 1 \notin places
    <3>1. V = U
      BY <2>5
    <3>2. g[n + 1] = s /\ s \in Seq(T) /\ Len(s) <= n + 1
      BY <2>2, <2>4, <2>5
    <3>3. ComesFrom(g[n + 1], list, V, from)
      <4> HIDE DEF U, V, s
      <4> QED BY <2>3, <3>1, <3>2
    <3> QED BY <3>2, <3>3
  <2>6. CASE n + 1 \in places
    <3> DEFINE L == Len(s)
               x == list[n + 1]
               r == Append(s, x)
               f == [k \in 1..(L + 1) |-> IF k = L + 1 THEN n + 1 ELSE from[k]]
    <3>1. g[n + 1] = r
      BY <2>4, <2>6
    <3>2. V = U \cup {n + 1} /\ \A y \in U : y \in Int /\ y < n + 1
      BY <1>1, <2>6
    <3>3. x \in T
      BY <1>1, <2>1
    <3> HIDE DEF s, U, V, x
    <3>4. L \in Nat /\ r \in Seq(T) /\ Len(r) = L + 1 /\ r[L + 1] = x /\ \A k \in 1..L : r[k] = s[k]
      BY <2>2, <3>3
    <3>5. Len(r) <= n + 1
      BY <2>2, <3>4
    <3>6. /\ from \in [1..L -> U]
          /\ \A k \in 1..L : s[k] = list[from[k]]
          /\ \A k, l \in 1..L : k < l => from[k] < from[l]
          /\ \A y \in U : \E k \in 1..L : from[k] = y
      BY <2>3 DEF ComesFrom
    <3> HIDE DEF L, r
    <3>7. f \in [1..(L + 1) -> V] /\ f[L + 1] = n + 1 /\ \A k \in 1..L : f[k] = from[k] /\ from[k] \in U
      BY <3>2, <3>4, <3>6
    <3> HIDE DEF f
    <3>8. \A k \in 1..(L + 1) : k = L + 1 \/ k \in 1..L
      BY <3>4
    <3>9. \A k \in 1..(L + 1) : r[k] = list[f[k]]
      BY <3>4, <3>6, <3>7, <3>8 DEF x
    <3>10. \A k, l \in 1..(L + 1) : k < l => f[k] < f[l]
      <4> SUFFICES ASSUME NEW k \in 1..(L + 1), NEW l \in 1..(L + 1), k < l PROVE f[k] < f[l]
        OBVIOUS
      <4>1. k \in 1..L
        BY <3>4
      <4>2. CASE l = L + 1
        BY <3>2, <3>7, <4>1, <4>2
      <4>3. CASE l \in 1..L
        BY <3>6, <3>7, <4>1, <4>3
      <4> QED BY <3>8, <4>2, <4>3
    <3>11. \A y \in V : \E k \in 1..(L + 1) : f[k] = y
      <4> SUFFICES ASSUME NEW y \in V PROVE \E k \in 1..(L + 1) : f[k] = y
        OBVIOUS
      <4>1. CASE y = n + 1
        BY <3>4, <3>7, <4>1
      <4>2. CASE y \in U
        <5>1. PICK k \in 1..L : from[k] = y
          BY <3>6, <4>2
        <5>2. k \in 1..(L + 1) /\ f[k] = y
          BY <3>4, <3>7, <5>1
        <5> QED BY <5>2
      <4> QED BY <3>2, <4>1, <4>2
    <3>12. ComesFrom(r, list, V, f)
      BY <3>4, <3>7, <3>9, <3>10, <3>11 DEF ComesFrom
    <3> QED BY <3>1, <3>4, <3>5, <3>12 DEF V
  <2> QED BY <2>5, <2>6
<1>7. m \in S
  BY <1>1, <1>5, <1>6, EveryNumber
<1>8. places \cap 1..m = places
  BY <1>1
<1>9. g[m] \in Seq(T) /\ Len(g[m]) <= m /\ \E from : ComesFrom(g[m], list, places \cap 1..m, from)
  <2>1. m <= m
    BY <1>1
  <2> QED BY <1>7, <2>1 DEF S
<1>10. m = Len(list)
  BY DEF m
<1> QED BY <1>3, <1>8, <1>9, <1>10

(* What is kept is of the kind that the filter lets through.               *)
LEMMA KeptIn ==
  ASSUME NEW T, NEW list \in Seq(T), NEW places, places \subseteq DOMAIN list,
         NEW U, \A i \in places : list[i] \in U
  PROVE  Kept(list, places) \in Seq(U)
<1> DEFINE kept == Kept(list, places)
<1>1. kept \in Seq(T) /\ \E from : ComesFrom(kept, list, places, from)
  BY KeptItems
<1>2. PICK from : ComesFrom(kept, list, places, from)
  BY <1>1
<1> HIDE DEF kept
<1>3. \A k \in 1..Len(kept) : kept[k] \in U
  BY <1>2 DEF ComesFrom
<1>4. kept \in Seq(U)
  BY <1>1, <1>3
<1> QED BY <1>4 DEF kept

-----------------------------------------------------------------------------
(* A function that is defined step by step, of values in S, exists.        *)
Steps(S, z, step, n, g) ==
  g \in [0..n -> S] /\ g[0] = z /\ \A i \in 1..n : g[i] = step[<<i, g[i - 1]>>]

LEMMA StepsExist ==
  ASSUME NEW S, NEW z \in S, NEW step, step \in [Nat \X S -> S], NEW N \in Nat
  PROVE  \E g : Steps(S, z, step, N, g)
<1> DEFINE T == {n \in Nat : \E g : Steps(S, z, step, n, g)}
<1>1. 0 \in T
  <2> DEFINE g == [i \in 0..0 |-> z]
  <2>1. Steps(S, z, step, 0, g)
    BY DEF Steps
  <2> HIDE DEF g
  <2> QED BY <2>1
<1>2. ASSUME NEW n \in Nat, n \in T PROVE n + 1 \in T
  <2>1. PICK g : Steps(S, z, step, n, g)
    BY <1>2
  <2>0. g \in [0..n -> S] /\ g[0] = z /\ \A i \in 1..n : g[i] = step[<<i, g[i - 1]>>]
    BY <2>1 DEF Steps
  <2> DEFINE h == [i \in 0..(n + 1) |-> IF i = n + 1 THEN step[<<n + 1, g[n]>>] ELSE g[i]]
  <2>2. step[<<n + 1, g[n]>>] \in S
    BY <2>0
  <2>3. \A i \in 0..n : h[i] = g[i] /\ g[i] \in S
    BY <2>0
  <2>4. h[n + 1] = step[<<n + 1, g[n]>>]
    OBVIOUS
  <2>5. h \in [0..(n + 1) -> S]
    BY <2>0, <2>2
  <2> HIDE DEF h
  <2>6. ASSUME NEW i \in 1..(n + 1) PROVE h[i] = step[<<i, h[i - 1]>>]
    <3>1. i - 1 \in 0..n /\ h[i - 1] = g[i - 1]
      BY <2>3
    <3>2. CASE i = n + 1
      BY <2>4, <3>1, <3>2
    <3>3. CASE i # n + 1
      BY <2>0, <2>3, <3>1, <3>3
    <3> QED BY <3>2, <3>3
  <2>7. h[0] = z
    BY <2>0, <2>3
  <2>8. Steps(S, z, step, n + 1, h)
    BY <2>5, <2>6, <2>7 DEF Steps
  <2> QED BY <2>8
<1> HIDE DEF T
<1>3. N \in T
  BY <1>1, <1>2, EveryNumber
<1> QED BY <1>3 DEF T

JoinTo(lists, g, n) == IF n = 0 THEN <<>> ELSE g[n - 1] \o lists[n]
Joins(lists, g) == g = [n \in 0..Len(lists) |-> JoinTo(lists, g, n)]

LEMMA JoinsEach ==
  ASSUME NEW lists, NEW g
  PROVE  Joins(lists, g)
           <=> g = [n \in 0..Len(lists) |-> g[n]] /\ \A n \in 0..Len(lists) : g[n] = JoinTo(lists, g, n)
BY DEF Joins

(* Joining gives what has the empty list and, with every list, that list   *)
(* with another of those that are joined at its end.                       *)
LEMMA JoinedBy ==
  ASSUME NEW U, NEW lists, Len(lists) \in Nat, <<>> \in U,
         \A s \in U : \A n \in 1..Len(lists) : s \o lists[n] \in U
  PROVE  Joined(lists) \in U
<1> DEFINE N == Len(lists)
           g == CHOOSE g : Joins(lists, g)
<1>0. N \in Nat /\ \A s \in U : \A n \in 1..N : s \o lists[n] \in U
  OBVIOUS
<1> HIDE DEF N
<1>1. \E f : Joins(lists, f)
  <2> DEFINE step == [p \in Nat \X U |-> IF p[1] \in 1..N THEN p[2] \o lists[p[1]] ELSE p[2]]
  <2>1. step \in [Nat \X U -> U]
    <3>1. ASSUME NEW p \in Nat \X U
          PROVE  (IF p[1] \in 1..N THEN p[2] \o lists[p[1]] ELSE p[2]) \in U
      <4>1. p[2] \in U
        OBVIOUS
      <4>2. ASSUME p[1] \in 1..N PROVE p[2] \o lists[p[1]] \in U
        BY <1>0, <4>1, <4>2
      <4> QED BY <4>1, <4>2
    <3> QED BY <3>1
  <2>2. ASSUME NEW n \in 1..N, NEW s \in U PROVE step[<<n, s>>] = s \o lists[n]
    <3>1. <<n, s>> \in Nat \X U /\ <<n, s>>[1] = n /\ <<n, s>>[2] = s
      OBVIOUS
    <3> QED BY <3>1
  <2> HIDE DEF step
  <2>3. <<>> \in U
    OBVIOUS
  <2>4. PICK f \in [0..N -> U] : f[0] = <<>> /\ \A n \in 1..N : f[n] = step[<<n, f[n - 1]>>]
    <3> DEFINE z == <<>>
    <3>1. N \in Nat /\ z \in U /\ step \in [Nat \X U -> U]
      BY <1>0, <2>1, <2>3
    <3> HIDE DEF z
    <3>2. PICK f : Steps(U, z, step, N, f)
      BY <3>1, StepsExist
    <3> QED BY <3>2 DEF z, Steps
  <2>5. ASSUME NEW n \in 0..N PROVE f[n] = JoinTo(lists, f, n)
    <3>1. CASE n = 0
      BY <2>4, <3>1 DEF JoinTo
    <3>2. CASE n # 0
      <4>1. n \in 1..N /\ n - 1 \in 0..N
        BY <1>0, <3>2
      <4>2. f[n] = f[n - 1] \o lists[n]
        BY <2>2, <2>4, <4>1
      <4> QED BY <3>2, <4>2 DEF JoinTo
    <3> QED BY <3>1, <3>2
  <2>6. f = [n \in 0..N |-> f[n]]
    BY <2>4
  <2>7. Joins(lists, f)
    BY <2>5, <2>6, JoinsEach DEF N
  <2> QED BY <2>7
<1>2. Joins(lists, g)
  BY <1>1
<1>3. Joined(lists) = g[N]
  BY DEF Joined, Joins, JoinTo, N
<1>4. \A n \in 0..N : g[n] = JoinTo(lists, g, n)
  BY <1>2, JoinsEach DEF N
<1> HIDE DEF g
<1> DEFINE S == {n \in Nat : n <= N => g[n] \in U}
<1>5. 0 \in S
  <2>1. g[0] = JoinTo(lists, g, 0)
    BY <1>0, <1>4
  <2>2. g[0] = <<>>
    BY <2>1 DEF JoinTo
  <2>3. <<>> \in U
    OBVIOUS
  <2> QED BY <2>2, <2>3
<1>6. ASSUME NEW n \in Nat, n \in S PROVE n + 1 \in S
  <2>1. SUFFICES ASSUME n + 1 <= N PROVE g[n + 1] \in U
    OBVIOUS
  <2> DEFINE m == n + 1
  <2>2. m \in 0..N /\ m # 0 /\ m \in 1..N /\ m - 1 = n
    BY <1>0, <2>1
  <2>3. g[n] \in U
    BY <1>0, <1>6, <2>1
  <2> HIDE DEF m
  <2>4. g[m] = JoinTo(lists, g, m)
    BY <1>4, <2>2
  <2>5. g[m] = g[m - 1] \o lists[m]
    BY <2>2, <2>4 DEF JoinTo
  <2>6. g[m - 1] \in U
    BY <2>2, <2>3
  <2>7. g[m] \in U
    BY <1>0, <2>2, <2>5, <2>6
  <2> QED BY <2>7 DEF m
<1> HIDE DEF S
<1>7. N \in S
  BY <1>0, <1>5, <1>6, EveryNumber
<1> QED BY <1>0, <1>3, <1>7 DEF S

(* Lists of one kind make a list of that kind.                             *)
LEMMA JoinedIn ==
  ASSUME NEW T, NEW lists, Len(lists) \in Nat, \A n \in 1..Len(lists) : lists[n] \in Seq(T)
  PROVE  Joined(lists) \in Seq(T)
<1>1. \A s \in Seq(T) : \A n \in 1..Len(lists) : s \o lists[n] \in Seq(T)
  <2> TAKE s \in Seq(T)
  <2> TAKE n \in 1..Len(lists)
  <2>1. lists[n] \in Seq(T)
    OBVIOUS
  <2> QED BY <2>1
<1>2. <<>> \in Seq(T)
  OBVIOUS
<1> DEFINE U == Seq(T)
<1>3. <<>> \in U /\ \A s \in U : \A n \in 1..Len(lists) : s \o lists[n] \in U
  BY <1>1, <1>2
<1> HIDE DEF U
<1>4. Joined(lists) \in U
  BY <1>3, JoinedBy
<1> QED BY <1>4 DEF U

(* Sorting keeps each place once, no score is above an earlier one, and    *)
(* what scores the same keeps its order.                                   *)
LEMMA BestScored ==
  ASSUME NEW places, places \subseteq Nat, IsFiniteSet(places),
         NEW score, \A x \in places : score[x] \in Int
  PROVE  /\ ByScore(score, places) \in Seq(places)
         /\ Len(ByScore(score, places)) = Cardinality(places) /\ Cardinality(places) \in Nat
         /\ \A x \in places : \E n \in DOMAIN ByScore(score, places) : ByScore(score, places)[n] = x
         /\ \A m, n \in DOMAIN ByScore(score, places) : m < n =>
              /\ ByScore(score, places)[m] # ByScore(score, places)[n]
              /\ score[ByScore(score, places)[m]] >= score[ByScore(score, places)[n]]
              /\ score[ByScore(score, places)[m]] = score[ByScore(score, places)[n]]
                   => ByScore(score, places)[m] < ByScore(score, places)[n]
<1> DEFINE ahead == [j \in places |->
                       {i \in places : score[i] > score[j] \/ (score[i] = score[j] /\ i < j)}]
<1>1. \A x, y \in places :
        x \in ahead[y] <=> score[x] > score[y] \/ (score[x] = score[y] /\ x < y)
  OBVIOUS
<1>2. StrictOrder(places, ahead)
  <2>1. \A x \in places : ahead[x] \in SUBSET places
    OBVIOUS
  <2> HIDE DEF ahead
  <2>2. \A x \in places : x \notin ahead[x]
    BY <1>1
  <2>3. \A x, y, z \in places : x \in ahead[y] /\ y \in ahead[z] => x \in ahead[z]
    BY <1>1
  <2>4. ASSUME NEW x \in places, NEW y \in places, x # y PROVE x \in ahead[y] \/ y \in ahead[x]
    <3>1. score[x] \in Int /\ score[y] \in Int /\ x \in Nat /\ y \in Nat
      OBVIOUS
    <3>2. \/ score[x] > score[y] \/ score[y] > score[x]
          \/ (score[x] = score[y] /\ x < y) \/ (score[y] = score[x] /\ y < x)
      BY <2>4, <3>1
    <3> QED BY <1>1, <3>2
  <2> QED BY <2>1, <2>2, <2>3, <2>4 DEF StrictOrder
<1>3. ByScore(score, places) = Arranged(places, ahead)
  BY DEF ByScore, Arranged
<1> DEFINE list == ByScore(score, places)
<1> HIDE DEF ahead
<1>4. IsArranged(list, places, ahead)
  BY <1>2, <1>3, ArrangedIs
<1>5. \A n \in DOMAIN list : list[n] \in places
  BY <1>4 DEF IsArranged
<1>6. Cardinality(places) \in Nat
  BY FS_CardinalityType
<1>7. \A m, n \in DOMAIN list : m < n => /\ score[list[m]] >= score[list[n]]
                                         /\ score[list[m]] = score[list[n]] => list[m] < list[n]
  <2> SUFFICES ASSUME NEW m \in DOMAIN list, NEW n \in DOMAIN list, m < n
               PROVE  /\ score[list[m]] >= score[list[n]]
                      /\ score[list[m]] = score[list[n]] => list[m] < list[n]
    OBVIOUS
  <2>1. list[m] \in ahead[list[n]]
    BY <1>4 DEF IsArranged
  <2>2. list[m] \in places /\ list[n] \in places
    BY <1>5
  <2> HIDE DEF list
  <2>3. score[list[m]] \in Int /\ score[list[n]] \in Int
    BY <2>2
  <2>4. \/ score[list[m]] > score[list[n]]
        \/ (score[list[m]] = score[list[n]] /\ list[m] < list[n])
    BY <1>1, <2>1, <2>2
  <2> QED BY <2>3, <2>4
<1> QED BY <1>4, <1>6, <1>7 DEF IsArranged

-----------------------------------------------------------------------------
(* The sum of f over a finite set, as the library's MapThenSumSet takes    *)
(* it: g adds up the subsets of T that have at most n members.             *)
PartsUpTo(T, n) == {s \in SUBSET T : Cardinality(s) <= n}
SumOf(f, g, s) == IF s = {} THEN 0 ELSE LET x == CHOOSE x \in s : TRUE IN f[x] + g[s \ {x}]
AddsUp(f, U, g) == g = [s \in U |-> SumOf(f, g, s)]
SumOver(f, T) == LET g == CHOOSE g : AddsUp(f, SUBSET T, g) IN g[T]

LEMMA AddsUpEach ==
  ASSUME NEW f, NEW U, NEW g
  PROVE  AddsUp(f, U, g) <=> g = [s \in U |-> g[s]] /\ \A s \in U : g[s] = SumOf(f, g, s)
BY DEF AddsUp

(* One member less is what is added up before. *)
LEMMA OneLess ==
  ASSUME NEW T, IsFiniteSet(T), NEW n \in Nat, NEW s \in PartsUpTo(T, n + 1), s # {}
  PROVE  /\ (CHOOSE x \in s : TRUE) \in s
         /\ s \ {CHOOSE x \in s : TRUE} \in PartsUpTo(T, n)
<1> DEFINE x == CHOOSE x \in s : TRUE
<1>1. x \in s
  OBVIOUS
<1>2. s \in SUBSET T /\ IsFiniteSet(s) /\ Cardinality(s) <= n + 1
  BY FS_Subset DEF PartsUpTo
<1> HIDE DEF x
<1>3. Cardinality(s) \in Nat /\ Cardinality(s \ {x}) = Cardinality(s) - 1
  BY <1>1, <1>2, FS_CardinalityType, FS_RemoveElement
<1>4. s \ {x} \in PartsUpTo(T, n)
  BY <1>2, <1>3 DEF PartsUpTo
<1> QED BY <1>1, <1>4 DEF x

LEMMA SumsExist ==
  ASSUME NEW T, IsFiniteSet(T), NEW f
  PROVE  \E g : AddsUp(f, SUBSET T, g)
<1> DEFINE S == {n \in Nat : \E g : AddsUp(f, PartsUpTo(T, n), g)}
<1>0. \A s \in SUBSET T : IsFiniteSet(s) /\ Cardinality(s) \in Nat /\ Cardinality(s) <= Cardinality(T)
  BY FS_Subset, FS_CardinalityType
<1>1. 0 \in S
  <2> DEFINE g == [s \in PartsUpTo(T, 0) |-> 0]
  <2>1. \A s \in PartsUpTo(T, 0) : s = {}
    BY <1>0, FS_EmptySet DEF PartsUpTo
  <2>2. AddsUp(f, PartsUpTo(T, 0), g)
    BY <2>1, AddsUpEach DEF SumOf
  <2> HIDE DEF g
  <2> QED BY <2>2
<1>2. ASSUME NEW n \in Nat, n \in S PROVE n + 1 \in S
  <2> DEFINE U == PartsUpTo(T, n)
             V == PartsUpTo(T, n + 1)
  <2>1. PICK g : AddsUp(f, U, g)
    BY <1>2
  <2>2. \A s \in U : g[s] = SumOf(f, g, s)
    BY <2>1, AddsUpEach
  <2>3. U \subseteq V
    BY <1>0 DEF PartsUpTo
  <2> DEFINE h == [s \in V |-> SumOf(f, g, s)]
  <2>4. h = [s \in V |-> h[s]] /\ \A s \in V : h[s] = SumOf(f, g, s)
    OBVIOUS
  <2> HIDE DEF h
  <2>5. \A s \in U : h[s] = g[s]
    BY <2>2, <2>3, <2>4
  <2>6. ASSUME NEW s \in V PROVE SumOf(f, g, s) = SumOf(f, h, s)
    <3>1. CASE s = {}
      BY <3>1 DEF SumOf
    <3>2. CASE s # {}
      <4> DEFINE x == CHOOSE x \in s : TRUE
      <4>1. s \ {x} \in U
        BY <3>2, OneLess
      <4>2. h[s \ {x}] = g[s \ {x}]
        BY <2>5, <4>1
      <4> QED BY <3>2, <4>2 DEF SumOf
    <3> QED BY <3>1, <3>2
  <2>7. AddsUp(f, V, h)
    <3> HIDE DEF V
    <3> QED BY <2>4, <2>6, AddsUpEach
  <2> QED BY <2>7
<1> HIDE DEF S
<1>3. Cardinality(T) \in S
  BY <1>0, <1>1, <1>2, EveryNumber, FS_CardinalityType
<1>4. PartsUpTo(T, Cardinality(T)) = SUBSET T
  BY <1>0 DEF PartsUpTo
<1> QED BY <1>3, <1>4 DEF S

LEMMA AddedNat ==
  ASSUME NEW T, IsFiniteSet(T), NEW f, \A x \in T : f[x] \in Nat, NEW g, AddsUp(f, SUBSET T, g)
  PROVE  \A s \in SUBSET T : g[s] \in Nat
<1> DEFINE S == {n \in Nat : \A s \in PartsUpTo(T, n) : g[s] \in Nat}
<1>0. \A s \in SUBSET T : IsFiniteSet(s) /\ Cardinality(s) \in Nat /\ Cardinality(s) <= Cardinality(T)
  BY FS_Subset, FS_CardinalityType
<1>2. \A s \in SUBSET T : g[s] = SumOf(f, g, s)
  BY AddsUpEach
<1>3. 0 \in S
  <2>1. \A s \in PartsUpTo(T, 0) : s = {}
    BY <1>0, FS_EmptySet DEF PartsUpTo
  <2>2. {} \in SUBSET T /\ SumOf(f, g, {}) = 0
    BY DEF SumOf
  <2>3. g[{}] = 0
    BY <1>2, <2>2
  <2>4. \A s \in PartsUpTo(T, 0) : g[s] = 0
    BY <2>1, <2>3, Zenon
  <2>5. \A s \in PartsUpTo(T, 0) : g[s] \in Nat
    BY <2>4
  <2> QED BY <2>5
<1>4. ASSUME NEW n \in Nat, n \in S PROVE n + 1 \in S
  <2> SUFFICES ASSUME NEW s \in PartsUpTo(T, n + 1) PROVE g[s] \in Nat
    OBVIOUS
  <2>1. s \in SUBSET T /\ g[s] = SumOf(f, g, s)
    BY <1>2 DEF PartsUpTo
  <2>2. CASE s = {}
    BY <2>1, <2>2 DEF SumOf
  <2>3. CASE s # {}
    <3> DEFINE x == CHOOSE x \in s : TRUE
    <3>1. x \in s /\ s \ {x} \in PartsUpTo(T, n)
      BY <2>3, OneLess
    <3>2. f[x] \in Nat /\ g[s \ {x}] \in Nat
      BY <1>4, <2>1, <3>1
    <3>3. g[s] = f[x] + g[s \ {x}]
      BY <2>1, <2>3 DEF SumOf
    <3> HIDE DEF x
    <3> QED BY <3>2, <3>3
  <2> QED BY <2>2, <2>3
<1> HIDE DEF S
<1>5. Cardinality(T) \in S
  BY <1>0, <1>3, <1>4, EveryNumber, FS_CardinalityType
<1> QED BY <1>0, <1>5 DEF S, PartsUpTo

LEMMA SumNat ==
  ASSUME NEW T, IsFiniteSet(T), NEW f, \A x \in T : f[x] \in Nat
  PROVE  SumOver(f, T) \in Nat
<1> DEFINE g == CHOOSE g : AddsUp(f, SUBSET T, g)
<1>1. AddsUp(f, SUBSET T, g)
  BY SumsExist
<1> HIDE DEF g
<1>2. g[T] \in Nat
  BY <1>1, AddedNat
<1> QED BY <1>2 DEF SumOver, g

-----------------------------------------------------------------------------
(* What a function makes of a finite set is finite.                        *)
LEMMA ImageFinite ==
  ASSUME NEW S, IsFiniteSet(S), NEW f, DOMAIN f = S
  PROVE  IsFiniteSet({f[x] : x \in S})
<1> DEFINE T == {f[x] : x \in S}
           g == [x \in S |-> f[x]]
<1>1. g \in Surjection(S, T)
  BY DEF Surjection
<1> QED BY <1>1, FS_Surjection
-----------------------------------------------------------------------------
(* Any set of natural numbers that has some has a least.                   *)
LEMMA LeastOf ==
  ASSUME NEW S, S \subseteq Nat, S # {}
  PROVE  \E x \in S : \A y \in S : x <= y
<1> DEFINE Less == {ss \in Nat \X Nat : ss[1] < ss[2]}
<1>1. IsWellFoundedOn(Less, Nat)
  BY NatLessThanWellFounded DEF OpToRel
<1>2. PICK i \in S : \A j \in S : ~(<<j, i>> \in Less)
  <2> HIDE DEF Less
  <2> QED BY <1>1, WFMin
<1>3. \A j \in S : ~(j < i)
  BY <1>2
<1>4. \A j \in S : j \in Nat /\ i \in Nat
  BY <1>2
<1> HIDE DEF Less
<1> QED BY <1>2, <1>3, <1>4

(* What is ahead in a list and scores no less stays ahead.                 *)
LEMMA StaysAhead ==
  ASSUME NEW places, places \subseteq Nat, IsFiniteSet(places),
         NEW score, \A x \in places : score[x] \in Int,
         NEW x \in places, NEW y \in places, x < y, score[x] >= score[y],
         NEW n \in DOMAIN ByScore(score, places), ByScore(score, places)[n] = y
  PROVE  \E m \in DOMAIN ByScore(score, places) : m < n /\ ByScore(score, places)[m] = x
<1> DEFINE order == ByScore(score, places)
<1>1. PICK m \in DOMAIN order : order[m] = x
  BY BestScored
<1>2. order \in Seq(places)
  BY BestScored
<1>3. n < m => score[y] >= score[x] /\ (score[y] = score[x] => y < x)
  BY <1>1, BestScored
<1> HIDE DEF order
<1>4. m \in Nat /\ n \in Nat
  BY <1>2 DEF order
<1>5. x \in Nat /\ y \in Nat /\ score[x] \in Int /\ score[y] \in Int
  OBVIOUS
<1>6. ~(n < m)
  BY <1>3, <1>5
<1>7. m # n
  BY <1>1, <1>5 DEF order
<1> QED BY <1>1, <1>4, <1>6, <1>7 DEF order

-----------------------------------------------------------------------------
(* Sums do not depend on what is added first, nor on what else there is.   *)
AnyFirst(f, U, g) == \A s \in U : \A x \in s : g[s] = f[x] + g[s \ {x}]

LEMMA AddsAny ==
  ASSUME NEW T, IsFiniteSet(T), NEW f, \A x \in T : f[x] \in Nat, NEW g, AddsUp(f, SUBSET T, g)
  PROVE  AnyFirst(f, SUBSET T, g)
<1> DEFINE S == {n \in Nat : \A s \in PartsUpTo(T, n) : \A x \in s : g[s] = f[x] + g[s \ {x}]}
<1>0. \A s \in SUBSET T : IsFiniteSet(s) /\ Cardinality(s) \in Nat /\ Cardinality(s) <= Cardinality(T)
  BY FS_Subset, FS_CardinalityType
<1>1. \A s \in SUBSET T : g[s] = SumOf(f, g, s) /\ g[s] \in Nat
  BY AddsUpEach, AddedNat
<1>2. 0 \in S
  <2>1. \A s \in PartsUpTo(T, 0) : s = {}
    BY <1>0, FS_EmptySet DEF PartsUpTo
  <2> QED BY <2>1
<1>3. ASSUME NEW n \in Nat, n \in S PROVE n + 1 \in S
  <2> SUFFICES ASSUME NEW s \in PartsUpTo(T, n + 1), NEW x \in s PROVE g[s] = f[x] + g[s \ {x}]
    OBVIOUS
  <2> DEFINE y == CHOOSE y \in s : TRUE
  <2>1. s \in SUBSET T /\ s # {}
    BY DEF PartsUpTo
  <2>2. y \in s /\ s \ {y} \in PartsUpTo(T, n)
    BY <2>1, OneLess
  <2>3. g[s] = f[y] + g[s \ {y}]
    BY <1>1, <2>1 DEF SumOf
  <2> HIDE DEF y
  <2>4. CASE x = y
    BY <2>3, <2>4
  <2>5. CASE x # y
    <3>1. Cardinality(s) \in Nat /\ Cardinality(s) <= n + 1 /\ IsFiniteSet(s)
      BY <1>0 DEF PartsUpTo
    <3>2. Cardinality(s \ {x}) = Cardinality(s) - 1
      BY <3>1, FS_RemoveElement
    <3>3. s \ {x} \in PartsUpTo(T, n)
      BY <2>1, <3>1, <3>2 DEF PartsUpTo
    <3>4. g[s \ {y}] = f[x] + g[(s \ {y}) \ {x}]
      <4>1. x \in s \ {y}
        BY <2>5
      <4> QED BY <1>3, <2>2, <4>1
    <3>5. g[s \ {x}] = f[y] + g[(s \ {x}) \ {y}]
      <4>1. y \in s \ {x}
        BY <2>2, <2>5
      <4> QED BY <1>3, <3>3, <4>1
    <3>6. (s \ {y}) \ {x} = (s \ {x}) \ {y}
      OBVIOUS
    <3>7. f[x] \in Nat /\ f[y] \in Nat /\ g[(s \ {x}) \ {y}] \in Nat
      <4>1. (s \ {x}) \ {y} \in SUBSET T /\ x \in T /\ y \in T
        BY <2>1, <2>2
      <4> QED BY <1>1, <4>1
    <3> DEFINE rest == g[(s \ {x}) \ {y}]
    <3>8. g[s] = f[y] + (f[x] + rest) /\ g[s \ {x}] = f[y] + rest /\ rest \in Nat
      BY <2>3, <3>4, <3>5, <3>6, <3>7
    <3> HIDE DEF rest
    <3> QED BY <3>7, <3>8
  <2> QED BY <2>4, <2>5
<1> HIDE DEF S
<1>4. Cardinality(T) \in S
  BY <1>0, <1>2, <1>3, EveryNumber, FS_CardinalityType
<1>5. \A s \in SUBSET T : \A x \in s : g[s] = f[x] + g[s \ {x}]
  BY <1>0, <1>4 DEF S, PartsUpTo
<1> QED BY <1>5 DEF AnyFirst

LEMMA AddsSame ==
  ASSUME NEW T, IsFiniteSet(T), NEW f, NEW A \in SUBSET T,
         NEW g, AddsUp(f, SUBSET T, g), NEW h, AddsUp(f, SUBSET A, h)
  PROVE  h[A] = g[A]
<1> DEFINE S == {n \in Nat : \A s \in PartsUpTo(A, n) : h[s] = g[s]}
<1>0. IsFiniteSet(A) /\ \A s \in SUBSET A : Cardinality(s) \in Nat /\ Cardinality(s) <= Cardinality(A)
  BY FS_Subset, FS_CardinalityType
<1>1. \A s \in SUBSET A : g[s] = SumOf(f, g, s) /\ h[s] = SumOf(f, h, s)
  BY AddsUpEach
<1>2. 0 \in S
  <2>1. \A s \in PartsUpTo(A, 0) : s = {}
    <3>1. \A s \in SUBSET A : IsFiniteSet(s)
      BY <1>0, FS_Subset
    <3> QED BY <1>0, <3>1, FS_EmptySet DEF PartsUpTo
  <2>2. {} \in SUBSET A /\ SumOf(f, g, {}) = 0 /\ SumOf(f, h, {}) = 0
    BY DEF SumOf
  <2>3. g[{}] = h[{}]
    BY <1>1, <2>2
  <2> QED BY <2>1, <2>3
<1>3. ASSUME NEW n \in Nat, n \in S PROVE n + 1 \in S
  <2> SUFFICES ASSUME NEW s \in PartsUpTo(A, n + 1) PROVE h[s] = g[s]
    OBVIOUS
  <2>1. s \in SUBSET A
    BY DEF PartsUpTo
  <2>2. CASE s = {}
    BY <1>1, <2>1, <2>2 DEF SumOf
  <2>3. CASE s # {}
    <3>1. s \ {CHOOSE x \in s : TRUE} \in PartsUpTo(A, n)
      BY <1>0, <2>3, OneLess
    <3>2. h[s \ {CHOOSE x \in s : TRUE}] = g[s \ {CHOOSE x \in s : TRUE}]
      BY <1>3, <3>1
    <3> QED BY <1>1, <2>1, <2>3, <3>2 DEF SumOf
  <2> QED BY <2>2, <2>3
<1> HIDE DEF S
<1>4. Cardinality(A) \in S
  BY <1>0, <1>2, <1>3, EveryNumber
<1>5. A \in PartsUpTo(A, Cardinality(A))
  BY <1>0 DEF PartsUpTo
<1> QED BY <1>4, <1>5 DEF S

(* A sum is no less than another each of whose members has one of its own  *)
(* here that is no less.                                                   *)
LEMMA SumGrows ==
  ASSUME NEW A, IsFiniteSet(A), NEW B, IsFiniteSet(B), NEW f, \A x \in A \cup B : f[x] \in Nat,
         NEW h, \A x \in A : h[x] \in B /\ f[x] <= f[h[x]],
         \A x, y \in A : h[x] = h[y] => x = y
  PROVE  SumOver(f, A) <= SumOver(f, B)
<1> DEFINE T == A \cup B
           g == CHOOSE g : AddsUp(f, SUBSET T, g)
           S == {n \in Nat : \A a \in PartsUpTo(A, n) : \A b \in SUBSET B :
                   (\A x \in a : h[x] \in b) => g[a] <= g[b]}
<1>1. IsFiniteSet(T)
  BY FS_Union
<1>2. AddsUp(f, SUBSET T, g)
  BY <1>1, SumsExist
<1> HIDE DEF g
<1>3. \A s \in SUBSET T : g[s] \in Nat /\ \A x \in s : g[s] = f[x] + g[s \ {x}]
  <2>1. \A x \in T : f[x] \in Nat
    OBVIOUS
  <2> HIDE DEF T
  <2>2. \A s \in SUBSET T : g[s] \in Nat
    BY <1>1, <1>2, <2>1, AddedNat
  <2>3. AnyFirst(f, SUBSET T, g)
    BY <1>1, <1>2, <2>1, AddsAny
  <2> QED BY <2>2, <2>3 DEF AnyFirst
<1>4. g[{}] = 0
  <2>1. g[{}] = SumOf(f, g, {})
    BY <1>2, AddsUpEach
  <2> QED BY <2>1 DEF SumOf
<1>5. \A s \in SUBSET A : IsFiniteSet(s) /\ Cardinality(s) \in Nat /\ Cardinality(s) <= Cardinality(A)
  BY FS_Subset, FS_CardinalityType
<1>6. 0 \in S
  <2>1. \A s \in PartsUpTo(A, 0) : s = {}
    BY <1>5, FS_EmptySet DEF PartsUpTo
  <2>2. \A b \in SUBSET B : g[{}] <= g[b]
    <3>1. \A b \in SUBSET B : g[b] \in Nat
      BY <1>3
    <3> QED BY <1>4, <3>1
  <2>3. \A a \in PartsUpTo(A, 0) : \A b \in SUBSET B : g[a] <= g[b]
    BY <2>1, <2>2, Zenon
  <2> QED BY <2>3
<1>7. ASSUME NEW n \in Nat, n \in S PROVE n + 1 \in S
  <2> SUFFICES ASSUME NEW a \in PartsUpTo(A, n + 1), NEW b \in SUBSET B, \A x \in a : h[x] \in b
               PROVE  g[a] <= g[b]
    OBVIOUS
  <2>1. a \in SUBSET A /\ g[b] \in Nat
    BY <1>3 DEF PartsUpTo
  <2>2. CASE a = {}
    BY <1>4, <2>1, <2>2
  <2>3. CASE a # {}
    <3> DEFINE x == CHOOSE x \in a : TRUE
               y == h[x]
    <3>1. x \in a /\ a \ {x} \in PartsUpTo(A, n)
      BY <2>3, OneLess
    <3> HIDE DEF x
    <3>2. y \in b /\ b \ {y} \in SUBSET B /\ \A z \in a \ {x} : h[z] \in b \ {y}
      BY <2>1, <3>1
    <3>3. f[x] <= f[y] /\ f[x] \in Nat /\ f[y] \in Nat
      BY <2>1, <3>1
    <3> HIDE DEF y
    <3>4. g[a \ {x}] <= g[b \ {y}]
      BY <1>7, <3>1, <3>2
    <3>5. g[a] = f[x] + g[a \ {x}] /\ g[a \ {x}] \in Nat
      BY <1>3, <2>1, <3>1
    <3>6. g[b] = f[y] + g[b \ {y}] /\ g[b \ {y}] \in Nat
      BY <1>3, <3>2
    <3> QED BY <3>3, <3>4, <3>5, <3>6
  <2> QED BY <2>2, <2>3
<1> HIDE DEF S
<1>8. Cardinality(A) \in S
  BY <1>5, <1>6, <1>7, EveryNumber
<1>9. A \in PartsUpTo(A, Cardinality(A))
  BY <1>5 DEF PartsUpTo
<1>10. g[A] <= g[B]
  BY <1>8, <1>9 DEF S
<1>11. ASSUME NEW C \in SUBSET T PROVE SumOver(f, C) = g[C]
  <2> DEFINE k == CHOOSE k : AddsUp(f, SUBSET C, k)
  <2>1. IsFiniteSet(C)
    BY <1>1, FS_Subset
  <2>2. AddsUp(f, SUBSET C, k)
    BY <2>1, SumsExist
  <2>3. SumOver(f, C) = k[C]
    BY DEF SumOver
  <2> HIDE DEF k, T
  <2> QED BY <1>1, <1>2, <2>2, <2>3, AddsSame
<1> QED BY <1>10, <1>11

(* Scores keep their order when they are weighed alike, and a part of what *)
(* is shared by fewer is no smaller.                                       *)
LEMMA WeighsAlike ==
  ASSUME NEW a \in Int, NEW b \in Int, a >= b, NEW c \in Nat
  PROVE  a * c >= b * c
OBVIOUS

LEMMA SharedByFewer ==
  ASSUME NEW a \in Nat, NEW b \in Nat \ {0}, NEW c \in Nat \ {0}, b <= c
  PROVE  a \div c <= a \div b
OBVIOUS
================================================================================
