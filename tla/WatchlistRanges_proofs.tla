----------------------- MODULE WatchlistRanges_proofs -----------------------
(***************************************************************************)
(* merge_ranges and subtract_ranges are exact, for every finite set of     *)
(* ranges and every window.                                                *)
(*                                                                         *)
(* The induction over the ranges is by the least number principle: the     *)
(* numbers of steps after which a claim fails are a set of naturals, which *)
(* has a least element if it has any.                                      *)
(***************************************************************************)
EXTENDS WatchlistRanges, FiniteSetTheorems, WellFoundedInduction, TLAPS

Pair == Nat \X Nat

\* Every set of natural numbers that is not empty has a least one.
LEMMA LeastNumber ==
    ASSUME NEW T \in SUBSET Nat, T # {}
    PROVE  \E m \in T : \A n \in T : m <= n
<1> DEFINE R == {ss \in Nat \X Nat : ss[1] < ss[2]}
<1>1. IsWellFoundedOn(R, Nat)
  BY NatLessThanWellFounded DEF OpToRel
<1> HIDE DEF R
<1>2. \E m \in T : \A n \in T : ~(<<n, m>> \in R)
  BY <1>1, WFMin
<1>3. \A m, n \in Nat : ~(<<n, m>> \in R) => m <= n
  <2> SUFFICES ASSUME NEW m \in Nat, NEW n \in Nat, ~(<<n, m>> \in R) PROVE m <= n
    OBVIOUS
  <2>1. <<n, m>> \in Nat \X Nat /\ <<n, m>>[1] = n /\ <<n, m>>[2] = m
    OBVIOUS
  <2>2. ~(n < m)
    BY <2>1 DEF R
  <2> QED BY <2>2
<1> QED BY <1>2, <1>3

\* Induction in terms of sets: a set of naturals that has 0 and with every n
\* of it below the bound n + 1, has every natural up to the bound.
LEMMA UpTo ==
    ASSUME NEW bound \in Nat, NEW Good, 0 \in Good,
           \A n \in 0 .. bound : n \in Good /\ n < bound => n + 1 \in Good
    PROVE  0 .. bound \subseteq Good
<1> DEFINE Bad == {n \in 0 .. bound : n \notin Good}
<1> SUFFICES ASSUME Bad # {} PROVE FALSE
  OBVIOUS
<1>1. Bad \in SUBSET Nat
  OBVIOUS
<1>2. PICK m \in Bad : \A n \in Bad : m <= n
  <2> HIDE DEF Bad
  <2> QED BY <1>1, LeastNumber
<1>3. m \in 1 .. bound /\ m \notin Good
  BY <1>2
<1>4. m - 1 \in 0 .. bound /\ m - 1 < bound /\ m - 1 \notin Bad /\ (m - 1) + 1 = m
  BY <1>2, <1>3
<1> QED BY <1>3, <1>4

-----------------------------------------------------------------------------
(* The recursions have the values their definitions say. *)

LEMMA MergingSteps ==
    ASSUME NEW s \in Seq(Pair)
    PROVE  /\ Merging(s)[0] = <<>>
           /\ \A n \in 1 .. Len(s) : Merging(s)[n] = Joined(Merging(s)[n - 1], s[n])
<1> DEFINE Value(f, n) == IF n = 0 THEN <<>> ELSE Joined(f[n - 1], s[n])
           Runs(f, m) == \A n \in 0 .. m : f[n] = Value(f, n)
           Good == {m \in Nat : \E f : Runs(f, m)}
           N == Len(s)
<1>0. N \in Nat
  OBVIOUS
<1>1. 0 \in Good
  <2>1. Runs([n \in 0 .. 0 |-> <<>>], 0)
    OBVIOUS
  <2> QED BY <2>1
<1>2. ASSUME NEW m \in 0 .. N, m \in Good, m < N
      PROVE  m + 1 \in Good
  <2>1. PICK f : Runs(f, m)
    BY <1>2
  <2> DEFINE g == [n \in 0 .. m + 1 |-> IF n <= m THEN f[n] ELSE Joined(f[m], s[m + 1])]
  <2>2. m \in Nat /\ m + 1 \in Nat /\ m + 1 # 0 /\ (m + 1) - 1 = m
    BY <1>0, <1>2
  <2>3. g[m + 1] = Value(g, m + 1)
    BY <2>2
  <2>4. ASSUME NEW n \in 0 .. m
        PROVE  g[n] = Value(g, n)
    <3>1. n \in 0 .. m + 1 /\ g[n] = f[n] /\ f[n] = Value(f, n)
      BY <2>1, <2>2
    <3>2. CASE n = 0
      BY <3>1, <3>2
    <3>3. CASE n # 0
      <4>1. n - 1 \in 0 .. m /\ g[n - 1] = f[n - 1]
        BY <2>2, <3>3
      <4> QED BY <3>1, <3>3, <4>1
    <3> QED BY <3>2, <3>3
  <2>5. \A n \in 0 .. m + 1 : n \in 0 .. m \/ n = m + 1
    BY <2>2
  <2> HIDE DEF g, Value
  <2>6. Runs(g, m + 1)
    BY <2>3, <2>4, <2>5
  <2> QED BY <2>2, <2>6
<1>3. N \in Good
  <2> HIDE DEF Good, N
  <2>1. 0 .. N \subseteq Good
    BY <1>0, <1>1, <1>2, UpTo
  <2> QED BY <1>0, <2>1
<1>4. PICK f : Runs(f, N)
  BY <1>3
<1> DEFINE h == [n \in 0 .. N |-> f[n]]
<1>5. h = [n \in 0 .. N |-> IF n = 0 THEN <<>> ELSE Joined(h[n - 1], s[n])]
  <2>1. ASSUME NEW n \in 0 .. N
        PROVE  h[n] = IF n = 0 THEN <<>> ELSE Joined(h[n - 1], s[n])
    <3>1. h[n] = Value(f, n)
      BY <1>4
    <3>2. n # 0 => h[n - 1] = f[n - 1]
      BY <1>0
    <3> QED BY <3>1, <3>2
  <2> QED BY <2>1
<1>6. Merging(s) = [n \in 0 .. Len(s) |->
                       IF n = 0 THEN <<>> ELSE Joined(Merging(s)[n - 1], s[n])]
  <2> HIDE DEF h
  <2>1. \E x : x = [n \in 0 .. Len(s) |-> IF n = 0 THEN <<>> ELSE Joined(x[n - 1], s[n])]
    BY <1>5
  <2> QED BY <2>1, Zenon DEF Merging
<1> QED BY <1>0, <1>6

LEMMA CuttingSteps ==
    ASSUME NEW s \in Seq(Pair), NEW window
    PROVE  /\ Cutting(window, s)[0] = [rest |-> <<>>, cursor |-> window[1]]
           /\ \A n \in 1 .. Len(s) : Cutting(window, s)[n] = Cut(window, Cutting(window, s)[n - 1], s[n])
<1> DEFINE Value(f, n) == IF n = 0 THEN [rest |-> <<>>, cursor |-> window[1]] ELSE Cut(window, f[n - 1], s[n])
           Runs(f, m) == \A n \in 0 .. m : f[n] = Value(f, n)
           Good == {m \in Nat : \E f : Runs(f, m)}
           N == Len(s)
<1>0. N \in Nat
  OBVIOUS
<1>1. 0 \in Good
  <2>1. Runs([n \in 0 .. 0 |-> [rest |-> <<>>, cursor |-> window[1]]], 0)
    OBVIOUS
  <2> QED BY <2>1
<1>2. ASSUME NEW m \in 0 .. N, m \in Good, m < N
      PROVE  m + 1 \in Good
  <2>1. PICK f : Runs(f, m)
    BY <1>2
  <2> DEFINE g == [n \in 0 .. m + 1 |-> IF n <= m THEN f[n] ELSE Cut(window, f[m], s[m + 1])]
  <2>2. m \in Nat /\ m + 1 \in Nat /\ m + 1 # 0 /\ (m + 1) - 1 = m
    BY <1>0, <1>2
  <2>3. g[m + 1] = Value(g, m + 1)
    BY <2>2
  <2>4. ASSUME NEW n \in 0 .. m
        PROVE  g[n] = Value(g, n)
    <3>1. n \in 0 .. m + 1 /\ g[n] = f[n] /\ f[n] = Value(f, n)
      BY <2>1, <2>2
    <3>2. CASE n = 0
      BY <3>1, <3>2
    <3>3. CASE n # 0
      <4>1. n - 1 \in 0 .. m /\ g[n - 1] = f[n - 1]
        BY <2>2, <3>3
      <4> QED BY <3>1, <3>3, <4>1
    <3> QED BY <3>2, <3>3
  <2>5. \A n \in 0 .. m + 1 : n \in 0 .. m \/ n = m + 1
    BY <2>2
  <2> HIDE DEF g, Value
  <2>6. Runs(g, m + 1)
    BY <2>3, <2>4, <2>5
  <2> QED BY <2>2, <2>6
<1>3. N \in Good
  <2> HIDE DEF Good, N
  <2>1. 0 .. N \subseteq Good
    BY <1>0, <1>1, <1>2, UpTo
  <2> QED BY <1>0, <2>1
<1>4. PICK f : Runs(f, N)
  BY <1>3
<1> DEFINE h == [n \in 0 .. N |-> f[n]]
<1>5. h = [n \in 0 .. N |-> IF n = 0 THEN [rest |-> <<>>, cursor |-> window[1]] ELSE Cut(window, h[n - 1], s[n])]
  <2>1. ASSUME NEW n \in 0 .. N
        PROVE  h[n] = IF n = 0 THEN [rest |-> <<>>, cursor |-> window[1]] ELSE Cut(window, h[n - 1], s[n])
    <3>1. h[n] = Value(f, n)
      BY <1>4
    <3>2. n # 0 => h[n - 1] = f[n - 1]
      BY <1>0
    <3> QED BY <3>1, <3>2
  <2> QED BY <2>1
<1>6. Cutting(window, s) = [n \in 0 .. Len(s) |->
                       IF n = 0 THEN [rest |-> <<>>, cursor |-> window[1]] ELSE Cut(window, Cutting(window, s)[n - 1], s[n])]
  <2> HIDE DEF h
  <2>1. \E x : x = [n \in 0 .. Len(s) |-> IF n = 0 THEN [rest |-> <<>>, cursor |-> window[1]] ELSE Cut(window, x[n - 1], s[n])]
    BY <1>5
  <2> QED BY <2>1, Zenon DEF Cutting
<1> QED BY <1>0, <1>6

-----------------------------------------------------------------------------
(* Sorting. *)

Increasing(s) == \A i, j \in DOMAIN s : i < j => s[i] # s[j] /\ Before(s[i], s[j])

\* A set of ranges that is not empty has one that comes before all others.
LEMMA FirstRange ==
    ASSUME NEW S \in SUBSET Pair, S # {}
    PROVE  \E r \in S : \A q \in S : Before(r, q)
<1> DEFINE Starts == {r[1] : r \in S}
<1>1. Starts \in SUBSET Nat /\ Starts # {}
  BY DEF Pair
<1>2. PICK a \in Starts : \A n \in Starts : a <= n
  <2> HIDE DEF Starts
  <2> QED BY <1>1, LeastNumber
<1> DEFINE Ends == {r[2] : r \in {q \in S : q[1] = a}}
<1>3. Ends \in SUBSET Nat /\ Ends # {}
  BY <1>2 DEF Pair
<1>4. PICK e \in Ends : \A n \in Ends : e <= n
  <2> HIDE DEF Ends
  <2> QED BY <1>3, LeastNumber
<1>5. PICK r \in S : r[1] = a /\ r[2] = e
  BY <1>4
<1>6. ASSUME NEW q \in S PROVE Before(r, q)
  <2>1. q[1] \in Starts /\ q[1] \in Nat /\ a \in Nat
    BY <1>2 DEF Pair
  <2>2. a <= q[1]
    BY <1>2, <2>1
  <2>3. q[1] = a => q[2] \in Ends
    OBVIOUS
  <2>4. q[1] = a => e <= q[2]
    BY <1>4, <2>3
  <2> QED BY <1>5, <2>1, <2>2, <2>4 DEF Before
<1> QED BY <1>6

LEMMA SortedExists ==
    ASSUME NEW S \in SUBSET Pair, IsFiniteSet(S)
    PROVE  \E s \in [1 .. Cardinality(S) -> S] : Increasing(s)
<1> DEFINE Sortable(n) ==
             \A T \in SUBSET Pair : IsFiniteSet(T) /\ Cardinality(T) = n =>
                \E s \in [1 .. n -> T] : Increasing(s)
           Good == {n \in Nat : Sortable(n)}
           N == Cardinality(S)
<1>0. N \in Nat
  BY FS_CardinalityType
<1>1. 0 \in Good
  <2>1. ASSUME NEW T \in SUBSET Pair PROVE \E s \in [1 .. 0 -> T] : Increasing(s)
    <3>1. [i \in 1 .. 0 |-> i] \in [1 .. 0 -> T]
      OBVIOUS
    <3>2. Increasing([i \in 1 .. 0 |-> i])
      BY DEF Increasing
    <3> QED BY <3>1, <3>2
  <2> QED BY <2>1
<1>2. ASSUME NEW n \in 0 .. N, n \in Good
      PROVE  n + 1 \in Good
  <2>1. n \in Nat /\ Sortable(n)
    BY <1>2
  <2>2. ASSUME NEW T \in SUBSET Pair, IsFiniteSet(T), Cardinality(T) = n + 1
        PROVE  \E s \in [1 .. n + 1 -> T] : Increasing(s)
    <3>1. T # {}
      BY <2>1, <2>2, FS_EmptySet
    <3>2. PICK r \in T : \A q \in T : Before(r, q)
      BY <3>1, FirstRange
    <3>3. T \ {r} \in SUBSET Pair /\ IsFiniteSet(T \ {r}) /\ Cardinality(T \ {r}) = n
      BY <2>1, <2>2, FS_RemoveElement
    <3>4. PICK s \in [1 .. n -> T \ {r}] : Increasing(s)
      BY <2>1, <3>3
    <3> DEFINE t == [i \in 1 .. n + 1 |-> IF i = 1 THEN r ELSE s[i - 1]]
    <3>5. \A i \in 2 .. n + 1 : i - 1 \in 1 .. n /\ t[i] = s[i - 1] /\ t[i] \in T \ {r}
      BY <2>1, <3>4
    <3>6. t[1] = r /\ 1 \in 1 .. n + 1 /\ DOMAIN t = 1 .. n + 1
      BY <2>1
    <3>7. \A i \in 1 .. n + 1 : i = 1 \/ i \in 2 .. n + 1
      BY <2>1
    <3>8. t \in [1 .. n + 1 -> T]
      <4>1. \A i \in 1 .. n + 1 : t[i] \in T
        BY <3>5, <3>6, <3>7
      <4> QED BY <4>1
    <3> HIDE DEF t
    <3>9. ASSUME NEW i \in 1 .. n + 1, NEW j \in 1 .. n + 1, i < j
          PROVE  t[i] # t[j] /\ Before(t[i], t[j])
      <4>1. j \in 2 .. n + 1
        BY <2>1, <3>9
      <4>2. CASE i = 1
        BY <3>2, <3>5, <3>6, <4>1, <4>2
      <4>3. CASE i # 1
        <5>1. i \in 2 .. n + 1 /\ i - 1 < j - 1
          BY <2>1, <3>9, <4>3
        <5>2. t[i] = s[i - 1] /\ t[j] = s[j - 1] /\ i - 1 \in 1 .. n /\ j - 1 \in 1 .. n
          BY <3>5, <4>1, <5>1
        <5> QED BY <3>4, <5>1, <5>2 DEF Increasing
      <4> QED BY <4>2, <4>3
    <3>10. Increasing(t)
      BY <3>6, <3>9 DEF Increasing
    <3> QED BY <3>8, <3>10
  <2>3. Sortable(n + 1)
    BY <2>2
  <2> QED BY <2>1, <2>3
<1>3. N \in Good
  <2> HIDE DEF Good, N
  <2>1. 0 .. N \subseteq Good
    BY <1>0, <1>1, <1>2, UpTo
  <2> QED BY <1>0, <2>1
<1> QED BY <1>3

LEMMA SortedSorts ==
    ASSUME NEW S \in SUBSET Pair, IsFiniteSet(S)
    PROVE  /\ Sorted(S) \in Seq(S) /\ Len(Sorted(S)) = Cardinality(S)
           /\ \A i, j \in 1 .. Len(Sorted(S)) : i < j => Before(Sorted(S)[i], Sorted(S)[j])
           /\ \A r \in S : \E i \in 1 .. Len(Sorted(S)) : Sorted(S)[i] = r
<1> DEFINE N == Cardinality(S)
           s == Sorted(S)
           Fits(x) == \A i, j \in 1 .. N : i < j => x[i] # x[j] /\ Before(x[i], x[j])
<1>0. N \in Nat
  BY FS_CardinalityType
<1>1. \E x \in [1 .. N -> S] : Fits(x)
  BY SortedExists DEF Increasing
<1>2. s \in [1 .. N -> S] /\ Fits(s)
  <2>1. s = CHOOSE x \in [1 .. N -> S] : Fits(x)
    BY DEF Sorted
  <2> HIDE DEF N, s, Fits
  <2> QED BY <1>1, <2>1
<1>3. s \in Injection(1 .. N, S)
  <2>1. ASSUME NEW i \in 1 .. N, NEW j \in 1 .. N, s[i] = s[j] PROVE i = j
    <3>1. ~(i < j) /\ ~(j < i)
      BY <1>2, <2>1
    <3> QED BY <1>0, <3>1
  <2> HIDE DEF s, N
  <2> QED BY <1>2, <2>1 DEF Injection, IsInjective
<1>4. s \in Surjection(1 .. N, S)
  <2>1. Cardinality(1 .. N) = N
    BY <1>0, FS_Interval
  <2> HIDE DEF s
  <2> QED BY <1>3, <2>1, FS_Injection
<1>5. \A r \in S : \E i \in 1 .. N : s[i] = r
  <2> HIDE DEF s, N
  <2> QED BY <1>4 DEF Surjection
<1>6. s \in Seq(S) /\ Len(s) = N
  <2> HIDE DEF s, N
  <2> QED BY <1>0, <1>2
<1> QED BY <1>2, <1>5, <1>6

-----------------------------------------------------------------------------
(* merge_ranges. *)

Within(b, r) == r[1] <= b /\ b <= r[2]
Among(b, rs) == \E i \in 1 .. Len(rs) : Within(b, rs[i])
AmongFirst(b, s, n) == \E i \in 1 .. n : Within(b, s[i])

\* The blocks of ranges, by membership.
LEMMA BlocksAmong ==
    ASSUME NEW rs \in Seq(Pair), NEW b
    PROVE  b \in InRanges(rs) <=> b \in Nat /\ Among(b, rs)
<1>1. /\ Len(rs) \in Nat
      /\ \A i \in 1 .. Len(rs) : rs[i][1] \in Nat /\ rs[i][2] \in Nat
  BY DEF Pair
<1>2. \A i \in 1 .. Len(rs) : b \in InRange(rs[i]) <=> b \in Nat /\ Within(b, rs[i])
  BY <1>1 DEF InRange, Within
<1> QED BY <1>2 DEF InRanges, Among

\* What is merged after n of the ranges of s.
MergedSoFar(s, n, m) ==
    /\ m \in Seq(Pair) /\ Blocked(m) /\ Apart(m)
    /\ n > 0 => Len(m) > 0 /\ m[Len(m)][1] <= s[n][1]
    /\ n = 0 => m = <<>>
    /\ \A b \in Nat : Among(b, m) <=> AmongFirst(b, s, n)

\* One more range, which begins no earlier than the last.
LEMMA JoinedOne ==
    ASSUME NEW m \in Seq(Pair), Blocked(m), Apart(m), NEW r \in Pair, r[1] <= r[2],
           Len(m) > 0 => m[Len(m)][1] <= r[1]
    PROVE  /\ Joined(m, r) \in Seq(Pair) /\ Blocked(Joined(m, r)) /\ Apart(Joined(m, r))
           /\ Len(Joined(m, r)) > 0 /\ Joined(m, r)[Len(Joined(m, r))][1] <= r[1]
           /\ \A b \in Nat : Among(b, Joined(m, r)) <=> Among(b, m) \/ Within(b, r)
<1> DEFINE last == Len(m)
           j == Joined(m, r)
<1>0. /\ last \in Nat /\ r[1] \in Nat /\ r[2] \in Nat
      /\ \A i \in 1 .. last : m[i] \in Pair /\ m[i][1] \in Nat /\ m[i][2] \in Nat
  BY DEF Pair
<1>1. CASE last > 0 /\ r[1] <= m[last][2] + 1
  <2> DEFINE z == <<m[last][1], Greatest(m[last][2], r[2])>>
  <2>1. last \in 1 .. last /\ m[last][1] \in Nat /\ m[last][2] \in Nat
    BY <1>0, <1>1
  <2>2. z \in Pair /\ z[1] = m[last][1] /\ z[2] = Greatest(m[last][2], r[2])
    BY <1>0, <2>1 DEF Greatest, Pair
  <2>3. z[1] <= z[2] /\ z[1] <= r[1]
    BY <1>0, <1>1, <2>1, <2>2 DEF Greatest
  <2>4. \A b \in Nat : Within(b, z) <=> Within(b, m[last]) \/ Within(b, r)
    BY <1>0, <1>1, <2>1, <2>2 DEF Greatest, Within, Blocked
  <2>5. j = [m EXCEPT ![last] = z]
    BY <1>1 DEF Joined
  <2> HIDE DEF z, j
  <2>6. /\ j \in Seq(Pair) /\ Len(j) = last /\ j[last] = z
        /\ \A i \in 1 .. last : i # last => j[i] = m[i]
    BY <2>1, <2>2, <2>5
  <2>7. Blocked(j)
    BY <2>3, <2>6 DEF Blocked
  <2>8. Apart(j)
    <3>1. ASSUME NEW i \in 2 .. last PROVE j[i - 1][2] + 1 < j[i][1]
      <4>1. i - 1 \in 1 .. last /\ i - 1 # last /\ j[i - 1] = m[i - 1]
        BY <2>1, <2>6
      <4>2. j[i][1] = m[i][1]
        BY <2>1, <2>2, <2>6
      <4> QED BY <4>1, <4>2 DEF Apart
    <3> QED BY <2>6, <3>1 DEF Apart
  <2>9. ASSUME NEW b \in Nat PROVE Among(b, j) <=> Among(b, m) \/ Within(b, r)
    <3>1. Among(b, j) <=> (\E i \in 1 .. last : i # last /\ Within(b, m[i])) \/ Within(b, z)
      BY <2>1, <2>6 DEF Among
    <3>2. Among(b, m) <=> (\E i \in 1 .. last : i # last /\ Within(b, m[i])) \/ Within(b, m[last])
      BY <2>1 DEF Among
    <3> QED BY <2>4, <3>1, <3>2
  <2> QED BY <1>1, <2>3, <2>6, <2>7, <2>8, <2>9 DEF j
<1>2. CASE ~(last > 0 /\ r[1] <= m[last][2] + 1)
  <2>1. j = Append(m, r)
    BY <1>2 DEF Joined
  <2> HIDE DEF j
  <2>2. /\ j \in Seq(Pair) /\ Len(j) = last + 1 /\ j[last + 1] = r
        /\ \A i \in 1 .. last : j[i] = m[i]
    BY <2>1
  <2>3. last + 1 \in 1 .. last + 1 /\ \A i \in 1 .. last + 1 : i \in 1 .. last \/ i = last + 1
    BY <1>0
  <2>4. Blocked(j)
    BY <2>2, <2>3 DEF Blocked
  <2>5. Apart(j)
    <3>1. ASSUME NEW i \in 2 .. last + 1 PROVE j[i - 1][2] + 1 < j[i][1]
      <4>1. CASE i = last + 1
        <5>1. last \in 1 .. last /\ j[i - 1] = m[last] /\ j[i] = r /\ last > 0
          BY <1>0, <2>2, <3>1, <4>1
        <5>2. ~(r[1] <= m[last][2] + 1)
          BY <1>2, <5>1
        <5> QED BY <1>0, <5>1, <5>2
      <4>2. CASE i # last + 1
        <5>1. i \in 2 .. last /\ i \in 1 .. last /\ i - 1 \in 1 .. last
          BY <1>0, <3>1, <4>2
        <5>2. j[i - 1] = m[i - 1] /\ j[i] = m[i]
          BY <2>2, <5>1
        <5> QED BY <5>1, <5>2 DEF Apart
      <4> QED BY <4>1, <4>2
    <3> QED BY <2>2, <3>1 DEF Apart
  <2>6. ASSUME NEW b \in Nat PROVE Among(b, j) <=> Among(b, m) \/ Within(b, r)
    <3>1. Among(b, j) <=> (\E i \in 1 .. last : Within(b, j[i])) \/ Within(b, j[last + 1])
      BY <2>2, <2>3 DEF Among
    <3>2. Among(b, m) <=> \E i \in 1 .. last : Within(b, j[i])
      BY <2>2 DEF Among
    <3> QED BY <2>2, <3>1, <3>2
  <2>7. Len(j) > 0 /\ j[Len(j)][1] <= r[1]
    BY <1>0, <2>2
  <2> QED BY <2>2, <2>4, <2>5, <2>6, <2>7 DEF j
<1> QED BY <1>1, <1>2

\* merge_ranges yields the same blocks, in ranges that are in order and do not
\* touch.
THEOREM MergeIsExact ==
    ASSUME NEW rs \in SUBSET Pair, IsFiniteSet(rs)
    PROVE  /\ MergeRanges(rs) \in Seq(Pair)
           /\ Blocked(MergeRanges(rs)) /\ Apart(MergeRanges(rs))
           /\ InRanges(MergeRanges(rs)) = UNION {InRange(r) : r \in rs}
<1> DEFINE S == {r \in rs : r[1] <= r[2]}
           s == Sorted(S)
           N == Len(s)
           m == Merging(s)
           Good == {n \in 0 .. N : MergedSoFar(s, n, m[n])}
<1>1. S \in SUBSET Pair /\ IsFiniteSet(S)
  BY FS_Subset
<1>2. /\ s \in Seq(S) /\ \A r \in S : \E i \in 1 .. N : s[i] = r
      /\ \A i, k \in 1 .. N : i < k => Before(s[i], s[k])
  <2> HIDE DEF S
  <2> QED BY <1>1, SortedSorts
<1>3. /\ N \in Nat /\ s \in Seq(Pair)
      /\ \A i \in 1 .. N : s[i] \in S /\ s[i] \in Pair /\ s[i][1] <= s[i][2]
  <2> HIDE DEF s
  <2> QED BY <1>2
<1>4. m[0] = <<>> /\ \A n \in 1 .. N : m[n] = Joined(m[n - 1], s[n])
  <2> HIDE DEF s
  <2> QED BY <1>3, MergingSteps
<1> HIDE DEF s, m
<1>5. 0 \in Good
  <2>1. Blocked(<<>>) /\ Apart(<<>>)
    BY DEF Blocked, Apart
  <2>2. \A b : ~Among(b, <<>>) /\ ~AmongFirst(b, s, 0)
    BY DEF Among, AmongFirst
  <2>3. MergedSoFar(s, 0, <<>>)
    BY <2>1, <2>2 DEF MergedSoFar
  <2> QED BY <1>3, <1>4, <2>3
<1>6. ASSUME NEW n \in 0 .. N, n \in Good, n < N
      PROVE  n + 1 \in Good
  <2> DEFINE p == m[n]
             r == s[n + 1]
  <2>1. n \in Nat /\ n + 1 \in 1 .. N /\ n + 1 \in 0 .. N /\ (n + 1) - 1 = n
    BY <1>3, <1>6
  <2>2. MergedSoFar(s, n, p)
    BY <1>6
  <2>3. m[n + 1] = Joined(p, r)
    BY <1>4, <2>1
  <2>4. r \in Pair /\ r[1] <= r[2]
    BY <1>3, <2>1
  <2>5. p \in Seq(Pair) /\ Blocked(p) /\ Apart(p)
    BY <2>2 DEF MergedSoFar
  <2>6. Len(p) > 0 => p[Len(p)][1] <= r[1]
    <3>1. CASE n = 0
      BY <2>2, <3>1 DEF MergedSoFar
    <3>2. CASE n # 0
      <4>1. n \in 1 .. N /\ n < n + 1
        BY <2>1, <3>2
      <4>2. Before(s[n], r)
        BY <1>2, <2>1, <4>1
      <4>3. p[Len(p)][1] <= s[n][1] /\ Len(p) > 0
        BY <2>1, <2>2, <3>2 DEF MergedSoFar
      <4>4. /\ s[n][1] \in Nat /\ s[n][2] \in Nat /\ r[1] \in Nat /\ r[2] \in Nat
            /\ p[Len(p)] \in Pair
        <5>1. s[n] \in Pair /\ r \in Pair
          BY <1>3, <2>4, <4>1
        <5>2. Len(p) \in 1 .. Len(p)
          BY <2>5, <4>3
        <5>3. p[Len(p)] \in Pair
          BY <2>5, <5>2
        <5> QED BY <5>1, <5>3 DEF Pair
      <4>5. p[Len(p)][1] \in Nat
        BY <4>4 DEF Pair
      <4> QED BY <4>2, <4>3, <4>4, <4>5 DEF Before
    <3> QED BY <3>1, <3>2
  <2> HIDE DEF p, r
  <2> DEFINE q == Joined(p, r)
  <2>7. /\ q \in Seq(Pair) /\ Blocked(q) /\ Apart(q) /\ Len(q) > 0 /\ q[Len(q)][1] <= r[1]
        /\ \A b \in Nat : Among(b, q) <=> Among(b, p) \/ Within(b, r)
    BY <2>4, <2>5, <2>6, JoinedOne
  <2> HIDE DEF q
  <2>8. ASSUME NEW b \in Nat PROVE Among(b, q) <=> AmongFirst(b, s, n + 1)
    <3>1. \A i : i \in 1 .. n + 1 <=> i \in 1 .. n \/ i = n + 1
      BY <2>1
    <3>2. AmongFirst(b, s, n + 1) <=> AmongFirst(b, s, n) \/ Within(b, r)
      BY <3>1 DEF AmongFirst, r
    <3>3. Among(b, p) <=> AmongFirst(b, s, n)
      BY <2>2 DEF MergedSoFar
    <3> QED BY <2>7, <3>2, <3>3
  <2>9. MergedSoFar(s, n + 1, q)
    BY <2>1, <2>7, <2>8 DEF MergedSoFar, r
  <2> QED BY <2>1, <2>3, <2>9 DEF q
<1>7. MergedSoFar(s, N, m[N])
  <2> HIDE DEF Good
  <2>1. 0 .. N \subseteq Good
    BY <1>3, <1>5, <1>6, UpTo
  <2> QED BY <1>3, <2>1 DEF Good
<1>8. MergeRanges(rs) = m[N]
  BY DEF MergeRanges, s, m
<1>9. ASSUME NEW b
      PROVE  b \in InRanges(m[N]) <=> b \in UNION {InRange(r) : r \in rs}
  <2>1. b \in InRanges(m[N]) <=> b \in Nat /\ Among(b, m[N])
    BY <1>7, BlocksAmong DEF MergedSoFar
  <2>2. b \in UNION {InRange(r) : r \in rs} <=> \E r \in S : b \in Nat /\ Within(b, r)
    <3>1. \A r \in rs : b \in InRange(r) <=> b \in Nat /\ Within(b, r) /\ r[1] <= r[2]
      BY DEF InRange, Within, Pair
    <3> QED BY <3>1
  <2>3. b \in Nat => (AmongFirst(b, s, N) <=> \E r \in S : Within(b, r))
    BY <1>2, <1>3 DEF AmongFirst
  <2>4. b \in Nat => (Among(b, m[N]) <=> AmongFirst(b, s, N))
    BY <1>7 DEF MergedSoFar
  <2> HIDE DEF S
  <2> QED BY <2>1, <2>2, <2>3, <2>4
<1> QED BY <1>7, <1>8, <1>9 DEF MergedSoFar

-----------------------------------------------------------------------------
(* subtract_ranges. *)

\* What is cut of the window after n ranges of s: the blocks left before the
\* cursor, and that nothing from the cursor on is covered yet.
CutSoFar(window, s, n, acc) ==
    /\ acc.rest \in Seq(Pair) /\ Blocked(acc.rest) /\ Apart(acc.rest)
    /\ acc.cursor \in Nat /\ window[1] <= acc.cursor
    /\ \A i \in 1 .. Len(acc.rest) : acc.rest[i][2] + 1 < acc.cursor
    /\ \A k \in 1 .. n : \/ s[k][2] < acc.cursor \/ s[k][1] > window[2]
                          \/ acc.cursor > window[2]
    /\ \A b \in Nat : Among(b, acc.rest) <=>
          /\ window[1] <= b /\ b < acc.cursor /\ b <= window[2]
          /\ ~AmongFirst(b, s, n)
    /\ n < Len(s) => \A b \in Nat : Among(b, acc.rest) => b < s[n + 1][1]

\* A range after the last.
LEMMA OneMore ==
    ASSUME NEW m \in Seq(Pair), Blocked(m), Apart(m), NEW r \in Pair, r[1] <= r[2],
           \A i \in 1 .. Len(m) : m[i][2] + 1 < r[1]
    PROVE  /\ Append(m, r) \in Seq(Pair) /\ Len(Append(m, r)) = Len(m) + 1
           /\ Blocked(Append(m, r)) /\ Apart(Append(m, r))
           /\ \A i \in 1 .. Len(m) : Append(m, r)[i] = m[i]
           /\ Append(m, r)[Len(m) + 1] = r
           /\ \A b \in Nat : Among(b, Append(m, r)) <=> Among(b, m) \/ Within(b, r)
<1> DEFINE last == Len(m)
           j == Append(m, r)
<1>1. /\ last \in Nat
      /\ j \in Seq(Pair) /\ Len(j) = last + 1 /\ j[last + 1] = r
      /\ \A i \in 1 .. last : j[i] = m[i]
  OBVIOUS
<1> HIDE DEF j
<1>2. last + 1 \in 1 .. last + 1 /\ \A i : i \in 1 .. last + 1 <=> i \in 1 .. last \/ i = last + 1
  BY <1>1
<1>3. Blocked(j)
  BY <1>1, <1>2 DEF Blocked
<1>4. Apart(j)
  <2>1. ASSUME NEW i \in 2 .. last + 1 PROVE j[i - 1][2] + 1 < j[i][1]
    <3>1. CASE i = last + 1
      <4>1. i - 1 = last /\ last \in 1 .. last /\ j[last] = m[last] /\ j[i] = r
        BY <1>1, <2>1, <3>1
      <4> QED BY <4>1
    <3>2. CASE i # last + 1
      <4>1. i \in 2 .. last /\ j[i - 1] = m[i - 1] /\ j[i] = m[i]
        BY <1>1, <2>1, <3>2
      <4> QED BY <4>1 DEF Apart
    <3> QED BY <3>1, <3>2
  <2> QED BY <1>1, <2>1 DEF Apart
<1>5. ASSUME NEW b \in Nat PROVE Among(b, j) <=> Among(b, m) \/ Within(b, r)
  <2>1. Among(b, j) <=> (\E i \in 1 .. last : Within(b, j[i])) \/ Within(b, j[last + 1])
    BY <1>1, <1>2 DEF Among
  <2>2. Among(b, m) <=> \E i \in 1 .. last : Within(b, j[i])
    BY <1>1 DEF Among
  <2> QED BY <1>1, <2>1, <2>2
<1> QED BY <1>1, <1>3, <1>4, <1>5 DEF j

LEMMA CutOne ==
    ASSUME NEW window \in Pair, NEW s \in Seq(Pair), Blocked(s), Apart(s),
           NEW n \in Nat, n < Len(s), NEW acc, CutSoFar(window, s, n, acc)
    PROVE  CutSoFar(window, s, n + 1, Cut(window, acc, s[n + 1]))
<1> DEFINE c == s[n + 1]
           z == Cut(window, acc, c)
           a == acc.cursor
<1>0. /\ window[1] \in Nat /\ window[2] \in Nat /\ c \in Pair
      /\ n + 1 \in 1 .. Len(s) /\ Len(s) \in Nat
  BY DEF Pair
<1>1. c[1] \in Nat /\ c[2] \in Nat /\ c[1] <= c[2]
  BY <1>0 DEF Pair, Blocked
<1>2. n + 1 < Len(s) => s[n + 2][1] \in Nat /\ c[2] + 1 < s[n + 2][1]
  <2> SUFFICES ASSUME n + 1 < Len(s) PROVE s[n + 2][1] \in Nat /\ c[2] + 1 < s[n + 2][1]
    OBVIOUS
  <2>1. n + 2 \in 2 .. Len(s) /\ (n + 2) - 1 = n + 1 /\ s[n + 2] \in Pair
    BY <1>0
  <2> QED BY <2>1 DEF Apart, Pair
<1>3. /\ acc.rest \in Seq(Pair) /\ Blocked(acc.rest) /\ Apart(acc.rest)
      /\ a \in Nat /\ window[1] <= a
      /\ \A i \in 1 .. Len(acc.rest) : acc.rest[i][2] + 1 < a
      /\ \A k \in 1 .. n : s[k][2] < a \/ s[k][1] > window[2] \/ a > window[2]
      /\ \A b \in Nat : Among(b, acc.rest) <=>
            window[1] <= b /\ b < a /\ b <= window[2] /\ ~AmongFirst(b, s, n)
      /\ \A b \in Nat : Among(b, acc.rest) => b < c[1]
  BY DEF CutSoFar
<1>4. \A k : k \in 1 .. n + 1 <=> k \in 1 .. n \/ k = n + 1
  OBVIOUS
<1>5. \A b : AmongFirst(b, s, n + 1) <=> AmongFirst(b, s, n) \/ Within(b, c)
  BY <1>4 DEF AmongFirst
<1>6. \A b \in Nat : n + 1 < Len(s) /\ b < c[1] => b < s[n + 2][1]
  BY <1>1, <1>2
<1>7. ASSUME NEW k \in 1 .. n PROVE s[k][1] \in Nat /\ s[k][2] \in Nat
  <2>1. k \in 1 .. Len(s)
    BY <1>0
  <2>2. s[k] \in Pair
    BY <2>1
  <2> QED BY <2>2 DEF Pair
<1>8. (n + 1) + 1 = n + 2
  OBVIOUS
<1> HIDE DEF c
<1>9. CASE c[2] < a \/ c[1] > window[2] \/ a > window[2]
  <2>1. z = acc
    BY <1>9 DEF Cut
  <2>2. \A k \in 1 .. n + 1 : s[k][2] < a \/ s[k][1] > window[2] \/ a > window[2]
    BY <1>3, <1>4, <1>9 DEF c
  <2>3. ASSUME NEW b \in Nat
        PROVE  Among(b, acc.rest) <=> window[1] <= b /\ b < a /\ b <= window[2]
                                        /\ ~AmongFirst(b, s, n + 1)
    <3>1. Among(b, acc.rest) => ~Within(b, c)
      BY <1>1, <1>3 DEF Within
    <3> QED BY <1>3, <1>5, <3>1
  <2>4. n + 1 < Len(s) => \A b \in Nat : Among(b, acc.rest) => b < s[n + 2][1]
    BY <1>3, <1>6
  <2> HIDE DEF z, a
  <2>5. CutSoFar(window, s, n + 1, acc)
    BY <1>3, <1>8, <2>2, <2>3, <2>4 DEF CutSoFar, a
  <2> QED BY <2>1, <2>5 DEF z, c
<1>10. CASE ~(c[2] < a \/ c[1] > window[2] \/ a > window[2])
  <2> DEFINE piece == <<a, c[1] - 1>>
             rest == IF c[1] > a THEN Append(acc.rest, piece) ELSE acc.rest
             x == c[2] + 1
  <2>1. z = [rest |-> rest, cursor |-> x]
    BY <1>10 DEF Cut
  <2>2. x \in Nat /\ a < x /\ c[1] < x /\ window[1] <= x /\ c[1] <= window[2] /\ a <= window[2]
    BY <1>0, <1>1, <1>3, <1>10
  <2>3. \A k \in 1 .. n + 1 : s[k][2] < x \/ s[k][1] > window[2] \/ x > window[2]
    <3>1. \A k \in 1 .. n : s[k][2] < x \/ s[k][1] > window[2]
      BY <1>0, <1>3, <1>7, <2>2
    <3>2. c[2] < x
      BY <1>1
    <3> QED BY <1>4, <3>1, <3>2 DEF c
  <2>4. /\ rest \in Seq(Pair) /\ Blocked(rest) /\ Apart(rest)
        /\ \A i \in 1 .. Len(rest) : rest[i][2] + 1 < x
        /\ \A b \in Nat : Among(b, rest) <=>
              Among(b, acc.rest) \/ (a <= b /\ b < c[1])
    <3>1. CASE c[1] > a
      <4>1. piece \in Pair /\ piece[1] = a /\ piece[2] = c[1] - 1 /\ piece[1] <= piece[2]
        BY <1>1, <1>3, <3>1 DEF Pair
      <4>2. rest = Append(acc.rest, piece)
        BY <3>1
      <4> HIDE DEF piece, rest
      <4>3. /\ rest \in Seq(Pair) /\ Blocked(rest) /\ Apart(rest)
            /\ Len(rest) = Len(acc.rest) + 1 /\ rest[Len(acc.rest) + 1] = piece
            /\ \A i \in 1 .. Len(acc.rest) : rest[i] = acc.rest[i]
            /\ \A b \in Nat : Among(b, rest) <=> Among(b, acc.rest) \/ Within(b, piece)
        BY <1>3, <4>1, <4>2, OneMore
      <4>4. \A b \in Nat : Within(b, piece) <=> a <= b /\ b < c[1]
        BY <1>1, <4>1 DEF Within
      <4>5. ASSUME NEW i \in 1 .. Len(rest) PROVE rest[i][2] + 1 < x
        <5>1. CASE i = Len(acc.rest) + 1
          BY <1>1, <2>2, <4>1, <4>3, <5>1
        <5>2. CASE i # Len(acc.rest) + 1
          <6>1. i \in 1 .. Len(acc.rest)
            BY <1>3, <4>3, <4>5, <5>2
          <6>2. rest[i] = acc.rest[i] /\ acc.rest[i] \in Pair /\ acc.rest[i][2] + 1 < a
            BY <1>3, <4>3, <6>1
          <6>3. acc.rest[i][2] \in Nat
            BY <6>2 DEF Pair
          <6> QED BY <1>3, <2>2, <6>2, <6>3
        <5> QED BY <5>1, <5>2
      <4> QED BY <4>3, <4>4, <4>5
    <3>2. CASE ~(c[1] > a)
      <4>1. rest = acc.rest
        BY <3>2
      <4> HIDE DEF rest
      <4>2. \A b \in Nat : ~(a <= b /\ b < c[1])
        BY <1>1, <1>3, <3>2
      <4>3. ASSUME NEW i \in 1 .. Len(acc.rest) PROVE acc.rest[i][2] + 1 < x
        <5>1. acc.rest[i] \in Pair /\ acc.rest[i][2] + 1 < a
          BY <1>3
        <5>2. acc.rest[i][2] \in Nat
          BY <5>1 DEF Pair
        <5> QED BY <1>3, <2>2, <5>1, <5>2
      <4> QED BY <1>3, <4>1, <4>2, <4>3
    <3> QED BY <3>1, <3>2
  <2> HIDE DEF rest, x, z
  <2>5. ASSUME NEW b \in Nat
        PROVE  Among(b, rest) <=> window[1] <= b /\ b < x /\ b <= window[2]
                                    /\ ~AmongFirst(b, s, n + 1)
    <3>1. Within(b, c) <=> c[1] <= b /\ b < x
      BY <1>1 DEF Within, x
    <3>2. a <= b /\ b < c[1] => ~AmongFirst(b, s, n)
      <4> SUFFICES ASSUME a <= b, b < c[1], NEW k \in 1 .. n, Within(b, s[k]) PROVE FALSE
        BY DEF AmongFirst
      <4>1. s[k][2] < a \/ s[k][1] > window[2]
        BY <1>0, <1>3, <2>2
      <4>2. s[k][1] \in Nat /\ s[k][2] \in Nat /\ s[k][1] <= b /\ b <= s[k][2]
        BY <1>7 DEF Within
      <4> HIDE DEF a
      <4>3. a \in Nat
        BY <1>3
      <4> QED BY <1>0, <1>1, <2>2, <4>1, <4>2, <4>3
    <3>3. Among(b, acc.rest) => b < c[1]
      BY <1>3
    <3>4. Among(b, acc.rest) <=>
            window[1] <= b /\ b < a /\ b <= window[2] /\ ~AmongFirst(b, s, n)
      BY <1>3
    <3>5. AmongFirst(b, s, n + 1) <=> AmongFirst(b, s, n) \/ Within(b, c)
      BY <1>5
    <3>6. Among(b, rest) <=> Among(b, acc.rest) \/ (a <= b /\ b < c[1])
      BY <2>4
    <3> HIDE DEF a
    <3>7. a \in Nat /\ window[1] <= a
      BY <1>3
    <3> QED BY <1>0, <1>1, <2>2, <3>1, <3>2, <3>3, <3>4, <3>5, <3>6, <3>7
  <2>6. n + 1 < Len(s) => \A b \in Nat : Among(b, rest) => b < s[n + 2][1]
    BY <1>3, <1>6, <2>4
  <2>7. z.rest = rest /\ z.cursor = x
    BY <2>1
  <2>8. CutSoFar(window, s, n + 1, z)
    BY <1>8, <2>2, <2>3, <2>4, <2>5, <2>6, <2>7 DEF CutSoFar
  <2> QED BY <2>8 DEF z, c
<1> QED BY <1>9, <1>10

\* subtract_ranges yields what of the window no range has, in ranges that are in
\* order and do not touch.
THEOREM SubtractIsExact ==
    ASSUME NEW window \in Pair, NEW covered \in SUBSET Pair, IsFiniteSet(covered)
    PROVE  /\ SubtractRanges(window, covered) \in Seq(Pair)
           /\ Blocked(SubtractRanges(window, covered))
           /\ Apart(SubtractRanges(window, covered))
           /\ InRanges(SubtractRanges(window, covered))
                = InRange(window) \ UNION {InRange(r) : r \in covered}
<1> DEFINE s == MergeRanges(covered)
           N == Len(s)
           cut == Cutting(window, s)
           acc == cut[N]
           Good == {n \in 0 .. N : CutSoFar(window, s, n, cut[n])}
<1>1. /\ s \in Seq(Pair) /\ Blocked(s) /\ Apart(s)
      /\ InRanges(s) = UNION {InRange(r) : r \in covered}
  BY MergeIsExact
<1> HIDE DEF s
<1>2. N \in Nat
  BY <1>1
<1>3. /\ cut[0] = [rest |-> <<>>, cursor |-> window[1]]
      /\ \A n \in 1 .. N : cut[n] = Cut(window, cut[n - 1], s[n])
  BY <1>1, CuttingSteps
<1> HIDE DEF cut
<1>4. 0 \in Good
  <2>1. Blocked(<<>>) /\ Apart(<<>>) /\ Len(<<>>) = 0 /\ <<>> \in Seq(Pair)
    BY DEF Blocked, Apart
  <2>2. \A b : ~Among(b, <<>>)
    BY DEF Among
  <2>3. cut[0].rest = <<>> /\ cut[0].cursor = window[1] /\ window[1] \in Nat
    BY <1>3 DEF Pair
  <2>4. CutSoFar(window, s, 0, cut[0])
    BY <2>1, <2>2, <2>3 DEF CutSoFar
  <2> QED BY <1>2, <2>4
<1>5. ASSUME NEW n \in 0 .. N, n \in Good, n < N PROVE n + 1 \in Good
  <2>1. n \in Nat /\ n + 1 \in 1 .. N /\ n + 1 \in 0 .. N /\ (n + 1) - 1 = n
    BY <1>2, <1>5
  <2>2. CutSoFar(window, s, n, cut[n])
    BY <1>5
  <2>3. CutSoFar(window, s, n + 1, Cut(window, cut[n], s[n + 1]))
    BY <1>1, <1>5, <2>1, <2>2, CutOne
  <2> QED BY <1>3, <2>1, <2>3
<1>6. CutSoFar(window, s, N, acc)
  <2> HIDE DEF Good
  <2>1. 0 .. N \subseteq Good
    BY <1>2, <1>4, <1>5, UpTo
  <2> QED BY <1>2, <2>1 DEF Good
<1>7. /\ acc.rest \in Seq(Pair) /\ Blocked(acc.rest) /\ Apart(acc.rest)
      /\ acc.cursor \in Nat /\ window[1] <= acc.cursor
      /\ \A i \in 1 .. Len(acc.rest) : acc.rest[i][2] + 1 < acc.cursor
      /\ \A k \in 1 .. N : s[k][2] < acc.cursor \/ s[k][1] > window[2] \/ acc.cursor > window[2]
      /\ \A b \in Nat : Among(b, acc.rest) <=>
            window[1] <= b /\ b < acc.cursor /\ b <= window[2] /\ ~AmongFirst(b, s, N)
  BY <1>6 DEF CutSoFar
<1>8. window[1] \in Nat /\ window[2] \in Nat
  BY DEF Pair
<1> DEFINE rest == SubtractRanges(window, covered)
<1>9. rest = IF acc.cursor <= window[2] THEN Append(acc.rest, <<acc.cursor, window[2]>>)
                                        ELSE acc.rest
  BY DEF SubtractRanges, cut, s
<1> HIDE DEF acc, rest
<1>10. /\ rest \in Seq(Pair) /\ Blocked(rest) /\ Apart(rest)
       /\ \A b \in Nat : Among(b, rest) <=>
             window[1] <= b /\ b <= window[2] /\ ~AmongFirst(b, s, N)
  <2>1. CASE acc.cursor <= window[2]
    <3> DEFINE piece == <<acc.cursor, window[2]>>
    <3>1. piece \in Pair /\ piece[1] = acc.cursor /\ piece[2] = window[2] /\ piece[1] <= piece[2]
      BY <1>7, <1>8, <2>1 DEF Pair
    <3>2. rest = Append(acc.rest, piece)
      BY <1>9, <2>1
    <3> HIDE DEF piece
    <3>3. /\ rest \in Seq(Pair) /\ Blocked(rest) /\ Apart(rest)
          /\ \A b \in Nat : Among(b, rest) <=> Among(b, acc.rest) \/ Within(b, piece)
      BY <1>7, <3>1, <3>2, OneMore
    <3>4. ASSUME NEW b \in Nat, acc.cursor <= b, b <= window[2], AmongFirst(b, s, N)
          PROVE  FALSE
      <4>1. PICK k \in 1 .. N : Within(b, s[k])
        BY <3>4 DEF AmongFirst
      <4>2. s[k][2] < acc.cursor \/ s[k][1] > window[2]
        BY <1>7, <1>8, <2>1
      <4>3. s[k][1] \in Nat /\ s[k][2] \in Nat
        BY <1>1 DEF Pair
      <4> QED BY <1>7, <1>8, <3>4, <4>1, <4>2, <4>3 DEF Within
    <3>5. ASSUME NEW b \in Nat
          PROVE  Among(b, rest) <=> window[1] <= b /\ b <= window[2] /\ ~AmongFirst(b, s, N)
      <4>1. Within(b, piece) <=> acc.cursor <= b /\ b <= window[2]
        BY <3>1 DEF Within
      <4>2. Among(b, rest) <=> Among(b, acc.rest) \/ Within(b, piece)
        BY <3>3
      <4>3. Among(b, acc.rest) <=>
              window[1] <= b /\ b < acc.cursor /\ b <= window[2] /\ ~AmongFirst(b, s, N)
        BY <1>7
      <4>4. acc.cursor <= b /\ b <= window[2] => ~AmongFirst(b, s, N)
        BY <3>4
      <4> QED BY <1>7, <1>8, <4>1, <4>2, <4>3, <4>4
    <3> QED BY <3>3, <3>5
  <2>2. CASE ~(acc.cursor <= window[2])
    <3>1. rest = acc.rest
      BY <1>9, <2>2
    <3>2. \A b \in Nat : b <= window[2] => b < acc.cursor
      BY <1>7, <1>8, <2>2
    <3> QED BY <1>7, <3>1, <3>2
  <2> QED BY <2>1, <2>2
<1>11. ASSUME NEW b
       PROVE  b \in InRanges(rest) <=> b \in InRange(window) \ InRanges(s)
  <2>1. b \in InRanges(rest) <=> b \in Nat /\ Among(b, rest)
    BY <1>10, BlocksAmong
  <2>2. b \in InRanges(s) <=> b \in Nat /\ Among(b, s)
    BY <1>1, BlocksAmong
  <2>3. b \in InRange(window) <=> b \in Nat /\ window[1] <= b /\ b <= window[2]
    BY <1>8 DEF InRange
  <2>4. Among(b, s) <=> AmongFirst(b, s, N)
    BY DEF Among, AmongFirst
  <2> QED BY <1>10, <2>1, <2>2, <2>3, <2>4
<1> QED BY <1>1, <1>10, <1>11 DEF rest
=============================================================================
