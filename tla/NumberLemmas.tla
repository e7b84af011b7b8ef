---------------------------- MODULE NumberLemmas ----------------------------
(***************************************************************************)
(* Facts about numbers that the proofs of several components use: least    *)
(* and greatest elements, functions defined by recursion, and sums.        *)
(***************************************************************************)
EXTENDS Sums, WellFoundedInduction, TLAPS

\* A non-empty set of naturals has a least element.
LEMMA HasLeast ==
  ASSUME NEW S \in SUBSET Nat, S # {}
  PROVE  \E i \in S : \A j \in S : i <= j
<1>1. PICK i \in S : \A j \in S : ~(<<j, i>> \in OpToRel(<, Nat))
  BY NatLessThanWellFounded, WFMin, Zenon
<1>2. ASSUME NEW j \in S PROVE i <= j
  <2>1. ~(j < i)
    BY <1>1 DEF OpToRel
  <2>2. QED
    BY <2>1
<1>3. QED
  BY <1>2

\* A non-empty set of naturals with a bound has a greatest element.
LEMMA HasGreatest ==
  ASSUME NEW n \in Nat, NEW S \in SUBSET (0..n), S # {}
  PROVE  \E i \in S : \A j \in S : j <= i
<1> DEFINE back == {n - i : i \in S}
<1>1. back \in SUBSET Nat /\ back # {}
  <2>1. PICK s \in S : TRUE
    OBVIOUS
  <2>2. n - s \in back
    OBVIOUS
  <2>3. ASSUME NEW c \in back PROVE c \in Nat
    <3>1. PICK i \in S : c = n - i
      OBVIOUS
    <3>2. i \in 0..n
      OBVIOUS
    <3>3. QED
      BY <3>1, <3>2
  <2>4. QED
    BY <2>2, <2>3
<1> HIDE DEF back
<1>2. PICK b \in back : \A c \in back : b <= c
  BY <1>1, HasLeast
<1>3. PICK i \in S : b = n - i
  BY DEF back
<1>4. ASSUME NEW j \in S PROVE j <= i
  <2>1. n - j \in back
    BY DEF back
  <2>2. n - i <= n - j
    BY <1>2, <1>3, <2>1
  <2>3. i \in 0..n /\ j \in 0..n
    OBVIOUS
  <2>4. QED
    BY <2>2, <2>3
<1>5. QED
  BY <1>4

\* Max is that element.
LEMMA MaxIsGreatest ==
  ASSUME NEW n \in Nat, NEW S \in SUBSET (0..n), S # {}
  PROVE  Max(S) \in S /\ \A j \in S : j <= Max(S)
<1>1. PICK i \in S : \A j \in S : j <= i
  BY HasGreatest
<1>2. i \in S /\ \A j \in S : i >= j
  BY <1>1
<1>3. Max(S) \in S /\ \A j \in S : Max(S) >= j
  BY <1>2 DEF Max
<1>4. QED
  BY <1>3

\* Min of some naturals is their least.
LEMMA MinIsLeast ==
  ASSUME NEW S \in SUBSET Nat, S # {}
  PROVE  Min(S) \in S /\ \A j \in S : Min(S) <= j
<1>1. PICK i \in S : \A j \in S : i <= j
  BY HasLeast
<1>2. Min(S) \in S /\ \A j \in S : Min(S) <= j
  BY <1>1 DEF Min
<1>3. QED
  BY <1>2

\* Of some elements of a finite list of numbers there is one of the greatest value.
LEMMA HasGreatestValue ==
  ASSUME NEW n \in Nat, NEW P \in SUBSET (1..n), P # {}, NEW value, \A i \in P : value[i] \in Int
  PROVE  \E i \in P : \A j \in P : value[j] <= value[i]
<1> DEFINE Upto(k) == {i \in P : i <= k}
           bad == {k \in Nat : Upto(k) # {} /\ ~\E i \in Upto(k) : \A j \in Upto(k) : value[j] <= value[i]}
<1>1. bad = {}
  <2>1. SUFFICES ASSUME bad # {} PROVE FALSE
    OBVIOUS
  <2>2. bad \in SUBSET Nat
    OBVIOUS
  <2>3. PICK k \in bad : \A l \in bad : k <= l
    <3> HIDE DEF bad
    <3>1. QED
      BY <2>1, <2>2, HasLeast
  <2>4. k \in Nat /\ Upto(k) # {} /\ ~\E i \in Upto(k) : \A j \in Upto(k) : value[j] <= value[i]
    BY <2>3
  <2>5. k # 0
    <3>1. ASSUME NEW i \in P PROVE ~(i <= 0)
      BY \A j \in P : j \in 1..n
    <3>2. Upto(0) = {}
      BY <3>1
    <3>3. QED
      BY <2>4, <3>2
  <2>6. k - 1 \in Nat /\ k - 1 \notin bad
    BY <2>3, <2>4, <2>5
  <2>7. \A i \in P : i \in Int /\ value[i] \in Int
    OBVIOUS
  <2>8. ASSUME NEW i PROVE i \in Upto(k) <=> i \in Upto(k - 1) \/ (i = k /\ k \in P)
    <3>1. CASE i \in P
      <4>1. i \in Int /\ k \in Int
        BY <2>4, <2>7, <3>1
      <4>2. i <= k <=> i <= k - 1 \/ i = k
        BY <4>1
      <4>3. QED
        BY <3>1, <4>2
    <3>2. CASE i \notin P
      BY <3>2
    <3>3. QED
      BY <3>1, <3>2
  <2>9. CASE Upto(k - 1) = {}
    <3>1. Upto(k) = {k} /\ k \in P
      BY <2>4, <2>8, <2>9
    <3>2. QED
      BY <2>4, <2>7, <3>1
  <2>10. CASE Upto(k - 1) # {}
    <3>1. PICK i \in Upto(k - 1) : \A j \in Upto(k - 1) : value[j] <= value[i]
      BY <2>6, <2>10
    <3>2. i \in P /\ i \in Upto(k) /\ Upto(k - 1) \subseteq P
      BY <2>8, <3>1
    <3>3. CASE k \in P /\ value[k] > value[i]
      <4>1. \A j \in Upto(k) : value[j] <= value[k]
        BY <2>7, <2>8, <3>1, <3>2, <3>3
      <4>2. k \in Upto(k)
        BY <2>4, <3>3
      <4>3. QED
        BY <2>4, <4>1, <4>2
    <3>4. CASE ~(k \in P /\ value[k] > value[i])
      <4>1. \A j \in Upto(k) : value[j] <= value[i]
        BY <2>7, <2>8, <3>1, <3>2, <3>4
      <4>2. QED
        BY <2>4, <3>2, <4>1
    <3>5. QED
      BY <3>3, <3>4
  <2>11. QED
    BY <2>9, <2>10
<1>2. Upto(n) = P
  <2>1. ASSUME NEW i \in P PROVE i <= n
    BY \A j \in P : j \in 1..n
  <2>2. QED
    BY <2>1
<1>3. n \notin bad
  BY <1>1
<1>4. QED
  BY <1>2, <1>3

---------------------------------------------------------------------------
(* Recursion over the naturals, for a first value a and a function next of *)
(* the index and the value before it.                                      *)

\* The recursion up to n.
Approximates(g, n, S, a, next) ==
    /\ g \in [0..n -> S]
    /\ g[0] = a
    /\ \A i \in 1..n : g[i] = next[<<i, g[i - 1]>>]

\* The recursion everywhere.
Recurses(f, S, a, next) ==
    /\ f \in [Nat -> S]
    /\ f[0] = a
    /\ \A i \in Nat \ {0} : f[i] = next[<<i, f[i - 1]>>]

\* There is at most one approximation.
LEMMA ApproximationUnique ==
  ASSUME NEW S, NEW a \in S, NEW next \in [Nat \X S -> S], NEW n \in Nat, NEW m \in 0..n,
         NEW g, NEW h, Approximates(g, n, S, a, next), Approximates(h, m, S, a, next)
  PROVE  \A i \in 0..m : g[i] = h[i]
<1> DEFINE bad == {i \in 0..m : g[i] # h[i]}
<1>1. SUFFICES ASSUME bad # {} PROVE FALSE
  OBVIOUS
<1>2. PICK i \in bad : \A j \in bad : i <= j
  <2>1. bad \in SUBSET Nat
    OBVIOUS
  <2> HIDE DEF bad
  <2>2. QED
    BY <1>1, <2>1, HasLeast
<1>3. i # 0 /\ i \in 1..m /\ i \in 1..n
  BY <1>2 DEF Approximates
<1>4. i - 1 \in 0..m /\ i - 1 \notin bad
  BY <1>2, <1>3
<1>5. g[i - 1] = h[i - 1]
  BY <1>4
<1>6. g[i] = h[i]
  BY <1>3, <1>5 DEF Approximates
<1>7. QED
  BY <1>2, <1>6

\* There is one for every n.
LEMMA ApproximationExists ==
  ASSUME NEW S, NEW a \in S, NEW next \in [Nat \X S -> S], NEW n \in Nat
  PROVE  \E g : Approximates(g, n, S, a, next)
<1> DEFINE bad == {i \in Nat : ~\E g : Approximates(g, i, S, a, next)}
<1>1. SUFFICES ASSUME bad # {} PROVE FALSE
  OBVIOUS
<1>2. PICK i \in bad : \A j \in bad : i <= j
  BY <1>1, HasLeast
<1>3. i # 0
  <2>1. Approximates([j \in 0..0 |-> a], 0, S, a, next)
    BY DEF Approximates
  <2>2. QED
    BY <1>2, <2>1
<1>4. i - 1 \in Nat /\ i - 1 \notin bad
  BY <1>2, <1>3
<1>5. PICK g : Approximates(g, i - 1, S, a, next)
  BY <1>4
<1> DEFINE h == [j \in 0..i |-> IF j = i THEN next[<<i, g[i - 1]>>] ELSE g[j]]
<1>6. Approximates(h, i, S, a, next)
  <2>1. i - 1 \in 0..(i - 1) /\ g[i - 1] \in S
    BY <1>4, <1>5 DEF Approximates
  <2>2. <<i, g[i - 1]>> \in Nat \X S
    BY <1>2, <2>1
  <2>3. next[<<i, g[i - 1]>>] \in S
    BY <2>2
  <2>4. h \in [0..i -> S]
    BY <1>2, <1>4, <1>5, <2>3 DEF Approximates
  <2>5. h[0] = a
    BY <1>2, <1>3, <1>5 DEF Approximates
  <2>6. ASSUME NEW j \in 1..i PROVE h[j] = next[<<j, h[j - 1]>>]
    <3>1. j \in 0..i /\ j - 1 \in 0..i /\ j - 1 # i /\ j - 1 \in Int /\ j \in Int
      BY <1>2, <2>6
    <3>2. h[j - 1] = g[j - 1]
      BY <3>1
    <3>3. CASE j = i
      BY <3>1, <3>2, <3>3
    <3>4. CASE j # i
      <4>1. j \in 1..(i - 1)
        BY <1>2, <2>6, <3>4
      <4>2. g[j] = next[<<j, g[j - 1]>>]
        BY <1>5, <4>1 DEF Approximates
      <4>3. QED
        BY <3>1, <3>2, <3>4, <4>2
    <3>5. QED
      BY <3>3, <3>4
  <2> HIDE DEF h
  <2>7. QED
    BY <2>4, <2>5, <2>6 DEF Approximates
<1>7. QED
  BY <1>2, <1>6

\* So there is a function that satisfies the recursion everywhere.
LEMMA RecursionExists ==
  ASSUME NEW S, NEW a \in S, NEW next \in [Nat \X S -> S]
  PROVE  \E f : Recurses(f, S, a, next)
<1> DEFINE g(n) == CHOOSE x : Approximates(x, n, S, a, next)
           f == [n \in Nat |-> g(n)[n]]
<1>1. ASSUME NEW n \in Nat PROVE Approximates(g(n), n, S, a, next)
  BY ApproximationExists
<1>2. f \in [Nat -> S] /\ f[0] = a
  <2>1. ASSUME NEW n \in Nat PROVE g(n)[n] \in S /\ (n = 0 => g(n)[n] = a)
    <3> HIDE DEF g
    <3>1. Approximates(g(n), n, S, a, next) /\ n \in 0..n
      BY <1>1
    <3>2. QED
      BY <3>1 DEF Approximates
  <2> HIDE DEF g
  <2>2. QED
    BY <2>1
<1>3. ASSUME NEW i \in Nat \ {0} PROVE f[i] = next[<<i, f[i - 1]>>]
  <2>1. i \in Nat /\ i - 1 \in 0..i /\ i - 1 \in Nat /\ i \in 1..i /\ i - 1 \in 0..(i - 1)
    OBVIOUS
  <2>2. Approximates(g(i), i, S, a, next) /\ Approximates(g(i - 1), i - 1, S, a, next)
    BY <1>1, <2>1
  <2>3. g(i)[i - 1] = g(i - 1)[i - 1]
    <3> HIDE DEF g
    <3>1. ASSUME NEW u, NEW v, Approximates(u, i, S, a, next),
                 Approximates(v, i - 1, S, a, next)
          PROVE  u[i - 1] = v[i - 1]
      <4>1. \A j \in 0..(i - 1) : u[j] = v[j]
        BY <2>1, <3>1, ApproximationUnique
      <4>2. QED
        BY <2>1, <4>1
    <3>2. QED
      BY <2>2, <3>1
  <2>4. g(i)[i] = next[<<i, g(i)[i - 1]>>]
    <3> HIDE DEF g
    <3>1. QED
      BY <2>1, <2>2 DEF Approximates
  <2>5. f[i] = g(i)[i] /\ f[i - 1] = g(i - 1)[i - 1]
    BY <2>1
  <2>6. QED
    BY <2>3, <2>4, <2>5
<1>4. Recurses(f, S, a, next)
  BY <1>2, <1>3 DEF Recurses
<1>5. QED
  BY <1>4

\* The greatest place of a function of places.
LEMMA LastPlace ==
  ASSUME NEW n \in Nat, NEW D \in SUBSET (1..n)
  PROVE  Max({0} \cup D) \in 0..n /\ \A i \in D : i <= Max({0} \cup D)
<1>1. {0} \cup D \in SUBSET (0..n) /\ {0} \cup D # {}
  OBVIOUS
<1>2. QED
  BY <1>1, MaxIsGreatest

\* A sum adds its terms one by one.
AddsUp(u, f, D, last) ==
    /\ u[0] = 0 /\ SumOf(f) = u[last]
    /\ \A k \in 0..last : u[k] \in Int
    /\ \A k \in 1..last : u[k] = u[k - 1] + (IF k \in D THEN f[k] ELSE 0)

LEMMA SumOfUnfolds ==
  ASSUME NEW n \in Nat, NEW D \in SUBSET (1..n), NEW f, DOMAIN f = D, \A i \in D : f[i] \in Int
  PROVE  \E u : AddsUp(u, f, D, n)
<1> DEFINE last == Max({0} \cup D)
<1>1. last \in 0..n /\ \A i \in D : i <= last
  BY LastPlace, Zenon
<1>2. last = Max({0} \cup DOMAIN f)
  OBVIOUS
<1> HIDE DEF last
<1> DEFINE term(k) == IF k \in D THEN f[k] ELSE 0
           next == [p \in Nat \X Int |-> p[2] + term(p[1])]
<1>3. \A k \in Nat : term(k) \in Int
  OBVIOUS
<1> HIDE DEF term
<1>4. \A i \in Nat, x \in Int : next[<<i, x>>] = x + term(i)
  OBVIOUS
<1>5. next \in [Nat \X Int -> Int] /\ 0 \in Int
  BY <1>3
<1> HIDE DEF next
<1>6. PICK h : Recurses(h, Int, 0, next)
  BY <1>5, RecursionExists, Zenon
<1>7. /\ h[0] = 0 /\ \A k \in Nat : h[k] \in Int
      /\ \A k \in Nat \ {0} : h[k] = h[k - 1] + term(k)
  <2>1. h[0] = 0 /\ \A k \in Nat : h[k] \in Int
    BY <1>6 DEF Recurses
  <2>2. ASSUME NEW k \in Nat \ {0} PROVE h[k] = h[k - 1] + term(k)
    <3>1. k - 1 \in Nat
      OBVIOUS
    <3>2. h[k] = next[<<k, h[k - 1]>>]
      BY <1>6, <3>1 DEF Recurses
    <3>3. QED
      BY <1>4, <2>1, <3>1, <3>2
  <2>3. QED
    BY <2>1, <2>2
<1> DEFINE g == [k \in 0..last |-> h[k]]
<1>8. g = [k \in 0..last |-> IF k = 0 THEN 0 ELSE g[k - 1] + term(k)]
  <2>1. ASSUME NEW k \in 0..last PROVE g[k] = IF k = 0 THEN 0 ELSE g[k - 1] + term(k)
    <3>1. CASE k = 0
      BY <1>7, <3>1
    <3>2. CASE k # 0
      <4>1. k \in 1..last /\ k - 1 \in 0..last
        BY <1>1, <3>2
      <4>2. QED
        BY <1>7, <3>2, <4>1
    <3>3. QED
      BY <3>1, <3>2
  <2>2. QED
    BY <2>1
<1> HIDE DEF g
<1> DEFINE upTo[k \in 0..last] ==
               IF k = 0 THEN 0 ELSE upTo[k - 1] + (IF k \in D THEN f[k] ELSE 0)
<1>9. SumOf(f) = upTo[last]
  BY DEF SumOf, last
<1>10. upTo = [k \in 0..last |-> IF k = 0 THEN 0
                               ELSE upTo[k - 1] + (IF k \in D THEN f[k] ELSE 0)]
  BY <1>8 DEF term
<1> HIDE DEF upTo
<1>11. upTo[0] = 0 /\ \A k \in 1..last : upTo[k] = upTo[k - 1] + (IF k \in D THEN f[k] ELSE 0)
  <2>1. 0 \in 0..last /\ \A k \in 1..last : k \in 0..last /\ k # 0
    BY <1>1
  <2>2. QED
    BY <1>10, <2>1, Zenon
<1>12. \A k \in 0..last : upTo[k] = h[k]
  <2> DEFINE bad == {k \in 0..last : upTo[k] # h[k]}
  <2>1. SUFFICES ASSUME bad # {} PROVE FALSE
    OBVIOUS
  <2>2. bad \in SUBSET Nat
    OBVIOUS
  <2>3. PICK k \in bad : \A j \in bad : k <= j
    <3> HIDE DEF bad
    <3>1. QED
      BY <2>1, <2>2, HasLeast
  <2>4. k # 0
    BY <1>7, <1>11, <2>3
  <2>5. k \in 1..last /\ k - 1 \in 0..last /\ k - 1 \notin bad
    BY <1>1, <2>3, <2>4
  <2>6. QED
    BY <1>7, <1>11, <2>3, <2>5 DEF term
<1>13. ASSUME NEW k \in last..n PROVE h[k] = h[last]
  <2> DEFINE bad == {j \in last..n : h[j] # h[last]}
  <2>1. SUFFICES ASSUME bad # {} PROVE FALSE
    OBVIOUS
  <2>2. bad \in SUBSET Nat
    BY <1>1
  <2>3. PICK j \in bad : \A i \in bad : j <= i
    <3> HIDE DEF bad
    <3>1. QED
      BY <2>1, <2>2, HasLeast
  <2>4. j # last /\ j \in Nat \ {0} /\ j - 1 \in last..n /\ j - 1 \notin bad
    BY <1>1, <2>3
  <2>5. j \notin D
    BY <1>1, <2>3, <2>4
  <2>6. h[j] = h[j - 1]
    BY <1>7, <2>4, <2>5 DEF term
  <2>7. QED
    BY <2>3, <2>4, <2>6
<1>14. n \in last..n /\ last \in 0..last
  BY <1>1
<1>15. SumOf(f) = h[n]
  BY <1>9, <1>12, <1>13, <1>14
<1>16. \A k \in 1..n : h[k] = h[k - 1] + (IF k \in D THEN f[k] ELSE 0)
  BY <1>7 DEF term
<1>17. QED
  BY <1>7, <1>15, <1>16 DEF AddsUp

\* Naturals that are, in order, among those of another sum add up to no more.
Among(f, D, g, E, at) ==
    /\ DOMAIN f = D /\ DOMAIN g = E /\ \A i \in E : g[i] \in Nat
    /\ \A i \in D : at[i] \in E /\ f[i] = g[at[i]]
    /\ \A i, k \in D : i < k => at[i] < at[k]

LEMMA SumsCompare ==
  ASSUME NEW n \in Nat, NEW D \in SUBSET (1..n), NEW m \in Nat, NEW E \in SUBSET (1..m),
         NEW f, NEW g, NEW at, Among(f, D, g, E, at)
  PROVE  SumOf(f) \in Nat /\ SumOf(g) \in Nat /\ SumOf(f) <= SumOf(g)
<1> USE DEF Among
<1>1. /\ \A i \in D : f[i] \in Nat /\ f[i] \in Int
      /\ \A i \in E : g[i] \in Int
      /\ \A i \in D : at[i] \in 1..m
  <2>1. \A i \in E : g[i] \in Int /\ i \in 1..m
    OBVIOUS
  <2>2. ASSUME NEW i \in D PROVE f[i] \in Nat /\ f[i] \in Int /\ at[i] \in 1..m
    <3>1. at[i] \in E /\ f[i] = g[at[i]]
      OBVIOUS
    <3>2. g[at[i]] \in Nat /\ at[i] \in 1..m
      BY <3>1
    <3>3. QED
      BY <3>1, <3>2
  <2>3. QED
    BY <2>1, <2>2
<1>2. PICK u : AddsUp(u, f, D, n)
  BY <1>1, SumOfUnfolds, Zenon
<1>3. PICK v : AddsUp(v, g, E, m)
  BY <1>1, SumOfUnfolds, Zenon
<1>4. \A k \in 0..m : v[k] \in Int
  BY <1>3 DEF AddsUp
<1>5. ASSUME NEW k \in 1..m PROVE v[k - 1] <= v[k] /\ (k \in E => v[k] = v[k - 1] + g[k])
  <2>1. k - 1 \in 0..m /\ k \in 0..m
    OBVIOUS
  <2>2. v[k] = v[k - 1] + (IF k \in E THEN g[k] ELSE 0) /\ v[k - 1] \in Int
    BY <1>3, <2>1 DEF AddsUp
  <2>3. k \in E => g[k] \in Nat
    OBVIOUS
  <2>4. QED
    BY <2>2, <2>3
<1>6. ASSUME NEW l \in 0..m, NEW h \in l..m PROVE v[l] <= v[h]
  <2> DEFINE bad == {k \in l..m : ~(v[l] <= v[k])}
  <2>1. SUFFICES ASSUME bad # {} PROVE FALSE
    OBVIOUS
  <2>2. bad \in SUBSET Nat
    OBVIOUS
  <2>3. PICK k \in bad : \A i \in bad : k <= i
    <3> HIDE DEF bad
    <3>1. QED
      BY <2>1, <2>2, HasLeast
  <2>4. k # l
    BY <1>4, <2>3
  <2>5. k \in 1..m /\ k - 1 \in l..m /\ k - 1 \notin bad /\ k - 1 \in 0..m /\ k \in 0..m
    BY <2>3, <2>4
  <2>6. v[l] <= v[k - 1] /\ v[k - 1] <= v[k]
    BY <1>5, <2>5
  <2>7. v[l] \in Int /\ v[k - 1] \in Int /\ v[k] \in Int
    BY <1>4, <2>5
  <2>8. v[l] <= v[k]
    <3> HIDE DEF bad
    <3>1. QED
      BY <2>6, <2>7
  <2>9. QED
    BY <2>3, <2>8
\* What the terms up to a place add up to, those they are among do not fall short of.
<1> DEFINE Covered(k) == 0 <= u[k] /\ \A h \in 0..m : (\A i \in D : i <= k => at[i] <= h) => u[k] <= v[h]
           bad == {k \in 0..n : ~Covered(k)}
<1>7. \A h \in 0..m : 0 <= v[h]
  <2>1. v[0] = 0 /\ 0 \in 0..m
    BY <1>3 DEF AddsUp
  <2>2. ASSUME NEW h \in 0..m PROVE 0 <= v[h]
    <3>1. h \in 0..m
      OBVIOUS
    <3>2. v[0] <= v[h]
      BY <1>6, <2>1, <3>1
    <3>3. QED
      BY <2>1, <3>2
  <2>3. QED
    BY <2>2
<1>8. bad = {}
  <2>1. SUFFICES ASSUME bad # {} PROVE FALSE
    OBVIOUS
  <2>2. bad \in SUBSET Nat
    OBVIOUS
  <2>3. PICK k \in bad : \A i \in bad : k <= i
    <3> HIDE DEF bad
    <3>1. QED
      BY <2>1, <2>2, HasLeast
  <2>4. k \in 0..n /\ ~Covered(k)
    BY <2>3
  <2>5. k # 0
    <3>1. u[0] = 0
      BY <1>2 DEF AddsUp
    <3>2. Covered(0)
      BY <1>7, <3>1
    <3>3. QED
      BY <2>4, <3>2
  <2>6. k \in 1..n /\ k - 1 \in 0..n /\ k - 1 \notin bad /\ k \in Nat
    BY <2>3, <2>4, <2>5
  <2>7. Covered(k - 1)
    BY <2>6
  <2> HIDE DEF bad
  <2>8. u[k - 1] \in Int /\ u[k] = u[k - 1] + (IF k \in D THEN f[k] ELSE 0)
    BY <1>2, <2>6 DEF AddsUp
  <2>9. CASE k \in D
    <3>1. u[k] = u[k - 1] + f[k] /\ f[k] \in Nat /\ at[k] \in E /\ f[k] = g[at[k]]
      BY <2>8, <2>9
    <3>2. 0 <= u[k]
      BY <2>7, <2>8, <3>1
    <3>3. ASSUME NEW h \in 0..m, \A i \in D : i <= k => at[i] <= h PROVE u[k] <= v[h]
      <4>1. at[k] <= h /\ at[k] \in 1..m /\ at[k] - 1 \in 0..m /\ h \in at[k]..m /\ at[k] \in 0..m
        <5>1. at[k] <= h /\ at[k] \in 1..m
          BY <1>1, <2>6, <2>9, <3>3
        <5>2. QED
          BY <5>1
      <4>2. ASSUME NEW i \in D, i <= k - 1 PROVE at[i] <= at[k] - 1
        <5>1. i < k
          BY <2>6, <4>2
        <5>2. at[i] < at[k] /\ at[i] \in 1..m
          BY <1>1, <2>9, <5>1
        <5>3. QED
          BY <4>1, <5>2
      <4>3. u[k - 1] <= v[at[k] - 1]
        BY <2>7, <4>1, <4>2
      <4>4. v[at[k]] = v[at[k] - 1] + g[at[k]]
        BY <1>5, <3>1, <4>1
      <4>5. v[at[k]] <= v[h]
        BY <1>6, <4>1
      <4>6. v[at[k] - 1] \in Int /\ v[at[k]] \in Int /\ v[h] \in Int
        BY <1>4, <4>1
      <4> DEFINE x == u[k - 1]
                 y == v[at[k] - 1]
                 z == g[at[k]]
      <4>7. x \in Int /\ y \in Int /\ z \in Int /\ x <= y
        BY <2>8, <3>1, <4>3, <4>6
      <4>8. u[k] = x + z /\ v[at[k]] = y + z
        BY <3>1, <4>4
      <4> HIDE DEF x, y, z
      <4>9. QED
        BY <4>5, <4>6, <4>7, <4>8
    <3>4. Covered(k)
      BY <3>2, <3>3
    <3>5. QED
      BY <2>4, <3>4
  <2>10. CASE k \notin D
    <3>1. u[k] = u[k - 1]
      BY <2>8, <2>10
    <3>2. ASSUME NEW h \in 0..m, \A i \in D : i <= k => at[i] <= h
          PROVE  \A i \in D : i <= k - 1 => at[i] <= h
      BY <2>6, <3>2
    <3>3. Covered(k)
      BY <2>7, <3>1, <3>2
    <3>4. QED
      BY <2>4, <3>3
  <2>11. QED
    BY <2>9, <2>10
<1>9. n \in 0..n /\ m \in 0..m
  OBVIOUS
<1>10. \A i \in D : at[i] <= m
  BY <1>1
<1>11. Covered(n)
  BY <1>8, <1>9
<1>12. 0 <= u[n] /\ u[n] <= v[m]
  BY <1>9, <1>10, <1>11
<1>13. u[n] \in Int /\ v[m] \in Int /\ SumOf(f) = u[n] /\ SumOf(g) = v[m]
  BY <1>2, <1>3, <1>9 DEF AddsUp
<1>14. QED
  BY <1>12, <1>13

\* A part of a sum of naturals is no more than the sum.
LEMMA PartOfSum ==
  ASSUME NEW n \in Nat, NEW D \in SUBSET (1..n), NEW C \in SUBSET D, NEW f, NEW g,
         DOMAIN f = C, DOMAIN g = D, \A i \in C : f[i] = g[i], \A i \in D : g[i] \in Nat
  PROVE  SumOf(f) \in Nat /\ SumOf(g) \in Nat /\ SumOf(f) <= SumOf(g)
<1>1. C \in SUBSET (1..n)
  OBVIOUS
<1>2. PICK same : same = [i \in C |-> i]
  OBVIOUS
<1>3. Among(f, C, g, D, same)
  BY <1>2 DEF Among
<1>4. QED
  BY <1>1, <1>3, SumsCompare, Zenon
=============================================================================
