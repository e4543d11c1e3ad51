----------------------------- MODULE RowsProofs -----------------------------
(***************************************************************************)
(* What the operators of Rows give, for any sequence of requests.          *)
(***************************************************************************)
EXTENDS Rows, SequencesExt, FiniteSetTheorems, WellFoundedInduction, TLAPS

(* Places in a finite set of numbers.                                      *)

LEMMA RankFacts ==
    ASSUME NEW S \in SUBSET Nat, IsFiniteSet(S)
    PROVE  /\ Cardinality(S) \in Nat
           /\ \A i \in S : Rank(S, i) \in 1 .. Cardinality(S)
           /\ \A i, j \in S : i < j => Rank(S, i) < Rank(S, j)
<1> DEFINE upto(i) == {j \in S : j <= i}
<1>1. ASSUME NEW i \in S
      PROVE  /\ IsFiniteSet(upto(i)) /\ Cardinality(upto(i)) <= Cardinality(S)
             /\ Cardinality(upto(i)) \in Nat /\ Cardinality(upto(i)) # 0
  <2>1. upto(i) \in SUBSET S /\ i \in upto(i)
    OBVIOUS
  <2>2. IsFiniteSet(upto(i)) /\ Cardinality(upto(i)) <= Cardinality(S)
    BY <2>1, FS_Subset
  <2>3. Cardinality(upto(i)) \in Nat
    BY <2>2, FS_CardinalityType
  <2>4. Cardinality(upto(i)) # 0
    BY <2>1, <2>2, FS_EmptySet
  <2> QED
    BY <2>2, <2>3, <2>4
<1>2. ASSUME NEW i \in S, NEW j \in S, i < j
      PROVE  Rank(S, i) < Rank(S, j)
  <2>1. upto(i) \in SUBSET upto(j) /\ j \in upto(j) /\ j \notin upto(i)
    <3>1. i \in Nat /\ j \in Nat /\ i < j /\ \A x \in S : x \in Nat
      BY <1>2
    <3>2. \A x \in S : x <= i => x <= j
      BY <3>1
    <3>3. ~(j <= i) /\ j <= j
      BY <3>1
    <3> QED
      BY <3>2, <3>3
  <2>2. IsFiniteSet(upto(j)) /\ Cardinality(upto(i)) \in Nat /\ Cardinality(upto(j)) \in Nat
    BY <1>1
  <2>3. Cardinality(upto(i)) <= Cardinality(upto(j))
    BY <2>1, <2>2, FS_Subset
  <2>4. Cardinality(upto(j)) # Cardinality(upto(i))
    BY <2>1, <2>2, FS_Subset
  <2> QED
    BY <2>2, <2>3, <2>4 DEF Rank
<1>3. Cardinality(S) \in Nat
  BY FS_CardinalityType
<1>4. ASSUME NEW i \in S PROVE Rank(S, i) \in 1 .. Cardinality(S)
  BY <1>1, <1>3 DEF Rank
<1> QED
  BY <1>2, <1>3, <1>4

\* Each place is some member's.
LEMMA NthFacts ==
    ASSUME NEW S \in SUBSET Nat, IsFiniteSet(S), NEW c \in 1 .. Cardinality(S)
    PROVE  Nth(S, c) \in S /\ Rank(S, Nth(S, c)) = c
<1> DEFINE n == Cardinality(S)
           f == [i \in S |-> Rank(S, i)]
<1>1. f \in Injection(S, 1 .. n)
  <2>1. f \in [S -> 1 .. n]
    BY RankFacts
  <2>2. ASSUME NEW i \in S, NEW j \in S, f[i] = f[j] PROVE i = j
    <3>1. i < j \/ j < i \/ i = j
      OBVIOUS
    <3>2. Rank(S, i) \in 1 .. n /\ Rank(S, j) \in 1 .. n /\ Rank(S, i) = Rank(S, j)
      BY <2>2, RankFacts
    <3> QED
      BY <3>1, <3>2, RankFacts
  <2> QED
    BY <2>1, <2>2 DEF Injection, IsInjective
<1>2. n \in Nat /\ IsFiniteSet(1 .. n) /\ Cardinality(1 .. n) = n
  <2>1. n \in Nat
    BY RankFacts
  <2> QED
    BY <2>1, FS_Interval
<1>3. f \in Surjection(S, 1 .. n)
  BY <1>1, <1>2, FS_Injection
<1>4. \E i \in S : Rank(S, i) = c
  BY <1>3 DEF Surjection
<1> QED
  BY <1>4 DEF Nth

LEMMA PlacesFacts ==
    ASSUME NEW R, NEW q \in Seq(R)
    PROVE  /\ Len(q) \in Nat /\ DOMAIN q = 1 .. Len(q)
           /\ \A i \in DOMAIN q : i \in Nat /\ i >= 1 /\ i <= Len(q) /\ q[i] \in R
           /\ q # <<>> => 1 \in DOMAIN q
OBVIOUS

LEMMA DisjointSum ==
    ASSUME NEW S, IsFiniteSet(S), NEW A, NEW B, A \cup B = S, A \cap B = {}
    PROVE  /\ IsFiniteSet(A) /\ IsFiniteSet(B)
           /\ Cardinality(A) \in Nat /\ Cardinality(B) \in Nat /\ Cardinality(S) \in Nat
           /\ Cardinality(A) + Cardinality(B) = Cardinality(S)
<1>1. A \in SUBSET S /\ B \in SUBSET S
  OBVIOUS
<1>2. IsFiniteSet(A) /\ IsFiniteSet(B)
  BY <1>1, FS_Subset
<1>3. Cardinality(A) \in Nat /\ Cardinality(B) \in Nat /\ Cardinality(S) \in Nat
  BY <1>2, FS_CardinalityType
<1>4. Cardinality(A \cup B) = Cardinality(A) + Cardinality(B) - Cardinality(A \cap B)
  BY <1>2, FS_Union
<1>5. Cardinality(A \cap B) = 0
  BY FS_EmptySet
<1> QED
  BY <1>2, <1>3, <1>4, <1>5

LEMMA FromOne ==
    ASSUME NEW N \in Nat
    PROVE  IsFiniteSet(1 .. N) /\ Cardinality(1 .. N) = N
BY FS_Interval

-----------------------------------------------------------------------------
(* The persistent batch.                                                   *)

\* The counting behind the moves: the rows freed below the new end are as many
\* as the requests and the last rows to be put there.
LEMMA CondensedCounts ==
    ASSUME NEW R, NEW q \in Seq(R), NEW S, NEW k \in Nat
    PROVE  /\ NewLen(q, S, k) \in Nat /\ NewLen(q, S, k) = Cardinality(Holding(q, S)) + k
           /\ Holding(q, S) \subseteq 1 .. Len(q)
           /\ IsFiniteSet(Holding(q, S)) /\ Cardinality(Holding(q, S)) \in Nat
           /\ IsFiniteSet(Freed(q, S)) /\ Cardinality(Freed(q, S)) \in Nat
           /\ Freed(q, S) \in SUBSET Nat /\ Freed(q, S) = (1 .. Len(q)) \ Holding(q, S)
           /\ IsFiniteSet(Beyond(q, S, k)) /\ Cardinality(Beyond(q, S, k)) \in Nat
           /\ Beyond(q, S, k) \in SUBSET Nat
           /\ Cardinality(Freed(q, S)) + NewLen(q, S, k) = Len(q) + k
           /\ \A i \in Freed(q, S) : i <= NewLen(q, S, k) =>
                Rank(Freed(q, S), i) \in 1 .. k + Cardinality(Beyond(q, S, k))
<1> DEFINE L    == Len(q)
           stay == Holding(q, S)
           n    == NewLen(q, S, k)
           free == Freed(q, S)
           late == Beyond(q, S, k)
<1>a. L \in Nat /\ DOMAIN q = 1 .. L
  OBVIOUS
<1>b. stay \subseteq 1 .. L /\ free = (1 .. L) \ stay
  BY <1>a DEF Holding, Freed
<1>c. n = Cardinality(stay) + k /\ late = {i \in stay : i > n}
  BY DEF NewLen, Beyond
<1> HIDE DEF L, stay, n, free, late
<1> DEFINE early == {i \in stay : i <= n}
           holes == {i \in free : i <= n}
<1>1. IsFiniteSet(1 .. L) /\ Cardinality(1 .. L) = L
  BY <1>a, FromOne
<1>2. free \cup stay = 1 .. L /\ free \cap stay = {}
  BY <1>b
<1>3. /\ IsFiniteSet(free) /\ IsFiniteSet(stay)
      /\ Cardinality(free) \in Nat /\ Cardinality(stay) \in Nat
      /\ Cardinality(free) + Cardinality(stay) = L
  <2>1. /\ IsFiniteSet(free) /\ IsFiniteSet(stay)
        /\ Cardinality(free) \in Nat /\ Cardinality(stay) \in Nat
        /\ Cardinality(free) + Cardinality(stay) = Cardinality(1 .. L)
    BY <1>1, <1>2, DisjointSum
  <2> QED
    BY <1>1, <2>1
<1>4. n \in Nat
  BY <1>3, <1>c
<1>5. early \cup late = stay /\ early \cap late = {}
  <2>1. \A i \in 1 .. L : (i <= n \/ i > n) /\ ~(i <= n /\ i > n)
    BY <1>4, <1>a
  <2> QED
    BY <2>1, <1>b, <1>c
<1>6. n <= L => holes \cup early = 1 .. n /\ holes \cap early = {}
  <2>1. n <= L => \A i : i \in 1 .. n <=> i \in 1 .. L /\ i <= n
    BY <1>4, <1>a
  <2> QED
    BY <2>1, <1>b
<1>7. \A i \in free : i <= n => {j \in free : j <= i} \in SUBSET holes
  <2>1. \A i, j \in 1 .. L : i <= n /\ j <= i => j <= n
    BY <1>4, <1>a
  <2> QED
    BY <2>1, <1>b
<1> HIDE DEF early, holes
<1>8. /\ IsFiniteSet(late) /\ Cardinality(late) \in Nat /\ Cardinality(early) \in Nat
      /\ Cardinality(early) + Cardinality(late) = Cardinality(stay)
  BY <1>3, <1>5, DisjointSum
<1>9. ASSUME n <= L PROVE IsFiniteSet(holes) /\ Cardinality(holes) = k + Cardinality(late)
  <2>1. IsFiniteSet(1 .. n) /\ Cardinality(1 .. n) = n
    BY <1>4, FromOne
  <2>2. /\ IsFiniteSet(holes) /\ Cardinality(holes) \in Nat
        /\ Cardinality(holes) + Cardinality(early) = Cardinality(1 .. n)
    BY <1>6, <1>9, <2>1, DisjointSum
  <2> DEFINE h == Cardinality(holes)
             e == Cardinality(early)
             l == Cardinality(late)
             s == Cardinality(stay)
  <2>3. h \in Nat /\ e \in Nat /\ l \in Nat /\ s \in Nat /\ h + e = s + k /\ e + l = s
    BY <1>3, <1>8, <1>c, <2>1, <2>2
  <2> HIDE DEF h, e, l, s
  <2>4. h = k + l
    BY <2>3
  <2> QED
    BY <2>2, <2>4 DEF h, l
<1>10. Cardinality(free) + n = L + k
  <2> DEFINE a == Cardinality(free)
             s == Cardinality(stay)
  <2>1. a \in Nat /\ s \in Nat /\ a + s = L /\ n = s + k /\ L \in Nat
    BY <1>3, <1>a, <1>c
  <2> HIDE DEF a, s
  <2>2. a + n = L + k
    BY <2>1
  <2> QED
    BY <2>2 DEF a
<1>11. free \in SUBSET Nat /\ late \in SUBSET Nat /\ free \subseteq 1 .. L
  BY <1>2, <1>5, <1>a
<1>12. ASSUME NEW i \in free, i <= n PROVE Rank(free, i) \in 1 .. k + Cardinality(late)
  <2>1. Rank(free, i) \in 1 .. Cardinality(free)
    BY <1>3, <1>11, RankFacts
  <2>2. CASE n > L
    <3> DEFINE a == Cardinality(free)
    <3>1. a \in Nat /\ n \in Nat /\ a + n = L + k /\ n > L /\ L \in Nat
      BY <1>a, <1>3, <1>4, <1>10, <2>2
    <3> HIDE DEF a
    <3>2. a <= k
      BY <3>1
    <3>3. Cardinality(free) <= k
      BY <3>2 DEF a
    <3> QED
      BY <1>3, <1>8, <2>1, <3>3
  <2>3. CASE n <= L
    <3>1. Rank(free, i) <= Cardinality(holes)
      BY <1>7, <1>9, <1>12, <2>3, FS_Subset DEF Rank
    <3> QED
      BY <1>3, <1>8, <1>9, <2>1, <2>3, <3>1
  <2> QED
    BY <1>4, <1>a, <2>2, <2>3
<1> QED
  BY <1>3, <1>4, <1>8, <1>10, <1>11, <1>12, <1>b, <1>c DEF L, stay, n, free, late

\* The requests that stay and those added.
Joined(q, S, added) == (ToSet(q) \cap S) \cup ToSet(added)

\* What becomes of the rows: those that stay and those added, each once.
LEMMA CondensedArranges ==
    ASSUME NEW R, NEW q \in Seq(R), IsInjective(q), NEW S,
           NEW added \in Seq(R), IsInjective(added),
           \A x \in ToSet(added) : ~(x \in ToSet(q) /\ x \in S)
    PROVE  /\ Condensed(q, S, added) \in Seq(R) /\ IsInjective(Condensed(q, S, added))
           /\ ToSet(Condensed(q, S, added)) = Joined(q, S, added)
           /\ Len(Condensed(q, S, added)) = Cardinality(Joined(q, S, added))
<1> DEFINE stay  == Holding(q, S)
           k     == Len(added)
           n     == NewLen(q, S, k)
           L     == Len(q)
           free  == Freed(q, S)
           late  == Beyond(q, S, k)
           m     == Cardinality(late)
           now   == Condensed(q, S, added)
           kept  == ToSet(q) \cap S
           all   == kept \cup ToSet(added)
           \* Rows that are given to a request added, and whose.
           Given1(i) == i > L \/ (i \in free /\ Rank(free, i) <= k)
           src(i) == IF i > L THEN Cardinality(free) + i - L ELSE Rank(free, i)
           \* Rows of a request that stays, and its row before.
           old(i) == IF i \in free THEN Nth(late, m + 1 + k - Rank(free, i)) ELSE i
<1>1. L \in Nat /\ DOMAIN q = 1 .. L /\ \A i \in 1 .. L : q[i] \in R
  OBVIOUS
<1>2. k \in Nat /\ DOMAIN added = 1 .. k /\ \A i \in 1 .. k : added[i] \in R
  OBVIOUS
<1>3. /\ n \in Nat /\ n = Cardinality(stay) + k /\ free = (1 .. L) \ stay
      /\ stay \subseteq 1 .. L /\ IsFiniteSet(stay) /\ Cardinality(stay) \in Nat
      /\ IsFiniteSet(free) /\ free \in SUBSET Nat /\ free \subseteq 1 .. L
      /\ IsFiniteSet(late) /\ late \in SUBSET Nat
      /\ m \in Nat /\ Cardinality(free) \in Nat
      /\ Cardinality(free) + n = L + k
      /\ \A i \in free : i <= n => Rank(free, i) \in 1 .. k + m
  BY <1>2, CondensedCounts
<1>4. /\ DOMAIN now = 1 .. n /\ now = [i \in 1 .. n |-> now[i]]
      /\ \A i \in 1 .. n : now[i] = IF Given1(i) THEN added[src(i)] ELSE q[old(i)]
  BY <1>1 DEF Condensed
<1>5. /\ \A i \in stay : q[i] \in kept
      /\ \A x \in ToSet(added) : x \notin kept
      /\ \A i \in 1 .. k : added[i] \in ToSet(added)
      /\ \A i, j \in 1 .. k : added[i] = added[j] => i = j
      /\ \A i, j \in 1 .. L : q[i] = q[j] => i = j
      /\ \A i \in late : i \in (1 .. L) \ free /\ i > n
  BY <1>1, <1>2, <1>3 DEF ToSet, IsInjective, Holding, Beyond
<1>6. /\ IsFiniteSet(all) /\ Cardinality(all) = n
  <2>1. IsFiniteSet(kept) /\ Cardinality(kept) = Cardinality(stay)
    <3> DEFINE f == [i \in stay |-> q[i]]
    <3>1. f \in [stay -> kept]
      BY <1>5
    <3>2. f \in Injection(stay, kept)
      BY <1>3, <1>5, <3>1 DEF Injection, IsInjective
    <3>3. f \in Surjection(stay, kept)
      BY <1>1, <3>1 DEF Surjection, ToSet, Holding
    <3>4. IsFiniteSet(kept)
      BY <1>3, <3>3, FS_Surjection
    <3> QED
      BY <1>3, <3>2, <3>3, <3>4, FS_Injection
  <2>2. IsFiniteSet(ToSet(added)) /\ Cardinality(ToSet(added)) = k
    <3>1. added \in [1 .. k -> ToSet(added)]
      BY <1>2, <1>5
    <3>2. added \in Injection(1 .. k, ToSet(added))
      BY <1>2, <1>5, <3>1 DEF Injection, IsInjective
    <3>3. added \in Surjection(1 .. k, ToSet(added))
      BY <1>2, <3>1 DEF Surjection, ToSet
    <3>4. IsFiniteSet(1 .. k) /\ Cardinality(1 .. k) = k
      BY <1>2, FromOne
    <3>5. IsFiniteSet(ToSet(added))
      BY <3>3, <3>4, FS_Surjection
    <3> QED
      BY <3>2, <3>3, <3>4, <3>5, FS_Injection
  <2>3. kept \cap ToSet(added) = {}
    OBVIOUS
  <2> HIDE DEF kept
  <2>4. /\ IsFiniteSet(all) /\ Cardinality(kept \cap ToSet(added)) = 0
        /\ Cardinality(all) = Cardinality(kept) + Cardinality(ToSet(added))
                              - Cardinality(kept \cap ToSet(added))
    BY <2>1, <2>2, <2>3, FS_Union, FS_EmptySet
  <2> QED
    BY <1>2, <1>3, <2>1, <2>2, <2>4
<1>7. \A i, j \in free : i # j => Rank(free, i) # Rank(free, j)
  <2>1. ASSUME NEW i \in free, NEW j \in free, i < j PROVE Rank(free, i) # Rank(free, j)
    <3>1. Rank(free, i) < Rank(free, j) /\ Rank(free, i) \in 1 .. Cardinality(free)
          /\ Rank(free, j) \in 1 .. Cardinality(free)
      BY <1>3, <2>1, RankFacts
    <3> QED
      BY <3>1
  <2>2. \A i, j \in free : i # j => i < j \/ j < i
    BY <1>3
  <2> QED
    BY <2>1, <2>2
<1>8. \A i \in free : Rank(free, i) \in 1 .. Cardinality(free)
  BY <1>3, RankFacts
<1>9. \A c \in 1 .. m : Nth(late, c) \in late /\ Rank(late, Nth(late, c)) = c
  BY <1>3, NthFacts
<1>10. \A i \in (1 .. L) \ free : q[i] \in kept
  BY <1>3, <1>5
<1> DEFINE fc == Cardinality(free)
<1> HIDE DEF stay, n, k, free, late, L, m, now, kept, all, fc
<1>a. n \in Nat /\ k \in Nat /\ m \in Nat /\ L \in Nat /\ fc \in Nat /\ fc + n = L + k
  BY <1>1, <1>2, <1>3 DEF fc
<1>b. /\ free \subseteq 1 .. L /\ \A i \in free : i <= n => Rank(free, i) \in 1 .. k + m
      /\ \A i \in free : Rank(free, i) \in 1 .. fc
  BY <1>3, <1>8 DEF fc
<1>11. ASSUME NEW i \in 1 .. n, Given1(i) PROVE src(i) \in 1 .. k
  <2>1. CASE i > L
    <3>1. fc + i - L \in 1 .. k
      BY <1>a, <2>1
    <3> QED
      BY <2>1, <3>1 DEF fc
  <2>2. CASE ~(i > L)
    BY <1>a, <1>b, <1>11, <2>2
  <2> QED
    BY <2>1, <2>2
<1>12. ASSUME NEW i \in 1 .. n, NEW j \in 1 .. n, Given1(i), Given1(j), src(i) = src(j)
       PROVE  i = j
  <2>1. CASE i > L /\ j > L
    <3>1. fc + i - L = fc + j - L
      BY <1>12, <2>1 DEF fc
    <3> QED
      BY <1>a, <3>1
  <2>2. CASE i > L /\ ~(j > L)
    <3>1. fc + i - L = Rank(free, j) /\ Rank(free, j) \in 1 .. fc
      BY <1>b, <1>12, <2>2 DEF fc
    <3> QED
      BY <1>a, <2>2, <3>1
  <2>3. CASE ~(i > L) /\ j > L
    <3>1. fc + j - L = Rank(free, i) /\ Rank(free, i) \in 1 .. fc
      BY <1>b, <1>12, <2>3 DEF fc
    <3> QED
      BY <1>a, <2>3, <3>1
  <2>4. CASE ~(i > L) /\ ~(j > L)
    BY <1>7, <1>12, <2>4
  <2> QED
    BY <2>1, <2>2, <2>3, <2>4
<1>13. ASSUME NEW i \in 1 .. n, ~Given1(i), i \in free
       PROVE  /\ m + 1 + k - Rank(free, i) \in 1 .. m
              /\ old(i) \in late /\ Rank(late, old(i)) = m + 1 + k - Rank(free, i)
  <2>1. Rank(free, i) \in 1 .. k + m /\ ~(Rank(free, i) <= k)
    <3>1. i <= n
      BY <1>a
    <3> QED
      BY <1>b, <1>13, <3>1
  <2> DEFINE p == Rank(free, i)
  <2>2. p \in 1 .. k + m /\ ~(p <= k) /\ k \in Nat /\ m \in Nat
    BY <1>a, <2>1
  <2> HIDE DEF p
  <2>3. m + 1 + k - p \in 1 .. m
    BY <2>2
  <2>4. m + 1 + k - Rank(free, i) \in 1 .. m
    BY <2>3 DEF p
  <2> QED
    BY <1>9, <1>13, <2>4
<1>14. ASSUME NEW i \in 1 .. n, ~Given1(i)
       PROVE  old(i) \in (1 .. L) \ free /\ (old(i) \in late <=> i \in free)
  <2>1. CASE i \in free
    BY <1>5, <1>13, <1>14, <2>1
  <2>2. CASE i \notin free
    BY <1>a, <1>5, <1>14, <2>2
  <2> QED
    BY <2>1, <2>2
<1>15. ASSUME NEW i \in 1 .. n, NEW j \in 1 .. n, ~Given1(i), ~Given1(j), old(i) = old(j)
       PROVE  i = j
  <2>1. i \in free <=> j \in free
    BY <1>14, <1>15
  <2>2. CASE i \notin free
    BY <1>15, <2>1, <2>2
  <2>3. CASE i \in free
    <3>1. m + 1 + k - Rank(free, i) = m + 1 + k - Rank(free, j)
      BY <1>13, <1>15, <2>1, <2>3
    <3>2. Rank(free, i) \in Nat /\ Rank(free, j) \in Nat
      BY <1>a, <1>b, <2>1, <2>3
    <3> DEFINE p == Rank(free, i)
               o == Rank(free, j)
    <3>3. p \in Nat /\ o \in Nat /\ k \in Nat /\ m \in Nat /\ m + 1 + k - p = m + 1 + k - o
      BY <1>a, <3>1, <3>2
    <3> HIDE DEF p, o
    <3>4. p = o
      BY <3>3
    <3> QED
      BY <1>7, <2>1, <2>3, <3>4 DEF p, o
  <2> QED
    BY <2>2, <2>3
<1>16. ASSUME NEW i \in 1 .. n
       PROVE  /\ now[i] \in all /\ now[i] \in R
              /\ Given1(i) => now[i] = added[src(i)] /\ now[i] \in ToSet(added)
              /\ ~Given1(i) => now[i] = q[old(i)] /\ now[i] \in kept
  <2>1. CASE Given1(i)
    BY <1>2, <1>4, <1>5, <1>11, <2>1 DEF all
  <2>2. CASE ~Given1(i)
    BY <1>1, <1>4, <1>10, <1>14, <2>2 DEF all
  <2> QED
    BY <2>1, <2>2
<1>17. ASSUME NEW i \in 1 .. n, NEW j \in 1 .. n, now[i] = now[j] PROVE i = j
  <2>1. CASE Given1(i) /\ Given1(j)
    BY <1>5, <1>11, <1>12, <1>16, <1>17, <2>1
  <2>2. CASE ~Given1(i) /\ ~Given1(j)
    BY <1>5, <1>14, <1>15, <1>16, <1>17, <2>2
  <2> QED
    BY <1>5, <1>16, <1>17, <2>1, <2>2
<1>18. now \in [1 .. n -> all] /\ now \in [1 .. n -> R]
  BY <1>4, <1>16
<1>19. now \in Injection(1 .. n, all)
  BY <1>17, <1>18 DEF Injection, IsInjective
<1>20. now \in Surjection(1 .. n, all)
  <2>1. IsFiniteSet(1 .. n) /\ Cardinality(1 .. n) = n
    BY <1>a, FromOne
  <2> QED
    BY <1>6, <1>19, <2>1, FS_Injection
<1>21. now \in Seq(R) /\ Len(now) = n
  BY <1>a, <1>18
<1>22. IsInjective(now) /\ ToSet(now) = all
  BY <1>4, <1>16, <1>17, <1>20 DEF IsInjective, ToSet, Surjection
<1> QED
  BY <1>6, <1>21, <1>22 DEF now, all, kept, Joined

-----------------------------------------------------------------------------
(* Subsequences.                                                           *)

\* The members of S are found in the order of q, each from a place of its own.
LEMMA OnlyPlaces ==
    ASSUME NEW R, NEW q \in Seq(R), NEW S
    PROVE  /\ Only(q, S) \in Seq(R)
           /\ \E at \in [DOMAIN Only(q, S) -> Holding(q, S)] :
                /\ \A i \in DOMAIN Only(q, S) : Only(q, S)[i] = q[at[i]]
                /\ \A i, j \in DOMAIN Only(q, S) : i < j => at[i] < at[j]
                /\ \A a \in Holding(q, S) : \E i \in DOMAIN Only(q, S) : at[i] = a
<1> DEFINE kept == Holding(q, S)
           n    == Cardinality(kept)
           o    == Only(q, S)
           at   == [i \in 1 .. n |-> Nth(kept, i)]
<1>1. Len(q) \in Nat /\ DOMAIN q = 1 .. Len(q) /\ \A i \in DOMAIN q : q[i] \in R
  OBVIOUS
<1>2. kept \subseteq 1 .. Len(q) /\ kept \in SUBSET Nat
  BY <1>1 DEF Holding
<1>3. IsFiniteSet(kept) /\ n \in Nat
  <2>1. IsFiniteSet(1 .. Len(q))
    BY <1>1, FromOne
  <2> QED
    BY <1>2, <2>1, FS_Subset, FS_CardinalityType
<1>4. DOMAIN o = 1 .. n /\ \A i \in 1 .. n : o[i] = q[Nth(kept, i)]
  BY DEF Only
<1>5. \A i \in kept : Rank(kept, i) \in 1 .. n
  BY <1>2, <1>3, RankFacts
<1>6. \A i, j \in kept : i < j => Rank(kept, i) < Rank(kept, j)
  BY <1>2, <1>3, RankFacts
<1>7. \A i \in 1 .. n : Nth(kept, i) \in kept /\ Rank(kept, Nth(kept, i)) = i
  BY <1>2, <1>3, NthFacts
<1>8. o = [i \in 1 .. n |-> q[Nth(kept, i)]]
  BY DEF Only
<1>9. \A i \in kept : q[i] \in R /\ i \in Nat
  BY <1>1, <1>2
<1> HIDE DEF n, kept, o
<1>10. o \in [1 .. n -> R]
  BY <1>7, <1>8, <1>9
<1>11. o \in Seq(R)
  BY <1>3, <1>10
<1>12. at \in [1 .. n -> kept] /\ \A i \in 1 .. n : o[i] = q[at[i]]
  BY <1>4, <1>7
<1>13. ASSUME NEW i \in 1 .. n, NEW j \in 1 .. n, i < j PROVE at[i] < at[j]
  <2> DEFINE a == at[i]
             b == at[j]
  <2>1. a \in kept /\ b \in kept /\ Rank(kept, a) = i /\ Rank(kept, b) = j
    BY <1>7
  <2>2. a \in Nat /\ b \in Nat /\ i \in Nat /\ j \in Nat
    BY <1>3, <1>9, <2>1
  <2> HIDE DEF a, b
  <2>3. ~(b < a)
    <3>1. b < a => j < i
      BY <1>6, <2>1
    <3> QED
      BY <1>13, <2>2, <3>1
  <2>4. a # b
    BY <1>13, <2>1, <2>2
  <2>5. a < b
    BY <2>2, <2>3, <2>4
  <2> QED
    BY <2>5 DEF a, b
<1>14. ASSUME NEW a \in kept PROVE \E i \in 1 .. n : at[i] = a
  <2> DEFINE c == Rank(kept, a)
             b == Nth(kept, c)
  <2>1. c \in 1 .. n /\ b \in kept /\ Rank(kept, b) = c
    BY <1>5, <1>7
  <2>2. a \in Nat /\ b \in Nat /\ c \in Nat
    BY <1>3, <1>9, <2>1
  <2>3. at[c] = b
    BY <2>1
  <2> HIDE DEF b
  <2>4. (a < b => Rank(kept, a) < Rank(kept, b)) /\ (b < a => Rank(kept, b) < Rank(kept, a))
    BY <1>6, <2>1
  <2> HIDE DEF c
  <2>5. ~(a < b) /\ ~(b < a)
    <3>1. (a < b => c < c) /\ (b < a => c < c)
      BY <2>1, <2>4 DEF c
    <3> QED
      BY <2>2, <3>1
  <2>6. a = b
    BY <2>2, <2>5
  <2> QED
    BY <2>1, <2>3, <2>6
<1> HIDE DEF at
<1>15. \E f \in [DOMAIN o -> kept] :
          /\ \A i \in DOMAIN o : o[i] = q[f[i]]
          /\ \A i, j \in DOMAIN o : i < j => f[i] < f[j]
          /\ \A a \in kept : \E i \in DOMAIN o : f[i] = a
  <2>1. /\ at \in [DOMAIN o -> kept] /\ \A i \in DOMAIN o : o[i] = q[at[i]]
        /\ \A i, j \in DOMAIN o : i < j => at[i] < at[j]
        /\ \A a \in kept : \E i \in DOMAIN o : at[i] = a
    BY <1>4, <1>12, <1>13, <1>14
  <2> QED
    BY <2>1
<1> QED
  BY <1>11, <1>15 DEF o, kept

LEMMA OnlyFacts ==
    ASSUME NEW R, NEW q \in Seq(R), NEW S
    PROVE  /\ Only(q, S) \in Seq(R)
           /\ \A x : x \in ToSet(Only(q, S)) <=> x \in ToSet(q) /\ x \in S
           /\ Len(Only(q, S)) <= Len(q)
           /\ IsInjective(q) => IsInjective(Only(q, S))
           /\ \A i, j \in DOMAIN Only(q, S) : i < j =>
                \E a, b \in DOMAIN q : a < b /\ Only(q, S)[i] = q[a] /\ Only(q, S)[j] = q[b]
           /\ q # <<>> /\ q[1] \in S => Only(q, S) # <<>> /\ Only(q, S)[1] = q[1]
<1> DEFINE o == Only(q, S)
           kept == Holding(q, S)
<1>1. Len(q) \in Nat /\ DOMAIN q = 1 .. Len(q) /\ \A i \in DOMAIN q : q[i] \in R
  OBVIOUS
<1>2. kept \subseteq DOMAIN q /\ \A a \in DOMAIN q : a \in kept <=> q[a] \in S
  BY DEF Holding
<1>3. o \in Seq(R)
  BY OnlyPlaces
<1>4. PICK at \in [DOMAIN o -> kept] :
        /\ \A i \in DOMAIN o : o[i] = q[at[i]]
        /\ \A i, j \in DOMAIN o : i < j => at[i] < at[j]
        /\ \A a \in kept : \E i \in DOMAIN o : at[i] = a
  BY OnlyPlaces
<1>5. Len(o) \in Nat /\ DOMAIN o = 1 .. Len(o)
  BY <1>3
<1> HIDE DEF o, kept
<1>6. ToSet(o) = ToSet(q) \cap S
  BY <1>2, <1>4 DEF ToSet
<1>7. ASSUME IsInjective(q) PROVE IsInjective(o)
  <2> SUFFICES ASSUME NEW i \in DOMAIN o, NEW j \in DOMAIN o, o[i] = o[j] PROVE i = j
    BY DEF IsInjective
  <2>1. at[i] \in DOMAIN q /\ at[j] \in DOMAIN q /\ q[at[i]] = q[at[j]]
    BY <1>2, <1>4
  <2>2. at[i] = at[j]
    BY <1>7, <2>1 DEF IsInjective
  <2>3. (i < j => at[i] < at[j]) /\ (j < i => at[j] < at[i])
    BY <1>4
  <2>4. at[i] \in Nat /\ i \in Nat /\ j \in Nat
    BY <1>1, <1>5, <2>1
  <2> QED
    BY <2>2, <2>3, <2>4
<1>8. ASSUME NEW i \in DOMAIN o, NEW j \in DOMAIN o, i < j
      PROVE  \E a, b \in DOMAIN q : a < b /\ o[i] = q[a] /\ o[j] = q[b]
  BY <1>2, <1>4, <1>8
<1>9. ASSUME q # <<>>, q[1] \in S PROVE o # <<>> /\ o[1] = q[1]
  <2>1. 1 \in DOMAIN q
    BY <1>1, <1>9
  <2>2. PICK i \in DOMAIN o : at[i] = 1
    BY <1>2, <1>4, <1>9, <2>1
  <2>3. o # <<>> /\ 1 \in DOMAIN o
    BY <1>5, <2>2
  <2>4. at[1] \in DOMAIN q
    BY <1>2, <1>4, <2>3
  <2>5. i = 1
    <3>1. 1 < i => at[1] < at[i]
      BY <1>4, <2>2, <2>3
    <3>2. at[1] \in Nat /\ at[1] >= 1 /\ i \in Nat /\ i >= 1
      BY <1>1, <1>5, <2>2, <2>4
    <3> QED
      BY <2>2, <3>1, <3>2
  <2> QED
    BY <1>4, <2>2, <2>3, <2>5
<1>10. Len(o) <= Len(q)
  <2>1. IsFiniteSet(1 .. Len(q)) /\ Cardinality(1 .. Len(q)) = Len(q)
    BY <1>1, FromOne
  <2>2. kept \in SUBSET (1 .. Len(q))
    BY <1>1, <1>2
  <2>3. Cardinality(kept) <= Len(q) /\ Cardinality(kept) \in Nat
    BY <2>1, <2>2, FS_Subset, FS_CardinalityType
  <2>4. DOMAIN o = 1 .. Cardinality(kept)
    BY DEF o, Only, kept
  <2> QED
    BY <1>5, <2>3, <2>4
<1> QED
  BY <1>3, <1>6, <1>7, <1>8, <1>9, <1>10 DEF o

\* Two queues one after the other, and one request more at the end.
LEMMA JoinFacts ==
    ASSUME NEW R, NEW p \in Seq(R), NEW q \in Seq(R), IsInjective(p), IsInjective(q),
           ToSet(p) \cap ToSet(q) = {}
    PROVE  /\ p \o q \in Seq(R) /\ IsInjective(p \o q)
           /\ \A x : x \in ToSet(p \o q) <=> x \in ToSet(p) \/ x \in ToSet(q)
<1>1. p \o q \in Seq(R) /\ DOMAIN (p \o q) = 1 .. Len(p) + Len(q)
  OBVIOUS
<1>2. /\ Len(p) \in Nat /\ Len(q) \in Nat /\ DOMAIN p = 1 .. Len(p) /\ DOMAIN q = 1 .. Len(q)
  OBVIOUS
<1>3. /\ \A i \in 1 .. Len(p) : (p \o q)[i] = p[i]
      /\ \A i \in 1 .. Len(p) + Len(q) : ~(i <= Len(p)) =>
            i - Len(p) \in 1 .. Len(q) /\ (p \o q)[i] = q[i - Len(p)]
      /\ \A i \in 1 .. Len(q) : Len(p) + i \in 1 .. Len(p) + Len(q) /\ (p \o q)[Len(p) + i] = q[i]
  OBVIOUS
<1> DEFINE s == p \o q
           m == Len(p)
           n == Len(q)
<1>4. \A x : x \in ToSet(p) <=> \E i \in 1 .. m : p[i] = x
  BY <1>2 DEF ToSet
<1>5. \A x : x \in ToSet(q) <=> \E i \in 1 .. n : q[i] = x
  BY <1>2 DEF ToSet
<1>6. \A x : x \in ToSet(s) <=> \E i \in 1 .. m + n : s[i] = x
  BY <1>1 DEF ToSet
<1>7. (\A i, j \in 1 .. m : p[i] = p[j] => i = j) /\ (\A i, j \in 1 .. n : q[i] = q[j] => i = j)
  BY <1>2 DEF IsInjective
<1>8. \A i \in 1 .. m : i \in 1 .. m + n
  BY <1>2
<1> HIDE DEF s, m, n
<1>9. ASSUME NEW x PROVE x \in ToSet(s) <=> x \in ToSet(p) \/ x \in ToSet(q)
  <2>1. ASSUME NEW i \in 1 .. m + n, s[i] = x PROVE x \in ToSet(p) \/ x \in ToSet(q)
    <3>1. CASE i <= m
      <4>1. i \in 1 .. m
        BY <1>2, <3>1 DEF m, n
      <4> QED
        BY <1>3, <1>4, <2>1, <4>1 DEF s, m
    <3>2. CASE ~(i <= m)
      <4>1. i - m \in 1 .. n /\ s[i] = q[i - m]
        BY <1>3, <3>2 DEF s, m, n
      <4> QED
        BY <1>5, <2>1, <4>1
    <3> QED
      BY <3>1, <3>2
  <2>2. ASSUME NEW i \in 1 .. m, p[i] = x PROVE x \in ToSet(s)
    <3>1. s[i] = p[i]
      BY <1>3 DEF s, m
    <3> QED
      BY <1>6, <1>8, <2>2, <3>1
  <2>3. ASSUME NEW i \in 1 .. n, q[i] = x PROVE x \in ToSet(s)
    <3>1. m + i \in 1 .. m + n /\ s[m + i] = q[i]
      BY <1>3 DEF s, m, n
    <3> QED
      BY <1>6, <2>3, <3>1
  <2> QED
    BY <1>4, <1>5, <1>6, <2>1, <2>2, <2>3
<1>10. ASSUME NEW i \in 1 .. m + n, NEW j \in 1 .. m + n, s[i] = s[j] PROVE i = j
  <2>1. m \in Nat /\ n \in Nat /\ i \in Nat /\ j \in Nat /\ 1 <= i /\ 1 <= j
    BY <1>2 DEF m, n
  <2>2. CASE i <= m /\ j <= m
    BY <1>3, <1>7, <1>10, <2>1, <2>2 DEF s, m
  <2>3. CASE ~(i <= m) /\ ~(j <= m)
    <3>1. /\ i - m \in 1 .. n /\ s[i] = q[i - m] /\ j - m \in 1 .. n /\ s[j] = q[j - m]
      BY <1>3, <2>3 DEF s, m, n
    <3>2. i - m = j - m
      BY <1>7, <1>10, <3>1
    <3> QED
      BY <2>1, <3>2
  <2>4. ASSUME NEW a \in 1 .. m + n, NEW b \in 1 .. m + n, a <= m, ~(b <= m) PROVE s[a] # s[b]
    <3>1. a \in 1 .. m
      BY <2>1, <2>4
    <3>2. s[a] = p[a] /\ b - m \in 1 .. n /\ s[b] = q[b - m]
      BY <1>3, <2>4, <3>1 DEF s, m, n
    <3>3. s[a] \in ToSet(p) /\ s[b] \in ToSet(q)
      BY <1>4, <1>5, <3>1, <3>2
    <3> QED
      BY <3>3
  <2> QED
    BY <1>10, <2>2, <2>3, <2>4
<1> QED
  BY <1>1, <1>9, <1>10 DEF s, IsInjective, m, n

LEMMA AppendFacts ==
    ASSUME NEW R, NEW q \in Seq(R), NEW r \in R, IsInjective(q), r \notin ToSet(q)
    PROVE  /\ Append(q, r) \in Seq(R) /\ IsInjective(Append(q, r))
           /\ \A x : x \in ToSet(Append(q, r)) <=> x \in ToSet(q) \/ x = r
           /\ Len(Append(q, r)) = Len(q) + 1
           /\ \A i \in DOMAIN q : i \in DOMAIN Append(q, r) /\ Append(q, r)[i] = q[i]
           /\ \A i \in DOMAIN Append(q, r) :
                i \in DOMAIN q \/ (i = Len(q) + 1 /\ Append(q, r)[i] = r)
<1> DEFINE a == Append(q, r)
           n == Len(q)
<1>1. /\ n \in Nat /\ DOMAIN q = 1 .. n /\ a \in Seq(R) /\ Len(a) = n + 1
      /\ DOMAIN a = 1 .. n + 1 /\ a[n + 1] = r /\ \A i \in 1 .. n : a[i] = q[i]
  OBVIOUS
<1>2. \A i \in 1 .. n + 1 : i \in 1 .. n \/ i = n + 1
  BY <1>1
<1>3. \A i \in 1 .. n : i \in 1 .. n + 1 /\ i # n + 1
  BY <1>1
<1>4. n + 1 \in 1 .. n + 1
  BY <1>1
<1> HIDE DEF a, n
<1>5. \A x : x \in ToSet(a) <=> x \in ToSet(q) \/ x = r
  BY <1>1, <1>2, <1>3, <1>4 DEF ToSet
<1>6. \A i \in 1 .. n : a[i] # r
  BY <1>1 DEF ToSet
<1>7. IsInjective(a)
  BY <1>1, <1>2, <1>6 DEF IsInjective
<1>8. ASSUME NEW i \in DOMAIN q PROVE i \in DOMAIN a /\ a[i] = q[i]
  <2>1. i \in 1 .. n
    BY <1>1
  <2>2. i \in 1 .. n + 1
    BY <1>3, <2>1
  <2> QED
    BY <1>1, <2>1, <2>2
<1>a. DOMAIN a = 1 .. n + 1 /\ DOMAIN q = 1 .. n /\ a[n + 1] = r
  BY <1>1
<1>9. ASSUME NEW i \in DOMAIN a PROVE i \in DOMAIN q \/ (i = n + 1 /\ a[i] = r)
  <2>1. i \in 1 .. n \/ i = n + 1
    BY <1>2, <1>9, <1>a
  <2> QED
    BY <2>1, <1>a
<1>10. a \in Seq(R) /\ Len(a) = n + 1
  BY <1>1
<1> QED
  BY <1>5, <1>7, <1>8, <1>9, <1>10 DEF a, n

\* The requests of a queue are finitely many.
LEMMA MembersFinite ==
    ASSUME NEW R, NEW q \in Seq(R)
    PROVE  IsFiniteSet(ToSet(q)) /\ ToSet(q) \in SUBSET R
<1>1. Len(q) \in Nat /\ DOMAIN q = 1 .. Len(q) /\ q \in [1 .. Len(q) -> R]
  OBVIOUS
<1>2. q \in Surjection(1 .. Len(q), ToSet(q))
  BY <1>1 DEF Surjection, ToSet
<1>3. IsFiniteSet(1 .. Len(q))
  BY <1>1, FromOne
<1> QED
  BY <1>1, <1>2, <1>3, FS_Surjection DEF ToSet

-----------------------------------------------------------------------------
(* Sums.                                                                   *)

Pairs(f, S) == UNION {{r} \X (1 .. f[r]) : r \in S}

\* What f counts, it counts in whole tokens or blocks.
Counts(f, S) == \A r \in S : f[r] \in Nat

LEMMA PairsFacts ==
    ASSUME NEW f, NEW S, Counts(f, S)
    PROVE  \A p : p \in Pairs(f, S) <=>
               \E r \in S : \E n \in Nat : p = <<r, n>> /\ 1 <= n /\ n <= f[r]
BY DEF Pairs, Counts

LEMMA TotalType ==
    ASSUME NEW f, NEW S, IsFiniteSet(S), Counts(f, S)
    PROVE  IsFiniteSet(Pairs(f, S)) /\ Total(f, S) \in Nat
<1> DEFINE T == {{r} \X (1 .. f[r]) : r \in S}
           g == [r \in S |-> {r} \X (1 .. f[r])]
<1>1. g \in Surjection(S, T)
  BY DEF Surjection
<1>2. IsFiniteSet(T)
  BY <1>1, FS_Surjection
<1>3. ASSUME NEW r \in S PROVE IsFiniteSet({r} \X (1 .. f[r]))
  <2>1. f[r] \in Nat
    BY DEF Counts
  <2>2. IsFiniteSet(1 .. f[r]) /\ IsFiniteSet({r})
    BY <2>1, FromOne, FS_Singleton
  <2> QED
    BY <2>2, FS_Product
<1>4. \A U \in T : IsFiniteSet(U)
  BY <1>3
<1> HIDE DEF T
<1>5. IsFiniteSet(UNION T)
  BY <1>2, <1>4, FS_UNION
<1> QED
  BY <1>5, FS_CardinalityType DEF Total, Pairs, T

LEMMA TotalEmpty ==
    ASSUME NEW f
    PROVE  Total(f, {}) = 0
<1>1. UNION {{r} \X (1 .. f[r]) : r \in {}} = {}
  OBVIOUS
<1> QED
  BY <1>1, FS_EmptySet DEF Total

\* A sum grows with the set and with each of its terms.
LEMMA TotalMonotone ==
    ASSUME NEW f, NEW g, NEW T, IsFiniteSet(T), NEW S \in SUBSET T,
           Counts(f, S), Counts(g, T), \A r \in S : f[r] <= g[r]
    PROVE  Total(f, S) <= Total(g, T)
<1>1. IsFiniteSet(Pairs(g, T))
  BY TotalType
<1>2. Pairs(f, S) \in SUBSET Pairs(g, T)
  <2> SUFFICES ASSUME NEW p \in Pairs(f, S) PROVE p \in Pairs(g, T)
    OBVIOUS
  <2>1. PICK r \in S : \E n \in Nat : p = <<r, n>> /\ 1 <= n /\ n <= f[r]
    BY PairsFacts
  <2>2. PICK n \in Nat : p = <<r, n>> /\ 1 <= n /\ n <= f[r]
    BY <2>1
  <2>3. f[r] \in Nat /\ g[r] \in Nat /\ f[r] <= g[r] /\ r \in T
    BY DEF Counts
  <2>4. n <= g[r]
    BY <2>2, <2>3
  <2> QED
    BY <2>2, <2>3, <2>4, PairsFacts
<1> QED
  BY <1>1, <1>2, FS_Subset DEF Total, Pairs

LEMMA TotalAdd ==
    ASSUME NEW f, NEW S, IsFiniteSet(S), NEW r, r \notin S, Counts(f, S), f[r] \in Nat
    PROVE  Total(f, S \union {r}) = Total(f, S) + f[r]
<1> DEFINE A == Pairs(f, S)
           B == {r} \X (1 .. f[r])
<1>1. f[r] \in Nat
  OBVIOUS
<1>2. IsFiniteSet(B) /\ Cardinality(B) = f[r]
  <2>1. IsFiniteSet({r}) /\ Cardinality({r}) = 1
    BY FS_Singleton
  <2>2. ASSUME NEW n \in Nat
        PROVE  IsFiniteSet({r} \X (1 .. n)) /\ Cardinality({r} \X (1 .. n)) = n
    <3>1. IsFiniteSet(1 .. n) /\ Cardinality(1 .. n) = n
      BY FromOne
    <3>2. /\ IsFiniteSet({r} \X (1 .. n))
          /\ Cardinality({r} \X (1 .. n)) = Cardinality({r}) * Cardinality(1 .. n)
      BY <2>1, <3>1, FS_Product
    <3> QED
      BY <2>1, <3>1, <3>2
  <2> QED
    BY <1>1, <2>2
<1>3. IsFiniteSet(A) /\ Cardinality(A) = Total(f, S) /\ Total(f, S) \in Nat
  BY TotalType DEF Total, Pairs
<1>4. A \cap B = {}
  <2>1. \A p \in A : \E s \in S : \E n \in Nat : p = <<s, n>>
    BY PairsFacts
  <2>2. \A p \in B : \E n \in 1 .. f[r] : p = <<r, n>>
    OBVIOUS
  <2> HIDE DEF A, B
  <2>3. ASSUME NEW p \in A, p \in B PROVE FALSE
    <3>1. PICK s \in S : \E n \in Nat : p = <<s, n>>
      BY <2>1, <2>3
    <3>2. s = r
      BY <2>2, <2>3, <3>1
    <3> QED
      BY <3>1, <3>2
  <2> QED
    BY <2>3
<1>5. UNION {{s} \X (1 .. f[s]) : s \in S \union {r}} = A \cup B
  BY DEF Pairs
<1> HIDE DEF A, B
<1>6. Cardinality(A \cup B) = Cardinality(A) + Cardinality(B) - Cardinality(A \cap B)
  BY <1>2, <1>3, FS_Union
<1>7. Cardinality(A \cap B) = 0
  BY <1>4, FS_EmptySet
<1>8. Total(f, S \union {r}) = Cardinality(A \cup B)
  BY <1>5 DEF Total
<1>9. Cardinality(A \cup B) = Total(f, S) + f[r]
  BY <1>1, <1>2, <1>3, <1>6, <1>7
<1> QED
  BY <1>8, <1>9

LEMMA TotalOne ==
    ASSUME NEW f, NEW r, f[r] \in Nat
    PROVE  Total(f, {r}) = f[r]
<1>1. {} \union {r} = {r} /\ IsFiniteSet({}) /\ Counts(f, {}) /\ r \notin {}
  BY FS_EmptySet DEF Counts
<1>2. Total(f, {} \union {r}) = Total(f, {}) + f[r]
  BY <1>1, TotalAdd
<1>3. f[r] \in Nat
  OBVIOUS
<1> QED
  BY <1>1, <1>2, <1>3, TotalEmpty

-----------------------------------------------------------------------------
(* Rows laid end to end.  Induction goes by the least counterexample.      *)

LEMMA LeastExists ==
    ASSUME NEW T \in SUBSET Nat, T # {}
    PROVE  \E x \in T : \A y \in T : x <= y
<1> DEFINE R == {ss \in Nat \X Nat : ss[1] < ss[2]}
<1>1. IsWellFoundedOn(R, Nat)
  BY NatLessThanWellFounded DEF OpToRel
<1>2. PICK x \in T : \A y \in T : <<y, x>> \notin R
  BY <1>1, WFMin
<1>3. ASSUME NEW y \in T PROVE x <= y
  <2>1. x \in Nat /\ y \in Nat /\ ~(y < x)
    BY <1>2
  <2> QED
    BY <2>1
<1> QED
  BY <1>3

LEMMA GreatestExists ==
    ASSUME NEW B \in Nat, NEW T \in SUBSET (0 .. B), T # {}
    PROVE  \E x \in T : \A y \in T : y <= x
<1> DEFINE U == {B - x : x \in T}
<1>1. U \in SUBSET Nat /\ U # {}
  <2>1. PICK x \in T : TRUE
    OBVIOUS
  <2>2. B - x \in U
    BY <2>1
  <2>3. \A y \in T : B - y \in Nat
    OBVIOUS
  <2> QED
    BY <2>2, <2>3
<1>2. PICK u \in U : \A v \in U : u <= v
  <2> HIDE DEF U
  <2> QED
    BY <1>1, LeastExists
<1>3. PICK x \in T : u = B - x
  BY <1>2
<1>4. ASSUME NEW y \in T PROVE y <= x
  <2>1. B - y \in U /\ x \in Nat /\ y \in Nat
    OBVIOUS
  <2>2. B - x <= B - y
    BY <1>2, <1>3, <2>1
  <2> QED
    BY <2>1, <2>2
<1> QED
  BY <1>4

\* A row has a number of places.
Lengths(w) == Len(w) \in Nat /\ \A j \in 1 .. Len(w) : w[j] \in Nat

\* Sums up to each of the first n rows.
Sums(w, n, f) == f[0] = 0 /\ \A j \in 1 .. n : f[j] = f[j - 1] + w[j]

\* The recursion that defines Ends has a solution.
LEMMA EndsExists ==
    ASSUME NEW w, Lengths(w)
    PROVE  \E f \in [0 .. Len(w) -> Nat] :
              f = [j \in 0 .. Len(w) |-> IF j = 0 THEN 0 ELSE f[j - 1] + w[j]]
<1> DEFINE Bad == {n \in 0 .. Len(w) : ~ \E f \in [0 .. n -> Nat] : Sums(w, n, f)}
<1>1. Bad = {}
  <2> SUFFICES ASSUME Bad # {} PROVE FALSE
    OBVIOUS
  <2>1. PICK n \in Bad : \A m \in Bad : n <= m
    <3>1. Bad \in SUBSET Nat
      BY DEF Lengths
    <3> HIDE DEF Bad
    <3> QED
      BY <3>1, LeastExists
  <2>2. n \in Nat /\ n <= Len(w) /\ Len(w) \in Nat
    BY <2>1 DEF Lengths
  <2>3. n # 0
    <3>1. [j \in 0 .. 0 |-> 0] \in [0 .. 0 -> Nat] /\ Sums(w, 0, [j \in 0 .. 0 |-> 0])
      BY DEF Sums
    <3> QED
      BY <2>1, <3>1
  <2>4. n - 1 \in 0 .. Len(w) /\ n - 1 \notin Bad
    <3>1. n - 1 \in Nat /\ n - 1 < n /\ n - 1 <= Len(w)
      BY <2>2, <2>3
    <3>2. n - 1 \notin Bad
      <4> HIDE DEF Bad
      <4> QED
        BY <2>1, <2>2, <3>1
    <3> QED
      BY <2>2, <3>1, <3>2
  <2>5. PICK f \in [0 .. n - 1 -> Nat] : Sums(w, n - 1, f)
    BY <2>4
  <2> DEFINE g == [j \in 0 .. n |-> IF j = n THEN f[n - 1] + w[n] ELSE f[j]]
  <2>6. w[n] \in Nat /\ f[n - 1] \in Nat
    BY <2>2, <2>3 DEF Lengths
  <2>7. g \in [0 .. n -> Nat]
    BY <2>2, <2>3, <2>6
  <2>8. Sums(w, n, g)
    BY <2>2, <2>3, <2>5 DEF Sums
  <2> QED
    BY <2>1, <2>7, <2>8
<1>2. Len(w) \in Nat
  BY DEF Lengths
<1>3. PICK f \in [0 .. Len(w) -> Nat] : Sums(w, Len(w), f)
  BY <1>1, <1>2
<1>4. f = [j \in 0 .. Len(w) |-> IF j = 0 THEN 0 ELSE f[j - 1] + w[j]]
  BY <1>2, <1>3 DEF Sums
<1> QED
  BY <1>4

LEMMA EndsFacts ==
    ASSUME NEW w, Lengths(w)
    PROVE  /\ Ends(w)[0] = 0
           /\ \A j \in 1 .. Len(w) : Ends(w)[j] = Ends(w)[j - 1] + w[j]
           /\ \A j \in 0 .. Len(w) : Ends(w)[j] \in Nat
<1> DEFINE L == Len(w)
           E == Ends(w)
<1>1. L \in Nat
  BY DEF Lengths
<1>2. E = [j \in 0 .. L |-> IF j = 0 THEN 0 ELSE E[j - 1] + w[j]]
  BY EndsExists DEF Ends
<1> HIDE DEF E
<1>3. E[0] = 0 /\ \A j \in 1 .. L : E[j] = E[j - 1] + w[j]
  BY <1>1, <1>2
<1> DEFINE Bad == {n \in 0 .. L : E[n] \notin Nat}
<1>4. Bad = {}
  <2> SUFFICES ASSUME Bad # {} PROVE FALSE
    OBVIOUS
  <2>1. Bad \in SUBSET Nat
    BY <1>1
  <2>2. PICK n \in Bad : \A m \in Bad : n <= m
    <3> HIDE DEF Bad
    <3> QED
      BY <2>1, LeastExists
  <2>3. n \in 1 .. L /\ n \in Nat
    BY <1>1, <1>3, <2>2
  <2>4. n - 1 \in 0 .. L /\ n - 1 \notin Bad
    <3>1. n - 1 \in 0 .. L /\ n - 1 < n /\ n - 1 \in Nat
      BY <1>1, <2>3
    <3> HIDE DEF Bad
    <3> QED
      BY <2>2, <2>3, <3>1
  <2>5. E[n - 1] \in Nat /\ w[n] \in Nat
    BY <2>3, <2>4 DEF Lengths
  <2> QED
    BY <1>3, <2>2, <2>3, <2>5
<1> QED
  BY <1>1, <1>3, <1>4 DEF E

\* A row ends where the next one begins, or further on.
LEMMA EndsMonotone ==
    ASSUME NEW w, Lengths(w), NEW i \in 0 .. Len(w), NEW j \in 0 .. Len(w), i <= j
    PROVE  Ends(w)[i] <= Ends(w)[j]
<1> DEFINE L == Len(w)
           E == Ends(w)
           Bad == {n \in i .. L : ~(E[i] <= E[n])}
<1>1. /\ L \in Nat /\ i \in Nat /\ i <= L
      /\ \A n \in 1 .. L : E[n] = E[n - 1] + w[n] /\ w[n] \in Nat
      /\ \A n \in 0 .. L : E[n] \in Nat
  BY EndsFacts DEF Lengths
<1> HIDE DEF E, L
<1>2. Bad = {}
  <2> SUFFICES ASSUME Bad # {} PROVE FALSE
    OBVIOUS
  <2>1. Bad \in SUBSET Nat
    BY <1>1
  <2>2. PICK n \in Bad : \A m \in Bad : n <= m
    <3> HIDE DEF Bad
    <3> QED
      BY <2>1, LeastExists
  <2>3. n \in Nat /\ i < n /\ n <= L
    <3>1. n \in i .. L /\ ~(E[i] <= E[n]) /\ E[i] \in Nat
      BY <1>1, <2>2
    <3>2. n # i
      BY <3>1
    <3> QED
      BY <1>1, <3>1, <3>2
  <2>4. n - 1 \in i .. L /\ n - 1 < n /\ n - 1 \notin Bad
    <3>1. n - 1 \in i .. L /\ n - 1 < n /\ n - 1 \in Nat
      BY <1>1, <2>3
    <3> HIDE DEF Bad
    <3> QED
      BY <2>2, <2>3, <3>1
  <2>5. E[i] <= E[n - 1]
    BY <2>4
  <2>6. E[n] = E[n - 1] + w[n] /\ w[n] \in Nat /\ E[n - 1] \in Nat /\ E[i] \in Nat
    BY <1>1, <2>3, <2>4
  <2>7. E[i] <= E[n]
    BY <2>5, <2>6
  <2> QED
    BY <2>2, <2>7
<1>3. j \in i .. L
  BY <1>1 DEF L
<1> QED
  BY <1>2, <1>3 DEF E

\* Rows of one place each end where they are counted.
LEMMA EndsOfOnes ==
    ASSUME NEW w, Lengths(w), \A j \in 1 .. Len(w) : w[j] = 1
    PROVE  \A j \in 0 .. Len(w) : Ends(w)[j] = j
<1> DEFINE L == Len(w)
           E == Ends(w)
           Bad == {n \in 0 .. L : E[n] # n}
<1>1. /\ L \in Nat /\ E[0] = 0
      /\ \A n \in 1 .. L : E[n] = E[n - 1] + 1
  BY EndsFacts DEF Lengths
<1> HIDE DEF E, L
<1>2. Bad = {}
  <2> SUFFICES ASSUME Bad # {} PROVE FALSE
    OBVIOUS
  <2>1. Bad \in SUBSET Nat
    BY <1>1
  <2>2. PICK n \in Bad : \A m \in Bad : n <= m
    <3> HIDE DEF Bad
    <3> QED
      BY <2>1, LeastExists
  <2>3. n \in 1 .. L /\ n \in Nat
    BY <1>1, <2>2
  <2>4. n - 1 \in 0 .. L /\ n - 1 \notin Bad
    <3>1. n - 1 \in 0 .. L /\ n - 1 < n /\ n - 1 \in Nat
      BY <1>1, <2>3
    <3> HIDE DEF Bad
    <3> QED
      BY <2>2, <2>3, <3>1
  <2>5. E[n - 1] = n - 1
    BY <2>4
  <2> QED
    BY <1>1, <2>2, <2>3, <2>5
<1> QED
  BY <1>2 DEF E, L

\* A place belongs to one row.
LEMMA RowAtFacts ==
    ASSUME NEW w, Lengths(w)
    PROVE  /\ \A i \in 1 .. Ends(w)[Len(w)] :
                /\ RowAt(w, i) \in 1 .. Len(w)
                /\ Ends(w)[RowAt(w, i) - 1] < i /\ i <= Ends(w)[RowAt(w, i)]
           /\ \A j \in 1 .. Len(w) : \A o \in 1 .. w[j] :
                /\ Ends(w)[j - 1] + o \in 1 .. Ends(w)[Len(w)]
                /\ RowAt(w, Ends(w)[j - 1] + o) = j
<1> DEFINE L == Len(w)
           E == Ends(w)
           In(i, j) == E[j - 1] < i /\ i <= E[j]
<1>1. /\ L \in Nat /\ E[0] = 0
      /\ \A n \in 1 .. L : E[n] = E[n - 1] + w[n] /\ w[n] \in Nat
      /\ \A n \in 0 .. L : E[n] \in Nat
  BY EndsFacts DEF Lengths
<1>2. \A a, b \in 0 .. L : a <= b => E[a] <= E[b]
  BY EndsMonotone
<1>3. \A i : RowAt(w, i) = CHOOSE j \in 1 .. L : In(i, j)
  BY DEF RowAt
<1> HIDE DEF E, L
<1>4. ASSUME NEW i \in 1 .. E[L] PROVE \E j \in 1 .. L : In(i, j)
  <2> DEFINE After == {n \in 0 .. L : i <= E[n]}
  <2>1. After \in SUBSET Nat /\ L \in After /\ i \in Nat /\ i >= 1
    BY <1>1
  <2>2. PICK n \in After : \A m \in After : n <= m
    <3> HIDE DEF After
    <3> QED
      BY <2>1, LeastExists
  <2>3. n \in 1 .. L /\ n \in Nat /\ i <= E[n]
    BY <1>1, <2>1, <2>2
  <2>4. n - 1 \in 0 .. L /\ n - 1 \notin After
    <3>1. n - 1 \in 0 .. L /\ n - 1 < n /\ n - 1 \in Nat
      BY <1>1, <2>3
    <3> HIDE DEF After
    <3> QED
      BY <2>2, <2>3, <3>1
  <2>5. E[n - 1] < i
    <3>1. E[n - 1] \in Nat /\ ~(i <= E[n - 1])
      BY <1>1, <2>4
    <3> QED
      BY <2>1, <3>1
  <2> QED
    BY <2>3, <2>5
<1>5. ASSUME NEW i \in Nat, NEW a \in 1 .. L, NEW b \in 1 .. L, In(i, a), In(i, b), a < b
      PROVE  FALSE
  <2>1. a \in 0 .. L /\ b - 1 \in 0 .. L /\ a <= b - 1
    BY <1>1, <1>5
  <2>2. E[a] <= E[b - 1] /\ E[a] \in Nat /\ E[b - 1] \in Nat
    BY <1>1, <1>2, <2>1
  <2> QED
    BY <1>5, <2>2
<1>6. ASSUME NEW i \in 1 .. E[L]
      PROVE  RowAt(w, i) \in 1 .. L /\ In(i, RowAt(w, i))
  BY <1>3, <1>4
<1>7. ASSUME NEW j \in 1 .. L, NEW o \in 1 .. w[j]
      PROVE  E[j - 1] + o \in 1 .. E[L] /\ RowAt(w, E[j - 1] + o) = j
  <2>1. j - 1 \in 0 .. L /\ j \in 0 .. L /\ L \in 0 .. L /\ j <= L
    BY <1>1
  <2>2. /\ E[j - 1] \in Nat /\ E[j] = E[j - 1] + w[j] /\ w[j] \in Nat /\ E[j] <= E[L]
        /\ E[L] \in Nat /\ E[j] \in Nat
    BY <1>1, <1>2, <2>1
  <2>3. E[j - 1] + o \in 1 .. E[L] /\ In(E[j - 1] + o, j)
    BY <2>2
  <2>4. RowAt(w, E[j - 1] + o) \in 1 .. L /\ In(E[j - 1] + o, RowAt(w, E[j - 1] + o))
    BY <1>6, <2>3
  <2> DEFINE i == E[j - 1] + o
             r == RowAt(w, i)
  <2>5. i \in Nat /\ r \in 1 .. L /\ In(i, r) /\ In(i, j)
    BY <2>3, <2>4
  <2> HIDE DEF i, r
  <2>6. ~(r < j) /\ ~(j < r)
    BY <1>5, <2>5
  <2>7. r = j
    BY <1>1, <2>5, <2>6
  <2> QED
    BY <2>3, <2>7 DEF r, i
<1> QED
  BY <1>6, <1>7 DEF E, L

\* Rows that are all longer than others grow apart from them.
LEMMA EndsApart ==
    ASSUME NEW w, Lengths(w), NEW v, Lengths(v), Len(w) = Len(v),
           \A j \in 1 .. Len(w) : w[j] > v[j],
           NEW i \in 0 .. Len(w), NEW j \in 0 .. Len(w), i <= j
    PROVE  Ends(w)[j] - Ends(w)[i] >= Ends(v)[j] - Ends(v)[i] + (j - i)
<1> DEFINE L == Len(w)
           E == Ends(w)
           F == Ends(v)
           Bad == {n \in i .. L : ~(E[n] - E[i] >= F[n] - F[i] + (n - i))}
<1>1. /\ L \in Nat /\ i \in Nat /\ i <= L
      /\ \A n \in 1 .. L : E[n] = E[n - 1] + w[n] /\ w[n] \in Nat
      /\ \A n \in 0 .. L : E[n] \in Nat
  BY EndsFacts DEF Lengths
<1>2. /\ \A n \in 1 .. L : F[n] = F[n - 1] + v[n] /\ v[n] \in Nat /\ w[n] > v[n]
      /\ \A n \in 0 .. L : F[n] \in Nat
  BY EndsFacts DEF Lengths
<1> HIDE DEF E, F, L
<1>3. Bad = {}
  <2> SUFFICES ASSUME Bad # {} PROVE FALSE
    OBVIOUS
  <2>1. Bad \in SUBSET Nat
    BY <1>1
  <2>2. PICK n \in Bad : \A m \in Bad : n <= m
    <3> HIDE DEF Bad
    <3> QED
      BY <2>1, LeastExists
  <2>3. n \in Nat /\ i < n /\ n <= L
    <3>1. n \in i .. L /\ n \in Nat
      BY <1>1, <2>2
    <3>2. E[i] \in Nat /\ F[i] \in Nat
      BY <1>1, <1>2
    <3>3. n # i
      BY <2>2, <3>2, <1>1
    <3> QED
      BY <1>1, <3>1, <3>3
  <2>4. n - 1 \in i .. L /\ n - 1 \notin Bad
    <3>1. n - 1 \in i .. L /\ n - 1 < n /\ n - 1 \in Nat
      BY <1>1, <2>3
    <3> HIDE DEF Bad
    <3> QED
      BY <2>2, <2>3, <3>1
  <2>5. E[n - 1] - E[i] >= F[n - 1] - F[i] + (n - 1 - i)
    BY <2>4
  <2>6. n \in 1 .. L /\ n - 1 \in 0 .. L /\ i \in 0 .. L
    BY <1>1, <2>3
  <2> DEFINE a == E[n - 1]
             b == E[i]
             c == F[n - 1]
             d == F[i]
             x == w[n]
             y == v[n]
  <2>7. /\ a \in Nat /\ b \in Nat /\ c \in Nat /\ d \in Nat /\ x \in Nat /\ y \in Nat
        /\ E[n] = a + x /\ F[n] = c + y /\ x > y
    BY <1>1, <1>2, <2>6
  <2>8. a - b >= c - d + (n - 1 - i)
    BY <2>5
  <2> HIDE DEF a, c, x, y
  <2>9. (a + x) - b >= (c + y) - d + (n - i)
    <3> HIDE DEF b, d
    <3> QED
      BY <1>1, <2>3, <2>7, <2>8
  <2> QED
    BY <2>2, <2>7, <2>9
<1>4. j \in i .. L
  BY <1>1 DEF L
<1> QED
  BY <1>3, <1>4 DEF E, F

\* Rows that all have a place end later and later.
LEMMA EndsStrict ==
    ASSUME NEW w, Lengths(w), \A j \in 1 .. Len(w) : w[j] > 0,
           NEW i \in 0 .. Len(w), NEW j \in 0 .. Len(w), i <= j
    PROVE  Ends(w)[j] >= Ends(w)[i] + (j - i)
<1> DEFINE L == Len(w)
           v == [n \in 1 .. L |-> w[n] - 1]
<1>1. L \in Nat /\ \A n \in 1 .. L : w[n] \in Nat
  BY DEF Lengths
<1>2. v \in Seq(Nat) /\ Len(v) = L
  <2>1. \A n \in 1 .. L : w[n] - 1 \in Nat
    BY <1>1
  <2> QED
    BY <1>1, <2>1
<1>3. Lengths(v) /\ \A n \in 1 .. L : w[n] > v[n]
  BY <1>1, <1>2 DEF Lengths
<1>4. Ends(w)[j] - Ends(w)[i] >= Ends(v)[j] - Ends(v)[i] + (j - i)
  <2> HIDE DEF v
  <2> QED
    BY <1>2, <1>3, EndsApart
<1>5. Ends(v)[i] <= Ends(v)[j] /\ Ends(v)[i] \in Nat /\ Ends(v)[j] \in Nat
  <2> HIDE DEF v
  <2> QED
    BY <1>2, <1>3, EndsMonotone, EndsFacts
<1>6. Ends(w)[i] \in Nat /\ Ends(w)[j] \in Nat
  BY EndsFacts
<1> QED
  BY <1>4, <1>5, <1>6
=============================================================================
