-------------------------- MODULE RecursionProofs ---------------------------
(***************************************************************************)
(* What FoldLeft, functions defined by recursion and sums over sets compute *)
(* for the proofs about loops the specifications write that way (walk(),    *)
(* free_tree(), console_write(), ramfs_init(), console_getchar() over a    *)
(* stream, kheap_stats()).  The step of a recursion is a function F and a  *)
(* property a set, so that the lemmas can be cited.                        *)
(***************************************************************************)
EXTENDS Integers, SequencesExt, NaturalsInduction, WellFoundedInduction, FiniteSetTheorems, TLAPS

\* A non-empty set of naturals has a least element.
LEMMA LeastExists ==
    ASSUME NEW S \in SUBSET Nat, S # {}
    PROVE  \E m \in S : \A n \in S : m <= n
<1> DEFINE R == {ss \in Nat \X Nat : ss[1] < ss[2]}
<1>1. IsWellFoundedOn(R, Nat) BY NatLessThanWellFounded DEF OpToRel
<1>2. \E m \in S : \A n \in S : ~(<<n, m>> \in R)
  <2> HIDE DEF R
  <2> QED BY <1>1, WFMin
<1>3. PICK m \in S : \A n \in S : ~(<<n, m>> \in R) BY <1>2
<1>4. ASSUME NEW n \in S PROVE m <= n
  <2>1. ~(<<n, m>> \in R) BY <1>3
  <2>2. n \in Nat /\ m \in Nat OBVIOUS
  <2> QED BY <2>1, <2>2
<1> QED BY <1>4

\* Induction over a range: S is the set of the indices with the property.
LEMMA RangeInduction ==
    ASSUME NEW a \in Nat, NEW n \in Nat, NEW S, a \in S,
           \A i \in a .. n - 1 : i \in S => i + 1 \in S
    PROVE  \A i \in a .. n : i \in S
<1> DEFINE B == {i \in a .. n : i \notin S}
<1>1. SUFFICES ASSUME B # {} PROVE FALSE OBVIOUS
<1>2. PICK k \in B : \A j \in B : k <= j
  <2>1. B \in SUBSET Nat OBVIOUS
  <2> HIDE DEF B
  <2> QED BY <1>1, <2>1, LeastExists
<1>3. k \in Nat /\ k # a /\ a <= k /\ k <= n OBVIOUS
<1>4. k - 1 \in a .. n - 1 /\ k - 1 \in a .. n /\ k - 1 + 1 = k BY <1>3
<1>5. k - 1 \in S
  <2>1. k - 1 \notin B
    <3> HIDE DEF B
    <3> QED BY <1>2, <1>3
  <2> QED BY <1>4, <2>1
<1> QED BY <1>4, <1>5

\* The recursion over a .. k that begins with base and goes on with F.
Recurs(g, a, k, base, F) == g = [i \in a .. k |-> IF i = a THEN base ELSE F[g[i - 1]]]

\* It has a solution, whatever F is.
LEMMA RecursionExists ==
    ASSUME NEW a \in Nat, NEW n \in Nat, a <= n, NEW base, NEW F
    PROVE  \E g : Recurs(g, a, n, base, F)
<1> DEFINE S == {k \in Nat : \E g : Recurs(g, a, k, base, F)}
<1>1. a \in S
  <2> DEFINE g == [i \in a .. a |-> base]
  <2>1. \A i \in a .. a : i = a OBVIOUS
  <2>2. Recurs(g, a, a, base, F) BY <2>1 DEF Recurs
  <2> HIDE DEF g
  <2> QED BY <2>2
<1>2. ASSUME NEW k \in a .. n - 1, k \in S PROVE k + 1 \in S
  <2>1. k \in Nat /\ k + 1 \in Nat /\ a <= k OBVIOUS
  <2>2. PICK g : Recurs(g, a, k, base, F) BY <1>2
  <2> DEFINE h == [i \in a .. k + 1 |-> IF i = a THEN base ELSE F[g[i - 1]]]
  <2>3. ASSUME NEW i \in a .. k PROVE h[i] = g[i]
    <3>1. i \in a .. k + 1 BY <2>1
    <3>2. g[i] = IF i = a THEN base ELSE F[g[i - 1]] BY <2>2 DEF Recurs
    <3> QED BY <3>1, <3>2
  <2>4. \A i \in a .. k + 1 : h[i] = IF i = a THEN base ELSE F[h[i - 1]]
    <3> SUFFICES ASSUME NEW i \in a .. k + 1
                 PROVE  h[i] = IF i = a THEN base ELSE F[h[i - 1]]
      OBVIOUS
    <3>1. h[i] = IF i = a THEN base ELSE F[g[i - 1]] OBVIOUS
    <3>2. i # a => i - 1 \in a .. k BY <2>1
    <3> HIDE DEF h
    <3> QED BY <2>3, <3>1, <3>2
  <2>5. h = [i \in a .. k + 1 |-> h[i]] OBVIOUS
  <2> HIDE DEF h
  <2>6. Recurs(h, a, k + 1, base, F) BY <2>4, <2>5 DEF Recurs
  <2> QED BY <2>1, <2>6
<1>3. n \in a .. n OBVIOUS
<1> HIDE DEF S
<1>4. n \in S BY <1>1, <1>2, <1>3, RangeInduction
<1> QED BY <1>4 DEF S

\* Max is the maximum, on the subsets a fold visits.
LEMMA MaxIs ==
    ASSUME NEW n \in Nat, NEW s \in SUBSET (1 .. n), s # {}
    PROVE  Max(s) \in s /\ Max(s) \in 1 .. n /\ \A y \in s : y <= Max(s)
<1> DEFINE D == {n - y : y \in s}
<1>1. D \in SUBSET Nat /\ D # {}
  <2>1. \A y \in s : y \in 1 .. n OBVIOUS
  <2>2. \A y \in s : n - y \in Nat BY <2>1
  <2> QED BY <2>2
<1>2. PICK d \in D : \A e \in D : d <= e
  <2> HIDE DEF D
  <2> QED BY <1>1, LeastExists
<1>3. PICK x \in s : d = n - x OBVIOUS
<1>4. \A y \in s : x >= y
  <2> SUFFICES ASSUME NEW y \in s PROVE x >= y OBVIOUS
  <2>1. n - x <= n - y BY <1>2, <1>3
  <2> QED BY <2>1
<1>5. Max(s) \in s /\ \A y \in s : Max(s) >= y BY <1>4 DEF Max
<1>6. Max(s) \in 1 .. n BY <1>5
<1>7. \A y \in s : y <= Max(s) BY <1>5, <1>6
<1> QED BY <1>5, <1>6, <1>7

\* Without its maximum a subset of 1 .. k lies within 1 .. k - 1.
LEMMA WithoutMax ==
    ASSUME NEW n \in Nat, NEW k \in Nat, NEW s \in SUBSET (1 .. n), s # {}, s \subseteq 1 .. k
    PROVE  /\ k # 0 /\ k - 1 \in Nat
           /\ s \ {Max(s)} \in SUBSET (1 .. n) /\ s \ {Max(s)} \subseteq 1 .. k - 1
<1>1. Max(s) \in s /\ Max(s) \in 1 .. n /\ \A y \in s : y <= Max(s) BY MaxIs
<1> DEFINE m == Max(s)
<1>2. m \in 1 .. k BY <1>1
<1> HIDE DEF m
<1>3. k # 0 /\ k - 1 \in Nat BY <1>2
<1>4. ASSUME NEW y \in s, y # m PROVE y \in 1 .. k - 1
  <2>1. y \in 1 .. k /\ y <= m BY <1>1 DEF m
  <2> QED BY <1>2, <1>4, <2>1
<1> QED BY <1>3, <1>4 DEF m

\* Induction along a fold: what holds of the base and is kept from a subset
\* without its maximum to the subset holds of every subset.
LEMMA FoldStays ==
    ASSUME NEW n \in Nat, NEW g, NEW P, g[{}] \in P[{}],
           \A s \in SUBSET (1 .. n) :
              s # {} /\ g[s \ {Max(s)}] \in P[s \ {Max(s)}] => g[s] \in P[s]
    PROVE  \A s \in SUBSET (1 .. n) : g[s] \in P[s]
<1> DEFINE B == {k \in Nat : \E s \in SUBSET (1 .. n) : s \subseteq 1 .. k /\ g[s] \notin P[s]}
<1>1. SUFFICES ASSUME NEW t \in SUBSET (1 .. n), g[t] \notin P[t] PROVE FALSE OBVIOUS
<1>2. n \in B BY <1>1
<1>3. PICK k \in B : \A j \in B : k <= j
  <2>1. B \in SUBSET Nat /\ B # {} BY <1>2
  <2> HIDE DEF B
  <2> QED BY <2>1, LeastExists
<1>4. PICK s \in SUBSET (1 .. n) : s \subseteq 1 .. k /\ g[s] \notin P[s] OBVIOUS
<1>5. s # {} BY <1>4
<1>6. k \in Nat OBVIOUS
<1> DEFINE r == s \ {Max(s)}
<1>7. k - 1 \in Nat /\ r \in SUBSET (1 .. n) /\ r \subseteq 1 .. k - 1
  <2> HIDE DEF B
  <2> QED BY <1>4, <1>5, <1>6, WithoutMax
<1>8. g[r] \notin P[r] BY <1>4, <1>5
<1>9. k - 1 \in B
  <2> HIDE DEF r
  <2> QED BY <1>7, <1>8
<1> HIDE DEF B
<1> QED BY <1>3, <1>6, <1>9

\* The recursion of a fold over k elements, for the step F.
Folds(g, k, base, F) ==
    g = [s \in SUBSET (1 .. k) |-> IF s = {} THEN base ELSE F[<<s, g[s \ {Max(s)}]>>]]

\* The recursion has a solution, whatever the step is.
LEMMA FoldExists ==
    ASSUME NEW n \in Nat, NEW base, NEW F
    PROVE  \E g : Folds(g, n, base, F)
<1> DEFINE B == {k \in Nat : ~ \E g : Folds(g, k, base, F)}
<1>1. SUFFICES ASSUME n \in B PROVE FALSE OBVIOUS
<1>2. PICK k \in B : \A j \in B : k <= j
  <2>1. B \in SUBSET Nat /\ B # {} BY <1>1
  <2> HIDE DEF B
  <2> QED BY <2>1, LeastExists
<1>3. k \in Nat /\ ~ \E g : Folds(g, k, base, F) OBVIOUS
<1>4. k # 0
  <2> SUFFICES ASSUME k = 0 PROVE FALSE OBVIOUS
  <2> DEFINE g == [s \in SUBSET (1 .. 0) |-> base]
  <2>1. \A s \in SUBSET (1 .. 0) : s = {} OBVIOUS
  <2>2. Folds(g, 0, base, F) BY <2>1 DEF Folds
  <2> HIDE DEF g
  <2> QED BY <1>3, <2>2
<1>5. k - 1 \in Nat BY <1>3, <1>4
<1>6. PICK g : Folds(g, k - 1, base, F)
  <2>1. k - 1 \notin B
    <3> HIDE DEF B
    <3> QED BY <1>2, <1>3, <1>5
  <2> QED BY <1>5, <2>1
<1> DEFINE h == [s \in SUBSET (1 .. k) |-> IF s = {} THEN base ELSE F[<<s, g[s \ {Max(s)}]>>]]
<1>7. ASSUME NEW r \in SUBSET (1 .. k - 1) PROVE h[r] = g[r]
  <2>1. r \in SUBSET (1 .. k) BY <1>3
  <2>2. g[r] = IF r = {} THEN base ELSE F[<<r, g[r \ {Max(r)}]>>] BY <1>6 DEF Folds
  <2> QED BY <2>1, <2>2
<1>8. ASSUME NEW s \in SUBSET (1 .. k), s # {} PROVE h[s \ {Max(s)}] = g[s \ {Max(s)}]
  <2>1. s \ {Max(s)} \in SUBSET (1 .. k - 1)
    <3> HIDE DEF B, h
    <3> QED BY <1>3, <1>8, WithoutMax
  <2> HIDE DEF h
  <2> QED BY <1>7, <2>1
<1>9. Folds(h, k, base, F)
  <2>1. \A s \in SUBSET (1 .. k) :
           h[s] = IF s = {} THEN base ELSE F[<<s, h[s \ {Max(s)}]>>]
    <3> SUFFICES ASSUME NEW s \in SUBSET (1 .. k)
                 PROVE  h[s] = IF s = {} THEN base ELSE F[<<s, h[s \ {Max(s)}]>>]
      OBVIOUS
    <3>1. h[s] = IF s = {} THEN base ELSE F[<<s, g[s \ {Max(s)}]>>] OBVIOUS
    <3> HIDE DEF h
    <3> QED BY <1>8, <3>1
  <2>2. h = [s \in SUBSET (1 .. k) |-> h[s]] OBVIOUS
  <2> HIDE DEF h
  <2> QED BY <2>1, <2>2 DEF Folds
<1> HIDE DEF h
<1> QED BY <1>3, <1>9

\* A fold that starts in D and whose steps stay in D.
LEMMA FoldWithin ==
    ASSUME NEW n \in Nat, NEW D, NEW base \in D, NEW F \in [(SUBSET (1 .. n)) \X D -> D]
    PROVE  \E g \in [SUBSET (1 .. n) -> D] : Folds(g, n, base, F)
<1>1. PICK g : Folds(g, n, base, F) BY FoldExists
<1>2. \A t \in SUBSET (1 .. n) : g[t] = IF t = {} THEN base ELSE F[<<t, g[t \ {Max(t)}]>>]
  BY <1>1 DEF Folds
<1> DEFINE P == [t \in SUBSET (1 .. n) |-> D]
<1>3. g[{}] \in P[{}] BY <1>2
<1>4. ASSUME NEW t \in SUBSET (1 .. n), t # {}, g[t \ {Max(t)}] \in P[t \ {Max(t)}]
      PROVE  g[t] \in P[t]
  <2>1. t \ {Max(t)} \in SUBSET (1 .. n) OBVIOUS
  <2>2. g[t \ {Max(t)}] \in D BY <1>4, <2>1
  <2>3. F[<<t, g[t \ {Max(t)}]>>] \in D BY <2>2
  <2> QED BY <1>2, <1>4, <2>3
<1>5. \A t \in SUBSET (1 .. n) : g[t] \in P[t]
  <2> HIDE DEF P
  <2> QED BY <1>3, <1>4, FoldStays
<1>6. \A t \in SUBSET (1 .. n) : g[t] \in D BY <1>5
<1>7. g \in [SUBSET (1 .. n) -> D] BY <1>1, <1>6 DEF Folds
<1> QED BY <1>1, <1>7

\* A recursion over any set: f[s] is found from s and f at the one element N[s],
\* unless s is in Stop.
Unfolds(f, S, Stop, B, F, N) ==
    \A s \in S : f[s] = IF s \in Stop THEN B[s] ELSE F[<<s, f[N[s]]>>]

\* Unfolds, for the elements of a rank less than k.
UnfoldsTo(k, rank, f, S, Stop, B, F, N) ==
    \A s \in S : rank[s] < k => f[s] = IF s \in Stop THEN B[s] ELSE F[<<s, f[N[s]]>>]

LEMMA UnfoldsOnce ==
    ASSUME NEW S, NEW V, NEW Stop, NEW rank \in [S -> Nat], NEW N \in [S -> S],
           NEW B, NEW F, \A s \in S \ Stop : rank[N[s]] < rank[s],
           NEW k \in Nat, NEW j \in Nat, k <= j,
           NEW f, UnfoldsTo(k, rank, f, S, Stop, B, F, N),
           NEW g, UnfoldsTo(j, rank, g, S, Stop, B, F, N)
    PROVE  \A s \in S : rank[s] < k => f[s] = g[s]
<1> DEFINE R == {i \in Nat : \E s \in S : rank[s] = i /\ i < k /\ f[s] # g[s]}
<1>1. SUFFICES ASSUME NEW u \in S, rank[u] < k, f[u] # g[u] PROVE FALSE OBVIOUS
<1>2. rank[u] \in R BY <1>1
<1>3. PICK i \in R : \A l \in R : i <= l
  <2>1. R \in SUBSET Nat /\ R # {} BY <1>2
  <2> HIDE DEF R
  <2> QED BY <2>1, LeastExists
<1>4. PICK s \in S : rank[s] = i /\ i < k /\ f[s] # g[s] OBVIOUS
<1>5. i \in Nat /\ rank[s] < j BY <1>4
<1>6. /\ f[s] = IF s \in Stop THEN B[s] ELSE F[<<s, f[N[s]]>>]
      /\ g[s] = IF s \in Stop THEN B[s] ELSE F[<<s, g[N[s]]>>]
  BY <1>4, <1>5 DEF UnfoldsTo
<1>7. s \notin Stop /\ f[N[s]] # g[N[s]] BY <1>4, <1>6
<1>8. N[s] \in S /\ rank[N[s]] \in Nat /\ rank[N[s]] < i BY <1>4, <1>7
<1>9. rank[N[s]] < k BY <1>4, <1>5, <1>8
<1>10. rank[N[s]] \in R BY <1>7, <1>8, <1>9
<1> HIDE DEF R
<1> QED BY <1>3, <1>5, <1>8, <1>10

LEMMA UnfoldsToExists ==
    ASSUME NEW S, NEW V, NEW Stop, NEW rank \in [S -> Nat], NEW N \in [S -> S],
           NEW B \in [S -> V], NEW F \in [S \X V -> V],
           \A s \in S \ Stop : rank[N[s]] < rank[s], NEW n \in Nat
    PROVE  \E f \in [S -> V] : UnfoldsTo(n, rank, f, S, Stop, B, F, N)
<1> DEFINE T == {k \in Nat : \E f \in [S -> V] : UnfoldsTo(k, rank, f, S, Stop, B, F, N)}
<1>1. 0 \in T BY DEF UnfoldsTo
<1>2. ASSUME NEW k \in 0 .. n - 1, k \in T PROVE k + 1 \in T
  <2>1. PICK f \in [S -> V] : UnfoldsTo(k, rank, f, S, Stop, B, F, N) BY <1>2
  <2>2. PICK g : g = [s \in S |-> IF s \in Stop THEN B[s] ELSE F[<<s, f[N[s]]>>]] OBVIOUS
  <2>3. g \in [S -> V]
    <3>1. \A s \in S : (IF s \in Stop THEN B[s] ELSE F[<<s, f[N[s]]>>]) \in V OBVIOUS
    <3> QED BY <2>2, <3>1
  <2>4. ASSUME NEW s \in S, rank[s] < k PROVE g[s] = f[s]
    BY <2>1, <2>2, <2>4 DEF UnfoldsTo
  <2>5. ASSUME NEW s \in S, rank[s] < k + 1
        PROVE  g[s] = IF s \in Stop THEN B[s] ELSE F[<<s, g[N[s]]>>]
    <3>1. CASE s \in Stop BY <2>2, <3>1
    <3>2. CASE s \notin Stop
      <4>1. N[s] \in S /\ rank[N[s]] < k
        <5>1. N[s] \in S /\ rank[N[s]] < rank[s] /\ rank[s] \in Nat /\ rank[N[s]] \in Nat BY <3>2
        <5> QED BY <2>5, <5>1
      <4>2. g[N[s]] = f[N[s]] BY <2>4, <4>1
      <4> QED BY <2>2, <3>2, <4>2
    <3> QED BY <3>1, <3>2
  <2>6. UnfoldsTo(k + 1, rank, g, S, Stop, B, F, N) BY <2>5 DEF UnfoldsTo
  <2>7. k + 1 \in Nat OBVIOUS
  <2> QED BY <2>3, <2>6, <2>7
<1> HIDE DEF T
<1>3. 0 \in Nat /\ n \in 0 .. n OBVIOUS
<1>4. n \in T BY <1>1, <1>2, <1>3, RangeInduction
<1> QED BY <1>4 DEF T

\* When N leads to a smaller rank, the recursion has a solution.
LEMMA RankedRecursion ==
    ASSUME NEW S, NEW V, NEW Stop, NEW rank \in [S -> Nat], NEW N \in [S -> S],
           NEW B \in [S -> V], NEW F \in [S \X V -> V],
           \A s \in S \ Stop : rank[N[s]] < rank[s]
    PROVE  \E f \in [S -> V] : Unfolds(f, S, Stop, B, F, N)
<1> DEFINE D(k) == CHOOSE f \in [S -> V] : UnfoldsTo(k, rank, f, S, Stop, B, F, N)
           f == [s \in S |-> D(rank[s] + 1)[s]]
<1>1. ASSUME NEW k \in Nat PROVE D(k) \in [S -> V] /\ UnfoldsTo(k, rank, D(k), S, Stop, B, F, N)
  BY UnfoldsToExists
<1> HIDE DEF D
<1>2. ASSUME NEW s \in S PROVE rank[s] + 1 \in Nat /\ D(rank[s] + 1) \in [S -> V]
  BY <1>1
<1>3. f \in [S -> V]
  <2>1. \A s \in S : D(rank[s] + 1)[s] \in V BY <1>2
  <2> QED BY <2>1
<1>4. ASSUME NEW s \in S PROVE f[s] = IF s \in Stop THEN B[s] ELSE F[<<s, f[N[s]]>>]
  <2> DEFINE k == rank[s] + 1
             j == rank[N[s]] + 1
  <2>1. k \in Nat /\ rank[s] < k /\ N[s] \in S /\ j \in Nat /\ rank[N[s]] < j
    <3>1. rank[s] \in Nat /\ N[s] \in S OBVIOUS
    <3>2. rank[N[s]] \in Nat BY <3>1
    <3> QED BY <3>1, <3>2
  <2>2. f[s] = D(k)[s] /\ f[N[s]] = D(j)[N[s]] BY <2>1
  <2>3. UnfoldsTo(k, rank, D(k), S, Stop, B, F, N) /\ UnfoldsTo(j, rank, D(j), S, Stop, B, F, N)
    BY <1>1, <2>1
  <2>4. D(k)[s] = IF s \in Stop THEN B[s] ELSE F[<<s, D(k)[N[s]]>>] BY <2>1, <2>3 DEF UnfoldsTo
  <2>5. s \notin Stop => D(j)[N[s]] = D(k)[N[s]]
    <3> SUFFICES ASSUME s \notin Stop PROVE D(j)[N[s]] = D(k)[N[s]] OBVIOUS
    <3>1. j <= k
      <4>1. rank[N[s]] < rank[s] /\ rank[s] \in Nat /\ rank[N[s]] \in Nat BY <2>1
      <4> QED BY <4>1
    <3> DEFINE dj == D(j)
               dk == D(k)
    <3>2. UnfoldsTo(k, rank, dk, S, Stop, B, F, N) /\ UnfoldsTo(j, rank, dj, S, Stop, B, F, N) BY <2>3
    <3>3. \A u \in S : rank[u] < j => dj[u] = dk[u]
      <4> HIDE DEF dj, dk, j, k, f
      <4> QED BY <2>1, <3>1, <3>2, UnfoldsOnce
    <3> QED BY <2>1, <3>3
  <2> HIDE DEF f, k, j
  <2> QED BY <2>2, <2>4, <2>5
<1> HIDE DEF f
<1>5. Unfolds(f, S, Stop, B, F, N) BY <1>4 DEF Unfolds
<1> QED BY <1>3, <1>5

-----------------------------------------------------------------------------
(* Sums over finite sets.                                                   *)

One(s) == CHOOSE x \in s : TRUE

\* g gives the sum of f over every subset of S, computed as MapThenSumSet does.
Sums(g, S, f) ==
    g = [s \in SUBSET S |-> IF s = {} THEN 0 ELSE f[One(s)] + g[s \ {One(s)}]]

LEMMA OneOf ==
    ASSUME NEW S, IsFiniteSet(S), NEW s \in SUBSET S, s # {}
    PROVE  /\ One(s) \in s /\ s \ {One(s)} \in SUBSET S
           /\ Cardinality(s) \in Nat /\ Cardinality(s \ {One(s)}) = Cardinality(s) - 1
<1>1. One(s) \in s BY DEF One
<1>2. IsFiniteSet(s) BY FS_Subset
<1> QED BY <1>1, <1>2, FS_RemoveElement, FS_CardinalityType

LEMMA SumExists ==
    ASSUME NEW S, IsFiniteSet(S), NEW f \in [S -> Nat]
    PROVE  \E g \in [SUBSET S -> Nat] : Sums(g, S, f)
<1> DEFINE P == SUBSET S
           rank == [s \in P |-> Cardinality(s)]
           N == [s \in P |-> IF s = {} THEN {} ELSE s \ {One(s)}]
           B == [s \in P |-> 0]
           F == [p \in P \X Nat |-> IF p[1] = {} THEN 0 ELSE f[One(p[1])] + p[2]]
<1>1. rank \in [P -> Nat]
  <2>1. \A s \in P : Cardinality(s) \in Nat BY FS_Subset, FS_CardinalityType
  <2> QED BY <2>1
<1>2. N \in [P -> P] /\ B \in [P -> Nat] OBVIOUS
<1>3. F \in [P \X Nat -> Nat]
  <2>1. ASSUME NEW p \in P \X Nat PROVE (IF p[1] = {} THEN 0 ELSE f[One(p[1])] + p[2]) \in Nat
    <3>1. p[1] \in SUBSET S /\ p[2] \in Nat OBVIOUS
    <3>2. p[1] # {} => f[One(p[1])] \in Nat BY <3>1 DEF One
    <3> QED BY <3>1, <3>2
  <2> QED BY <2>1
<1>4. \A s \in P \ {{}} : rank[N[s]] < rank[s]
  <2> SUFFICES ASSUME NEW s \in P, s # {} PROVE rank[N[s]] < rank[s] OBVIOUS
  <2>1. s \ {One(s)} \in P /\ Cardinality(s) \in Nat /\ Cardinality(s \ {One(s)}) = Cardinality(s) - 1
    BY OneOf
  <2> QED BY <2>1
<1>5. PICK g \in [P -> Nat] : Unfolds(g, P, {{}}, B, F, N)
  <2> HIDE DEF P, rank, N, B, F
  <2> QED BY <1>1, <1>2, <1>3, <1>4, RankedRecursion
<1>6. ASSUME NEW s \in P PROVE g[s] = IF s = {} THEN 0 ELSE f[One(s)] + g[s \ {One(s)}]
  <2>1. g[s] = IF s \in {{}} THEN B[s] ELSE F[<<s, g[N[s]]>>] BY <1>5 DEF Unfolds
  <2>2. CASE s = {} BY <2>1, <2>2
  <2>3. CASE s # {}
    <3>1. N[s] = s \ {One(s)} /\ N[s] \in P BY <2>3
    <3>2. g[N[s]] \in Nat BY <3>1
    <3>3. F[<<s, g[N[s]]>>] = f[One(s)] + g[N[s]] BY <2>3, <3>2
    <3> QED BY <2>1, <2>3, <3>1, <3>3
  <2> QED BY <2>2, <2>3
<1>7. Sums(g, S, f) BY <1>6 DEF Sums
<1> QED BY <1>7

\* The sum over a set does not depend on the larger set it is part of.
LEMMA SumsAgree ==
    ASSUME NEW S, IsFiniteSet(S), NEW T \in SUBSET S, NEW f, NEW e, \A x \in T : e[x] = f[x],
           NEW g, Sums(g, S, f), NEW h, Sums(h, T, e)
    PROVE  h[T] = g[T]
<1> DEFINE R == {i \in Nat : \E s \in SUBSET T : Cardinality(s) = i /\ h[s] # g[s]}
<1>1. SUFFICES ASSUME h[T] # g[T] PROVE FALSE OBVIOUS
<1>2. IsFiniteSet(T) BY FS_Subset
<1>3. Cardinality(T) \in R BY <1>1, <1>2, FS_CardinalityType
<1>4. PICK i \in R : \A l \in R : i <= l
  <2>1. R \in SUBSET Nat BY <1>3
  <2> HIDE DEF R
  <2> QED BY <1>3, <2>1, LeastExists
<1>5. PICK s \in SUBSET T : Cardinality(s) = i /\ h[s] # g[s] OBVIOUS
<1>6. s \in SUBSET S OBVIOUS
<1>7. /\ g[s] = IF s = {} THEN 0 ELSE f[One(s)] + g[s \ {One(s)}]
      /\ h[s] = IF s = {} THEN 0 ELSE e[One(s)] + h[s \ {One(s)}]
  BY <1>6 DEF Sums
<1>8. s # {} BY <1>5, <1>7
<1>9. /\ One(s) \in T /\ s \ {One(s)} \in SUBSET T
      /\ Cardinality(s \ {One(s)}) = i - 1 /\ i \in Nat
  BY <1>2, <1>5, <1>8, OneOf
<1>10. i - 1 \in Nat
  <2>1. Cardinality(s \ {One(s)}) \in Nat BY <1>2, <1>9, FS_Subset, FS_CardinalityType
  <2> QED BY <1>9, <2>1
<1>11. h[s \ {One(s)}] # g[s \ {One(s)}] BY <1>5, <1>7, <1>8, <1>9
<1>12. i - 1 \in R BY <1>9, <1>10, <1>11
<1> HIDE DEF R
<1> QED BY <1>4, <1>9, <1>12

\* The order in which MapThenSumSet takes the elements does not matter.
LEMMA SumAdds ==
    ASSUME NEW S, IsFiniteSet(S), NEW f \in [S -> Nat],
           NEW g \in [SUBSET S -> Nat], Sums(g, S, f),
           NEW T \in SUBSET S, NEW x \in T
    PROVE  g[T] = f[x] + g[T \ {x}]
<1> DEFINE R == {i \in Nat : \E s \in SUBSET S : \E y \in s :
                   Cardinality(s) = i /\ g[s] # f[y] + g[s \ {y}]}
<1>1. SUFFICES ASSUME g[T] # f[x] + g[T \ {x}] PROVE FALSE OBVIOUS
<1>2. Cardinality(T) \in R BY <1>1, FS_Subset, FS_CardinalityType
<1>3. PICK i \in R : \A l \in R : i <= l
  <2>1. R \in SUBSET Nat BY <1>2
  <2> HIDE DEF R
  <2> QED BY <1>2, <2>1, LeastExists
<1>4. PICK s \in SUBSET S : \E y \in s : Cardinality(s) = i /\ g[s] # f[y] + g[s \ {y}] OBVIOUS
<1>5. PICK y \in s : Cardinality(s) = i /\ g[s] # f[y] + g[s \ {y}] BY <1>4
<1> DEFINE c == One(s)
           t == s \ {c}
           u == s \ {y}
           v == t \ {y}
<1>6. c \in s /\ Cardinality(t) = i - 1 /\ i \in Nat BY <1>5, OneOf
<1>7. g[s] = f[c] + g[t] BY <1>5 DEF Sums
<1>8. c # y BY <1>5, <1>7
<1>9. t \in SUBSET S /\ u \in SUBSET S /\ v \in SUBSET S /\ y \in t /\ c \in u /\ u \ {c} = v
  BY <1>6, <1>8
<1>10. IsFiniteSet(s) /\ IsFiniteSet(t) BY FS_Subset
<1>11. Cardinality(u) = i - 1 /\ i - 1 \in Nat
  <2>1. Cardinality(u) = i - 1 BY <1>5, <1>10, FS_RemoveElement
  <2>2. Cardinality(t) \in Nat BY <1>10, FS_CardinalityType
  <2> QED BY <1>6, <2>1, <2>2
<1>12. \A r \in SUBSET S : \A z \in r : Cardinality(r) = i - 1 => g[r] = f[z] + g[r \ {z}]
  <2>1. i - 1 \notin R
    <3> HIDE DEF R
    <3> QED BY <1>3, <1>6
  <2> QED BY <1>11, <2>1
<1>13. g[t] = f[y] + g[v] /\ g[u] = f[c] + g[v]
  <2>1. g[t] = f[y] + g[t \ {y}] BY <1>6, <1>9, <1>12
  <2>2. g[u] = f[c] + g[u \ {c}] BY <1>9, <1>11, <1>12
  <2>3. t \ {y} = v /\ u \ {c} = v BY <1>9
  <2> QED BY <2>1, <2>2, <2>3
<1>14. f[c] \in Nat /\ f[y] \in Nat /\ g[v] \in Nat /\ g[t] \in Nat /\ g[u] \in Nat
  BY <1>6, <1>9
<1> HIDE DEF c, t, u, v, R
<1>15. g[s] = f[y] + g[u] BY <1>7, <1>13, <1>14
<1> QED BY <1>5, <1>15 DEF u

-----------------------------------------------------------------------------
\* What FlattenSeq makes of the sequences of ss, one after the other.
LEMMA FlattenIs ==
    ASSUME NEW T, NEW ss \in Seq(Seq(T)), ss # <<>>
    PROVE  \E g \in [1 .. Len(ss) -> Seq(T)] :
              /\ g[1] = ss[1] /\ \A i \in 2 .. Len(ss) : g[i] = g[i - 1] \o ss[i]
              /\ FlattenSeq(ss) = g[Len(ss)]
<1> DEFINE n == Len(ss)
           S == 1 .. n
           rank == [i \in S |-> i]
           N == [i \in S |-> IF i = 1 THEN 1 ELSE i - 1]
           B == [i \in S |-> ss[1]]
           F == [x \in S \X Seq(T) |-> x[2] \o ss[x[1]]]
           Body(g) == [i \in 1 .. Len(ss) |-> IF i = 1 THEN ss[i] ELSE g[i - 1] \o ss[i]]
<1>1. n \in Nat \ {0} /\ \A i \in S : ss[i] \in Seq(T) OBVIOUS
<1>2. rank \in [S -> Nat] /\ N \in [S -> S] /\ B \in [S -> Seq(T)] BY <1>1
<1>3. F \in [S \X Seq(T) -> Seq(T)]
  <2>1. \A x \in S \X Seq(T) : x[2] \in Seq(T) /\ ss[x[1]] \in Seq(T) BY <1>1
  <2>2. \A a, b \in Seq(T) : a \o b \in Seq(T) OBVIOUS
  <2> QED BY <2>1, <2>2
<1>4. \A s \in S \ {1} : rank[N[s]] < rank[s] BY <1>1
<1>5. PICK f \in [S -> Seq(T)] : Unfolds(f, S, {1}, B, F, N)
  <2> HIDE DEF rank, N, B, F, S
  <2> QED BY <1>2, <1>3, <1>4, RankedRecursion
<1>6. ASSUME NEW i \in S PROVE f[i] = IF i = 1 THEN ss[i] ELSE f[i - 1] \o ss[i]
  <2>1. f[i] = IF i \in {1} THEN B[i] ELSE F[<<i, f[N[i]]>>] BY <1>5 DEF Unfolds
  <2>2. CASE i = 1 BY <2>1, <2>2
  <2>3. CASE i # 1
    <3>1. N[i] = i - 1 /\ i - 1 \in S BY <1>1, <2>3
    <3>2. f[i - 1] \in Seq(T) BY <3>1
    <3> QED BY <2>1, <2>3, <3>1, <3>2
  <2> QED BY <2>2, <2>3
<1> HIDE DEF rank, N, B, F
<1>7. f = Body(f)
  <2>1. f = [i \in S |-> f[i]] OBVIOUS
  <2> QED BY <1>6, <2>1
<1> DEFINE g == CHOOSE g : g = Body(g)
<1>8. g = Body(g)
  <2> HIDE DEF Body
  <2> QED BY <1>7
<1>9. FlattenSeq(ss) = g[n] BY <1>1 DEF FlattenSeq
<1> HIDE DEF g
<1>10. \A i \in S : g[i] = IF i = 1 THEN ss[i] ELSE g[i - 1] \o ss[i]
  <2> SUFFICES ASSUME NEW i \in S PROVE g[i] = IF i = 1 THEN ss[i] ELSE g[i - 1] \o ss[i] OBVIOUS
  <2>1. Body(g)[i] = IF i = 1 THEN ss[i] ELSE g[i - 1] \o ss[i] OBVIOUS
  <2> HIDE DEF Body
  <2> QED BY <1>8, <2>1
<1>11. \A i \in S : g[i] \in Seq(T)
  <2> DEFINE P == {i \in S : g[i] \in Seq(T)}
  <2>1. 1 \in P
    <3>1. 1 \in S BY <1>1
    <3>2. g[1] = ss[1] /\ ss[1] \in Seq(T) BY <1>1, <1>10, <3>1
    <3>3. g[1] \in Seq(T) BY <3>2
    <3> QED BY <3>1, <3>3
  <2>2. ASSUME NEW i \in 1 .. n - 1, i \in P PROVE i + 1 \in P
    <3>1. i + 1 \in S /\ i + 1 # 1 /\ (i + 1) - 1 = i BY <1>1
    <3>2. g[i + 1] = g[i] \o ss[i + 1] BY <1>10, <3>1
    <3>3. g[i] \in Seq(T) /\ ss[i + 1] \in Seq(T) BY <1>1, <2>2, <3>1
    <3>4. g[i] \o ss[i + 1] \in Seq(T) BY <3>3
    <3>5. g[i + 1] \in Seq(T) BY <3>2, <3>4
    <3> QED BY <3>1, <3>5
  <2> HIDE DEF P
  <2>3. \A i \in 1 .. n : i \in P BY <1>1, <2>1, <2>2, RangeInduction
  <2> QED BY <2>3 DEF P
<1>12. g = [i \in S |-> g[i]]
  <2>1. Body(g) = [i \in S |-> Body(g)[i]] OBVIOUS
  <2>2. \A i \in S : Body(g)[i] = g[i]
    <3> HIDE DEF Body
    <3> QED BY <1>8
  <2> HIDE DEF Body
  <2> QED BY <1>8, <2>1, <2>2
<1>13. g \in [S -> Seq(T)] BY <1>11, <1>12
<1>14. g[1] = ss[1] /\ \A i \in 2 .. n : g[i] = g[i - 1] \o ss[i]
  <2>1. 1 \in S /\ \A i \in 2 .. n : i \in S /\ i # 1 BY <1>1
  <2> QED BY <1>10, <2>1
<1> QED BY <1>9, <1>13, <1>14

\* Where the sequences end in the flattened one, and where their elements are.
Laid(e, ss, r) ==
    /\ e \in [0 .. Len(ss) -> Nat] /\ e[0] = 0 /\ Len(r) = e[Len(ss)]
    /\ \A i \in 1 .. Len(ss) :
          /\ e[i] = e[i - 1] + Len(ss[i]) /\ e[i] <= e[Len(ss)]
          /\ \A x \in 1 .. Len(ss[i]) : r[e[i - 1] + x] = ss[i][x]

LEMMA FlattenLaid ==
    ASSUME NEW T, NEW ss \in Seq(Seq(T)), ss # <<>>
    PROVE  FlattenSeq(ss) \in Seq(T) /\ \E e : Laid(e, ss, FlattenSeq(ss))
<1> DEFINE n == Len(ss)
           r == FlattenSeq(ss)
<1>1. n \in Nat \ {0} OBVIOUS
<1>2. ss \in Seq(Seq(T)) /\ \A i \in 1 .. n : ss[i] \in Seq(T) OBVIOUS
<1> HIDE DEF r
<1>4. PICK g \in [1 .. n -> Seq(T)] :
         /\ g[1] = ss[1] /\ \A i \in 2 .. n : g[i] = g[i - 1] \o ss[i]
         /\ r = g[n]
  <2>1. \E g \in [1 .. Len(ss) -> Seq(T)] :
           /\ g[1] = ss[1] /\ \A i \in 2 .. Len(ss) : g[i] = g[i - 1] \o ss[i]
           /\ FlattenSeq(ss) = g[Len(ss)]
    BY <1>2, FlattenIs
  <2> QED BY <2>1 DEF r
<1> DEFINE e == [i \in 0 .. n |-> IF i = 0 THEN 0 ELSE Len(g[i])]
<1>5. e \in [0 .. n -> Nat] /\ e[0] = 0 /\ \A i \in 1 .. n : e[i] = Len(g[i])
  <2>1. \A i \in 0 .. n : i # 0 => i \in 1 .. n BY <1>1
  <2>2. \A i \in 1 .. n : i \in 0 .. n /\ i # 0 /\ Len(g[i]) \in Nat BY <1>1
  <2>3. 0 \in 0 .. n BY <1>1
  <2> QED BY <2>1, <2>2, <2>3
<1> HIDE DEF e
<1>6. ASSUME NEW i \in 1 .. n
      PROVE  /\ e[i] = e[i - 1] + Len(ss[i])
             /\ \A x \in 1 .. Len(ss[i]) : g[i][e[i - 1] + x] = ss[i][x]
  <2>1. ss[i] \in Seq(T) /\ Len(ss[i]) \in Nat BY <1>2
  <2>2. CASE i = 1
    <3>1. g[i] = ss[i] /\ e[i - 1] = 0 /\ e[i] = Len(g[i]) BY <1>4, <1>5, <2>2
    <3> QED BY <2>1, <3>1
  <2>3. CASE i # 1
    <3>1. i \in 2 .. n /\ i - 1 \in 1 .. n BY <1>1, <2>3
    <3>2. g[i] = g[i - 1] \o ss[i] /\ g[i - 1] \in Seq(T) BY <1>4, <3>1
    <3>3. e[i] = Len(g[i]) /\ e[i - 1] = Len(g[i - 1]) BY <1>5, <3>1
    <3> DEFINE a == g[i - 1]
               b == ss[i]
    <3>4. a \in Seq(T) /\ b \in Seq(T) BY <2>1, <3>2
    <3> HIDE DEF a, b
    <3>5. Len(a \o b) = Len(a) + Len(b) /\ \A x \in 1 .. Len(b) : (a \o b)[Len(a) + x] = b[x] BY <3>4
    <3> QED BY <3>2, <3>3, <3>5 DEF a, b
  <2> QED BY <2>2, <2>3
\* What was written first stays in front.
<1>7. ASSUME NEW i \in 1 .. n, NEW x \in 1 .. e[i] PROVE r[x] = g[i][x]
  <2> DEFINE P == {m \in i .. n : e[i] <= e[m] /\ g[m][x] = g[i][x]}
  <2>1. i \in P BY <1>1, <1>5
  <2>2. ASSUME NEW m \in i .. n - 1, m \in P PROVE m + 1 \in P
    <3>1. m \in 1 .. n /\ m + 1 \in 2 .. n /\ (m + 1) - 1 = m /\ m + 1 \in i .. n BY <1>1
    <3>2. g[m + 1] = g[m] \o ss[m + 1] /\ g[m] \in Seq(T) BY <1>4, <3>1
    <3>3. ss[m + 1] \in Seq(T) BY <1>2, <3>1
    <3>4. e[m] = Len(g[m]) /\ e[m + 1] = Len(g[m + 1]) /\ e[m] \in Nat /\ e[i] \in Nat BY <1>5, <3>1
    <3>5. x \in 1 .. e[m] BY <2>2, <3>4
    <3> DEFINE a == g[m]
               b == ss[m + 1]
    <3>6. a \in Seq(T) /\ b \in Seq(T) BY <3>2, <3>3
    <3> HIDE DEF a, b
    <3>7. Len(a \o b) >= Len(a) /\ \A y \in 1 .. Len(a) : (a \o b)[y] = a[y] BY <3>6
    <3>8. e[m] <= e[m + 1] /\ g[m + 1][x] = g[m][x] BY <3>2, <3>4, <3>5, <3>7 DEF a, b
    <3>9. e[i] <= e[m] /\ g[m][x] = g[i][x] BY <2>2
    <3>10. e[i] <= e[m + 1]
      <4>1. e[m + 1] \in Nat BY <1>5, <3>1
      <4> QED BY <3>4, <3>8, <3>9, <4>1
    <3> QED BY <3>1, <3>8, <3>9, <3>10
  <2> HIDE DEF P
  <2>3. \A m \in i .. n : m \in P
    <3>1. i \in Nat /\ n \in Nat BY <1>1
    <3> QED BY <2>1, <2>2, <3>1, RangeInduction
  <2>4. n \in i .. n BY <1>1
  <2> QED BY <1>4, <2>3, <2>4 DEF P
<1>8. r \in Seq(T) /\ Len(r) = e[n] BY <1>1, <1>4, <1>5
<1>9. ASSUME NEW i \in 1 .. n, NEW x \in 1 .. Len(ss[i]) PROVE r[e[i - 1] + x] = ss[i][x]
  <2>1. i - 1 \in 0 .. n /\ i \in 0 .. n /\ Len(ss[i]) \in Nat BY <1>1, <1>2
  <2>2. e[i - 1] \in Nat /\ e[i] \in Nat BY <1>5, <2>1
  <2>3. e[i - 1] + x \in 1 .. e[i] BY <1>6, <2>1, <2>2
  <2> QED BY <1>6, <1>7, <2>3
<1>10. ASSUME NEW i \in 1 .. n PROVE e[i] <= e[n]
  <2> DEFINE P == {m \in i .. n : e[i] <= e[m]}
  <2>1. i \in P BY <1>1, <1>5
  <2>2. ASSUME NEW m \in i .. n - 1, m \in P PROVE m + 1 \in P
    <3> DEFINE k == m + 1
    <3>1. k \in 1 .. n /\ k - 1 = m /\ k \in i .. n /\ m \in 0 .. n /\ k \in 0 .. n BY <1>1
    <3> HIDE DEF k
    <3>2. e[k] = e[m] + Len(ss[k]) /\ Len(ss[k]) \in Nat BY <1>2, <1>6, <3>1
    <3>3. e[i] <= e[m] /\ e[m] \in Nat /\ e[i] \in Nat BY <1>1, <1>5, <2>2, <3>1
    <3>4. k \in P BY <3>1, <3>2, <3>3
    <3> QED BY <3>4 DEF k
  <2> HIDE DEF P
  <2>3. \A m \in i .. n : m \in P
    <3>1. i \in Nat /\ n \in Nat BY <1>1
    <3> QED BY <2>1, <2>2, <3>1, RangeInduction
  <2>4. n \in i .. n BY <1>1
  <2> QED BY <2>3, <2>4 DEF P
<1>11. Laid(e, ss, r) BY <1>5, <1>6, <1>8, <1>9, <1>10 DEF Laid
<1> QED BY <1>8, <1>11 DEF r

\* The recursion of FoldLeft over s, with steps F that take a value of D and an
\* element of C to D.
FoldsOver(g, D, C, base, s, F) ==
    /\ g \in [SUBSET DOMAIN s -> D]
    /\ \A t \in SUBSET DOMAIN s :
          /\ t = {} => g[t] = base
          /\ t # {} => /\ g[t \ {Max(t)}] \in D /\ s[Max(t)] \in C
                       /\ g[t] = F[<<g[t \ {Max(t)}], s[Max(t)]>>]

\* It has a solution ...
LEMMA FoldOver ==
    ASSUME NEW D, NEW C, NEW base \in D, NEW s \in Seq(C), NEW F \in [D \X C -> D]
    PROVE  \E g : FoldsOver(g, D, C, base, s, F)
<1> DEFINE n == Len(s)
           G == [x \in (SUBSET (1 .. n)) \X D |-> IF x[1] = {} THEN base ELSE F[<<x[2], s[Max(x[1])]>>]]
<1>1. n \in Nat /\ DOMAIN s = 1 .. n OBVIOUS
<1>2. ASSUME NEW t \in SUBSET (1 .. n), t # {} PROVE s[Max(t)] \in C
  <2>1. Max(t) \in 1 .. n BY <1>1, <1>2, MaxIs
  <2> QED BY <2>1
<1>3. G \in [(SUBSET (1 .. n)) \X D -> D]
  <2>1. ASSUME NEW t \in SUBSET (1 .. n), NEW v \in D
        PROVE  (IF t = {} THEN base ELSE F[<<v, s[Max(t)]>>]) \in D
    BY <1>2
  <2> QED BY <2>1
<1>4. PICK g \in [SUBSET (1 .. n) -> D] : Folds(g, n, base, G)
  <2> HIDE DEF G, n
  <2> QED BY <1>1, <1>3, FoldWithin
<1>5. ASSUME NEW t \in SUBSET (1 .. n)
      PROVE  /\ t = {} => g[t] = base
             /\ t # {} => /\ g[t \ {Max(t)}] \in D /\ s[Max(t)] \in C
                          /\ g[t] = F[<<g[t \ {Max(t)}], s[Max(t)]>>]
  <2>1. t \ {Max(t)} \in SUBSET (1 .. n) OBVIOUS
  <2>2. g[t \ {Max(t)}] \in D BY <2>1
  <2>3. g[t] = IF t = {} THEN base ELSE G[<<t, g[t \ {Max(t)}]>>]
    <3> HIDE DEF G
    <3> QED BY <1>4 DEF Folds
  <2> QED BY <1>2, <2>2, <2>3
<1>6. FoldsOver(g, D, C, base, s, F) BY <1>1, <1>5 DEF FoldsOver
<1> QED BY <1>6

\* ... and every solution stays in D.
LEMMA FoldResult ==
    ASSUME NEW D, NEW C, NEW s \in Seq(C), NEW h, h[{}] \in D,
           \A t \in SUBSET DOMAIN s :
              t # {} /\ h[t \ {Max(t)}] \in D /\ s[Max(t)] \in C => h[t] \in D
    PROVE  h[DOMAIN s] \in D
<1> DEFINE n == Len(s)
           P == [t \in SUBSET (1 .. n) |-> D]
<1>1. n \in Nat /\ DOMAIN s = 1 .. n OBVIOUS
<1>2. h[{}] \in P[{}] OBVIOUS
<1>3. ASSUME NEW t \in SUBSET (1 .. n), t # {}, h[t \ {Max(t)}] \in P[t \ {Max(t)}]
      PROVE  h[t] \in P[t]
  <2>1. t \ {Max(t)} \in SUBSET (1 .. n) OBVIOUS
  <2>2. h[t \ {Max(t)}] \in D BY <1>3, <2>1
  <2>3. Max(t) \in 1 .. n BY <1>1, <1>3, MaxIs
  <2>4. s[Max(t)] \in C BY <2>3
  <2>5. h[t] \in D BY <1>1, <1>3, <2>2, <2>4
  <2> QED BY <2>5
<1>4. \A t \in SUBSET (1 .. n) : h[t] \in P[t]
  <2> HIDE DEF P
  <2> QED BY <1>1, <1>2, <1>3, FoldStays
<1> QED BY <1>1, <1>4

\* The largest number of a range.
LEMMA InitialMax ==
    ASSUME NEW n \in Nat, NEW k \in 1 .. n
    PROVE  /\ 1 .. k \in SUBSET (1 .. n) /\ 1 .. k # {} /\ Max(1 .. k) = k
           /\ (1 .. k) \ {k} = 1 .. k - 1
<1>1. 1 .. k \in SUBSET (1 .. n) /\ k \in 1 .. k BY SMT
<1>2. 1 .. k # {} BY <1>1
<1>3. Max(1 .. k) \in 1 .. k /\ \A y \in 1 .. k : y <= Max(1 .. k)
  <2> DEFINE s == 1 .. k
  <2>1. s \in SUBSET (1 .. n) /\ s # {} BY <1>1
  <2> HIDE DEF s
  <2>2. Max(s) \in s /\ \A y \in s : y <= Max(s) BY <2>1, MaxIs
  <2> QED BY <2>2 DEF s
<1> DEFINE x == Max(1 .. k)
<1>4. x = k
  <2>1. x \in 1 .. k /\ k <= x BY <1>1, <1>3
  <2> HIDE DEF x
  <2> QED BY <2>1
<1>5. (1 .. k) \ {k} = 1 .. k - 1 OBVIOUS
<1> QED BY <1>1, <1>2, <1>4, <1>5

\* A fold, element by element.
FoldRun(r, D, base, s, F) ==
    /\ r \in [0 .. Len(s) -> D] /\ r[0] = base
    /\ \A k \in 1 .. Len(s) : r[k] = F[<<r[k - 1], s[k]>>]

\* Its steps lead to h's value.
FoldLeads(D, base, s, F, h) == \E r : FoldRun(r, D, base, s, F) /\ r[Len(s)] = h[DOMAIN s]

LEMMA FoldRuns ==
    ASSUME NEW D, NEW C, NEW base \in D, NEW s \in Seq(C), NEW F \in [D \X C -> D],
           NEW h, h[{}] = base,
           \A t \in SUBSET DOMAIN s :
              t # {} /\ h[t \ {Max(t)}] \in D /\ s[Max(t)] \in C =>
                 h[t] = F[<<h[t \ {Max(t)}], s[Max(t)]>>]
    PROVE  FoldLeads(D, base, s, F, h)
<1> DEFINE n == Len(s)
           r == [k \in 0 .. n |-> h[1 .. k]]
           S == {k \in 0 .. n : h[1 .. k] \in D}
<1>1. n \in Nat /\ DOMAIN s = 1 .. n OBVIOUS
<1>2. ASSUME NEW k \in 1 .. n, h[1 .. k - 1] \in D
      PROVE  h[1 .. k] = F[<<h[1 .. k - 1], s[k]>>]
  <2> DEFINE t == 1 .. k
  <2>1. t \in SUBSET (1 .. n) /\ t # {} /\ Max(t) = k /\ t \ {k} = 1 .. k - 1
    BY <1>1, InitialMax
  <2>2. s[k] \in C BY <1>1
  <2> HIDE DEF t
  <2>3. h[t] = F[<<h[t \ {Max(t)}], s[Max(t)]>>] BY <1>1, <1>2, <2>1, <2>2
  <2>4. h[t] = F[<<h[1 .. k - 1], s[k]>>] BY <2>1, <2>3
  <2> QED BY <2>4 DEF t
<1>3. 1 .. 0 = {} OBVIOUS
<1>4. 0 \in S BY <1>1, <1>3
<1>5. ASSUME NEW i \in 0 .. n - 1, i \in S PROVE i + 1 \in S
  <2> DEFINE k == i + 1
  <2>1. k \in 1 .. n /\ k \in 0 .. n /\ k - 1 = i BY <1>1
  <2>2. h[1 .. i] \in D BY <1>5
  <2> HIDE DEF k
  <2>3. h[1 .. k] = F[<<h[1 .. i], s[k]>>] BY <1>2, <2>1, <2>2
  <2>4. s[k] \in C BY <1>1, <2>1
  <2>5. h[1 .. k] \in D BY <2>2, <2>3, <2>4
  <2>6. k \in S BY <2>1, <2>5
  <2> QED BY <2>6 DEF k
<1>6. \A k \in 0 .. n : h[1 .. k] \in D
  <2> HIDE DEF S
  <2>1. \A k \in 0 .. n : k \in S BY <1>1, <1>4, <1>5, RangeInduction
  <2> QED BY <2>1 DEF S
<1>7. r \in [0 .. n -> D] BY <1>6
<1>8. r[0] = base /\ r[n] = h[DOMAIN s] BY <1>1, <1>3
<1>9. ASSUME NEW k \in 1 .. n PROVE r[k] = F[<<r[k - 1], s[k]>>]
  <2>1. k \in 0 .. n /\ k - 1 \in 0 .. n BY <1>1
  <2>2. r[k] = h[1 .. k] /\ r[k - 1] = h[1 .. k - 1] BY <2>1
  <2>3. h[1 .. k - 1] \in D BY <1>6, <2>1
  <2> HIDE DEF r
  <2> QED BY <1>2, <2>2, <2>3
<1> HIDE DEF r
<1>10. FoldRun(r, D, base, s, F) BY <1>7, <1>8, <1>9 DEF FoldRun
<1> QED BY <1>8, <1>10 DEF FoldLeads
=============================================================================
