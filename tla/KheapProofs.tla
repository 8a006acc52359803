---------------------------- MODULE KheapProofs -----------------------------
(***************************************************************************)
(* The heap of mm/kheap.c is safe for every region size, every set of       *)
(* requests and every sequence of calls, and implements HeapContract: seen   *)
(* through the extents of the blocks the clients hold, every step of the     *)
(* allocator is a step of the contract or none at all.                      *)
(***************************************************************************)
EXTENDS KheapStats, RecursionProofs, NaturalsInduction, WellFoundedInduction, TLAPS

\* What kmalloc() reserves for a request: at least the request, and at most
\* one word more.
LEMMA AlignUp ==
    ASSUME NEW x \in Nat
    PROVE  ALIGN_UP(x) \in Nat /\ x <= ALIGN_UP(x) /\ ALIGN_UP(x) <= x + 1
  BY DEF ALIGN_UP

\* The addresses of the region.
LEMMA HeapRange ==
    /\ HeapStart \in Nat \ {0} /\ HeapEnd \in Nat /\ HeapEnd > HeapStart + 5
    /\ Heap \subseteq Int
    /\ \A a \in Int : a \in Heap <=> HeapStart <= a /\ a < HeapEnd
  BY HeapAssumption DEF Heap, HeapEnd, Header

\* The constants of the clients and of the code, as the proofs use them.
LEMMA Numbers ==
    /\ BLOCK_MAGIC \in Int
    /\ Requests \subseteq Nat /\ Words \subseteq Int /\ Garbage \subseteq Int
  <1>1. BLOCK_MAGIC \in Int
    BY SMT DEF BLOCK_MAGIC
  <1>2. Requests \subseteq Nat
    BY ClientAssumption, SMT
  <1>3. Words \subseteq Int /\ Garbage \subseteq Int
    BY ClientAssumption, SMT
  <1> QED
    BY <1>1, <1>2, <1>3

\* A block x of the list bs, without the structure's accessors.
BlockOK(m, bs, x) ==
    /\ m[x] = BLOCK_MAGIC /\ m[x + 1] \in Nat
    /\ x + 5 + m[x + 1] <= HeapEnd
    /\ m[x + 3] = IF x + 5 + m[x + 1] = HeapEnd THEN NULL ELSE x + 5 + m[x + 1]
    /\ m[x + 3] # NULL => m[x + 3] \in bs /\ m[m[x + 3] + 4] = x
    /\ x # HeapStart => m[x + 4] \in bs /\ m[m[x + 4] + 3] = x
    /\ x = HeapStart => m[x + 4] = NULL
    /\ \A c \in bs : x < c => x + 5 + m[x + 1] <= c

\* A block of a tiled list has the shape BlockOK.
LEMMA BlockFacts ==
    ASSUME NEW m \in [Heap -> Int], NEW bs \in SUBSET Heap, Tiles(m, bs), NEW x \in bs
    PROVE  /\ x \in Int /\ HeapStart <= x /\ End(m, x) = x + 5 + m[x + 1]
           /\ BlockOK(m, bs, x)
  <1>1. x \in Int /\ HeapStart <= x /\ x \in Heap
    BY HeapRange
  <1>2. m[x] = BLOCK_MAGIC /\ m[x + 1] \in Nat
    BY DEF Tiles, HeadersOK, Magic, Size
  <1>3. End(m, x) = x + 5 + m[x + 1]
    BY <1>1, <1>2 DEF End, Size, Header
  <1>4. x + 5 + m[x + 1] <= HeapEnd
    BY <1>3 DEF Tiles, HeadersOK
  <1>7. /\ m[x + 3] = IF End(m, x) = HeapEnd THEN NULL ELSE End(m, x)
        /\ End(m, x) # HeapEnd => End(m, x) \in bs /\ m[End(m, x) + 4] = x
        /\ x # HeapStart => m[x + 4] \in bs /\ m[m[x + 4] + 3] = x
        /\ x = HeapStart => m[x + 4] = NULL
    BY DEF Tiles, Linked, NextOf, PrevOf
  <1>8. \A c \in bs : x < c => End(m, x) <= c
    BY DEF Tiles, Disjoint
  <1> QED
    BY <1>1, <1>2, <1>3, <1>4, <1>7, <1>8 DEF BlockOK

\* Conversely, blocks of that shape and a first block tile the region.
LEMMA TilesIntro ==
    ASSUME NEW m \in [Heap -> Int], NEW bs \in SUBSET Heap, HeapStart \in bs,
           \A x \in bs : BlockOK(m, bs, x)
    PROVE  Tiles(m, bs)
  <1>1. \A x \in bs : x \in Int /\ End(m, x) = x + 5 + m[x + 1]
    BY HeapRange DEF BlockOK, End, Size, Header
  <1>2. HeadersOK(m, bs)
    BY <1>1 DEF BlockOK, HeadersOK, Magic, Size
  <1>3. Disjoint(m, bs)
    BY <1>1 DEF BlockOK, Disjoint
  <1>4. Linked(m, bs)
    <2>1. PrevOf(m, HeapStart) = NULL
      BY DEF BlockOK, PrevOf
    <2>2. ASSUME NEW x \in bs
          PROVE  /\ NextOf(m, x) = IF End(m, x) = HeapEnd THEN NULL ELSE End(m, x)
                 /\ End(m, x) # HeapEnd => End(m, x) \in bs /\ PrevOf(m, End(m, x)) = x
                 /\ x # HeapStart =>
                       PrevOf(m, x) \in bs /\ NextOf(m, PrevOf(m, x)) = x
      <3>1. End(m, x) # NULL /\ End(m, x) = x + 5 + m[x + 1]
        BY <1>1, HeapRange DEF BlockOK, NULL
      <3> QED
        BY <3>1 DEF BlockOK, NextOf, PrevOf
    <2> QED
      BY <2>1, <2>2 DEF Linked
  <1> QED
    BY <1>2, <1>3, <1>4 DEF Tiles

\* Two blocks of the list are the same or their headers share no word.
LEMMA Apart5 ==
    ASSUME NEW m \in [Heap -> Int], NEW bs \in SUBSET Heap, Tiles(m, bs),
           NEW b \in bs, NEW c \in bs, b # c
    PROVE  b + 5 + m[b + 1] <= c \/ c + 5 + m[c + 1] <= b
  <1>1. b \in Int /\ c \in Int
    BY HeapRange
  <1>2. b < c \/ c < b
    BY <1>1
  <1> QED
    BY <1>1, <1>2, BlockFacts DEF BlockOK

\* A store inside the region changes the one word.
Changed(w, m, b, v) ==
    /\ w \in [Heap -> Int] /\ w[b] = v
    /\ \A a \in Heap : a # b => w[a] = m[a]

LEMMA PutFacts ==
    ASSUME NEW m \in [Heap -> Int], NEW b \in Heap, NEW v \in Int
    PROVE  Changed(Put(m, b, v), m, b, v)
  <1>1. DOMAIN m \cup {b} = Heap
    OBVIOUS
  <1>2. Put(m, b, v) = [a \in Heap |-> IF a = b THEN v ELSE m[a]]
    BY <1>1 DEF Put
  <1> QED
    BY <1>2 DEF Changed

\* A header inside the region is its five words.
HeaderAt(w, m, b, size, next, prev) ==
    /\ w \in [Heap -> Int]
    /\ w[b] = BLOCK_MAGIC /\ w[b + 1] = size /\ w[b + 2] = 1
    /\ w[b + 3] = next /\ w[b + 4] = prev
    /\ \A a \in Heap : a < b \/ b + 4 < a => w[a] = m[a]

LEMMA PutHeaderFacts ==
    ASSUME NEW m \in [Heap -> Int], NEW b \in Int, HeapStart <= b, b + 4 < HeapEnd,
           NEW size \in Int, NEW next \in Int, NEW prev \in Int
    PROVE  HeaderAt(PutHeader(m, b, size, next, prev), m, b, size, next, prev)
  <1> DEFINE w1 == Put(m, b, BLOCK_MAGIC)
             w2 == Put(w1, b + 1, size)
             w3 == Put(w2, b + 2, 1)
             w4 == Put(w3, b + 3, next)
             w5 == Put(w4, b + 4, prev)
  <1>1. /\ b \in Heap /\ b + 1 \in Heap /\ b + 2 \in Heap /\ b + 3 \in Heap /\ b + 4 \in Heap
        /\ BLOCK_MAGIC \in Int /\ Heap \subseteq Int
        /\ 1 \in Int
    BY HeapRange, Numbers
  <1>2. Changed(w1, m, b, BLOCK_MAGIC)
    BY <1>1, PutFacts, Zenon
  <1> HIDE DEF w1
  <1>3. Changed(w2, w1, b + 1, size)
    <2>1. w1 \in [Heap -> Int]
      BY <1>2 DEF Changed
    <2> QED
      BY <1>1, <2>1, PutFacts, Zenon
  <1> HIDE DEF w2
  <1>4. Changed(w3, w2, b + 2, 1)
    <2>1. w2 \in [Heap -> Int]
      BY <1>3 DEF Changed
    <2> QED
      BY <1>1, <2>1, PutFacts, Zenon
  <1> HIDE DEF w3
  <1>5. Changed(w4, w3, b + 3, next)
    <2>1. w3 \in [Heap -> Int]
      BY <1>4 DEF Changed
    <2> QED
      BY <1>1, <2>1, PutFacts, Zenon
  <1> HIDE DEF w4
  <1>6. Changed(w5, w4, b + 4, prev)
    <2>1. w4 \in [Heap -> Int]
      BY <1>5 DEF Changed
    <2> QED
      BY <1>1, <2>1, PutFacts, Zenon
  <1>7. w5 = PutHeader(m, b, size, next, prev)
    BY DEF PutHeader, w1, w2, w3, w4
  <1> HIDE DEF w5
  <1>8. /\ w5[b] = BLOCK_MAGIC /\ w5[b + 1] = size /\ w5[b + 2] = 1 /\ w5[b + 3] = next
    BY <1>1, <1>2, <1>3, <1>4, <1>5, <1>6 DEF Changed
  <1>9. ASSUME NEW a \in Heap, a < b \/ b + 4 < a PROVE w5[a] = m[a]
    <2>1. a # b /\ a # b + 1 /\ a # b + 2 /\ a # b + 3 /\ a # b + 4
      BY <1>1, <1>9
    <2> QED
      BY <1>2, <1>3, <1>4, <1>5, <1>6, <2>1 DEF Changed
  <1>10. w5 \in [Heap -> Int] /\ w5[b + 4] = prev
    BY <1>6 DEF Changed
  <1> QED
    BY <1>7, <1>8, <1>9, <1>10 DEF HeaderAt

\* The part of a memory that split() writes, for a block b of the list with
\* room for n words, a header and a remainder worth keeping.
LEMMA SplitWrites ==
    ASSUME NEW m \in [Heap -> Int], NEW bs \in SUBSET Heap, Tiles(m, bs),
           NEW b \in bs, NEW n \in Nat, Splits(m, b, n)
    PROVE  LET r == b + 5 + n
               s == split(m, b, n)
               f == m[b + 3]
           IN  /\ s \in [Heap -> Int]
               /\ s[r] = BLOCK_MAGIC /\ s[r + 1] = m[b + 1] - n - 5
               /\ s[r + 2] = 1 /\ s[r + 3] = f /\ s[r + 4] = b
               /\ s[b] = m[b] /\ s[b + 1] = n /\ s[b + 2] = m[b + 2]
               /\ s[b + 3] = r /\ s[b + 4] = m[b + 4]
               /\ f # NULL => s[f + 4] = r
               /\ \A a \in Heap :
                     (a < r \/ r + 4 < a) /\ a # b + 1 /\ a # b + 3
                       /\ (f # NULL => a # f + 4) => s[a] = m[a]
  <1> DEFINE r == b + 5 + n
             s == split(m, b, n)
             f == m[b + 3]
             e == b + 5 + m[b + 1]
             v == m[b + 1] - n - 5
             m1 == PutHeader(m, r, v, f, b)
             m2 == IF f # NULL THEN Put(m1, f + 4, r) ELSE m1
  <1>1. /\ b \in Int /\ HeapStart <= b /\ m[b + 1] \in Nat /\ m[b + 1] >= n + 9
        /\ e \in Int /\ e <= HeapEnd /\ e = b + 5 + m[b + 1]
        /\ r \in Int /\ r = b + 5 + n /\ r + 9 <= e + 5
    BY BlockFacts DEF BlockOK, Splits, Size, Header, MinSplit
  <1>2. f # NULL => f = e /\ f \in Int /\ f + 5 <= HeapEnd
    <2>1. f # NULL => f = e /\ f \in bs
      BY <1>1, BlockFacts DEF BlockOK
    <2> HIDE DEF f
    <2>2. f \in bs => f \in Int /\ f + 5 + m[f + 1] <= HeapEnd /\ m[f + 1] \in Nat
      BY BlockFacts DEF BlockOK
    <2> QED
      BY <2>1, <2>2, HeapRange
  <1>3. f \in Int
    BY <1>2 DEF NULL
  <1>4. s = Put(Put(m2, b + 1, n), b + 3, r)
    BY DEF split, Header, NextOf, Size
  <1> HIDE DEF s, f, e, r
  <1>5. /\ r \in Heap /\ r + 1 \in Heap /\ r + 2 \in Heap /\ r + 3 \in Heap /\ r + 4 \in Heap
        /\ b \in Heap /\ b + 1 \in Heap /\ b + 2 \in Heap /\ b + 3 \in Heap /\ b + 4 \in Heap
        /\ f # NULL => f + 4 \in Heap
    BY <1>1, <1>2, <1>3, HeapRange
  <1>7. /\ m1 \in [Heap -> Int]
        /\ m1[r] = BLOCK_MAGIC /\ m1[r + 1] = m[b + 1] - n - 5
        /\ m1[r + 2] = 1 /\ m1[r + 3] = f /\ m1[r + 4] = b
        /\ \A a \in Heap : a < r \/ r + 4 < a => m1[a] = m[a]
    <2>1. v \in Int /\ BLOCK_MAGIC \in Int /\ Heap \subseteq Int
      BY <1>1, HeapRange, Numbers
    <2> HIDE DEF v
    <2>2. /\ m1 \in [Heap -> Int]
          /\ m1[r] = BLOCK_MAGIC /\ m1[r + 1] = v
          /\ m1[r + 2] = 1 /\ m1[r + 3] = f /\ m1[r + 4] = b
          /\ \A a \in Heap : a < r \/ r + 4 < a => m1[a] = m[a]
      <3>1. HeapStart <= r /\ r + 4 < HeapEnd
        BY <1>1, HeapRange
      <3>2. b \in Int /\ r \in Int
        BY <1>1
      <3>3. HeaderAt(m1, m, r, v, f, b)
        BY <1>3, <2>1, <3>1, <3>2, PutHeaderFacts, Zenon
      <3> QED
        BY <3>3 DEF HeaderAt
    <2> QED
      BY <2>2 DEF v
  <1> HIDE DEF m1
  <1>8. /\ m2 \in [Heap -> Int]
        /\ f # NULL => m2[f + 4] = r
        /\ \A a \in Heap : (f # NULL => a # f + 4) => m2[a] = m1[a]
    <2>1. CASE f # NULL
      <3>1. f + 4 \in Heap /\ r \in Int /\ m1 \in [Heap -> Int]
        BY <1>1, <1>5, <1>7, <2>1
      <3>2. Changed(Put(m1, f + 4, r), m1, f + 4, r)
        BY <3>1, PutFacts, Zenon
      <3> QED
        BY <2>1, <3>2 DEF Changed
    <2>2. CASE f = NULL
      BY <1>7, <2>2
    <2> QED
      BY <2>1, <2>2
  <1> HIDE DEF m2
  <1>9. /\ s \in [Heap -> Int]
        /\ s[b + 1] = n /\ s[b + 3] = r
        /\ \A a \in Heap : a # b + 1 /\ a # b + 3 => s[a] = m2[a]
    <2> DEFINE m3 == Put(m2, b + 1, n)
    <2>0. n \in Int /\ r \in Int
      BY <1>1
    <2>1. Changed(m3, m2, b + 1, n)
      BY <1>5, <1>8, <2>0, PutFacts, Zenon
    <2>2. s = Put(m3, b + 3, r)
      BY <1>4
    <2> HIDE DEF m3
    <2>3. m3 \in [Heap -> Int]
      BY <2>1 DEF Changed
    <2>4. Changed(s, m3, b + 3, r)
      BY <1>5, <2>0, <2>2, <2>3, PutFacts, Zenon
    <2> QED
      BY <1>1, <1>5, <2>1, <2>4 DEF Changed
  <1>10. \A a \in Heap :
            (a < r \/ r + 4 < a) /\ a # b + 1 /\ a # b + 3
              /\ (f # NULL => a # f + 4) => s[a] = m[a]
    BY <1>7, <1>8, <1>9
  <1>11. /\ s[r] = BLOCK_MAGIC /\ s[r + 1] = m[b + 1] - n - 5
         /\ s[r + 2] = 1 /\ s[r + 3] = f /\ s[r + 4] = b
    BY <1>1, <1>2, <1>3, <1>5, <1>7, <1>8, <1>9
  <1>12. /\ s[b] = m[b] /\ s[b + 2] = m[b + 2] /\ s[b + 4] = m[b + 4]
    BY <1>1, <1>2, <1>3, <1>5, <1>10
  <1>13. f # NULL => s[f + 4] = r
    BY <1>1, <1>2, <1>3, <1>5, <1>8, <1>9
  <1> QED
    BY <1>9, <1>10, <1>11, <1>12, <1>13 DEF s, f, r

\* Splitting a block of the list leaves a list that tiles the region, with the
\* remainder as a free block of its own, and touches no word of the other
\* blocks but the link back from the follower.
LEMMA SplitTiles ==
    ASSUME NEW m \in [Heap -> Int], NEW bs \in SUBSET Heap, Tiles(m, bs),
           NEW b \in bs, NEW n \in Nat, Splits(m, b, n),
           NEW r, r = b + 5 + n, NEW s, s = split(m, b, n)
    PROVE  /\ s \in [Heap -> Int] /\ r \in Heap
           /\ Tiles(s, bs \cup {r})
           /\ s[b + 1] = n /\ s[b + 2] = m[b + 2] /\ s[r + 2] = 1 /\ s[r + 3] = m[b + 3]
           /\ \A c \in bs \ {b} :
                 \A a \in c .. c + 4 + m[c + 1] : a # c + 4 => s[a] = m[a]
  <1> DEFINE f == m[b + 3]
             e == b + 5 + m[b + 1]
             cs == bs \cup {r}
  <1>1. /\ b \in Int /\ HeapStart <= b /\ m[b + 1] \in Nat /\ m[b + 1] >= n + 9
        /\ e \in Int /\ e <= HeapEnd /\ e = b + 5 + m[b + 1]
        /\ r \in Int /\ r = b + 5 + n /\ r + 4 < e
        /\ f = IF e = HeapEnd THEN NULL ELSE e
        /\ f # NULL => f \in bs /\ m[f + 4] = b
        /\ m[b] = BLOCK_MAGIC
    BY BlockFacts DEF BlockOK, Splits, Size, Header, MinSplit
  <1>2. /\ s \in [Heap -> Int]
        /\ s[r] = BLOCK_MAGIC /\ s[r + 1] = m[b + 1] - n - 5
        /\ s[r + 2] = 1 /\ s[r + 3] = f /\ s[r + 4] = b
        /\ s[b] = m[b] /\ s[b + 1] = n /\ s[b + 2] = m[b + 2]
        /\ s[b + 3] = r /\ s[b + 4] = m[b + 4]
        /\ f # NULL => s[f + 4] = r
        /\ \A a \in Heap :
              (a < r \/ r + 4 < a) /\ a # b + 1 /\ a # b + 3
                /\ (f # NULL => a # f + 4) => s[a] = m[a]
    BY SplitWrites
  <1> HIDE DEF f, e
  <1>3. r \in Heap
    BY <1>1, HeapRange
  <1>4. \A c \in bs : c \in Int /\ HeapStart <= c /\ BlockOK(m, bs, c)
    BY BlockFacts
  <1>5. \A c \in bs \ {b} : c + 4 + m[c + 1] < b \/ e <= c
    BY <1>1, <1>4 DEF BlockOK
  <1>7. ASSUME NEW c \in bs \ {b}, NEW a \in c .. c + 4 + m[c + 1], a # c + 4
        PROVE  s[a] = m[a]
    <2>1. c \in Int /\ m[c + 1] \in Nat /\ a \in Int /\ c <= a /\ a <= c + 4 + m[c + 1]
          /\ HeapStart <= c /\ c + 4 + m[c + 1] < HeapEnd
      BY <1>4, HeapRange DEF BlockOK
    <2>2. a \in Heap
      BY <2>1, HeapRange
    <2>3. f # NULL => a # f + 4
      <3>1. CASE f = c
        BY <3>1, <2>1, <1>7
      <3>2. CASE f # c
        <4>1. f \in bs => f + 4 + m[f + 1] < c \/ c + 4 + m[c + 1] < f
          BY <1>4, <2>1, <3>2 DEF BlockOK
        <4>2. f \in bs => f \in Int /\ m[f + 1] \in Nat
          BY <1>4 DEF BlockOK
        <4> QED
          BY <1>1, <2>1, <4>1, <4>2
      <3> QED
        BY <3>1, <3>2
    <2>4. (a < r \/ r + 4 < a) /\ a # b + 1 /\ a # b + 3
      BY <1>1, <1>5, <2>1
    <2> QED
      BY <1>2, <2>2, <2>3, <2>4
  <1>8. ASSUME NEW c \in bs \ {b}
        PROVE  /\ s[c] = m[c] /\ s[c + 1] = m[c + 1] /\ s[c + 2] = m[c + 2] /\ s[c + 3] = m[c + 3]
               /\ c # f => s[c + 4] = m[c + 4]
    <2>1. c \in Int /\ m[c + 1] \in Nat /\ HeapStart <= c /\ c + 5 + m[c + 1] <= HeapEnd
      BY <1>4 DEF BlockOK
    <2>2. s[c] = m[c] /\ s[c + 1] = m[c + 1] /\ s[c + 2] = m[c + 2] /\ s[c + 3] = m[c + 3]
      BY <1>7, <2>1
    <2>3. ASSUME c # f PROVE s[c + 4] = m[c + 4]
      <3>1. f \in bs => f \in Int
        BY <1>4
      <3>2. c + 4 \in Heap
        BY <2>1, HeapRange
      <3>3. (c + 4 < r \/ r + 4 < c + 4) /\ c + 4 # b + 1 /\ c + 4 # b + 3
        BY <1>1, <1>5, <2>1
      <3> QED
        BY <1>1, <1>2, <2>1, <2>3, <3>1, <3>2, <3>3
    <2> QED
      BY <2>2, <2>3
  <1>9. ASSUME NEW x \in cs PROVE BlockOK(s, cs, x)
    <2>1. CASE x = b
      <3>1. s[x] = BLOCK_MAGIC /\ s[x + 1] \in Nat /\ s[x + 1] = n /\ x + 5 + s[x + 1] = r
        BY <1>1, <1>2, <2>1
      <3>2. r # HeapEnd /\ r # NULL /\ r < HeapEnd
        BY <1>1, HeapRange DEF NULL
      <3>3. s[x + 3] = r /\ s[s[x + 3] + 4] = x
        BY <1>2, <2>1
      <3>4. x # HeapStart => s[x + 4] \in bs /\ s[s[x + 4] + 3] = x
        <4>1. x # HeapStart => m[b + 4] \in bs /\ m[m[b + 4] + 3] = b
          BY <1>4, <2>1 DEF BlockOK
        <4>2. m[b + 4] # b \/ x = HeapStart
          BY <4>1, <1>1, HeapRange DEF NULL, f
        <4> QED
          BY <4>1, <4>2, <1>2, <1>8, <2>1
      <3>5. x = HeapStart => s[x + 4] = NULL
        BY <1>2, <1>4, <2>1 DEF BlockOK
      <3>6. ASSUME NEW c \in cs, x < c PROVE x + 5 + s[x + 1] <= c
        BY <1>1, <1>5, <1>4, <3>1, <2>1, <3>6 DEF BlockOK
      <3>7. s[x + 3] \in cs /\ (x # HeapStart => s[x + 4] \in cs)
        BY <3>3, <3>4
      <3>8. x + 5 + s[x + 1] <= HeapEnd
        BY <1>1, <3>1, <3>2, HeapRange
      <3>9. s[x + 3] = IF x + 5 + s[x + 1] = HeapEnd THEN NULL ELSE x + 5 + s[x + 1]
        BY <3>1, <3>2, <3>3
      <3> HIDE DEF cs
      <3> QED
        BY <3>7, <3>8, <3>9, <3>1, <3>3, <3>4, <3>5, <3>6 DEF BlockOK
    <2>2. CASE x = r
      <3>1. s[x] = BLOCK_MAGIC /\ s[x + 1] \in Nat /\ x + 5 + s[x + 1] = e
        BY <1>1, <1>2, <2>2
      <3>2. s[x + 3] = IF e = HeapEnd THEN NULL ELSE e
        BY <1>1, <1>2, <2>2
      <3>3. s[x + 3] # NULL => s[x + 3] \in cs /\ s[s[x + 3] + 4] = x
        BY <1>1, <1>2, <2>2
      <3>4. s[x + 4] \in cs /\ s[s[x + 4] + 3] = x /\ x # HeapStart
        BY <1>1, <1>2, <2>2, HeapRange
      <3>5. ASSUME NEW c \in cs, x < c PROVE x + 5 + s[x + 1] <= c
        BY <1>1, <1>5, <1>4, <3>1, <2>2, <3>5 DEF BlockOK
      <3> QED
        BY <1>1, <3>1, <3>2, <3>3, <3>4, <3>5 DEF BlockOK
    <2>3. CASE x \in bs \ {b}
      <3>1. BlockOK(m, bs, x) /\ x \in Int
        BY <1>4, <2>3
      <3>2. /\ s[x] = m[x] /\ s[x + 1] = m[x + 1] /\ s[x + 2] = m[x + 2] /\ s[x + 3] = m[x + 3]
            /\ x # f => s[x + 4] = m[x + 4]
        BY <1>8, <2>3
      <3>3. s[x + 3] # NULL => s[x + 3] \in cs /\ s[s[x + 3] + 4] = x
        <4> SUFFICES ASSUME s[x + 3] # NULL PROVE s[x + 3] \in cs /\ s[s[x + 3] + 4] = x
          OBVIOUS
        <4> DEFINE g == m[x + 3]
        <4>1. s[x + 3] = g /\ g \in bs /\ m[g + 4] = x
          BY <3>1, <3>2 DEF BlockOK
        <4>2. g # f
          BY <1>1, <4>1, <2>3
        <4>3. s[g + 4] = m[g + 4]
          <5>1. CASE g = b
            BY <5>1, <1>2
          <5>2. CASE g # b
            BY <5>2, <1>8, <4>1, <4>2
          <5> QED
            BY <5>1, <5>2
        <4> QED
          BY <4>1, <4>3
      <3>4. x # HeapStart => s[x + 4] \in cs /\ s[s[x + 4] + 3] = x
        <4>1. CASE x = f
          BY <4>1, <1>1, <1>2, <1>4, HeapRange DEF NULL
        <4>2. CASE x # f
          <5> DEFINE g == m[x + 4]
          <5>1. x # HeapStart => g \in bs /\ m[g + 3] = x
            BY <3>1 DEF BlockOK
          <5>2. x # HeapStart => g # b
            BY <5>1, <4>2 DEF f
          <5> QED
            BY <5>1, <5>2, <1>8, <3>2, <4>2
        <4> QED
          BY <4>1, <4>2
      <3>5. x = HeapStart => s[x + 4] = NULL
        <4>1. x = HeapStart => x # f
          BY <1>1, HeapRange DEF NULL
        <4> QED
          BY <4>1, <3>1, <3>2 DEF BlockOK
      <3>6. ASSUME NEW c \in cs, x < c PROVE x + 5 + s[x + 1] <= c
        <4>1. CASE c \in bs
          BY <4>1, <3>1, <3>2, <3>6 DEF BlockOK
        <4>2. CASE c = r
          BY <4>2, <1>1, <1>5, <3>1, <3>2, <3>6, <2>3 DEF BlockOK
        <4> QED
          BY <4>1, <4>2
      <3> QED
        BY <3>1, <3>2, <3>3, <3>4, <3>5, <3>6 DEF BlockOK
    <2> QED
      BY <2>1, <2>2, <2>3
  <1>10. Tiles(s, cs)
    <2>1. HeapStart \in cs /\ cs \in SUBSET Heap
      BY <1>3 DEF Tiles, Linked
    <2> HIDE DEF cs
    <2> QED
      BY <1>2, <1>9, <2>1, TilesIntro
  <1> QED
    BY <1>2, <1>3, <1>7, <1>10 DEF f

\* Merging a block with its free follower leaves a list that tiles the region
\* without the follower, and touches no word of the other blocks but the link
\* back from the one behind.
LEMMA MergeTiles ==
    ASSUME NEW m \in [Heap -> Int], NEW bs \in SUBSET Heap, Tiles(m, bs),
           NEW b \in bs, Merges(m, b)
    PROVE  LET g == m[b + 3]
               w == merge_next(m, b)
           IN  /\ w \in [Heap -> Int] /\ g \in bs /\ g = b + 5 + m[b + 1]
               /\ Tiles(w, bs \ {g})
               /\ w[b + 1] = m[b + 1] + 5 + m[g + 1]
               /\ w[b + 2] = m[b + 2] /\ w[b + 3] = m[g + 3] /\ w[b + 4] = m[b + 4]
               /\ \A c \in bs \ {b, g} :
                     \A a \in c .. c + 4 + m[c + 1] : a # c + 4 => w[a] = m[a]
  <1> DEFINE g == m[b + 3]
             h == m[g + 3]
             w == merge_next(m, b)
             v == m[b + 1] + 5 + m[g + 1]
             e == b + 5 + v
             cs == bs \ {g}
             m1 == Put(Put(m, b + 1, v), b + 3, h)
  <1>1. g # NULL /\ m[b + 2] # 0 /\ m[g + 2] # 0
    BY DEF Merges, NextOf, IsFree
  <1>2. w = IF h # NULL THEN Put(m1, h + 4, b) ELSE m1
    BY DEF merge_next, NextOf, Size, Header
  <1>3. \A c \in bs : c \in Int /\ HeapStart <= c /\ BlockOK(m, bs, c)
    BY BlockFacts
  <1>4. /\ b \in Int /\ HeapStart <= b /\ m[b + 1] \in Nat /\ m[b] = BLOCK_MAGIC
        /\ g \in bs /\ g \in Int /\ g = b + 5 + m[b + 1] /\ m[g + 4] = b
    BY <1>1, <1>3 DEF BlockOK
  <1> HIDE DEF w, g, v, e
  <1>5. /\ m[g + 1] \in Nat /\ v \in Nat /\ v = m[b + 1] + 5 + m[g + 1]
        /\ e \in Int /\ e = b + 5 + v /\ e = g + 5 + m[g + 1] /\ e <= HeapEnd
        /\ h = IF e = HeapEnd THEN NULL ELSE e
        /\ h # NULL => h \in bs /\ m[h + 4] = g
    BY <1>3, <1>4 DEF BlockOK, v, e
  <1> HIDE DEF h
  <1>6. h # NULL => h \in Int /\ m[h + 1] \in Nat /\ h + 5 + m[h + 1] <= HeapEnd
    BY <1>3, <1>5 DEF BlockOK
  <1>7. /\ b \in Heap /\ b + 1 \in Heap /\ b + 2 \in Heap /\ b + 3 \in Heap /\ b + 4 \in Heap
        /\ h # NULL => h + 4 \in Heap
        /\ h \in Int
    BY <1>4, <1>5, <1>6, HeapRange DEF NULL
  <1>8. /\ m1 \in [Heap -> Int] /\ m1[b + 1] = v /\ m1[b + 3] = h
        /\ \A a \in Heap : a # b + 1 /\ a # b + 3 => m1[a] = m[a]
    <2> DEFINE m0 == Put(m, b + 1, v)
    <2>0. v \in Int /\ h \in Int
      BY <1>5, <1>7
    <2>1. Changed(m0, m, b + 1, v)
      BY <1>7, <2>0, PutFacts, Zenon
    <2>2. m1 = Put(m0, b + 3, h)
      OBVIOUS
    <2> HIDE DEF m0, m1
    <2>3. m0 \in [Heap -> Int]
      BY <2>1 DEF Changed
    <2>4. Changed(m1, m0, b + 3, h)
      BY <1>7, <2>0, <2>2, <2>3, PutFacts, Zenon
    <2> QED
      BY <1>4, <1>7, <2>1, <2>4 DEF Changed
  <1> HIDE DEF m1
  <1>9. /\ w \in [Heap -> Int] /\ (h # NULL => w[h + 4] = b)
        /\ \A a \in Heap : (h # NULL => a # h + 4) => w[a] = m1[a]
    <2>1. CASE h # NULL
      <3>1. h + 4 \in Heap /\ b \in Int /\ m1 \in [Heap -> Int]
        BY <1>4, <1>7, <1>8, <2>1
      <3>2. Changed(Put(m1, h + 4, b), m1, h + 4, b)
        BY <3>1, PutFacts, Zenon
      <3> QED
        BY <1>2, <2>1, <3>2 DEF Changed
    <2>2. CASE h = NULL
      BY <1>2, <1>8, <2>2
    <2> QED
      BY <2>1, <2>2
  <1>10. \A a \in Heap :
            a # b + 1 /\ a # b + 3 /\ (h # NULL => a # h + 4) => w[a] = m[a]
    BY <1>8, <1>9
  <1>11. /\ w[b] = BLOCK_MAGIC /\ w[b + 1] = v /\ w[b + 2] = m[b + 2]
         /\ w[b + 3] = h /\ w[b + 4] = m[b + 4]
    <2>1. h # NULL => h > b + 4
      BY <1>4, <1>5
    <2> QED
      BY <1>4, <1>5, <1>7, <1>8, <1>9, <1>10, <2>1
  <1>12. \A c \in bs \ {b, g} : c + 4 + m[c + 1] < b \/ e <= c
    <2> SUFFICES ASSUME NEW c \in bs \ {b, g} PROVE c + 4 + m[c + 1] < b \/ e <= c
      OBVIOUS
    <2>1. c \in Int /\ m[c + 1] \in Nat /\ (c < b => c + 5 + m[c + 1] <= b)
      BY <1>3 DEF BlockOK
    <2>2. b < c => g <= c
      BY <1>3, <1>4, <2>1 DEF BlockOK
    <2>3. g < c => e <= c
      BY <1>3, <1>4, <1>5, <2>1 DEF BlockOK
    <2> QED
      BY <1>4, <2>1, <2>2, <2>3
  <1>13. ASSUME NEW c \in bs \ {b, g}, NEW a \in c .. c + 4 + m[c + 1],
                a # c + 4 \/ c # h
         PROVE  w[a] = m[a]
    <2>1. c \in Int /\ m[c + 1] \in Nat /\ a \in Int /\ c <= a /\ a <= c + 4 + m[c + 1]
          /\ HeapStart <= c /\ c + 4 + m[c + 1] < HeapEnd
      BY <1>3, HeapRange DEF BlockOK
    <2>2. a \in Heap
      BY <2>1, HeapRange
    <2>3. h # NULL => a # h + 4
      <3>1. CASE h = c
        BY <3>1, <2>1, <1>13
      <3>2. CASE h # c
        <4>1. h \in bs => h + 4 + m[h + 1] < c \/ c + 4 + m[c + 1] < h
          BY <1>3, <2>1, <3>2 DEF BlockOK
        <4> QED
          BY <1>5, <1>6, <2>1, <4>1
      <3> QED
        BY <3>1, <3>2
    <2>4. a # b + 1 /\ a # b + 3
      BY <1>4, <1>5, <1>12, <2>1
    <2> QED
      BY <1>10, <2>2, <2>3, <2>4
  <1>14. ASSUME NEW c \in bs \ {b, g}
         PROVE  /\ w[c] = m[c] /\ w[c + 1] = m[c + 1] /\ w[c + 2] = m[c + 2] /\ w[c + 3] = m[c + 3]
                /\ c # h => w[c + 4] = m[c + 4]
    <2>1. c \in Int /\ m[c + 1] \in Nat
      BY <1>3 DEF BlockOK
    <2> QED
      BY <1>13, <2>1
  <1>15. ASSUME NEW x \in cs PROVE BlockOK(w, cs, x)
    <2>1. CASE x = b
      <3>1. w[x] = BLOCK_MAGIC /\ w[x + 1] \in Nat /\ w[x + 1] = v /\ x + 5 + w[x + 1] = e
        BY <1>4, <1>5, <1>11, <2>1
      <3>2. w[x + 3] = IF e = HeapEnd THEN NULL ELSE e
        BY <1>5, <1>11, <2>1
      <3>3. w[x + 3] # NULL => w[x + 3] \in cs /\ w[w[x + 3] + 4] = x
        <4>1. h # NULL => h # g
          BY <1>4, <1>5
        <4> QED
          BY <1>5, <1>9, <1>11, <2>1, <4>1
      <3>4. x # HeapStart => w[x + 4] \in cs /\ w[w[x + 4] + 3] = x
        <4> DEFINE p == m[b + 4]
        <4>1. x # HeapStart => p \in bs /\ m[p + 3] = b
          BY <1>3, <2>1 DEF BlockOK
        <4>2. x # HeapStart => p # b /\ p # g
          BY <4>1, <1>4, <1>5, HeapRange DEF NULL, g, h
        <4> HIDE DEF p
        <4>3. x # HeapStart => w[p + 3] = m[p + 3] /\ p \in cs
          BY <4>1, <4>2, <1>14
        <4> QED
          BY <4>1, <4>3, <1>11, <2>1 DEF p
      <3>5. x = HeapStart => w[x + 4] = NULL
        BY <1>3, <1>11, <2>1 DEF BlockOK
      <3>6. ASSUME NEW c \in cs, x < c PROVE e <= c
        BY <1>3, <1>4, <1>5, <1>12, <2>1, <3>6 DEF BlockOK
      <3> HIDE DEF cs
      <3> QED
        BY <1>5, <3>1, <3>2, <3>3, <3>4, <3>5, <3>6 DEF BlockOK
    <2>2. CASE x # b
      <3>1. BlockOK(m, bs, x) /\ x \in Int /\ x \in bs \ {b, g}
        BY <1>3, <2>2
      <3>2. /\ w[x] = m[x] /\ w[x + 1] = m[x + 1] /\ w[x + 2] = m[x + 2] /\ w[x + 3] = m[x + 3]
            /\ x # h => w[x + 4] = m[x + 4]
        BY <1>14, <3>1
      <3>3. w[x + 3] # NULL => w[x + 3] \in cs /\ w[w[x + 3] + 4] = x
        <4> SUFFICES ASSUME w[x + 3] # NULL PROVE w[x + 3] \in cs /\ w[w[x + 3] + 4] = x
          OBVIOUS
        <4> DEFINE y == m[x + 3]
        <4>1. w[x + 3] = y /\ y \in bs /\ m[y + 4] = x
          BY <3>1, <3>2 DEF BlockOK
        <4>2. y # g /\ y # h
          BY <1>4, <1>5, <4>1, <3>1, <2>2
        <4> HIDE DEF y
        <4>3. w[y + 4] = m[y + 4]
          <5>1. CASE y = b
            BY <5>1, <1>11
          <5>2. CASE y # b
            BY <5>2, <1>14, <4>1, <4>2
          <5> QED
            BY <5>1, <5>2
        <4> QED
          BY <4>1, <4>2, <4>3
      <3>4. x # HeapStart => w[x + 4] \in cs /\ w[w[x + 4] + 3] = x
        <4>1. CASE x = h
          <5>1. h # NULL /\ b # g
            BY <4>1, <1>3, <1>4, <3>1, HeapRange DEF NULL
          <5>2. w[x + 4] = b /\ w[b + 3] = x
            BY <4>1, <5>1, <1>9, <1>11
          <5> QED
            BY <5>1, <5>2
        <4>2. CASE x # h
          <5> DEFINE y == m[x + 4]
          <5>1. x # HeapStart => y \in bs /\ m[y + 3] = x
            BY <3>1 DEF BlockOK
          <5>2. x # HeapStart => y # b /\ y # g
            BY <5>1, <4>2, <3>1 DEF g, h
          <5> HIDE DEF y
          <5>3. x # HeapStart => w[y + 3] = m[y + 3]
            BY <5>1, <5>2, <1>14
          <5> QED
            BY <5>1, <5>2, <5>3, <3>2, <4>2 DEF y
        <4> QED
          BY <4>1, <4>2
      <3>5. x = HeapStart => w[x + 4] = NULL
        <4>1. x = HeapStart => x # h
          BY <1>4, <1>5, HeapRange DEF NULL
        <4> QED
          BY <4>1, <3>1, <3>2 DEF BlockOK
      <3>6. ASSUME NEW c \in cs, x < c PROVE x + 5 + w[x + 1] <= c
        BY <3>1, <3>2, <3>6 DEF BlockOK
      <3> HIDE DEF cs
      <3> QED
        BY <3>1, <3>2, <3>3, <3>4, <3>5, <3>6 DEF BlockOK
    <2> QED
      BY <2>1, <2>2
  <1>16. Tiles(w, cs)
    <2>1. HeapStart # g
      BY <1>4, HeapRange
    <2>2. HeapStart \in cs /\ cs \in SUBSET Heap
      BY <2>1 DEF Tiles, Linked
    <2> HIDE DEF cs
    <2> QED
      BY <1>9, <1>15, <2>2, TilesIntro
  <1>17. /\ w[b + 1] = m[b + 1] + 5 + m[g + 1] /\ w[b + 2] = m[b + 2]
         /\ w[b + 3] = m[g + 3] /\ w[b + 4] = m[b + 4]
    BY <1>5, <1>11 DEF h
  <1>18. ASSUME NEW c \in bs \ {b, g}, NEW a \in c .. c + 4 + m[c + 1], a # c + 4
         PROVE  w[a] = m[a]
    BY <1>13, <1>18
  <1> QED
    BY <1>4, <1>9, <1>16, <1>17, <1>18 DEF w, g

\* Writes that spare magic, size and links of every block keep the tiling.
LEMMA TilesFrame ==
    ASSUME NEW m \in [Heap -> Int], NEW bs \in SUBSET Heap, Tiles(m, bs),
           NEW w \in [Heap -> Int],
           \A c \in bs : /\ w[c] = m[c] /\ w[c + 1] = m[c + 1]
                         /\ w[c + 3] = m[c + 3] /\ w[c + 4] = m[c + 4]
    PROVE  Tiles(w, bs)
  <1>1. \A c \in bs : BlockOK(m, bs, c)
    BY BlockFacts
  <1>2. ASSUME NEW x \in bs PROVE BlockOK(w, bs, x)
    BY <1>1 DEF BlockOK
  <1>3. HeapStart \in bs
    BY DEF Tiles, Linked
  <1> QED
    BY <1>2, <1>3, TilesIntro

\* If x is free then its follower, if any, is not.
Quiet(m, x) == m[x + 2] # 0 /\ m[x + 3] # NULL => m[m[x + 3] + 2] = 0

\* Coalesced, read off the words: of two list neighbours one is in use.
LEMMA CoalescedQuiet ==
    ASSUME TypeOK, Tiling
    PROVE  Coalesced <=> \A x \in blocks : Quiet(mem, x)
  <1> DEFINE m == mem
             bs == blocks
  <1>1. m \in [Heap -> Int] /\ bs \in SUBSET Heap /\ Tiles(m, bs)
    BY DEF TypeOK, Tiling
  <1>2. \A x \in bs : /\ End(m, x) # HeapEnd => m[x + 3] = End(m, x) /\ m[x + 3] # NULL
                      /\ End(m, x) = HeapEnd => m[x + 3] = NULL
    <2>1. \A x \in bs : /\ x \in Int /\ HeapStart <= x /\ End(m, x) = x + 5 + m[x + 1]
                        /\ BlockOK(m, bs, x)
      BY <1>1, BlockFacts
    <2>2. \A x \in bs : End(m, x) # NULL
      BY <2>1, HeapRange DEF BlockOK, NULL
    <2> QED
      BY <2>1, <2>2 DEF BlockOK
  <1> QED
    BY <1>2 DEF Coalesced, Quiet, IsFree

\* One call of merge_next() on a free block b, whether it merges or not: the
\* list still tiles, b is followed by a used block, and used blocks are as
\* they were.
LEMMA MergeStep ==
    ASSUME NEW m \in [Heap -> Int], NEW bs \in SUBSET Heap, Tiles(m, bs),
           NEW b \in bs, m[b + 2] # 0,
           \A x \in bs \ {b} : m[x + 3] # b => Quiet(m, x)
    PROVE  LET w  == merge_next(m, b)
               cs == bs \ Absorbed(m, b)
           IN  /\ w \in [Heap -> Int] /\ Tiles(w, cs) /\ b \in cs
               /\ w[b + 2] = m[b + 2] /\ w[b + 4] = m[b + 4]
               /\ \A c \in bs \ {b} : m[c + 2] = 0 => c \in cs
               /\ \A c \in cs \ {b} :
                     \A a \in c .. c + 4 + m[c + 1] : a # c + 4 => w[a] = m[a]
               /\ \A x \in cs : w[x + 3] # b => Quiet(w, x)
  <1> DEFINE w  == merge_next(m, b)
             cs == bs \ Absorbed(m, b)
             g  == m[b + 3]
  <1>0. \A c \in bs : c \in Int /\ HeapStart <= c /\ BlockOK(m, bs, c)
    BY BlockFacts
  <1>1. CASE ~Merges(m, b)
    <2>1. w = m /\ cs = bs
      BY <1>1 DEF merge_next, Absorbed
    <2>2. Quiet(m, b)
      BY <1>1 DEF Merges, Quiet, NextOf, IsFree
    <2>3. \A x \in bs : m[x + 3] # b => Quiet(m, x)
      BY <2>2
    <2> QED
      BY <2>1, <2>3
  <1>2. CASE Merges(m, b)
    <2>1. /\ w \in [Heap -> Int] /\ g \in bs /\ g = b + 5 + m[b + 1]
          /\ Tiles(w, bs \ {g})
          /\ w[b + 2] = m[b + 2] /\ w[b + 3] = m[g + 3] /\ w[b + 4] = m[b + 4]
          /\ \A c \in bs \ {b, g} :
                \A a \in c .. c + 4 + m[c + 1] : a # c + 4 => w[a] = m[a]
      BY <1>2, MergeTiles
    <2>2. cs = bs \ {g} /\ g # NULL /\ m[g + 2] # 0
      BY <1>2 DEF Absorbed, Merges, NextOf, IsFree
    <2>3. m[g + 4] = b
      BY <1>0, <2>2 DEF BlockOK
    <2> HIDE DEF g, w, cs
    <2>4. g # b
      BY <1>0, <2>1 DEF BlockOK
    <2>5. \A c \in bs \ {b, g} : w[c + 2] = m[c + 2] /\ w[c + 3] = m[c + 3]
      <3>1. \A c \in bs : c \in Int /\ m[c + 1] \in Nat
        BY <1>0 DEF BlockOK
      <3> QED
        BY <2>1, <3>1
    <2>6. ASSUME NEW x \in cs, w[x + 3] # b PROVE Quiet(w, x)
      <3>1. CASE x = b
        <4> DEFINE h == m[g + 3]
        <4>1. h # b /\ h # g
          <5>1. g \in Int /\ b \in Int /\ b < g /\ m[g + 1] \in Nat
            BY <1>0, <2>1 DEF BlockOK
          <5>2. h = NULL \/ h = g + 5 + m[g + 1]
            BY <1>0, <2>1 DEF BlockOK
          <5>3. b # NULL /\ g # NULL
            BY <1>0, <2>1, HeapRange DEF NULL
          <5> QED
            BY <5>1, <5>2, <5>3
        <4>2. Quiet(m, g)
          BY <2>1, <2>4, <4>1
        <4>3. h # NULL => h \in bs /\ m[h + 2] = 0
          BY <1>0, <2>1, <2>2, <4>2 DEF Quiet, BlockOK
        <4> QED
          BY <2>1, <2>5, <3>1, <4>1, <4>3 DEF Quiet
      <3>2. CASE x # b
        <4> DEFINE y == m[x + 3]
        <4>1. x \in bs \ {b, g} /\ w[x + 2] = m[x + 2] /\ w[x + 3] = y /\ y # b
          BY <2>2, <2>5, <2>6, <3>2
        <4>2. Quiet(m, x)
          BY <4>1
        <4>3. y # NULL => y \in bs /\ m[y + 4] = x
          BY <1>0, <4>1 DEF BlockOK
        <4>4. y # NULL => y # g
          BY <4>1, <4>3, <2>3
        <4> QED
          BY <2>5, <4>1, <4>2, <4>3, <4>4 DEF Quiet
      <3> QED
        BY <3>1, <3>2
    <2>7. \A c \in bs \ {b} : m[c + 2] = 0 => c \in cs
      BY <2>2
    <2>8. b \in cs /\ cs \ {b} = bs \ {b, g}
      BY <2>2, <2>4
    <2> QED
      BY <2>1, <2>2, <2>6, <2>7, <2>8 DEF w, cs
  <1> QED
    BY <1>1, <1>2

\* Setting a block's free flag changes no other word of any block.
LEMMA FlagFrame ==
    ASSUME NEW m \in [Heap -> Int], NEW bs \in SUBSET Heap, Tiles(m, bs),
           NEW b \in bs, NEW w \in [Heap -> Int],
           \A a \in Heap : a # b + 2 => w[a] = m[a]
    PROVE  /\ Tiles(w, bs)
           /\ \A c \in bs : \A a \in c .. c + 4 + m[c + 1] :
                 c # b \/ a # c + 2 => w[a] = m[a]
           /\ \A c \in bs :
                 /\ w[c] = m[c] /\ w[c + 1] = m[c + 1] /\ (c # b => w[c + 2] = m[c + 2])
                 /\ w[c + 3] = m[c + 3] /\ w[c + 4] = m[c + 4]
  <1>1. \A c \in bs : c \in Int /\ HeapStart <= c /\ BlockOK(m, bs, c)
    BY BlockFacts
  <1>3. ASSUME NEW c \in bs, NEW a \in c .. c + 4 + m[c + 1], c # b \/ a # c + 2
        PROVE  w[a] = m[a]
    <2>1. /\ c \in Int /\ m[c + 1] \in Nat /\ HeapStart <= c /\ c + 5 + m[c + 1] <= HeapEnd
          /\ a \in Int /\ c <= a /\ a <= c + 4 + m[c + 1]
          /\ b \in Int /\ m[b + 1] \in Nat
      BY <1>1, HeapRange DEF BlockOK
    <2>2. a \in Heap
      BY <2>1, HeapRange
    <2>3. a # b + 2
      <3>1. CASE c = b
        BY <3>1, <1>3
      <3>2. CASE c # b
        BY <3>2, <2>1, Apart5
      <3> QED
        BY <3>1, <3>2
    <2> QED
      BY <2>2, <2>3
  <1>4. ASSUME NEW c \in bs
        PROVE  /\ w[c] = m[c] /\ w[c + 1] = m[c + 1] /\ (c # b => w[c + 2] = m[c + 2])
               /\ w[c + 3] = m[c + 3] /\ w[c + 4] = m[c + 4]
    <2>1. c \in Int /\ m[c + 1] \in Nat
      BY <1>1 DEF BlockOK
    <2> QED
      BY <1>3, <2>1
  <1>5. Tiles(w, bs)
    BY <1>4, TilesFrame
  <1> QED
    BY <1>3, <1>4, <1>5

\* The memory kfree() leaves behind, for a used block b of a coalesced list.
LEMMA FreeMem ==
    ASSUME NEW m \in [Heap -> Int], NEW bs \in SUBSET Heap, Tiles(m, bs),
           NEW b \in bs, m[b + 2] = 0, \A x \in bs : Quiet(m, x)
    PROVE  LET m1   == Put(m, b + 2, 1)
               m2   == merge_next(m1, b)
               q    == PrevOf(m2, b)
               back == q # NULL /\ IsFree(m2, q)
               m3   == IF back THEN merge_next(m2, q) ELSE m2
               ds   == bs \ (Absorbed(m1, b) \cup IF back THEN Absorbed(m2, q) ELSE {})
           IN  /\ m3 \in [Heap -> Int] /\ Tiles(m3, ds)
               /\ \A x \in ds : Quiet(m3, x)
               /\ \A c \in bs \ {b} : m[c + 2] = 0 =>
                     /\ c \in ds
                     /\ \A a \in c .. c + 4 + m[c + 1] : a # c + 4 => m3[a] = m[a]
               /\ \A c \in ds : m3[c + 2] = 0 => c \in bs \ {b} /\ m[c + 2] = 0
  <1> DEFINE m1   == Put(m, b + 2, 1)
             m2   == merge_next(m1, b)
             q    == PrevOf(m2, b)
             back == q # NULL /\ IsFree(m2, q)
             m3   == IF back THEN merge_next(m2, q) ELSE m2
             cs   == bs \ Absorbed(m1, b)
             ds   == bs \ (Absorbed(m1, b) \cup IF back THEN Absorbed(m2, q) ELSE {})
  <1>1. \A c \in bs : c \in Int /\ HeapStart <= c /\ BlockOK(m, bs, c)
    BY BlockFacts
  <1>2. /\ m1 \in [Heap -> Int] /\ m1[b + 2] = 1 /\ Tiles(m1, bs)
        /\ \A c \in bs : \A a \in c .. c + 4 + m[c + 1] :
              c # b \/ a # c + 2 => m1[a] = m[a]
        /\ \A c \in bs :
              /\ m1[c] = m[c] /\ m1[c + 1] = m[c + 1] /\ (c # b => m1[c + 2] = m[c + 2])
              /\ m1[c + 3] = m[c + 3] /\ m1[c + 4] = m[c + 4]
    <2>1. b + 2 \in Heap
      BY <1>1, HeapRange DEF BlockOK
    <2>2. /\ m1 \in [Heap -> Int] /\ m1[b + 2] = 1
          /\ \A a \in Heap : a # b + 2 => m1[a] = m[a]
      <3>1. 1 \in Int
        OBVIOUS
      <3>2. Changed(m1, m, b + 2, 1)
        BY <2>1, <3>1, PutFacts, Zenon
      <3> QED
        BY <3>2 DEF Changed
    <2> HIDE DEF m1
    <2> QED
      BY <2>2, FlagFrame
  <1> HIDE DEF m1
  <1>6. ASSUME NEW x \in bs \ {b}, m1[x + 3] # b PROVE Quiet(m1, x)
    <2>1. Quiet(m, x)
      OBVIOUS
    <2>2. m[x + 3] # NULL => m[x + 3] \in bs
      BY <1>1 DEF BlockOK
    <2> QED
      BY <1>2, <1>6, <2>1, <2>2 DEF Quiet
  <1>7. /\ m2 \in [Heap -> Int] /\ Tiles(m2, cs) /\ b \in cs
        /\ m2[b + 2] = m1[b + 2] /\ m2[b + 4] = m1[b + 4]
        /\ \A c \in bs \ {b} : m1[c + 2] = 0 => c \in cs
        /\ \A c \in cs \ {b} :
              \A a \in c .. c + 4 + m1[c + 1] : a # c + 4 => m2[a] = m1[a]
        /\ \A x \in cs : m2[x + 3] # b => Quiet(m2, x)
    <2>1. m1[b + 2] # 0
      BY <1>2
    <2> QED
      BY <1>2, <1>6, <2>1, MergeStep
  <1> HIDE DEF m2
  <1>8. cs \in SUBSET Heap /\ cs \subseteq bs
    OBVIOUS
  <1> HIDE DEF cs
  <1>9. \A c \in cs : c \in Int /\ HeapStart <= c /\ BlockOK(m2, cs, c)
    BY <1>7, <1>8, BlockFacts
  <1>10. ASSUME NEW c \in cs \ {b}, NEW a \in c .. c + 4 + m[c + 1], a # c + 4
         PROVE  m2[a] = m[a]
    BY <1>2, <1>7, <1>8, <1>10
  <1>11. ASSUME NEW c \in cs \ {b}
         PROVE  m2[c + 1] = m[c + 1] /\ m2[c + 2] = m[c + 2] /\ m2[c + 3] = m[c + 3]
    <2>1. c \in Int /\ m[c + 1] \in Nat
      BY <1>1, <1>8 DEF BlockOK
    <2> QED
      BY <1>10, <2>1
  <1>12. CASE ~back
    <2>1. m3 = m2 /\ ds = cs
      BY <1>12 DEF cs
    <2>2. ASSUME NEW x \in cs PROVE Quiet(m2, x)
      <3>1. CASE m2[x + 3] # b
        BY <3>1, <1>7
      <3>2. CASE m2[x + 3] = b
        <4>1. m2[b + 4] = x /\ x # NULL
          BY <3>2, <1>9, <1>7, HeapRange DEF BlockOK, NULL
        <4>2. m2[x + 2] = 0
          BY <4>1, <1>12 DEF PrevOf, IsFree
        <4> QED
          BY <4>2 DEF Quiet
      <3> QED
        BY <3>1, <3>2
    <2>3. ASSUME NEW c \in bs \ {b}, m[c + 2] = 0
          PROVE  c \in cs /\ \A a \in c .. c + 4 + m[c + 1] : a # c + 4 => m2[a] = m[a]
      BY <1>2, <1>7, <1>10, <2>3
    <2>4. ASSUME NEW c \in cs, m2[c + 2] = 0 PROVE c \in bs \ {b} /\ m[c + 2] = 0
      BY <1>2, <1>7, <1>8, <1>11, <2>4
    <2> HIDE DEF m3, ds, q, back
    <2>5. /\ m3 \in [Heap -> Int] /\ Tiles(m3, ds)
          /\ \A x \in ds : Quiet(m3, x)
          /\ \A c \in bs \ {b} : m[c + 2] = 0 =>
                /\ c \in ds
                /\ \A a \in c .. c + 4 + m[c + 1] : a # c + 4 => m3[a] = m[a]
          /\ \A c \in ds : m3[c + 2] = 0 => c \in bs \ {b} /\ m[c + 2] = 0
      BY <1>7, <2>1, <2>2, <2>3, <2>4
    <2> QED
      BY <2>5 DEF m1, m2, m3, ds, q, back
  <1>13. CASE back
    <2>1. m3 = merge_next(m2, q) /\ ds = cs \ Absorbed(m2, q)
      BY <1>13 DEF cs
    <2>2. q # NULL /\ m2[q + 2] # 0 /\ q = m2[b + 4]
      BY <1>13 DEF PrevOf, IsFree
    <2>3. q \in cs /\ m2[q + 3] = b
      BY <2>2, <1>7, <1>9 DEF BlockOK
    <2> HIDE DEF q, m3, ds, back
    <2>4. q # b
      BY <2>3, <1>9, HeapRange DEF BlockOK, NULL
    <2>5. \A x \in cs \ {q} : m2[x + 3] # b
      BY <2>2, <2>3, <1>7, <1>9, HeapRange DEF BlockOK, NULL
    <2>6. \A x \in cs \ {q} : m2[x + 3] # q => Quiet(m2, x)
      BY <2>5, <1>7
    <2>7. /\ m3 \in [Heap -> Int] /\ Tiles(m3, ds) /\ q \in ds
          /\ m3[q + 2] = m2[q + 2]
          /\ \A c \in cs \ {q} : m2[c + 2] = 0 => c \in ds
          /\ \A c \in ds \ {q} :
                \A a \in c .. c + 4 + m2[c + 1] : a # c + 4 => m3[a] = m2[a]
          /\ \A x \in ds : m3[x + 3] # q => Quiet(m3, x)
      <3> DEFINE w == merge_next(m2, q)
                 es == cs \ Absorbed(m2, q)
      <3>1. /\ w \in [Heap -> Int] /\ Tiles(w, es) /\ q \in es
            /\ w[q + 2] = m2[q + 2]
            /\ \A c \in cs \ {q} : m2[c + 2] = 0 => c \in es
            /\ \A c \in es \ {q} :
                  \A a \in c .. c + 4 + m2[c + 1] : a # c + 4 => w[a] = m2[a]
            /\ \A x \in es : w[x + 3] # q => Quiet(w, x)
        <4>1. m2 \in [Heap -> Int] /\ cs \in SUBSET Heap /\ Tiles(m2, cs)
          BY <1>7, <1>8
        <4>2. q \in cs /\ m2[q + 2] # 0
          BY <2>2, <2>3
        <4> QED
          BY <4>1, <4>2, <2>6, MergeStep
      <3> QED
        BY <2>1, <3>1
    <2>8. ds \subseteq cs
      BY <2>1
    <2>9. ASSUME NEW c \in ds \ {q}
          PROVE  m3[c + 2] = m2[c + 2] /\ m3[c + 3] = m2[c + 3]
      <3>1. c \in Int /\ m2[c + 1] \in Nat
        BY <1>9, <2>8 DEF BlockOK
      <3> QED
        BY <2>7, <3>1
    <2>10. b \notin ds
      <3>1. Merges(m2, q)
        BY <1>2, <1>7, <1>9, <2>2, <2>3, HeapRange DEF Merges, NextOf, IsFree, NULL
      <3> QED
        BY <2>1, <2>3, <3>1 DEF Absorbed, NextOf
    <2>11. ASSUME NEW x \in ds PROVE Quiet(m3, x)
      <3>1. CASE m3[x + 3] # q
        BY <3>1, <2>7
      <3>2. CASE m3[x + 3] = q
        <4>1. x # q
          <5>1. BlockOK(m3, ds, x) /\ x \in Int /\ HeapStart <= x
            <6>1. ds \in SUBSET Heap
              BY <1>8, <2>8
            <6> QED
              BY <6>1, <2>7, BlockFacts
          <5> QED
            BY <5>1, <3>2, HeapRange DEF BlockOK, NULL
        <4>2. m2[x + 3] = q /\ m3[x + 2] = m2[x + 2]
          BY <2>9, <3>2, <4>1
        <4>3. Quiet(m2, x)
          BY <1>7, <2>4, <2>8, <4>2
        <4>4. m3[x + 2] = 0
          BY <2>2, <4>2, <4>3 DEF Quiet
        <4> QED
          BY <4>4 DEF Quiet
      <3> QED
        BY <3>1, <3>2
    <2>12. ASSUME NEW c \in bs \ {b}, m[c + 2] = 0
           PROVE  c \in ds /\ \A a \in c .. c + 4 + m[c + 1] : a # c + 4 => m3[a] = m[a]
      <3>1. c \in cs /\ m2[c + 2] = 0 /\ m2[c + 1] = m[c + 1]
        BY <1>2, <1>7, <1>11, <2>12
      <3>2. c # q /\ c \in ds
        BY <2>2, <2>7, <3>1
      <3> QED
        BY <1>10, <2>7, <3>1, <3>2
    <2>13. ASSUME NEW c \in ds, m3[c + 2] = 0 PROVE c \in bs \ {b} /\ m[c + 2] = 0
      <3>1. c # q /\ c # b /\ c \in cs
        BY <2>2, <2>7, <2>8, <2>10, <2>13
      <3> QED
        BY <1>8, <1>11, <2>9, <2>13, <3>1
    <2> QED
      BY <2>7, <2>11, <2>12, <2>13 DEF m1, m2, m3, ds, q, back
  <1> QED
    BY <1>12, <1>13

\* Stores into a block's payload change no other word of any block.
LEMMA FillFrame ==
    ASSUME NEW m \in [Heap -> Int], NEW bs \in SUBSET Heap, Tiles(m, bs),
           NEW b \in bs, NEW k \in Nat, k <= m[b + 1], NEW v \in Int,
           NEW p, p = b + 5, NEW w, w = Fill(m, p, k, v)
    PROVE  /\ w \in [Heap -> Int] /\ Tiles(w, bs)
           /\ \A a \in b + 5 .. b + 5 + k - 1 : w[a] = v
           /\ \A c \in bs \ {b} : \A a \in c .. c + 4 + m[c + 1] : w[a] = m[a]
           /\ \A c \in bs :
                 /\ w[c] = m[c] /\ w[c + 1] = m[c + 1] /\ w[c + 2] = m[c + 2]
                 /\ w[c + 3] = m[c + 3] /\ w[c + 4] = m[c + 4]
  <1>1. \A c \in bs : c \in Int /\ HeapStart <= c /\ BlockOK(m, bs, c)
    BY BlockFacts
  <1>2. b \in Int /\ HeapStart <= b /\ m[b + 1] \in Nat /\ b + 5 + m[b + 1] <= HeapEnd
    BY <1>1 DEF BlockOK
  <1>3. /\ w \in [Heap -> Int]
        /\ \A a \in Heap : w[a] = IF a \in b + 5 .. b + 5 + k - 1 THEN v ELSE m[a]
    <2>1. \A a \in b + 5 .. b + 5 + k - 1 : a \in Heap
      BY <1>2, HeapRange
    <2>2. DOMAIN m \cup b + 5 .. b + 5 + k - 1 = Heap
      BY <2>1
    <2>3. w = [a \in Heap |-> IF a \in b + 5 .. b + 5 + k - 1 THEN v ELSE m[a]]
      BY <2>2 DEF Fill
    <2> QED
      BY <2>3
  <1>4. ASSUME NEW a \in b + 5 .. b + 5 + k - 1 PROVE w[a] = v
    <2>1. a \in Heap
      BY <1>2, HeapRange
    <2> QED
      BY <1>3, <2>1
  <1>5. ASSUME NEW c \in bs, NEW a \in c .. c + 4 + m[c + 1], c # b \/ a < b + 5
        PROVE  w[a] = m[a]
    <2>1. /\ c \in Int /\ m[c + 1] \in Nat /\ HeapStart <= c /\ c + 5 + m[c + 1] <= HeapEnd
          /\ a \in Int /\ c <= a /\ a <= c + 4 + m[c + 1]
      BY <1>1, HeapRange DEF BlockOK
    <2>2. a \in Heap
      BY <2>1, HeapRange
    <2>3. a \notin b + 5 .. b + 5 + k - 1
      <3>1. CASE c = b
        BY <3>1, <1>2, <1>5, <2>1
      <3>2. CASE c # b
        BY <3>2, <1>2, <2>1, Apart5
      <3> QED
        BY <3>1, <3>2
    <2> QED
      BY <1>3, <2>2, <2>3
  <1>6. ASSUME NEW c \in bs
        PROVE  /\ w[c] = m[c] /\ w[c + 1] = m[c + 1] /\ w[c + 2] = m[c + 2]
               /\ w[c + 3] = m[c + 3] /\ w[c + 4] = m[c + 4]
    <2>1. c \in Int /\ m[c + 1] \in Nat
      BY <1>1 DEF BlockOK
    <2> QED
      BY <1>5, <2>1
  <1>7. Tiles(w, bs)
    BY <1>3, <1>6, TilesFrame
  <1> QED
    BY <1>3, <1>4, <1>5, <1>6, <1>7

\* split() and the mark that kmalloc() sets behind it, whether it splits or not.
LEMMA TakeMem ==
    ASSUME NEW m \in [Heap -> Int], NEW bs \in SUBSET Heap, Tiles(m, bs),
           NEW b \in bs, NEW n \in Nat, m[b + 1] >= n, m[b + 2] # 0,
           \A x \in bs : Quiet(m, x)
    PROVE  LET t  == Put(split(m, b, n), b + 2, 0)
               cs == IF Splits(m, b, n) THEN bs \cup {b + 5 + n} ELSE bs
           IN  /\ t \in [Heap -> Int] /\ cs \in SUBSET Heap /\ Tiles(t, cs)
               /\ t[b + 2] = 0 /\ n <= t[b + 1] /\ t[b + 1] < n + 9
               /\ \A c \in bs \ {b} :
                     \A a \in c .. c + 4 + m[c + 1] : a # c + 4 => t[a] = m[a]
               /\ \A c \in cs \ bs : t[c + 2] # 0
               /\ \A x \in cs : Quiet(t, x)
  <1> DEFINE r  == b + 5 + n
             s  == split(m, b, n)
             t  == Put(s, b + 2, 0)
             cs == IF Splits(m, b, n) THEN bs \cup {r} ELSE bs
  <1>1. \A c \in bs : c \in Int /\ HeapStart <= c /\ BlockOK(m, bs, c)
    BY BlockFacts
  <1>2. /\ s \in [Heap -> Int] /\ cs \in SUBSET Heap /\ Tiles(s, cs)
        /\ s[b + 1] \in Nat /\ n <= s[b + 1] /\ s[b + 1] < n + 9
        /\ \A c \in bs \ {b} :
              \A a \in c .. c + 4 + m[c + 1] : a # c + 4 => s[a] = m[a]
        /\ \A c \in cs \ bs : s[c + 2] = 1 /\ s[c + 3] = m[b + 3]
    <2>1. CASE Splits(m, b, n)
      <3>1. /\ s \in [Heap -> Int] /\ r \in Heap
            /\ Tiles(s, bs \cup {r})
            /\ s[b + 1] = n /\ s[b + 2] = m[b + 2] /\ s[r + 2] = 1 /\ s[r + 3] = m[b + 3]
            /\ \A c \in bs \ {b} :
                  \A a \in c .. c + 4 + m[c + 1] : a # c + 4 => s[a] = m[a]
        <4>1. Splits(m, b, n) /\ r = b + 5 + n /\ s = split(m, b, n)
          BY <2>1
        <4> HIDE DEF r, s
        <4> QED
          BY <4>1, SplitTiles
      <3>2. cs = bs \cup {r}
        BY <2>1
      <3> HIDE DEF s, cs, r
      <3> QED
        BY <3>1, <3>2
    <2>2. CASE ~Splits(m, b, n)
      <3>1. s = m /\ cs = bs
        BY <2>2 DEF split
      <3>2. m[b + 1] \in Nat /\ m[b + 1] < n + 9
        BY <1>1, <2>2 DEF BlockOK, Splits, Size, Header, MinSplit
      <3> HIDE DEF s, cs
      <3> QED
        BY <3>1, <3>2
    <2> QED
      BY <2>1, <2>2
  <1>3. b \in cs
    OBVIOUS
  <1>4. bs \subseteq cs
    OBVIOUS
  <1> HIDE DEF s, cs
  <1>5. \A c \in cs : c \in Int /\ HeapStart <= c /\ BlockOK(s, cs, c)
    BY <1>2, BlockFacts
  <1>6. /\ t \in [Heap -> Int] /\ t[b + 2] = 0
        /\ \A a \in Heap : a # b + 2 => t[a] = s[a]
    <2>1. b + 2 \in Heap
      BY <1>1, HeapRange DEF BlockOK
    <2>2. 0 \in Int /\ s \in [Heap -> Int]
      BY <1>2
    <2>3. Changed(t, s, b + 2, 0)
      BY <2>1, <2>2, PutFacts, Zenon
    <2> QED
      BY <2>3 DEF Changed
  <1> HIDE DEF t
  <1>7. /\ Tiles(t, cs)
        /\ \A c \in cs :
              /\ t[c] = s[c] /\ t[c + 1] = s[c + 1] /\ (c # b => t[c + 2] = s[c + 2])
              /\ t[c + 3] = s[c + 3] /\ t[c + 4] = s[c + 4]
    BY <1>2, <1>3, <1>6, FlagFrame
  <1>8. ASSUME NEW c \in bs \ {b}, NEW a \in c .. c + 4 + m[c + 1], a # c + 4
        PROVE  t[a] = m[a]
    <2>1. /\ c \in Int /\ m[c + 1] \in Nat /\ HeapStart <= c /\ c + 5 + m[c + 1] <= HeapEnd
          /\ a \in Int /\ c <= a /\ a <= c + 4 + m[c + 1]
          /\ b \in Int /\ m[b + 1] \in Nat
      BY <1>1, HeapRange DEF BlockOK
    <2>2. a \in Heap
      BY <2>1, HeapRange
    <2>3. a # b + 2
      BY <2>1, Apart5
    <2>4. s[a] = m[a]
      BY <1>2, <1>8
    <2> QED
      BY <1>6, <2>2, <2>3, <2>4
  <1>9. \A c \in cs \ bs : t[c + 2] # 0 /\ t[c + 3] = m[b + 3]
    BY <1>2, <1>7
  <1>10. ASSUME NEW c \in bs \ {b} PROVE t[c + 2] = m[c + 2] /\ t[c + 3] = m[c + 3]
    <2>1. c \in Int /\ m[c + 1] \in Nat
      BY <1>1 DEF BlockOK
    <2> QED
      BY <1>8, <2>1
  <1>11. \A y \in bs : m[y + 2] = 0 => t[y + 2] = 0
    BY <1>6, <1>10
  <1>12. \A c \in bs : m[c + 3] # NULL => m[c + 3] \in bs
    BY <1>1 DEF BlockOK
  <1>13. ASSUME NEW x \in cs PROVE Quiet(t, x)
    <2>1. CASE x = b
      BY <2>1, <1>6 DEF Quiet
    <2>2. CASE x \in bs \ {b}
      <3>1. Quiet(m, x)
        BY <2>2
      <3> QED
        BY <1>10, <1>11, <1>12, <2>2, <3>1 DEF Quiet
    <2>3. CASE x \in cs \ bs
      <3>1. Quiet(m, b)
        OBVIOUS
      <3> QED
        BY <1>9, <1>11, <1>12, <2>3, <3>1 DEF Quiet
    <2> QED
      BY <2>1, <2>2, <2>3
  <1>14. n <= t[b + 1] /\ t[b + 1] < n + 9
    BY <1>2, <1>3, <1>7
  <1> QED
    BY <1>2, <1>6, <1>7, <1>8, <1>9, <1>13, <1>14 DEF t, s, cs

-----------------------------------------------------------------------------
(* The inductive invariant.  None of the properties is inductive alone:     *)
(* merge_next() keeps the tiling only because list neighbours are           *)
(* neighbours in memory, kfree() never panics only because the clients'     *)
(* pointers are the used blocks, and one merge on each side is enough only  *)
(* because the list was coalesced before.                                   *)

IInv ==
    /\ TypeOK /\ Tiling /\ Coalesced
    /\ Accounted /\ DataIntact /\ BoundedWaste
    /\ FirstFit /\ NoPanic

\* What the clients hold, seen from both sides: every pointer held is a used
\* block with its contents, every used block is held.
HeldOK(m, bs, p, e) ==
    /\ p \in Int /\ p - 5 \in bs /\ m[p - 3] = 0
    /\ e.size <= m[p - 4] /\ m[p - 4] < ALIGN_UP(e.size) + 9
    /\ \A v \in e.val : \A a \in p .. p + e.size - 1 : m[a] = v

Ledger(m, bs, lv) ==
    /\ \A p \in DOMAIN lv : HeldOK(m, bs, p, lv[p])
    /\ \A b \in bs : m[b + 2] = 0 => b + 5 \in DOMAIN lv

\* The clients' books agree with the words: from the invariant's parts to
\* the form the step lemmas take.
LEMMA LedgerIn ==
    ASSUME TypeOK, Accounted, DataIntact, BoundedWaste
    PROVE  Ledger(mem, blocks, live)
  <1>1. \A b \in blocks : b \in Int
    BY HeapRange DEF TypeOK
  <1>2. ASSUME NEW p \in DOMAIN live PROVE HeldOK(mem, blocks, p, live[p])
    <2>1. PICK b \in blocks : mem[b + 2] = 0 /\ p = b + 5
      BY DEF Accounted, IsFree, Header
    <2>2. p \in Int /\ p - 5 = b /\ p - 3 = b + 2 /\ p - 4 = b + 1 /\ b \in Int
      BY <1>1, <2>1
    <2>3. /\ live[p].size <= mem[p - 5 + 1]
          /\ mem[p - 5 + 1] < ALIGN_UP(live[p].size) + 9
      <3>1. live[p].size \in Nat
        BY DEF TypeOK, Live
      <3>2. ALIGN_UP(live[p].size) \in Nat
        BY <3>1, AlignUp
      <3>3. /\ live[p].size <= mem[p - 5 + 1]
            /\ mem[p - 5 + 1] < ALIGN_UP(live[p].size) + 5 + 4
        BY DEF Accounted, BoundedWaste, Size, Header, MinSplit
      <3> QED
        BY <3>2, <3>3
    <2> QED
      BY <2>1, <2>2, <2>3 DEF HeldOK, DataIntact
  <1>3. ASSUME NEW b \in blocks, mem[b + 2] = 0 PROVE b + 5 \in DOMAIN live
    BY <1>3 DEF Accounted, IsFree, Header
  <1> QED
    BY <1>2, <1>3 DEF Ledger

\* And back, for the books and the words after a step.
LEMMA LedgerOut ==
    ASSUME TypeOK', Ledger(mem', blocks', live')
    PROVE  Accounted' /\ DataIntact' /\ BoundedWaste'
  <1>1. \A b \in blocks' : b \in Int
    BY HeapRange DEF TypeOK
  <1>2. \A p \in DOMAIN live' :
           /\ p \in Int /\ p - 5 \in blocks' /\ mem'[p - 3] = 0
           /\ live'[p].size <= mem'[p - 4] /\ mem'[p - 4] < ALIGN_UP(live'[p].size) + 9
           /\ \A v \in live'[p].val : \A a \in p .. p + live'[p].size - 1 : mem'[a] = v
    BY DEF Ledger, HeldOK
  <1>3. \A p \in DOMAIN live' : p - 5 + 1 = p - 4 /\ p - 5 + 2 = p - 3 /\ p - 5 + 5 = p
    BY <1>2
  <1>4. DOMAIN live' = {b + 5 : b \in {c \in blocks' : mem'[c + 2] = 0}}
    <2>1. ASSUME NEW p \in DOMAIN live'
          PROVE  p \in {b + 5 : b \in {c \in blocks' : mem'[c + 2] = 0}}
      BY <1>2, <1>3
    <2>2. ASSUME NEW b \in blocks', mem'[b + 2] = 0 PROVE b + 5 \in DOMAIN live'
      BY <2>2 DEF Ledger
    <2> QED
      BY <2>1, <2>2
  <1>5. Accounted'
    BY <1>2, <1>3, <1>4 DEF Accounted, IsFree, Size, Header
  <1>6. BoundedWaste'
    <2> SUFFICES ASSUME NEW p \in DOMAIN live'
                 PROVE  mem'[p - 5 + 1] < ALIGN_UP(live'[p].size) + 5 + 4
      BY DEF BoundedWaste, Size, Header, MinSplit
    <2>1. live'[p].size \in Nat
      BY DEF TypeOK, Live
    <2>2. ALIGN_UP(live'[p].size) \in Nat
      BY <2>1, AlignUp
    <2> QED
      BY <1>2, <1>3, <2>2
  <1> QED
    BY <1>2, <1>5, <1>6 DEF DataIntact

\* Coalesced, from the words after a step.
LEMMA QuietOut ==
    ASSUME TypeOK', Tiling', \A x \in blocks' : Quiet(mem', x)
    PROVE  Coalesced'
  <1>1. mem' \in [Heap -> Int] /\ blocks' \in SUBSET Heap /\ Tiles(mem', blocks')
    BY DEF TypeOK, Tiling
  <1>2. \A x \in blocks' :
           /\ x \in Int /\ HeapStart <= x /\ End(mem', x) = x + 5 + mem'[x + 1]
           /\ BlockOK(mem', blocks', x)
    BY <1>1, BlockFacts
  <1>3. \A x \in blocks' : End(mem', x) # NULL
    BY <1>2, HeapRange DEF BlockOK, NULL
  <1>4. \A x \in blocks' : End(mem', x) # HeapEnd => mem'[x + 3] = End(mem', x)
    BY <1>2 DEF BlockOK
  <1> QED
    BY <1>3, <1>4 DEF Coalesced, Quiet, IsFree

\* A step that leaves the words, the list and the clients' books alone.
LEMMA Untouched ==
    ASSUME IInv, UNCHANGED <<mem, blocks, live>>
    PROVE  /\ Tiling' /\ Coalesced' /\ Accounted' /\ DataIntact' /\ BoundedWaste'
           /\ mem' \in [Heap -> Int] /\ blocks' \subseteq Heap
           /\ live' \in [DOMAIN live' -> Live]
  <1>1. Tiling' /\ Coalesced' /\ Accounted' /\ DataIntact' /\ BoundedWaste'
    BY DEF IInv, Tiling, Coalesced, Accounted, DataIntact, BoundedWaste
  <1> QED
    BY <1>1 DEF IInv, TypeOK

\* kheap_init() establishes the invariant.
LEMMA InitInv == Init => IInv
  <1> SUFFICES ASSUME Init PROVE IInv
    OBVIOUS
  <1>1. PICK g \in Garbage :
           mem = PutHeader([a \in Heap |-> g], HeapStart, HeapSize - Header, NULL, NULL)
    BY DEF Init
  <1>2. /\ blocks = {HeapStart} /\ live = [p \in {} |-> 0]
        /\ pc = "idle" /\ cur = NULL /\ asked = 0 /\ zero = FALSE
    BY DEF Init
  <1>3. /\ HeapStart \in Int /\ HeapStart \in Heap /\ HeapStart + 1 \in Heap
        /\ HeapStart + 2 \in Heap /\ HeapStart + 3 \in Heap /\ HeapStart + 4 \in Heap
    BY HeapRange
  <1>4. g \in Int /\ BLOCK_MAGIC \in Int /\ NULL = 0 /\ HeapSize - Header \in Nat
        /\ HeapEnd = HeapStart + 5 + (HeapSize - Header)
    BY HeapAssumption, Numbers DEF NULL, Header, HeapEnd
  <1>5. /\ mem \in [Heap -> Int]
        /\ mem[HeapStart] = BLOCK_MAGIC /\ mem[HeapStart + 1] = HeapSize - Header
        /\ mem[HeapStart + 2] = 1 /\ mem[HeapStart + 3] = NULL /\ mem[HeapStart + 4] = NULL
    <2> DEFINE m0 == [a \in Heap |-> g]
    <2>1. m0 \in [Heap -> Int]
      BY <1>4
    <2>2. /\ HeapStart \in Int /\ HeapStart <= HeapStart /\ HeapStart + 4 < HeapEnd
          /\ HeapSize - Header \in Int /\ NULL \in Int
      BY <1>3, <1>4
    <2>3. mem = PutHeader(m0, HeapStart, HeapSize - Header, NULL, NULL)
      BY <1>1
    <2> HIDE DEF m0
    <2>4. HeaderAt(mem, m0, HeapStart, HeapSize - Header, NULL, NULL)
      BY <2>1, <2>2, <2>3, PutHeaderFacts, Zenon
    <2> QED
      BY <2>4 DEF HeaderAt
  <1>6. /\ mem[HeapStart] = BLOCK_MAGIC /\ mem[HeapStart + 1] = HeapSize - Header
        /\ mem[HeapStart + 2] = 1 /\ mem[HeapStart + 3] = NULL /\ mem[HeapStart + 4] = NULL
    BY <1>5
  <1>7. BlockOK(mem, blocks, HeapStart)
    BY <1>2, <1>3, <1>4, <1>6, HeapRange DEF BlockOK
  <1>8. Tiling
    <2>1. /\ blocks \in SUBSET Heap /\ HeapStart \in blocks
          /\ \A x \in blocks : BlockOK(mem, blocks, x)
      BY <1>2, <1>3, <1>7
    <2> QED
      BY <1>5, <2>1, TilesIntro DEF Tiling
  <1>9. End(mem, HeapStart) = HeapEnd
    BY <1>3, <1>4, <1>6 DEF End, Size, Header
  <1>10. Coalesced
    BY <1>2, <1>9 DEF Coalesced
  <1>11. Accounted /\ DataIntact /\ BoundedWaste
    <2>1. DOMAIN live = {}
      BY <1>2
    <2>2. {c \in blocks : ~IsFree(mem, c)} = {}
      BY <1>2, <1>6 DEF IsFree
    <2> QED
      BY <2>1, <2>2 DEF Accounted, DataIntact, BoundedWaste
  <1>12. TypeOK
    <2>1. live \in [DOMAIN live -> Live]
      BY <1>2
    <2> QED
      BY <1>2, <1>3, <1>5, <2>1 DEF TypeOK
  <1> QED
    BY <1>2, <1>8, <1>10, <1>11, <1>12 DEF IInv, FirstFit, NoPanic

\* Entering kmalloc() or kzalloc().
LEMMA KmallocInv ==
    ASSUME IInv, NEW n \in Requests, NEW z \in BOOLEAN, kmalloc(n, z)
    PROVE  IInv'
  <1>1. n \in Nat /\ n > 0
    BY Numbers DEF kmalloc
  <1>2. HeapStart \in blocks /\ \A b \in blocks : b \in Int /\ ~(b < HeapStart)
    BY HeapRange DEF IInv, TypeOK, Tiling, Tiles, Linked
  <1>3. TypeOK'
    BY <1>1, <1>2, Untouched DEF kmalloc, TypeOK, IInv
  <1>4. FirstFit'
    BY <1>1, <1>2, HeapRange DEF kmalloc, FirstFit, NULL
  <1> QED
    BY <1>3, <1>4, Untouched DEF kmalloc, IInv, NoPanic

\* kmalloc() goes on to the next block.
LEMMA AdvanceInv ==
    ASSUME IInv, pc = "scan", cur # NULL, ~Fits(mem, cur, ALIGN_UP(asked)),
           cur' = NextOf(mem, cur), UNCHANGED <<mem, blocks, live, pc, asked, zero>>
    PROVE  IInv'
  <1>1. mem \in [Heap -> Int] /\ blocks \in SUBSET Heap /\ Tiles(mem, blocks) /\ cur \in blocks
    BY DEF IInv, TypeOK, Tiling, FirstFit
  <1>2. \A c \in blocks : c \in Int /\ HeapStart <= c /\ BlockOK(mem, blocks, c)
    BY <1>1, BlockFacts
  <1>3. cur' = NULL \/ cur' \in blocks
    BY <1>1, <1>2 DEF BlockOK, NextOf
  <1>4. \A b \in blocks : (cur' = NULL \/ b < cur') => b = cur \/ b < cur
    <2> SUFFICES ASSUME NEW b \in blocks, cur' = NULL \/ b < cur', b # cur
                 PROVE  b < cur
      OBVIOUS
    <2>1. /\ b \in Int /\ mem[b + 1] \in Nat /\ b + 5 + mem[b + 1] <= HeapEnd
          /\ cur \in Int /\ HeapStart <= cur
      BY <1>1, <1>2 DEF BlockOK
    <2>2. cur < b => cur + 5 + mem[cur + 1] <= b
      BY <1>1, <1>2 DEF BlockOK
    <2>3. cur' = IF cur + 5 + mem[cur + 1] = HeapEnd THEN NULL ELSE cur + 5 + mem[cur + 1]
      BY <1>1, <1>2 DEF BlockOK, NextOf
    <2>4. mem[cur + 1] \in Nat
      BY <1>1, <1>2 DEF BlockOK
    <2> QED
      <3>1. CASE cur' = NULL
        BY <2>1, <2>2, <2>3, <2>4, <3>1, HeapRange DEF NULL
      <3>2. CASE cur' # NULL
        BY <2>1, <2>2, <2>3, <2>4, <3>2
      <3> QED
        BY <3>1, <3>2
  <1>5. FirstFit'
    BY <1>3, <1>4 DEF IInv, FirstFit, Fits, IsFree, Size
  <1>6. TypeOK'
    BY <1>1, <1>3, Untouched DEF IInv, TypeOK
  <1> QED
    BY <1>5, <1>6, Untouched DEF IInv, NoPanic

\* kmalloc() gives up.
LEMMA OutOfHeapInv ==
    ASSUME IInv, OutOfHeap
    PROVE  IInv'
  <1>1. TypeOK'
    BY Untouched DEF IInv, TypeOK, OutOfHeap, Return
  <1> QED
    BY <1>1, Untouched DEF IInv, OutOfHeap, Return, FirstFit, NoPanic

\* What the invariant says about the words, as the memory lemmas take it.
LEMMA IInvFacts ==
    ASSUME IInv
    PROVE  /\ mem \in [Heap -> Int] /\ blocks \in SUBSET Heap /\ Tiles(mem, blocks)
           /\ \A x \in blocks : Quiet(mem, x)
           /\ Ledger(mem, blocks, live)
           /\ \A c \in blocks : c \in Int /\ HeapStart <= c /\ BlockOK(mem, blocks, c)
  <1>1. mem \in [Heap -> Int] /\ blocks \in SUBSET Heap /\ Tiles(mem, blocks)
    BY DEF IInv, TypeOK, Tiling
  <1>2. \A x \in blocks : Quiet(mem, x)
    BY CoalescedQuiet DEF IInv
  <1>3. Ledger(mem, blocks, live)
    BY LedgerIn DEF IInv
  <1>4. \A c \in blocks : c \in Int /\ HeapStart <= c /\ BlockOK(mem, blocks, c)
    BY <1>1, BlockFacts
  <1> QED
    BY <1>1, <1>2, <1>3, <1>4

\* An entry of the books survives a change of memory that spares the words of
\* its block, the link back excepted.
LEMMA HeldFrame ==
    ASSUME NEW m, NEW bs, NEW w, NEW cs, NEW p, NEW e \in Live,
           HeldOK(m, bs, p, e), m[p - 4] \in Nat, p - 5 \in cs,
           \A a \in p - 5 .. p - 5 + 4 + m[p - 4] : a # p - 5 + 4 => w[a] = m[a]
    PROVE  HeldOK(w, cs, p, e)
  <1>1. p \in Int /\ e.size \in Nat /\ e.size <= m[p - 4]
    BY DEF HeldOK, Live
  <1>2. w[p - 4] = m[p - 4] /\ w[p - 3] = m[p - 3]
    BY <1>1
  <1>3. \A a \in p .. p + e.size - 1 : w[a] = m[a]
    BY <1>1
  <1> QED
    BY <1>2, <1>3 DEF HeldOK

\* kmalloc() takes the block under the cursor.
LEMMA TakeInv ==
    ASSUME IInv, pc = "scan", cur # NULL, Fits(mem, cur, ALIGN_UP(asked)), Take
    PROVE  IInv'
  <1> DEFINE n  == ALIGN_UP(asked)
             b  == cur
             t  == Put(split(mem, cur, n), cur + 2, 0)
             cs == IF Splits(mem, cur, n) THEN blocks \cup {cur + 5 + n} ELSE blocks
  <1>1. /\ mem \in [Heap -> Int] /\ blocks \in SUBSET Heap /\ Tiles(mem, blocks)
        /\ \A x \in blocks : Quiet(mem, x)
        /\ Ledger(mem, blocks, live)
        /\ \A c \in blocks : c \in Int /\ HeapStart <= c /\ BlockOK(mem, blocks, c)
    BY IInvFacts
  <1>2. /\ asked \in Nat /\ asked > 0 /\ n \in Nat /\ asked <= n /\ b \in blocks /\ zero \in BOOLEAN
        /\ live \in [DOMAIN live -> Live]
    BY AlignUp DEF IInv, TypeOK, FirstFit
  <1>3. mem[b + 1] >= n /\ mem[b + 2] # 0
    BY DEF Fits, IsFree, Size
  <1> HIDE DEF n
  <1>4. /\ t \in [Heap -> Int] /\ cs \in SUBSET Heap /\ Tiles(t, cs)
        /\ t[b + 2] = 0 /\ n <= t[b + 1] /\ t[b + 1] < n + 9
        /\ \A c \in blocks \ {b} :
              \A a \in c .. c + 4 + mem[c + 1] : a # c + 4 => t[a] = mem[a]
        /\ \A c \in cs \ blocks : t[c + 2] # 0
        /\ \A x \in cs : Quiet(t, x)
    BY <1>1, <1>2, <1>3, TakeMem
  <1>5. blocks \subseteq cs /\ b \in cs /\ b \in Int
    BY <1>1, <1>2
  <1>6. /\ mem' = IF zero THEN Fill(t, b + 5, asked, 0) ELSE t
        /\ blocks' = cs
        /\ live' = [q \in DOMAIN live \cup {b + 5} |->
                      IF q = b + 5 THEN [size |-> asked, val |-> IF zero THEN {0} ELSE {}]
                                   ELSE live[q]]
        /\ pc' = "idle" /\ cur' = NULL /\ asked' = 0 /\ zero' = FALSE
    BY DEF Take, Return, Header, n
  <1> HIDE DEF t, cs, b
  <1>7. \A c \in cs : t[c + 1] \in Nat /\ c \in Int /\ (t[c + 3] # NULL => t[c + 3] \in cs)
    BY <1>4, BlockFacts DEF BlockOK
  <1>8. /\ mem' \in [Heap -> Int] /\ Tiles(mem', cs)
        /\ zero => \A a \in b + 5 .. b + 5 + asked - 1 : mem'[a] = 0
        /\ \A c \in cs \ {b} : \A a \in c .. c + 4 + t[c + 1] : mem'[a] = t[a]
        /\ \A c \in cs : /\ mem'[c + 1] = t[c + 1] /\ mem'[c + 2] = t[c + 2]
                          /\ mem'[c + 3] = t[c + 3]
    <2>1. CASE ~zero
      <3>1. mem' = t
        BY <1>6, <2>1
      <3> QED
        BY <1>4, <2>1, <3>1
    <2>2. CASE zero
      <3> DEFINE w == Fill(t, b + 5, asked, 0)
      <3>1. mem' = w
        BY <1>6, <2>2
      <3>2. asked <= t[b + 1]
        BY <1>2, <1>4, <1>5, <1>7
      <3>3. /\ w \in [Heap -> Int] /\ Tiles(w, cs)
            /\ \A a \in b + 5 .. b + 5 + asked - 1 : w[a] = 0
            /\ \A c \in cs \ {b} : \A a \in c .. c + 4 + t[c + 1] : w[a] = t[a]
            /\ \A c \in cs :
                  /\ w[c] = t[c] /\ w[c + 1] = t[c + 1] /\ w[c + 2] = t[c + 2]
                  /\ w[c + 3] = t[c + 3] /\ w[c + 4] = t[c + 4]
        <4> DEFINE p == b + 5
        <4>1. 0 \in Int /\ p = b + 5 /\ w = Fill(t, p, asked, 0)
          OBVIOUS
        <4>2. t \in [Heap -> Int] /\ cs \in SUBSET Heap /\ Tiles(t, cs) /\ b \in cs
          BY <1>4, <1>5
        <4>3. asked \in Nat /\ asked <= t[b + 1]
          BY <1>2, <3>2
        <4> HIDE DEF p, w
        <4> QED
          BY <4>1, <4>2, <4>3, FillFrame
      <3> HIDE DEF w
      <3> QED
        BY <3>1, <3>3
    <2> QED
      BY <1>2, <2>1, <2>2
  <1>9. \A c \in blocks \ {b} :
           \A a \in c .. c + 4 + mem[c + 1] : a # c + 4 => mem'[a] = mem[a]
    <2> SUFFICES ASSUME NEW c \in blocks \ {b}, NEW a \in c .. c + 4 + mem[c + 1], a # c + 4
                 PROVE  mem'[a] = mem[a]
      OBVIOUS
    <2>1. c \in Int /\ mem[c + 1] \in Nat
      BY <1>1 DEF BlockOK
    <2>2. t[c + 1] = mem[c + 1]
      BY <1>4, <2>1
    <2>3. t[a] = mem[a]
      BY <1>4
    <2> QED
      BY <1>5, <1>8, <2>2, <2>3
  <1>10. \A x \in cs : Quiet(mem', x)
    BY <1>4, <1>7, <1>8 DEF Quiet
  <1>11. TypeOK'
    <2>1. ASSUME NEW q \in DOMAIN live' PROVE live'[q] \in Live
      <3>1. CASE q = b + 5
        BY <1>2, <1>6, <3>1 DEF Live
      <3>2. CASE q # b + 5
        BY <1>2, <1>6, <3>2
      <3> QED
        BY <3>1, <3>2
    <2>2. live' \in [DOMAIN live' -> Live]
      BY <1>6, <2>1
    <2> QED
      BY <1>4, <1>6, <1>8, <2>2 DEF TypeOK
  <1>12. Ledger(mem', blocks', live')
    <2>1. DOMAIN live' = DOMAIN live \cup {b + 5}
      BY <1>6
    <2>2. ASSUME NEW p \in DOMAIN live, p # b + 5 PROVE HeldOK(mem', blocks', p, live[p])
      <3>1. HeldOK(mem, blocks, p, live[p]) /\ live[p] \in Live
        BY <1>1, <1>2 DEF Ledger
      <3>2. p \in Int /\ p - 5 \in blocks \ {b} /\ p - 5 + 1 = p - 4
        BY <1>5, <2>2, <3>1 DEF HeldOK
      <3>3. mem[p - 4] \in Nat
        BY <1>1, <3>2 DEF BlockOK
      <3>4. \A a \in p - 5 .. p - 5 + 4 + mem[p - 4] : a # p - 5 + 4 => mem'[a] = mem[a]
        BY <1>9, <3>2
      <3>5. p - 5 \in blocks'
        BY <1>5, <1>6, <3>2
      <3> QED
        BY <3>1, <3>3, <3>4, <3>5, HeldFrame
    <2>3. HeldOK(mem', blocks', b + 5, live'[b + 5])
      <3>1. live'[b + 5] = [size |-> asked, val |-> IF zero THEN {0} ELSE {}]
        BY <1>6
      <3>2. /\ mem'[b + 1] \in Nat /\ n <= mem'[b + 1] /\ mem'[b + 1] < n + 9 /\ mem'[b + 2] = 0
        BY <1>4, <1>5, <1>7, <1>8
      <3>3. b + 5 - 5 = b /\ b + 5 - 4 = b + 1 /\ b + 5 - 3 = b + 2 /\ b + 5 \in Int
        BY <1>5
      <3>4. asked <= mem'[b + 1] /\ mem'[b + 1] < ALIGN_UP(asked) + 9
        BY <1>2, <3>2 DEF n
      <3>5. \A v \in live'[b + 5].val :
               \A a \in b + 5 .. b + 5 + live'[b + 5].size - 1 : mem'[a] = v
        BY <1>8, <3>1
      <3> QED
        BY <1>5, <1>6, <3>1, <3>2, <3>3, <3>4, <3>5 DEF HeldOK
    <2>4. ASSUME NEW p \in DOMAIN live' PROVE HeldOK(mem', blocks', p, live'[p])
      BY <1>6, <2>1, <2>2, <2>3
    <2>5. ASSUME NEW c \in blocks', mem'[c + 2] = 0 PROVE c + 5 \in DOMAIN live'
      <3>1. CASE c = b
        BY <2>1, <3>1
      <3>2. CASE c # b
        <4>1. c \in blocks
          BY <1>4, <1>6, <1>8, <2>5
        <4>2. mem[c + 2] = 0
          <5>1. c \in Int /\ mem[c + 1] \in Nat
            BY <1>1, <4>1 DEF BlockOK
          <5> QED
            BY <1>9, <2>5, <3>2, <4>1, <5>1
        <4> QED
          BY <1>1, <2>1, <4>1, <4>2 DEF Ledger
      <3> QED
        BY <3>1, <3>2
    <2> QED
      BY <2>4, <2>5 DEF Ledger
  <1>13. Tiling'
    BY <1>6, <1>8 DEF Tiling
  <1>14. Coalesced'
    BY <1>6, <1>10, <1>11, <1>13, QuietOut
  <1>15. Accounted' /\ DataIntact' /\ BoundedWaste'
    BY <1>11, <1>12, LedgerOut
  <1>16. FirstFit' /\ NoPanic'
    BY <1>6 DEF FirstFit, NoPanic
  <1> QED
    BY <1>11, <1>13, <1>14, <1>15, <1>16 DEF IInv

\* One round of the loop: the magic is intact, so it takes the block or goes on.
LEMMA ScanInv ==
    ASSUME IInv, Scan
    PROVE  IInv'
  <1>1. pc = "scan" /\ cur # NULL /\ cur \in blocks
    BY DEF IInv, Scan, FirstFit
  <1>2. Magic(mem, cur) = BLOCK_MAGIC
    BY <1>1 DEF IInv, Tiling, Tiles, HeadersOK
  <1>3. CASE Fits(mem, cur, ALIGN_UP(asked))
    BY <1>1, <1>2, <1>3, TakeInv DEF Scan
  <1>4. CASE ~Fits(mem, cur, ALIGN_UP(asked))
    BY <1>1, <1>2, <1>4, AdvanceInv DEF Scan
  <1> QED
    BY <1>3, <1>4

\* kfree() of a pointer a client holds: the checks pass and both neighbours
\* are merged where they can be.
LEMMA KfreeInv ==
    ASSUME IInv, NEW p \in DOMAIN live, kfree(p)
    PROVE  IInv'
  <1> DEFINE b    == p - 5
             m1   == Put(mem, b + 2, 1)
             m2   == merge_next(m1, b)
             q    == PrevOf(m2, b)
             back == q # NULL /\ IsFree(m2, q)
             m3   == IF back THEN merge_next(m2, q) ELSE m2
             ds   == blocks \ (Absorbed(m1, b) \cup IF back THEN Absorbed(m2, q) ELSE {})
  <1>1. /\ mem \in [Heap -> Int] /\ blocks \in SUBSET Heap /\ Tiles(mem, blocks)
        /\ \A x \in blocks : Quiet(mem, x)
        /\ Ledger(mem, blocks, live)
        /\ \A c \in blocks : c \in Int /\ HeapStart <= c /\ BlockOK(mem, blocks, c)
    BY IInvFacts
  <1>2. /\ HeldOK(mem, blocks, p, live[p])
        /\ \A r \in DOMAIN live : HeldOK(mem, blocks, r, live[r])
        /\ live \in [DOMAIN live -> Live]
    BY <1>1 DEF Ledger, IInv, TypeOK
  <1>3. p \in Int /\ b \in blocks /\ b \in Int /\ b + 2 = p - 3 /\ b + 5 = p /\ mem[b + 2] = 0
    BY <1>2 DEF HeldOK
  <1>4. mem[b] = BLOCK_MAGIC
    BY <1>1, <1>3 DEF BlockOK
  <1>5. /\ mem' = m3 /\ blocks' = ds
        /\ live' = [r \in DOMAIN live \ {p} |-> live[r]]
        /\ UNCHANGED <<pc, cur, asked, zero>> /\ pc = "idle"
    <2>1. ~(Magic(mem, b) # BLOCK_MAGIC \/ IsFree(mem, b))
      BY <1>3, <1>4 DEF Magic, IsFree
    <2> QED
      BY <2>1 DEF kfree, Header
  <1> HIDE DEF b
  <1>6. /\ m3 \in [Heap -> Int] /\ Tiles(m3, ds)
        /\ \A x \in ds : Quiet(m3, x)
        /\ \A c \in blocks \ {b} : mem[c + 2] = 0 =>
              /\ c \in ds
              /\ \A a \in c .. c + 4 + mem[c + 1] : a # c + 4 => m3[a] = mem[a]
        /\ \A c \in ds : m3[c + 2] = 0 => c \in blocks \ {b} /\ mem[c + 2] = 0
    BY <1>1, <1>3, FreeMem
  <1>7. ds \subseteq Heap
    BY <1>1
  <1> HIDE DEF m3, ds
  <1>8. TypeOK'
    <2>1. live' \in [DOMAIN live' -> Live]
      BY <1>2, <1>5
    <2>2. /\ pc' \in {"idle", "scan", "panic"} /\ cur' \in Heap \cup {NULL}
          /\ asked' \in Nat /\ zero' \in BOOLEAN
      BY <1>5 DEF IInv, TypeOK
    <2> QED
      BY <1>5, <1>6, <1>7, <2>1, <2>2 DEF TypeOK
  <1>9. Ledger(mem', blocks', live')
    <2>1. ASSUME NEW r \in DOMAIN live' PROVE HeldOK(mem', blocks', r, live'[r])
      <3>1. r \in DOMAIN live /\ r # p /\ live'[r] = live[r] /\ live[r] \in Live
        BY <1>2, <1>5
      <3>2. HeldOK(mem, blocks, r, live[r])
        BY <1>2, <3>1
      <3>3. r \in Int /\ r - 5 \in blocks /\ r - 5 + 2 = r - 3 /\ r - 5 + 1 = r - 4 /\ mem[r - 3] = 0
        BY <3>2 DEF HeldOK
      <3>4. r - 5 # b
        BY <1>3, <3>1, <3>3
      <3>5. mem[r - 4] \in Nat
        BY <1>1, <3>3 DEF BlockOK
      <3>6. /\ r - 5 \in blocks'
            /\ \A a \in r - 5 .. r - 5 + 4 + mem[r - 4] : a # r - 5 + 4 => mem'[a] = mem[a]
        BY <1>5, <1>6, <3>3, <3>4
      <3> QED
        BY <3>1, <3>2, <3>5, <3>6, HeldFrame
    <2>2. ASSUME NEW c \in blocks', mem'[c + 2] = 0 PROVE c + 5 \in DOMAIN live'
      <3>1. c \in blocks \ {b} /\ mem[c + 2] = 0
        BY <1>5, <1>6, <2>2
      <3>2. c \in Int /\ c + 5 \in DOMAIN live
        BY <1>1, <3>1 DEF Ledger
      <3> QED
        BY <1>3, <1>5, <3>1, <3>2
    <2> QED
      BY <2>1, <2>2 DEF Ledger
  <1>10. Tiling'
    BY <1>5, <1>6 DEF Tiling
  <1>11. Coalesced'
    BY <1>5, <1>6, <1>8, <1>10, QuietOut
  <1>12. Accounted' /\ DataIntact' /\ BoundedWaste'
    BY <1>8, <1>9, LedgerOut
  <1>13. FirstFit' /\ NoPanic'
    BY <1>5 DEF FirstFit, NoPanic
  <1> QED
    BY <1>8, <1>10, <1>11, <1>12, <1>13 DEF IInv

\* A client writes into its own block.
LEMMA StoreInv ==
    ASSUME IInv, NEW p \in DOMAIN live, NEW v \in Words, Store(p, v)
    PROVE  IInv'
  <1> DEFINE b == p - 5
             k == live[p].size
  <1>1. /\ mem \in [Heap -> Int] /\ blocks \in SUBSET Heap /\ Tiles(mem, blocks)
        /\ \A x \in blocks : Quiet(mem, x)
        /\ Ledger(mem, blocks, live)
        /\ \A c \in blocks : c \in Int /\ HeapStart <= c /\ BlockOK(mem, blocks, c)
    BY IInvFacts
  <1>2. /\ \A r \in DOMAIN live : HeldOK(mem, blocks, r, live[r]) /\ live[r] \in Live
        /\ live \in [DOMAIN live -> Live]
    BY <1>1 DEF Ledger, IInv, TypeOK
  <1>3. /\ p \in Int /\ b \in blocks /\ b \in Int /\ b + 1 = p - 4 /\ b + 2 = p - 3 /\ p = b + 5
        /\ k \in Nat /\ k <= mem[b + 1] /\ v \in Int
    BY <1>2, Numbers DEF HeldOK, Live
  <1>4. /\ mem' = Fill(mem, p, k, v) /\ live' = [live EXCEPT ![p].val = {v}]
        /\ UNCHANGED <<blocks, pc, cur, asked, zero>> /\ pc = "idle"
    BY DEF Store
  <1> HIDE DEF b, k
  <1>5. /\ mem' \in [Heap -> Int] /\ Tiles(mem', blocks)
        /\ \A a \in b + 5 .. b + 5 + k - 1 : mem'[a] = v
        /\ \A c \in blocks \ {b} : \A a \in c .. c + 4 + mem[c + 1] : mem'[a] = mem[a]
        /\ \A c \in blocks :
              /\ mem'[c] = mem[c] /\ mem'[c + 1] = mem[c + 1] /\ mem'[c + 2] = mem[c + 2]
              /\ mem'[c + 3] = mem[c + 3] /\ mem'[c + 4] = mem[c + 4]
    <2>1. mem \in [Heap -> Int] /\ blocks \in SUBSET Heap /\ Tiles(mem, blocks)
      BY <1>1
    <2> QED
      BY <1>3, <1>4, <2>1, FillFrame
  <1>6. /\ DOMAIN live' = DOMAIN live
        /\ live'[p] = [size |-> k, val |-> {v}]
        /\ \A r \in DOMAIN live : r # p => live'[r] = live[r]
    BY <1>2, <1>4 DEF Live, k
  <1>7. TypeOK'
    <2>1. live'[p] \in Live
      BY <1>2, <1>3, <1>6 DEF Live, k
    <2>2. live' \in [DOMAIN live' -> Live]
      BY <1>2, <1>4, <1>6, <2>1
    <2>3. /\ blocks' \subseteq Heap /\ pc' \in {"idle", "scan", "panic"} /\ cur' \in Heap \cup {NULL}
          /\ asked' \in Nat /\ zero' \in BOOLEAN
      BY <1>4 DEF IInv, TypeOK
    <2> QED
      BY <1>4, <1>5, <2>2, <2>3 DEF TypeOK
  <1>8. \A x \in blocks' : Quiet(mem', x)
    <2>1. \A x \in blocks : mem[x + 3] # NULL => mem[x + 3] \in blocks
      BY <1>1 DEF BlockOK
    <2> QED
      BY <1>1, <1>4, <1>5, <2>1 DEF Quiet
  <1>9. Ledger(mem', blocks', live')
    <2>1. ASSUME NEW r \in DOMAIN live, r # p PROVE HeldOK(mem', blocks', r, live'[r])
      <3>1. HeldOK(mem, blocks, r, live[r]) /\ live[r] \in Live /\ live'[r] = live[r]
        BY <1>2, <1>6, <2>1
      <3>2. r \in Int /\ r - 5 \in blocks /\ r - 5 + 1 = r - 4 /\ r - 5 # b
        BY <1>3, <2>1, <3>1 DEF HeldOK
      <3>3. mem[r - 4] \in Nat
        BY <1>1, <3>2 DEF BlockOK
      <3>4. /\ r - 5 \in blocks'
            /\ \A a \in r - 5 .. r - 5 + 4 + mem[r - 4] : a # r - 5 + 4 => mem'[a] = mem[a]
        BY <1>4, <1>5, <3>2
      <3> QED
        BY <3>1, <3>3, <3>4, HeldFrame
    <2>2. HeldOK(mem', blocks', p, live'[p])
      <3>1. HeldOK(mem, blocks, p, live[p])
        BY <1>2
      <3>2. mem'[p - 3] = 0 /\ mem'[p - 4] = mem[p - 4] /\ p - 5 \in blocks'
        BY <1>3, <1>4, <1>5, <3>1 DEF HeldOK, b
      <3>3. \A a \in p .. p + k - 1 : mem'[a] = v
        BY <1>3, <1>5
      <3> QED
        BY <1>3, <1>6, <3>1, <3>2, <3>3 DEF HeldOK, k
    <2>3. ASSUME NEW c \in blocks', mem'[c + 2] = 0 PROVE c + 5 \in DOMAIN live'
      BY <1>1, <1>4, <1>5, <1>6, <2>3 DEF Ledger
    <2> QED
      BY <1>6, <2>1, <2>2, <2>3 DEF Ledger
  <1>10. Tiling'
    BY <1>4, <1>5 DEF Tiling
  <1>11. Coalesced'
    BY <1>7, <1>8, <1>10, QuietOut
  <1>12. Accounted' /\ DataIntact' /\ BoundedWaste'
    BY <1>7, <1>9, LedgerOut
  <1>13. FirstFit' /\ NoPanic'
    BY <1>4 DEF FirstFit, NoPanic
  <1> QED
    BY <1>7, <1>10, <1>11, <1>12, <1>13 DEF IInv

\* Every operation of the heap and of its clients preserves the invariant.
LEMMA StepInv == IInv /\ [Next]_vars => IInv'
  <1> SUFFICES ASSUME IInv, [Next]_vars PROVE IInv'
    OBVIOUS
  <1>1. ASSUME NEW n \in Requests, NEW z \in BOOLEAN, kmalloc(n, z) PROVE IInv'
    BY <1>1, KmallocInv
  <1>2. CASE Scan
    BY <1>2, ScanInv
  <1>3. CASE OutOfHeap
    BY <1>3, OutOfHeapInv
  <1>4. ASSUME NEW p \in DOMAIN live, kfree(p) PROVE IInv'
    BY <1>4, KfreeInv
  <1>5. ASSUME NEW p \in DOMAIN live, NEW v \in Words, Store(p, v) PROVE IInv'
    BY <1>5, StoreInv
  <1>6. CASE UNCHANGED vars
    <2>1. TypeOK' /\ FirstFit' /\ NoPanic'
      BY <1>6 DEF IInv, vars, TypeOK, FirstFit, NoPanic
    <2> QED
      BY <1>6, <2>1, Untouched DEF IInv, vars
  <1> QED
    BY <1>1, <1>2, <1>3, <1>4, <1>5, <1>6 DEF Next

\* The inductive invariant holds of every behaviour of the heap.
THEOREM Invariance == Spec => []IInv
  BY InitInv, StepInv, PTL DEF Spec

\* No operation writes outside the region or leaves a variable out of shape.
THEOREM TypeCorrect == Spec => []TypeOK
  <1>1. IInv => TypeOK
    BY DEF IInv
  <1> QED
    BY <1>1, Invariance, PTL

\* After any calls the blocks still tile the region and the list links them in
\* order, so a header is never lost and never overlaps another block.
THEOREM TilingHolds == Spec => []Tiling
  <1>1. IInv => Tiling
    BY DEF IInv
  <1> QED
    BY <1>1, Invariance, PTL

\* Two neighbouring free blocks never survive a call (kheap.c:12-13).
THEOREM CoalescedHolds == Spec => []Coalesced
  <1>1. IInv => Coalesced
    BY DEF IInv
  <1> QED
    BY <1>1, Invariance, PTL

\* What a client stored stays until it frees the block, whatever the other
\* clients do.
THEOREM ClientsSafe == Spec => []DataIntact
  <1>1. IInv => DataIntact
    BY DEF IInv
  <1> QED
    BY <1>1, Invariance, PTL

\* The blocks marked used are the ones clients hold: none is held by two
\* clients, and none is used that nobody can free.
THEOREM AccountsHold == Spec => []Accounted
  <1>1. IInv => Accounted
    BY DEF IInv
  <1> QED
    BY <1>1, Invariance, PTL

\* Whatever was split and merged before, kmalloc() has not passed over a free
\* block that is large enough: it returns NULL only when there is none.
THEOREM FirstFitHolds == Spec => []FirstFit
  <1>1. IInv => FirstFit
    BY DEF IInv
  <1> QED
    BY <1>1, Invariance, PTL

\* A block in use is never so much larger than its request that split()
\* would have made a block of the rest.
THEOREM WasteBounded == Spec => []BoundedWaste
  <1>1. IInv => BoundedWaste
    BY DEF IInv
  <1> QED
    BY <1>1, Invariance, PTL

\* The corruption checks of kmalloc() and kfree() never fire on clients that
\* free what they hold, once.
THEOREM NeverPanics == Spec => []NoPanic
  <1>1. IInv => NoPanic
    BY DEF IInv
  <1> QED
    BY <1>1, Invariance, PTL

-----------------------------------------------------------------------------
(* The contract.                                                            *)

\* The refinement mapping: the extent behind a held pointer p, in memory m.
Extent(m, p) == <<p - 5, p + m[p - 4]>>
Extents(m, lv) == {Extent(m, p) : p \in DOMAIN lv}
Asking == IF pc = "scan" THEN ALIGN_UP(asked) ELSE 0

\* The extent of the block at b, held through the pointer behind its header.
LEMMA ExtentAt ==
    ASSUME NEW m, NEW b \in Int
    PROVE  Extent(m, b + 5) = <<b, b + 5 + m[b + 1]>>
  <1> DEFINE p == b + 5
  <1>1. p - 5 = b /\ p - 4 = b + 1
    OBVIOUS
  <1> HIDE DEF p
  <1>2. <<p - 5, p + m[p - 4]>> = <<b, p + m[b + 1]>>
    BY <1>1
  <1> QED
    BY <1>2 DEF Extent, p

\* b is the highest of the headers bs at or below address a.
Highest(bs, a, b) == b <= a /\ \A c \in bs : c <= a => c <= b

\* Among the headers at or below an address there is a highest one.
LEMMA HighestBelow ==
    ASSUME NEW bs \in SUBSET Heap, HeapStart \in bs, NEW a \in Heap
    PROVE  \E b \in bs : Highest(bs, a, b)
  <1> DEFINE S == {a - b : b \in {c \in bs : c <= a}}
             R == {ss \in Nat \X Nat : ss[1] < ss[2]}
  <1>a. a \in Int /\ HeapStart <= a /\ \A b \in bs : b \in Int
    BY HeapRange
  <1>1. S \subseteq Nat /\ a - HeapStart \in S
    BY <1>a
  <1>2. IsWellFoundedOn(R, Nat)
    BY NatLessThanWellFounded DEF OpToRel
  <1>3. \E x \in S : \A y \in S : ~(<<y, x>> \in R)
    <2> HIDE DEF R, S
    <2> QED
      BY <1>1, <1>2, WFMin
  <1>4. PICK x \in S : \A y \in S : ~(<<y, x>> \in R)
    BY <1>3
  <1>5. PICK b \in bs : b <= a /\ x = a - b
    OBVIOUS
  <1>6. ASSUME NEW c \in bs, c <= a PROVE c <= b
    <2>1. a - c \in S /\ a - c \in Nat /\ x \in Nat
      BY <1>a, <1>1, <1>6
    <2>2. ~(a - c < x)
      BY <1>4, <2>1
    <2> QED
      BY <1>a, <1>5, <2>2
  <1> QED
    BY <1>5, <1>6 DEF Highest

\* The blocks of a tiled list leave no gap: every address of the region lies
\* in one of them.
LEMMA Cover ==
    ASSUME NEW m \in [Heap -> Int], NEW bs \in SUBSET Heap, Tiles(m, bs), NEW a \in Heap
    PROVE  \E b \in bs : b <= a /\ a < b + 5 + m[b + 1]
  <1>1. \A c \in bs : c \in Int /\ HeapStart <= c /\ BlockOK(m, bs, c)
    BY BlockFacts
  <1>2. a \in Int /\ HeapStart <= a /\ a < HeapEnd /\ HeapStart \in bs
    BY HeapRange DEF Tiles, Linked
  <1>3. PICK b \in bs : Highest(bs, a, b)
    BY <1>2, HighestBelow
  <1>4. SUFFICES ASSUME b + 5 + m[b + 1] <= a PROVE FALSE
    BY <1>1, <1>2, <1>3 DEF BlockOK, Highest
  <1>5. b \in Int /\ m[b + 1] \in Nat /\ HeapStart <= b
    BY <1>1 DEF BlockOK
  <1>6. m[b + 3] = b + 5 + m[b + 1] /\ m[b + 3] # NULL
    BY <1>1, <1>2, <1>4, <1>5, HeapRange DEF BlockOK, NULL
  <1>7. b + 5 + m[b + 1] \in bs
    BY <1>1, <1>6 DEF BlockOK
  <1> QED
    BY <1>3, <1>4, <1>5, <1>7 DEF Highest

\* The mapping of the specification's INSTANCE, in the words of this module.
LEMMA Mapping ==
    ASSUME IInv
    PROVE  /\ {<<p - Header, p + Size(mem, p - Header)>> : p \in DOMAIN live} = Extents(mem, live)
           /\ \A p \in DOMAIN live : p \in Int /\ p - 5 \in blocks /\ mem[p - 4] \in Nat
           /\ \A b \in blocks : mem[b + 2] = 0 => b + 5 \in DOMAIN live
  <1>1. /\ Ledger(mem, blocks, live)
        /\ \A c \in blocks : c \in Int /\ HeapStart <= c /\ BlockOK(mem, blocks, c)
    BY IInvFacts
  <1>2. ASSUME NEW p \in DOMAIN live
        PROVE  /\ p \in Int /\ p - 5 \in blocks /\ mem[p - 4] \in Nat
               /\ <<p - Header, p + Size(mem, p - Header)>> = Extent(mem, p)
    <2>1. p \in Int /\ p - 5 \in blocks /\ p - 5 + 1 = p - 4
      BY <1>1 DEF Ledger, HeldOK
    <2>2. mem[p - 4] \in Nat
      BY <1>1, <2>1 DEF BlockOK
    <2> QED
      BY <2>1, <2>2 DEF Extent, Size, Header
  <1>3. {<<p - Header, p + Size(mem, p - Header)>> : p \in DOMAIN live} = Extents(mem, live)
    BY <1>2 DEF Extents
  <1> QED
    BY <1>1, <1>2, <1>3 DEF Ledger

\* Where every free block is too small for n words, no gap between the
\* clients' extents holds them and a header: no two free blocks are neighbours.
LEMMA NoGap ==
    ASSUME IInv, NEW n \in Nat, n > 0, \A b \in blocks : mem[b + 2] # 0 => mem[b + 1] < n
    PROVE  ~ \E lo \in HeapStart .. HeapEnd - (5 + n) :
                \A e \in Extents(mem, live) : lo + 5 + n <= e[1] \/ e[2] <= lo
  <1>1. /\ mem \in [Heap -> Int] /\ blocks \in SUBSET Heap /\ Tiles(mem, blocks)
        /\ \A x \in blocks : Quiet(mem, x)
        /\ \A c \in blocks : c \in Int /\ HeapStart <= c /\ BlockOK(mem, blocks, c)
    BY IInvFacts
  <1>2. n \in Nat /\ n > 0
    OBVIOUS
  <1>3. \A b \in blocks : mem[b + 2] # 0 => mem[b + 1] < n
    OBVIOUS
  <1>4. SUFFICES ASSUME NEW lo \in HeapStart .. HeapEnd - (5 + n),
                        \A e \in Extents(mem, live) : lo + 5 + n <= e[1] \/ e[2] <= lo
                 PROVE  FALSE
    OBVIOUS
  <1>5. lo \in Int /\ HeapStart <= lo /\ lo + 5 + n <= HeapEnd
    BY <1>2, HeapRange
  <1>6. lo \in Heap
    BY <1>2, <1>5, HeapRange
  \* A used block that begins inside the gap, or holds its first word, is in
  \* the way.
  <1>7. ASSUME NEW b \in blocks, b < lo + 5 + n, lo < b + 5 + mem[b + 1]
        PROVE  mem[b + 2] # 0
    <2>1. SUFFICES ASSUME mem[b + 2] = 0 PROVE FALSE
      OBVIOUS
    <2>2. b \in Int /\ mem[b + 1] \in Nat
      BY <1>1 DEF BlockOK
    <2>3. b + 5 \in DOMAIN live
      BY <2>1, Mapping
    <2>4. Extent(mem, b + 5) = <<b, b + 5 + mem[b + 1]>>
      BY <2>2, ExtentAt
    <2>5. <<b, b + 5 + mem[b + 1]>> \in Extents(mem, live)
      BY <2>3, <2>4 DEF Extents
    <2>6. lo + 5 + n <= b \/ b + 5 + mem[b + 1] <= lo
      BY <1>4, <2>5
    <2> QED
      BY <1>2, <1>5, <1>7, <2>2, <2>6
  <1>8. PICK b \in blocks : b <= lo /\ lo < b + 5 + mem[b + 1]
    BY <1>1, <1>6, Cover
  <1>9. b \in Int /\ mem[b + 1] \in Nat /\ HeapStart <= b
    BY <1>1 DEF BlockOK
  <1>10. mem[b + 2] # 0 /\ mem[b + 1] < n
    BY <1>2, <1>3, <1>5, <1>7, <1>8, <1>9
  <1> DEFINE e == mem[b + 3]
  <1>11. e = b + 5 + mem[b + 1] /\ e # NULL /\ e < lo + 5 + n
    BY <1>1, <1>2, <1>5, <1>8, <1>9, <1>10, HeapRange DEF BlockOK, NULL
  <1>12. e \in blocks
    BY <1>1, <1>11 DEF BlockOK
  <1>13. mem[e + 2] = 0
    BY <1>1, <1>10, <1>11 DEF Quiet
  <1> HIDE DEF e
  <1>14. e \in Int /\ mem[e + 1] \in Nat
    BY <1>1, <1>12 DEF BlockOK
  <1>15. lo < e + 5 + mem[e + 1]
    BY <1>5, <1>8, <1>9, <1>11, <1>14
  <1> QED
    BY <1>7, <1>11, <1>12, <1>13, <1>15

\* kmalloc() gives up only when there is no room: the loop has seen every block.
LEMMA NoRoom ==
    ASSUME IInv, OutOfHeap
    PROVE  ~ \E lo \in HeapStart .. HeapEnd - (5 + ALIGN_UP(asked)) :
                \A e \in Extents(mem, live) :
                   lo + 5 + ALIGN_UP(asked) <= e[1] \/ e[2] <= lo
  <1> DEFINE n == ALIGN_UP(asked)
  <1>1. n \in Nat /\ n > 0
    BY AlignUp DEF IInv, TypeOK, OutOfHeap
  <1>2. \A b \in blocks : mem[b + 1] \in Nat
    BY IInvFacts DEF BlockOK
  <1>3. \A b \in blocks : ~Fits(mem, b, n)
    BY DEF IInv, FirstFit, OutOfHeap
  <1> HIDE DEF n
  <1>4. \A b \in blocks : mem[b + 2] # 0 => mem[b + 1] < n
    BY <1>1, <1>2, <1>3 DEF Fits, IsFree, Size
  <1>5. ~ \E lo \in HeapStart .. HeapEnd - (5 + n) :
             \A e \in Extents(mem, live) : lo + 5 + n <= e[1] \/ e[2] <= lo
    BY <1>1, <1>4, NoGap
  <1> QED
    BY <1>5 DEF n

\* A held pointer that keeps its size keeps its extent.
LEMMA ExtentsKept ==
    ASSUME NEW m, NEW w, NEW lv, NEW lw, DOMAIN lv = DOMAIN lw,
           \A p \in DOMAIN lv : w[p - 4] = m[p - 4]
    PROVE  Extents(w, lw) = Extents(m, lv)
  BY DEF Extents, Extent

\* kmalloc() writes the size of the block it takes and of no other one.
LEMMA TakeSizes ==
    ASSUME IInv, pc = "scan", cur # NULL, Fits(mem, cur, ALIGN_UP(asked)), Take
    PROVE  /\ ALIGN_UP(asked) <= mem'[cur + 1]
           /\ \A c \in blocks \ {cur} : mem'[c + 1] = mem[c + 1]
           /\ cur \in blocks /\ cur \in blocks' /\ mem[cur + 2] # 0
           /\ DOMAIN live' = DOMAIN live \cup {cur + 5} /\ pc' = "idle"
  <1> DEFINE n  == ALIGN_UP(asked)
             b  == cur
             t  == Put(split(mem, cur, n), cur + 2, 0)
             cs == IF Splits(mem, cur, n) THEN blocks \cup {cur + 5 + n} ELSE blocks
             w  == Fill(t, b + 5, asked, 0)
  <1>1. /\ mem \in [Heap -> Int] /\ blocks \in SUBSET Heap /\ Tiles(mem, blocks)
        /\ \A x \in blocks : Quiet(mem, x)
        /\ \A c \in blocks : c \in Int /\ HeapStart <= c /\ BlockOK(mem, blocks, c)
    BY IInvFacts
  <1>2. asked \in Nat /\ n \in Nat /\ asked <= n /\ b \in blocks /\ b \in Int /\ zero \in BOOLEAN
    BY <1>1, AlignUp DEF IInv, TypeOK, FirstFit
  <1>3. mem[b + 1] >= n /\ mem[b + 2] # 0
    BY DEF Fits, IsFree, Size
  <1>4. /\ mem' = IF zero THEN w ELSE t
        /\ blocks' = cs /\ pc' = "idle" /\ DOMAIN live' = DOMAIN live \cup {b + 5}
    BY DEF Take, Return, Header
  <1> HIDE DEF n
  <1>5. /\ t \in [Heap -> Int] /\ cs \in SUBSET Heap /\ Tiles(t, cs)
        /\ t[b + 2] = 0 /\ n <= t[b + 1] /\ t[b + 1] < n + 9
        /\ \A c \in blocks \ {b} :
              \A a \in c .. c + 4 + mem[c + 1] : a # c + 4 => t[a] = mem[a]
        /\ \A c \in cs \ blocks : t[c + 2] # 0
        /\ \A x \in cs : Quiet(t, x)
    BY <1>1, <1>2, <1>3, TakeMem
  <1>6. blocks \subseteq cs /\ b \in cs
    BY <1>2
  <1> HIDE DEF t, cs, b
  <1>7. ASSUME NEW c \in blocks \ {b} PROVE t[c + 1] = mem[c + 1]
    <2>1. c \in Int /\ mem[c + 1] \in Nat
      BY <1>1 DEF BlockOK
    <2> QED
      BY <1>5, <2>1
  <1>8. t[b + 1] \in Nat
    BY <1>5, <1>6, BlockFacts DEF BlockOK
  <1>9. \A c \in cs : w[c + 1] = t[c + 1]
    <2> DEFINE p == b + 5
    <2>1. 0 \in Int /\ p = b + 5 /\ w = Fill(t, p, asked, 0) /\ asked <= t[b + 1]
      BY <1>2, <1>5, <1>8
    <2> HIDE DEF p, w
    <2> QED
      BY <1>2, <1>5, <1>6, <2>1, FillFrame
  <1> HIDE DEF w
  <1> QED
    BY <1>2, <1>3, <1>4, <1>5, <1>6, <1>7, <1>9 DEF n, b

\* kmalloc() hands out a block that fits the request and overlaps no other,
\* and moves none: Grant of the contract.
LEMMA TakeGrants ==
    ASSUME IInv, IInv', pc = "scan", cur # NULL, Fits(mem, cur, ALIGN_UP(asked)), Take
    PROVE  \E hi \in HeapStart .. HeapEnd :
              /\ cur \in HeapStart .. HeapEnd
              /\ cur + 5 + ALIGN_UP(asked) <= hi
              /\ \A e \in Extents(mem, live) : hi <= e[1] \/ e[2] <= cur
              /\ Extents(mem', live') = Extents(mem, live) \cup {<<cur, hi>>}
  <1> DEFINE b  == cur
             hi == b + 5 + mem'[b + 1]
  <1>1. /\ ALIGN_UP(asked) <= mem'[b + 1]
        /\ \A c \in blocks \ {b} : mem'[c + 1] = mem[c + 1]
        /\ b \in blocks /\ b \in blocks' /\ mem[b + 2] # 0
        /\ DOMAIN live' = DOMAIN live \cup {b + 5}
    BY TakeSizes
  <1> HIDE DEF b
  <1>2. /\ \A c \in blocks : c \in Int /\ HeapStart <= c /\ BlockOK(mem, blocks, c)
        /\ Ledger(mem, blocks, live)
    BY IInvFacts
  <1>3. /\ mem' \in [Heap -> Int] /\ blocks' \in SUBSET Heap /\ Tiles(mem', blocks')
    BY DEF IInv, TypeOK, Tiling
  <1>4. \A c \in blocks' : c \in Int /\ HeapStart <= c /\ BlockOK(mem', blocks', c)
    BY <1>3, BlockFacts
  <1>5. /\ b \in Int /\ mem'[b + 1] \in Nat /\ HeapStart <= b
        /\ b + 5 + mem'[b + 1] <= HeapEnd /\ ALIGN_UP(asked) \in Nat
    BY <1>1, <1>4, AlignUp DEF BlockOK, IInv, TypeOK
  \* A pointer held before is not the new one, and its block is still on the
  \* list with the size it had.
  <1>6. ASSUME NEW p \in DOMAIN live
        PROVE  /\ p \in Int /\ p # b + 5 /\ mem[p - 4] \in Nat /\ mem'[p - 4] = mem[p - 4]
               /\ hi <= p - 5 \/ p + mem[p - 4] <= b
    <2>1. p \in Int /\ p - 5 \in blocks /\ mem[p - 3] = 0 /\ p - 5 + 1 = p - 4 /\ p - 5 + 2 = p - 3
      BY <1>2 DEF Ledger, HeldOK
    <2>2. p - 5 # b
      BY <1>1, <2>1
    <2>3. mem[p - 4] \in Nat /\ mem'[p - 4] = mem[p - 4]
      BY <1>1, <1>2, <2>1, <2>2 DEF BlockOK
    <2>4. p - 5 \in blocks'
      BY <1>1, <2>1 DEF Take, Scan
    <2>5. b + 5 + mem'[b + 1] <= p - 5 \/ p - 5 + 5 + mem'[p - 5 + 1] <= b
      BY <1>1, <1>3, <2>2, <2>4, Apart5
    <2> QED
      BY <1>5, <2>1, <2>2, <2>3, <2>5
  <1>7. Extents(mem', live') = Extents(mem, live) \cup {<<b, hi>>}
    <2>1. Extent(mem', b + 5) = <<b, hi>>
      BY <1>5, ExtentAt
    <2>2. \A p \in DOMAIN live : Extent(mem', p) = Extent(mem, p)
      BY <1>6 DEF Extent
    <2> QED
      BY <1>1, <2>1, <2>2, Zenon DEF Extents
  <1>8. \A e \in Extents(mem, live) : hi <= e[1] \/ e[2] <= b
    BY <1>6 DEF Extents, Extent
  <1>9. hi \in HeapStart .. HeapEnd /\ b \in HeapStart .. HeapEnd /\ b + 5 + ALIGN_UP(asked) <= hi
    BY <1>1, <1>5, HeapRange
  <1> HIDE DEF hi
  <1> QED
    BY <1>7, <1>8, <1>9 DEF b

\* kfree() gives back the extent of its pointer and moves no other one:
\* merging writes headers of free blocks only, the link back excepted.
LEMMA KfreeReleases ==
    ASSUME IInv, NEW p \in DOMAIN live, kfree(p)
    PROVE  /\ Extent(mem, p) \in Extents(mem, live)
           /\ Extents(mem', live') = Extents(mem, live) \ {Extent(mem, p)}
           /\ pc = "idle" /\ pc' = "idle"
  <1> DEFINE b    == p - 5
             m1   == Put(mem, b + 2, 1)
             m2   == merge_next(m1, b)
             q    == PrevOf(m2, b)
             back == q # NULL /\ IsFree(m2, q)
             m3   == IF back THEN merge_next(m2, q) ELSE m2
             ds   == blocks \ (Absorbed(m1, b) \cup IF back THEN Absorbed(m2, q) ELSE {})
  <1>1. /\ mem \in [Heap -> Int] /\ blocks \in SUBSET Heap /\ Tiles(mem, blocks)
        /\ \A x \in blocks : Quiet(mem, x)
        /\ Ledger(mem, blocks, live)
        /\ \A c \in blocks : c \in Int /\ HeapStart <= c /\ BlockOK(mem, blocks, c)
    BY IInvFacts
  <1>2. \A r \in DOMAIN live : HeldOK(mem, blocks, r, live[r])
    BY <1>1 DEF Ledger
  <1>3. p \in Int /\ b \in blocks /\ b \in Int /\ b + 2 = p - 3 /\ b + 5 = p /\ mem[b + 2] = 0
    BY <1>2 DEF HeldOK
  <1>4. mem[b] = BLOCK_MAGIC
    BY <1>1, <1>3 DEF BlockOK
  <1>5. mem' = m3 /\ DOMAIN live' = DOMAIN live \ {p} /\ pc = "idle" /\ pc' = "idle"
    <2>1. ~(Magic(mem, b) # BLOCK_MAGIC \/ IsFree(mem, b))
      BY <1>3, <1>4 DEF Magic, IsFree
    <2> QED
      BY <2>1 DEF kfree, Header
  <1> HIDE DEF b
  <1>6. /\ m3 \in [Heap -> Int] /\ Tiles(m3, ds)
        /\ \A x \in ds : Quiet(m3, x)
        /\ \A c \in blocks \ {b} : mem[c + 2] = 0 =>
              /\ c \in ds
              /\ \A a \in c .. c + 4 + mem[c + 1] : a # c + 4 => m3[a] = mem[a]
        /\ \A c \in ds : m3[c + 2] = 0 => c \in blocks \ {b} /\ mem[c + 2] = 0
    BY <1>1, <1>3, FreeMem
  <1> HIDE DEF m3, ds
  <1>7. ASSUME NEW r \in DOMAIN live, r # p
        PROVE  Extent(mem', r) = Extent(mem, r) /\ Extent(mem, r) # Extent(mem, p)
    <2>1. /\ r \in Int /\ r - 5 \in blocks /\ r - 5 + 2 = r - 3 /\ r - 5 + 1 = r - 4
          /\ mem[r - 3] = 0
      BY <1>2 DEF HeldOK
    <2>2. r - 5 # b /\ r - 5 # p - 5
      BY <1>3, <1>7, <2>1
    <2>3. mem[r - 4] \in Nat
      BY <1>1, <2>1 DEF BlockOK
    <2>4. mem'[r - 4] = mem[r - 4]
      BY <1>5, <1>6, <2>1, <2>2, <2>3
    <2> QED
      BY <2>2, <2>4 DEF Extent
  <1>8. Extents(mem', live') = {Extent(mem, r) : r \in DOMAIN live \ {p}}
    BY <1>5, <1>7 DEF Extents
  <1>9. {Extent(mem, r) : r \in DOMAIN live \ {p}} = Extents(mem, live) \ {Extent(mem, p)}
    BY <1>7 DEF Extents
  <1> QED
    BY <1>5, <1>8, <1>9 DEF Extents

\* A store changes no size.
LEMMA StoreKeeps ==
    ASSUME IInv, NEW p \in DOMAIN live, NEW v \in Words, Store(p, v)
    PROVE  Extents(mem', live') = Extents(mem, live) /\ pc' = "idle" /\ pc = "idle"
  <1> DEFINE b == p - 5
             k == live[p].size
  <1>1. /\ mem \in [Heap -> Int] /\ blocks \in SUBSET Heap /\ Tiles(mem, blocks)
        /\ Ledger(mem, blocks, live)
    BY IInvFacts
  <1>2. /\ \A r \in DOMAIN live : HeldOK(mem, blocks, r, live[r]) /\ live[r] \in Live
        /\ live \in [DOMAIN live -> Live]
    BY <1>1 DEF Ledger, IInv, TypeOK
  <1>3. /\ p \in Int /\ b \in blocks /\ b \in Int /\ b + 1 = p - 4 /\ p = b + 5
        /\ k \in Nat /\ k <= mem[b + 1] /\ v \in Int
    BY <1>2, Numbers DEF HeldOK, Live
  <1>4. /\ mem' = Fill(mem, p, k, v) /\ DOMAIN live' = DOMAIN live
        /\ pc = "idle" /\ pc' = "idle"
    BY <1>2 DEF Store
  <1> HIDE DEF b, k
  <1>5. \A c \in blocks : mem'[c + 1] = mem[c + 1]
    BY <1>1, <1>3, <1>4, FillFrame
  <1>6. ASSUME NEW r \in DOMAIN live PROVE mem'[r - 4] = mem[r - 4]
    <2>1. r - 5 \in blocks /\ r - 5 + 1 = r - 4
      BY <1>2 DEF HeldOK
    <2> QED
      BY <1>5, <2>1
  <1> QED
    BY <1>4, <1>6, ExtentsKept

-----------------------------------------------------------------------------
(* The refinement.                                                          *)

\* kheap_init() leaves no extent and no pending request.
LEMMA RefInit == Init => Contract!Init
  BY DEF Init, Contract!Init

\* The contract's alloc, as the refinement mapping has it, in this state and
\* in the next one.
Alloc == {<<p - Header, p + Size(mem, p - Header)>> : p \in DOMAIN live}

LEMMA AllocIs == IInv => Alloc = Extents(mem, live)
  BY Mapping DEF Alloc

LEMMA AllocIsNext == IInv' => Alloc' = Extents(mem', live')
  <1>1. IInv => Alloc = Extents(mem, live)
    BY AllocIs
  <1>2. IInv' => (Alloc = Extents(mem, live))'
    BY <1>1, PTL
  <1>3. (Alloc = Extents(mem, live))' <=> Alloc' = Extents(mem', live')
    BY DEF Extents
  <1> QED
    BY <1>2, <1>3

\* Every step of the heap and of its clients is a step of the contract, or
\* leaves its variables alone.
LEMMA RefStep == IInv /\ IInv' /\ [Next]_vars => [Contract!Next]_(Contract!cvars)
  <1> SUFFICES ASSUME IInv, IInv', [Next]_vars PROVE [Contract!Next]_(Contract!cvars)
    OBVIOUS
  <1>1. Alloc = Extents(mem, live) /\ Alloc' = Extents(mem', live')
    BY AllocIs, AllocIsNext
  <1>2. Contract!cvars = <<Alloc, Asking>>
    BY DEF Contract!cvars, Alloc, Asking
  <1>3. asked \in Nat /\ (pc = "scan" => asked > 0) /\ pc # "panic"
    BY DEF IInv, TypeOK, NoPanic
  <1>4. ASSUME NEW n \in Requests, NEW z \in BOOLEAN, kmalloc(n, z)
        PROVE  Contract!Request
    <2>1. Alloc' = Alloc /\ Asking = 0 /\ Asking' = ALIGN_UP(n)
      BY <1>4 DEF kmalloc, Alloc, Asking, ALIGN_UP
    <2>2. ALIGN_UP(n) \in Nat \ {0}
      BY <1>4, Numbers, AlignUp DEF kmalloc
    <2> QED
      BY <2>1, <2>2 DEF Contract!Request, Alloc, Asking
  <1>5. CASE Scan
    <2>1. Magic(mem, cur) = BLOCK_MAGIC /\ pc = "scan" /\ cur # NULL
      BY <1>5 DEF IInv, Tiling, Tiles, HeadersOK, FirstFit, Scan
    <2>2. CASE Fits(mem, cur, ALIGN_UP(asked))
      <3>1. Take
        BY <1>5, <2>1, <2>2 DEF Scan
      <3>2. PICK hi \in HeapStart .. HeapEnd :
               /\ cur \in HeapStart .. HeapEnd
               /\ cur + 5 + ALIGN_UP(asked) <= hi
               /\ \A e \in Extents(mem, live) : hi <= e[1] \/ e[2] <= cur
               /\ Extents(mem', live') = Extents(mem, live) \cup {<<cur, hi>>}
        BY <2>1, <2>2, <3>1, TakeGrants
      <3>3. Asking = ALIGN_UP(asked) /\ Asking > 0 /\ Asking' = 0
        BY <1>3, <2>1, <3>1, AlignUp DEF Asking, Take, Return
      <3>4. Contract!Grant(cur, hi)
        <4>1. cur + Header + Asking <= hi
          BY <3>2, <3>3 DEF Header
        <4>2. \A e \in Alloc : Contract!Apart(<<cur, hi>>, e)
          BY <1>1, <3>2 DEF Contract!Apart
        <4>3. Alloc' = Alloc \cup {<<cur, hi>>}
          BY <1>1, <3>2
        <4> QED
          BY <3>3, <4>1, <4>2, <4>3 DEF Contract!Grant, Alloc, Asking
      <3> QED
        BY <3>2, <3>4 DEF Contract!Next
    <2>3. CASE ~Fits(mem, cur, ALIGN_UP(asked))
      <3>1. UNCHANGED <<mem, live, pc, asked>>
        BY <1>5, <2>1, <2>3 DEF Scan
      <3>2. Alloc' = Alloc /\ Asking' = Asking
        BY <3>1 DEF Alloc, Asking, ALIGN_UP
      <3> QED
        BY <1>2, <3>2 DEF Contract!cvars, Alloc, Asking
    <2> QED
      BY <2>2, <2>3
  <1>6. CASE OutOfHeap
    <2>1. Alloc' = Alloc /\ Asking = ALIGN_UP(asked) /\ Asking > 0 /\ Asking' = 0
      BY <1>3, <1>6, AlignUp DEF OutOfHeap, Return, Alloc, Asking
    <2>2. ~ \E lo \in HeapStart .. HeapEnd - (5 + Asking) :
               \A e \in Alloc : lo + 5 + Asking <= e[1] \/ e[2] <= lo
      BY <1>1, <1>6, <2>1, NoRoom
    <2>3. ~Contract!Room(Asking)
      <3>1. Contract!Room(Asking) =>
               \E lo \in HeapStart .. HeapEnd - (5 + Asking) :
                  \A e \in Alloc : Contract!Apart(<<lo, lo + 5 + Asking>>, e)
        BY DEF Contract!Room, Header, Alloc
      <3>2. \A lo : \A e \in Alloc : Contract!Apart(<<lo, lo + 5 + Asking>>, e) <=>
                                     lo + 5 + Asking <= e[1] \/ e[2] <= lo
        BY DEF Contract!Apart
      <3> QED
        BY <2>2, <3>1, <3>2
    <2>4. Contract!Refuse
      BY <2>1, <2>3 DEF Contract!Refuse, Alloc, Asking
    <2> QED
      BY <2>4 DEF Contract!Next
  <1>7. ASSUME NEW p \in DOMAIN live, kfree(p) PROVE Contract!Next
    <2>1. /\ Extent(mem, p) \in Alloc /\ Alloc' = Alloc \ {Extent(mem, p)}
          /\ Asking = 0 /\ Asking' = 0
      BY <1>1, <1>7, KfreeReleases DEF Asking
    <2>2. PICK e \in Alloc : Alloc' = Alloc \ {e}
      BY <2>1
    <2>3. Contract!Release(e)
      BY <2>1, <2>2 DEF Contract!Release, Alloc, Asking
    <2>4. \E f \in Alloc : Contract!Release(f)
      BY <2>3
    <2> QED
      BY <2>4 DEF Contract!Next, Alloc
  <1>8. ASSUME NEW p \in DOMAIN live, NEW v \in Words, Store(p, v)
        PROVE  UNCHANGED Contract!cvars
    <2>1. Alloc' = Alloc /\ Asking = 0 /\ Asking' = 0
      BY <1>1, <1>8, StoreKeeps DEF Asking
    <2> QED
      BY <2>1 DEF Contract!cvars, Alloc, Asking
  <1>9. CASE UNCHANGED vars
    BY <1>9 DEF vars, Contract!cvars, ALIGN_UP, Size
  <1> QED
    BY <1>4, <1>5, <1>6, <1>7, <1>8, <1>9 DEF Next, Contract!Next

\* The heap implements its contract for every region and every client: the
\* extents in use never overlap and never move, and kmalloc() returns NULL
\* only when no gap between them could hold the request (kheap.c:75-91).
THEOREM HeapImplementsContract == Spec => HeapContractHolds
  BY RefInit, RefStep, Invariance, PTL DEF Spec, HeapContractHolds, Contract!Spec

-----------------------------------------------------------------------------
(* kheap_stats().                                                           *)

SizeFn(T) == [b \in T |-> mem[b + 1]]

\* The two sums of StatsExact, as MapThenSumSet computes them.
SizeSums(h, T) ==
    h = [s \in SUBSET T |-> IF s = {} THEN 0 ELSE SizeOf(One(s)) + h[s \ {One(s)}]]
AskedSums(h, T) ==
    h = [s \in SUBSET T |-> IF s = {} THEN 0 ELSE AskedFor(One(s)) + h[s \ {One(s)}]]

LEMMA SizesChosen ==
    ASSUME NEW T
    PROVE  Sizes(T) = (CHOOSE h : SizeSums(h, T))[T]
BY DEF Sizes, MapThenSumSet, MapThenFoldSet, SizeSums, One

LEMMA AskedChosen ==
    ASSUME NEW T
    PROVE  MapThenSumSet(AskedFor, T) = (CHOOSE h : AskedSums(h, T))[T]
BY DEF MapThenSumSet, MapThenFoldSet, AskedSums, One

LEMMA BlocksFinite ==
    ASSUME IInv
    PROVE  IsFiniteSet(blocks) /\ SizeFn(blocks) \in [blocks -> Nat]
<1>1. blocks \in SUBSET Heap /\ \A b \in blocks : mem[b + 1] \in Nat
  BY IInvFacts DEF BlockOK
<1>2. IsFiniteSet(Heap)
  <2>1. HeapStart \in Int /\ HeapEnd - 1 \in Int BY HeapRange
  <2> QED BY <2>1, FS_Interval DEF Heap
<1>3. IsFiniteSet(blocks) BY <1>1, <1>2, FS_Subset
<1> QED BY <1>1, <1>3 DEF SizeFn

LEMMA SizesIs ==
    ASSUME IInv, NEW T \in SUBSET blocks,
           NEW g, Sums(g, blocks, SizeFn(blocks))
    PROVE  Sizes(T) = g[T]
<1>1. IsFiniteSet(blocks) /\ IsFiniteSet(T) BY BlocksFinite, FS_Subset
<1>2. SizeFn(T) \in [T -> Nat] /\ \A b \in T : SizeFn(T)[b] = SizeFn(blocks)[b]
  <2>1. \A b \in blocks : mem[b + 1] \in Nat BY IInvFacts DEF BlockOK
  <2> QED BY <2>1 DEF SizeFn
<1>3. PICK k : Sums(k, T, SizeFn(T)) BY <1>1, <1>2, SumExists
<1>4. ASSUME NEW s \in SUBSET T, s # {} PROVE SizeOf(One(s)) = SizeFn(T)[One(s)]
  <2>1. One(s) \in T BY <1>1, <1>4, OneOf
  <2> QED BY <2>1 DEF SizeFn, SizeOf, Size
<1>5. ASSUME NEW h PROVE SizeSums(h, T) <=> Sums(h, T, SizeFn(T))
  <2> DEFINE F == [s \in SUBSET T |-> IF s = {} THEN 0 ELSE SizeOf(One(s)) + h[s \ {One(s)}]]
             G == [s \in SUBSET T |-> IF s = {} THEN 0 ELSE SizeFn(T)[One(s)] + h[s \ {One(s)}]]
  <2>1. F = G BY <1>4
  <2> QED BY <2>1 DEF SizeSums, Sums
<1>6. SizeSums(k, T) BY <1>3, <1>5
<1> DEFINE h == CHOOSE h : SizeSums(h, T)
<1>7. SizeSums(h, T) BY <1>6
<1>8. Sizes(T) = h[T] BY SizesChosen
<1> HIDE DEF h
<1>9. Sums(h, T, SizeFn(T)) BY <1>5, <1>7
<1>10. h[T] = g[T] BY <1>1, <1>2, <1>9, SumsAgree
<1> QED BY <1>8, <1>10

\* Every word of the region belongs to a block: up to the block at a, the sizes
\* and the headers add up to a.
LEMMA RegionAddsUp ==
    ASSUME IInv, NEW g \in [SUBSET blocks -> Nat], Sums(g, blocks, SizeFn(blocks))
    PROVE  g[blocks] + 5 * Cardinality(blocks) = HeapSize
<1> DEFINE upto(a) == {b \in blocks : b < a}
           W == {a \in Nat : /\ a \in blocks \/ a = HeapEnd
                             /\ g[upto(a)] + 5 * Cardinality(upto(a)) # a - HeapStart}
<1>1. /\ mem \in [Heap -> Int] /\ blocks \in SUBSET Heap /\ Tiles(mem, blocks)
      /\ \A c \in blocks : c \in Int /\ HeapStart <= c /\ BlockOK(mem, blocks, c)
  BY IInvFacts
<1>2. IsFiniteSet(blocks) /\ SizeFn(blocks) \in [blocks -> Nat] BY BlocksFinite
<1>3. HeapEnd = HeapStart + HeapSize /\ HeapSize \in Nat BY HeapAssumption DEF HeapEnd
<1>4. W = {}
  <2>1. SUFFICES ASSUME W # {} PROVE FALSE OBVIOUS
  <2>2. PICK a \in W : \A l \in W : a <= l
    <3>1. W \in SUBSET Nat OBVIOUS
    <3> HIDE DEF W
    <3> QED BY <2>1, <3>1, LeastExists
  <2>3. /\ a \in Nat /\ (a \in blocks \/ a = HeapEnd)
        /\ g[upto(a)] + 5 * Cardinality(upto(a)) # a - HeapStart
    OBVIOUS
  <2>4. a # HeapStart
    <3>1. SUFFICES ASSUME a = HeapStart PROVE FALSE OBVIOUS
    <3>2. upto(a) = {} BY <1>1, <3>1
    <3>3. g[{}] = 0 BY DEF Sums
    <3>4. Cardinality({}) = 0 BY FS_EmptySet
    <3>5. g[upto(a)] = 0 /\ Cardinality(upto(a)) = 0 BY <3>2, <3>3, <3>4
    <3> HIDE DEF upto, W
    <3> QED BY <2>3, <3>1, <3>5
  \* The block in front.
  <2>5. PICK b \in blocks : b + 5 + mem[b + 1] = a
    <3>1. CASE a \in blocks
      <4>1. mem[a + 4] \in blocks /\ mem[mem[a + 4] + 3] = a BY <1>1, <2>4, <3>1 DEF BlockOK
      <4>2. PICK b \in blocks : mem[b + 3] = a BY <4>1
      <4>3. a # NULL BY <1>1, <3>1, HeapRange DEF NULL
      <4>4. b + 5 + mem[b + 1] = a BY <1>1, <4>2, <4>3 DEF BlockOK
      <4> QED BY <4>4
    <3>2. CASE a = HeapEnd
      <4>1. HeapEnd - 1 \in Heap /\ HeapEnd \in Int BY HeapRange
      <4>2. PICK b \in blocks : b <= HeapEnd - 1 /\ HeapEnd - 1 < b + 5 + mem[b + 1]
        BY <1>1, <4>1, Cover
      <4>3. b \in Int /\ mem[b + 1] \in Nat /\ b + 5 + mem[b + 1] <= HeapEnd BY <1>1 DEF BlockOK
      <4>4. b + 5 + mem[b + 1] = a BY <3>2, <4>1, <4>2, <4>3
      <4> QED BY <4>4
    <3> QED BY <2>3, <3>1, <3>2
  <2>6. b \in Nat /\ mem[b + 1] \in Nat /\ b < a BY <1>1, <2>5, HeapRange DEF BlockOK
  <2>7. upto(a) \ {b} = upto(b) /\ b \in upto(a) /\ upto(a) \in SUBSET blocks /\ upto(b) \in SUBSET blocks
    <3>1. ASSUME NEW c \in blocks, c < a, c # b PROVE c < b
      <4>1. c \in Int /\ b \in Int BY <1>1
      <4>2. b < c => b + 5 + mem[b + 1] <= c BY <1>1 DEF BlockOK
      <4> QED BY <2>3, <2>5, <3>1, <4>1, <4>2
    <3>2. ASSUME NEW c \in blocks, c < b PROVE c < a /\ c # b
      <4>1. c \in Int /\ b \in Int BY <1>1
      <4> QED BY <2>3, <2>6, <3>2, <4>1
    <3> QED BY <2>6, <3>1, <3>2
  <2>8. g[upto(a)] = mem[b + 1] + g[upto(b)]
    <3> DEFINE U == upto(a)
    <3>1. U \in SUBSET blocks /\ b \in U /\ U \ {b} = upto(b) BY <2>7
    <3> HIDE DEF upto, U, W
    <3>2. g[U] = SizeFn(blocks)[b] + g[U \ {b}]
      <4>1. PICK B : B = blocks OBVIOUS
      <4>2. PICK f : f = SizeFn(blocks) OBVIOUS
      <4>3. PICK V \in SUBSET B : V = U BY <3>1, <4>1
      <4>4. IsFiniteSet(B) /\ f \in [B -> Nat] /\ g \in [SUBSET B -> Nat] /\ Sums(g, B, f) /\ b \in V
        BY <1>2, <3>1, <4>1, <4>2, <4>3
      <4>5. g[V] = f[b] + g[V \ {b}] BY <4>4, SumAdds
      <4> QED BY <4>2, <4>3, <4>5
    <3>3. SizeFn(blocks)[b] = mem[b + 1] BY DEF SizeFn
    <3> QED BY <3>1, <3>2, <3>3 DEF U
  <2>9. Cardinality(upto(a)) = Cardinality(upto(b)) + 1 /\ Cardinality(upto(b)) \in Nat
    <3> HIDE DEF upto, W
    <3>1. IsFiniteSet(upto(a)) /\ IsFiniteSet(upto(b)) BY <1>2, <2>7, FS_Subset
    <3>2. Cardinality(upto(b)) = Cardinality(upto(a)) - 1 BY <2>7, <3>1, FS_RemoveElement
    <3>3. Cardinality(upto(a)) \in Nat /\ Cardinality(upto(b)) \in Nat BY <3>1, FS_CardinalityType
    <3> QED BY <3>2, <3>3
  <2>10. g[upto(b)] + 5 * Cardinality(upto(b)) = b - HeapStart
    <3>1. b \notin W
      <4> HIDE DEF W
      <4> QED BY <2>2, <2>3, <2>6
    <3> QED BY <2>6, <3>1
  <2>11. g[upto(b)] \in Nat /\ HeapStart \in Nat BY <2>7, HeapRange
  <2> HIDE DEF upto, W
  <2> QED BY <2>3, <2>5, <2>6, <2>8, <2>9, <2>10, <2>11
<1>5. upto(HeapEnd) = blocks
  <2>1. \A c \in blocks : c < HeapEnd BY <1>1, HeapRange
  <2> QED BY <2>1
<1>6. g[upto(HeapEnd)] + 5 * Cardinality(upto(HeapEnd)) = HeapEnd - HeapStart
  BY <1>4, HeapRange
<1> HIDE DEF upto, W
<1>7. g[blocks] + 5 * Cardinality(blocks) = HeapEnd - HeapStart BY <1>5, <1>6
<1> QED BY <1>3, <1>7, HeapRange

\* The bytes in use are at least those that were asked for, block by block.
LEMMA UsedIsEnough ==
    ASSUME IInv, NEW g \in [SUBSET blocks -> Nat], Sums(g, blocks, SizeFn(blocks))
    PROVE  g[{b \in blocks : mem[b + 2] = 0}] >= MapThenSumSet(AskedFor, DOMAIN live)
<1> DEFINE used == {b \in blocks : mem[b + 2] = 0}
           P(U) == {b + 5 : b \in U}
<1>1. /\ IsFiniteSet(blocks) /\ SizeFn(blocks) \in [blocks -> Nat]
      /\ \A b \in blocks : b \in Int /\ mem[b + 1] \in Nat
  BY BlocksFinite, IInvFacts DEF BlockOK
<1>2. /\ \A p \in DOMAIN live : p \in Int /\ p - 5 \in used /\ live[p].size <= mem[p - 4]
      /\ \A b \in used : b + 5 \in DOMAIN live
  BY IInvFacts DEF Ledger, HeldOK
<1>3. \A p \in DOMAIN live : live[p].size \in Nat BY DEF IInv, TypeOK, Live
<1>4. P(used) = DOMAIN live
  <2>1. \A p \in DOMAIN live : p = (p - 5) + 5 BY <1>2
  <2> QED BY <1>2, <2>1
<1>5. PICK L : L = DOMAIN live OBVIOUS
<1>6. PICK f : f = [p \in L |-> live[p].size] OBVIOUS
<1>7. f \in [L -> Nat] BY <1>3, <1>5, <1>6
<1>8. IsFiniteSet(L)
  <2>1. PICK A : A = used OBVIOUS
  <2>2. IsFiniteSet(A) BY <1>1, <2>1, FS_Subset
  <2>3. IsFiniteSet({b + 5 : b \in A})
    <3> DEFINE F == [b \in A |-> b + 5]
    <3>1. F \in Surjection(A, {b + 5 : b \in A}) BY DEF Surjection
    <3> HIDE DEF F
    <3> QED BY <2>2, <3>1, FS_Surjection
  <2> QED BY <1>4, <1>5, <2>1, <2>3
<1>9. PICK h \in [SUBSET L -> Nat] : Sums(h, L, f) BY <1>7, <1>8, SumExists
<1>h. \A T \in SUBSET L : \A x \in T : h[T] = f[x] + h[T \ {x}]
  <2> SUFFICES ASSUME NEW T \in SUBSET L, NEW x \in T PROVE h[T] = f[x] + h[T \ {x}] OBVIOUS
  <2> HIDE DEF used, P
  <2> QED BY <1>7, <1>8, <1>9, SumAdds
<1>10. MapThenSumSet(AskedFor, L) = h[L]
  <2>1. ASSUME NEW s \in SUBSET L, s # {} PROVE AskedFor(One(s)) = f[One(s)]
    <3>1. One(s) \in L BY <1>8, <2>1, OneOf
    <3> QED BY <1>6, <3>1 DEF AskedFor
  <2>2. ASSUME NEW k PROVE AskedSums(k, L) <=> Sums(k, L, f)
    <3> DEFINE F == [s \in SUBSET L |-> IF s = {} THEN 0 ELSE AskedFor(One(s)) + k[s \ {One(s)}]]
               G == [s \in SUBSET L |-> IF s = {} THEN 0 ELSE f[One(s)] + k[s \ {One(s)}]]
    <3>1. F = G BY <2>1
    <3> QED BY <3>1 DEF AskedSums, Sums
  <2>3. AskedSums(h, L) BY <1>9, <2>2
  <2> DEFINE k == CHOOSE k : AskedSums(k, L)
  <2>4. AskedSums(k, L) BY <2>3
  <2>5. MapThenSumSet(AskedFor, L) = k[L] BY AskedChosen
  <2> HIDE DEF k
  <2>6. Sums(k, L, f) BY <2>2, <2>4
  <2>7. k[L] = h[L] BY <1>8, <1>9, <2>6, SumsAgree
  <2> QED BY <2>5, <2>7
<1>11. ASSUME NEW U \in SUBSET used PROVE g[U] >= h[P(U)]
  <2> DEFINE R == {i \in Nat : \E u \in SUBSET used : Cardinality(u) = i /\ ~(g[u] >= h[P(u)])}
  <2>1. SUFFICES ASSUME ~(g[U] >= h[P(U)]) PROVE FALSE OBVIOUS
  <2>2. \A u \in SUBSET used : IsFiniteSet(u) /\ Cardinality(u) \in Nat
    BY <1>1, FS_Subset, FS_CardinalityType
  <2>3. Cardinality(U) \in R BY <2>1, <2>2
  <2>4. PICK i \in R : \A l \in R : i <= l
    <3>1. R \in SUBSET Nat BY <2>3
    <3> HIDE DEF R
    <3> QED BY <2>3, <3>1, LeastExists
  <2>5. PICK u \in SUBSET used : Cardinality(u) = i /\ ~(g[u] >= h[P(u)]) OBVIOUS
  <2>6. u # {}
    <3>1. SUFFICES ASSUME u = {} PROVE FALSE OBVIOUS
    <3>2. P(u) = {} BY <3>1
    <3>3. g[{}] = 0 /\ h[{}] = 0 BY <1>9 DEF Sums
    <3>4. g[u] = 0 /\ h[P(u)] = 0 BY <3>1, <3>2, <3>3
    <3>5. ~(0 >= 0) BY <2>5, <3>4
    <3> QED BY <3>5
  <2>7. PICK b \in u : TRUE BY <2>6
  <2> DEFINE v == u \ {b}
  <2>8. v \in SUBSET used /\ Cardinality(v) = i - 1 /\ i - 1 \in Nat
    <3>1. v \in SUBSET used OBVIOUS
    <3>2. Cardinality(v) = i - 1 BY <2>2, <2>5, <2>7, FS_RemoveElement
    <3>3. Cardinality(v) \in Nat BY <2>2, <3>1
    <3> QED BY <3>1, <3>2, <3>3
  <2>9. g[v] >= h[P(v)]
    <3>1. i - 1 \notin R
      <4>1. i \in Nat BY <2>4
      <4> HIDE DEF R
      <4> QED BY <2>4, <4>1
    <3> HIDE DEF P, v
    <3> QED BY <2>8, <3>1
  <2>10. P(u) \ {b + 5} = P(v) /\ b + 5 \in P(u) /\ P(u) \in SUBSET L /\ P(v) \in SUBSET L
    <3>1. \A c \in u : c \in Int BY <1>1
    <3>2. \A c \in u : c + 5 = b + 5 => c = b BY <2>7, <3>1
    <3>3. P(u) \in SUBSET L BY <1>2, <1>5
    <3> QED BY <2>7, <3>2, <3>3
  <2>11. g[u] = mem[b + 1] + g[v]
    <3>1. PICK B : B = blocks OBVIOUS
    <3>2. PICK e : e = SizeFn(blocks) OBVIOUS
    <3>3. /\ IsFiniteSet(B) /\ e \in [B -> Nat] /\ g \in [SUBSET B -> Nat] /\ Sums(g, B, e)
          /\ u \in SUBSET B /\ b \in u
      BY <1>1, <2>7, <3>1, <3>2
    <3>4. g[u] = e[b] + g[u \ {b}] BY <3>3, SumAdds
    <3>5. e[b] = mem[b + 1] BY <2>7, <3>2 DEF SizeFn
    <3> QED BY <3>4, <3>5
  <2>12. h[P(u)] = live[b + 5].size + h[P(v)]
    <3> DEFINE X == P(u)
    <3>1. X \in SUBSET L /\ b + 5 \in X /\ X \ {b + 5} = P(v) BY <2>10
    <3> HIDE DEF X, P, v
    <3>2. h[X] = f[b + 5] + h[X \ {b + 5}]
      <4>1. PICK V \in SUBSET L : V = X BY <3>1
      <4>2. PICK c \in V : c = b + 5 BY <3>1, <4>1
      <4>3. h[V] = f[c] + h[V \ {c}] BY <1>h
      <4> QED BY <4>1, <4>2, <4>3
    <3>3. b + 5 \in L BY <3>1
    <3> QED BY <1>6, <3>1, <3>2, <3>3 DEF X
  <2>13. live[b + 5].size <= mem[b + 1] /\ live[b + 5].size \in Nat /\ mem[b + 1] \in Nat
    <3>1. b \in used /\ b + 5 \in DOMAIN live BY <1>2, <2>7
    <3>2. b \in Int /\ mem[b + 1] \in Nat BY <1>1, <3>1
    <3>3. (b + 5) - 4 = b + 1 BY <3>2
    <3>4. live[b + 5].size <= mem[(b + 5) - 4] BY <1>2, <3>1
    <3> QED BY <1>3, <3>1, <3>2, <3>3, <3>4
  <2>14. g[v] \in Nat /\ h[P(v)] \in Nat
    <3>1. v \in SUBSET blocks BY <2>8
    <3> HIDE DEF P, v
    <3> QED BY <2>10, <3>1
  <2> HIDE DEF P, v, R
  <2> QED BY <2>5, <2>9, <2>11, <2>12, <2>13, <2>14
<1>12. g[used] >= h[P(used)] BY <1>11
<1> HIDE DEF P, used
<1> QED BY <1>4, <1>5, <1>10, <1>12 DEF used

\* largest_free is the size of a free block, and no free block is larger.
LEMMA LargestIs ==
    ASSUME IInv
    PROVE  LET n == kheap_stats.largest_free IN
           /\ n \in Nat
           /\ \A b \in blocks : mem[b + 2] # 0 => mem[b + 1] <= n
           /\ n > 0 => \E b \in blocks : mem[b + 2] # 0 /\ mem[b + 1] = n
<1> DEFINE gaps == {b \in blocks : IsFree(mem, b)}
           sizes == {Size(mem, b) : b \in gaps}
           D == {HeapEnd - x : x \in sizes}
           n == kheap_stats.largest_free
<1>1. n = IF gaps = {} THEN 0 ELSE Max(sizes) BY DEF kheap_stats
<1>2. \A b \in blocks : b \in gaps <=> mem[b + 2] # 0 BY DEF IsFree
<1>3. \A b \in blocks : mem[b + 1] \in Nat /\ mem[b + 1] <= HeapEnd /\ HeapEnd \in Nat
  <2>1. \A c \in blocks : c \in Int /\ HeapStart <= c /\ BlockOK(mem, blocks, c) BY IInvFacts
  <2> QED BY <2>1, HeapRange DEF BlockOK
<1>4. CASE gaps = {}
  <2>1. n = 0 BY <1>1, <1>4
  <2> QED BY <1>2, <1>4, <2>1
<1>5. CASE gaps # {}
  <2>1. \A x \in sizes : x \in Nat /\ HeapEnd - x \in Nat BY <1>3 DEF Size
  <2>2. sizes # {} BY <1>5
  <2> HIDE DEF sizes
  <2>3. D \in SUBSET Nat /\ D # {} BY <2>1, <2>2
  <2>4. PICK d \in D : \A e \in D : d <= e
    <3> HIDE DEF D
    <3> QED BY <2>3, LeastExists
  <2>5. PICK x \in sizes : d = HeapEnd - x OBVIOUS
  <2>6. \A y \in sizes : x >= y
    <3> SUFFICES ASSUME NEW y \in sizes PROVE x >= y OBVIOUS
    <3>1. HeapEnd - x <= HeapEnd - y BY <2>4, <2>5
    <3>2. HeapEnd \in Nat BY HeapRange
    <3> QED BY <2>1, <3>1, <3>2
  <2>7. Max(sizes) \in sizes /\ \A y \in sizes : Max(sizes) >= y BY <2>6 DEF Max
  <2>8. n \in sizes /\ \A y \in sizes : n >= y BY <1>1, <1>5, <2>7
  <2> HIDE DEF n
  <2>9. n \in Nat BY <2>1, <2>8
  <2>10. \A b \in gaps : mem[b + 1] <= n
    <3> SUFFICES ASSUME NEW b \in gaps PROVE mem[b + 1] <= n OBVIOUS
    <3>1. mem[b + 1] \in sizes BY DEF sizes, Size
    <3> QED BY <2>1, <2>8, <2>9, <3>1
  <2>11. \E b \in gaps : mem[b + 1] = n BY <2>8 DEF sizes, Size
  <2> QED BY <1>2, <2>9, <2>10, <2>11 DEF n
<1> QED BY <1>4, <1>5

\* What Room says of the extents.
LEMMA RoomIs ==
    ASSUME IInv, NEW n \in Nat
    PROVE  Contract!Room(n) <=>
             \E lo \in HeapStart .. HeapEnd - (5 + n) :
                \A e \in Extents(mem, live) : lo + 5 + n <= e[1] \/ e[2] <= lo
<1>1. Alloc = Extents(mem, live) BY AllocIs
<1>2. Contract!Room(n) <=>
        \E lo \in HeapStart .. HeapEnd - (5 + n) :
           \A e \in Alloc : Contract!Apart(<<lo, lo + 5 + n>>, e)
  BY DEF Contract!Room, Header, Alloc
<1>3. \A lo : \A e \in Alloc : Contract!Apart(<<lo, lo + 5 + n>>, e) <=>
                 (lo + 5 + n <= e[1] \/ e[2] <= lo)
  BY DEF Contract!Apart
<1> QED BY <1>1, <1>2, <1>3

LEMMA StatsHold == IInv => StatsExact
<1> SUFFICES ASSUME IInv PROVE StatsExact OBVIOUS
<1> DEFINE n == kheap_stats.largest_free
<1>1. IsFiniteSet(blocks) /\ SizeFn(blocks) \in [blocks -> Nat] BY BlocksFinite
<1>2. PICK g \in [SUBSET blocks -> Nat] : Sums(g, blocks, SizeFn(blocks))
  <2>1. PICK B : B = blocks OBVIOUS
  <2>2. PICK f : f = SizeFn(blocks) OBVIOUS
  <2>3. IsFiniteSet(B) /\ f \in [B -> Nat] BY <1>1, <2>1, <2>2
  <2>4. \E g \in [SUBSET B -> Nat] : Sums(g, B, f) BY <2>3, SumExists
  <2> QED BY <2>1, <2>2, <2>4
<1>3. kheap_stats.total + Header * Cardinality(blocks) = HeapSize
  <2>1. Sizes(blocks) = g[blocks] BY <1>2, SizesIs
  <2>2. kheap_stats.total = g[blocks] BY <2>1 DEF kheap_stats
  <2>3. g[blocks] + 5 * Cardinality(blocks) = HeapSize BY <1>2, RegionAddsUp
  <2> QED BY <2>2, <2>3 DEF Header
<1>4. kheap_stats.used >= MapThenSumSet(AskedFor, DOMAIN live)
  <2> DEFINE used == {b \in blocks : mem[b + 2] = 0}
  <2>1. blocks \ {b \in blocks : IsFree(mem, b)} = used BY DEF IsFree
  <2>2. kheap_stats.used = Sizes(used) BY <2>1 DEF kheap_stats
  <2>3. used \in SUBSET blocks OBVIOUS
  <2>4. g[used] >= MapThenSumSet(AskedFor, DOMAIN live) BY <1>2, UsedIsEnough
  <2> HIDE DEF used
  <2>5. Sizes(used) = g[used] BY <1>2, <2>3, SizesIs
  <2> QED BY <2>2, <2>4, <2>5
<1>5. /\ n \in Nat
      /\ \A b \in blocks : mem[b + 2] # 0 => mem[b + 1] <= n
      /\ n > 0 => \E b \in blocks : mem[b + 2] # 0 /\ mem[b + 1] = n
  BY LargestIs
<1> HIDE DEF n
<1>6. ~Contract!Room(n + 1)
  <2>1. \A b \in blocks : mem[b + 1] \in Nat BY IInvFacts DEF BlockOK
  <2>2. \A b \in blocks : mem[b + 2] # 0 => mem[b + 1] < n + 1 BY <1>5, <2>1
  <2>3. n + 1 \in Nat /\ n + 1 > 0 BY <1>5
  <2>4. PICK k \in Nat : k = n + 1 BY <2>3
  <2>5. ~ \E lo \in HeapStart .. HeapEnd - (5 + k) :
             \A e \in Extents(mem, live) : lo + 5 + k <= e[1] \/ e[2] <= lo
    BY <2>2, <2>3, <2>4, NoGap
  <2>6. ~Contract!Room(k) BY <2>5, RoomIs
  <2> QED BY <2>4, <2>6
<1>7. ASSUME n > 0 PROVE Contract!Room(n)
  <2>1. PICK b \in blocks : mem[b + 2] # 0 /\ mem[b + 1] = n BY <1>5, <1>7
  <2>2. \A c \in blocks : c \in Int /\ HeapStart <= c /\ BlockOK(mem, blocks, c) BY IInvFacts
  <2>3. b \in Int /\ b \in HeapStart .. HeapEnd - (5 + n)
    BY <1>5, <2>1, <2>2, HeapRange DEF BlockOK
  <2>4. ASSUME NEW e \in Extents(mem, live) PROVE b + 5 + n <= e[1] \/ e[2] <= b
    <3>1. PICK p \in DOMAIN live : e = Extent(mem, p) BY DEF Extents
    <3>2. p \in Int /\ p - 5 \in blocks /\ mem[p - 3] = 0 BY IInvFacts DEF Ledger, HeldOK
    <3>3. PICK c \in blocks : c = p - 5 BY <3>2
    <3>4. c \in Int /\ p = c + 5 /\ p - 3 = c + 2 /\ p - 4 = c + 1 BY <3>2, <3>3
    <3>5. c # b BY <2>1, <3>2, <3>4
    <3>6. e[1] = c /\ e[2] = c + 5 + mem[c + 1] BY <3>1, <3>4 DEF Extent
    <3>7. (b < c => b + 5 + mem[b + 1] <= c) /\ (c < b => c + 5 + mem[c + 1] <= b)
      BY <2>2 DEF BlockOK
    <3> QED BY <2>1, <2>3, <3>4, <3>5, <3>6, <3>7
  <2>5. PICK k \in Nat : k = n BY <1>5
  <2>6. \E lo \in HeapStart .. HeapEnd - (5 + k) :
             \A e \in Extents(mem, live) : lo + 5 + k <= e[1] \/ e[2] <= lo
    BY <2>3, <2>4, <2>5
  <2>7. Contract!Room(k) BY <2>6, RoomIs
  <2> QED BY <2>5, <2>7
<1> QED BY <1>3, <1>4, <1>6, <1>7 DEF StatsExact, n

\* The figures of the `free' command are exact in every state kheap_stats()
\* can be called in: sizes and headers add up to the region, and largest_free
\* is the largest request that can still be granted, no more and no less.
THEOREM StatsAreExact == Spec => []StatsExact
BY Invariance, StatsHold, PTL
=============================================================================
