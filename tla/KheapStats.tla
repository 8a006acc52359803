----------------------------- MODULE KheapStats -----------------------------
(***************************************************************************)
(* kheap_stats() (mm/kheap.c), which the shell's `free' command prints: the *)
(* payload bytes on the list, those in use, and the largest free block.     *)
(***************************************************************************)
EXTENDS Kheap, FiniteSets, FiniteSetsExt

SizeOf(b) == Size(mem, b)
Sizes(bs) == MapThenSumSet(SizeOf, bs)

\* Mutant: the first free block counts as the largest.
kheap_stats_first ==
    LET gaps == {b \in blocks : IsFree(mem, b)}
    IN  [total        |-> Sizes(blocks),
         used         |-> Sizes(blocks \ gaps),
         largest_free |-> IF gaps = {} THEN 0 ELSE Size(mem, Min(gaps))]

kheap_stats ==
    LET gaps == {b \in blocks : IsFree(mem, b)}
    IN  [total        |-> Sizes(blocks),
         used         |-> Sizes(blocks \ gaps),
         largest_free |-> IF gaps = {} THEN 0
                          ELSE Max({Size(mem, b) : b \in gaps})]

AskedFor(p) == live[p].size

\* The figures `free' prints account for every word of the region, and
\* largest_free is the largest request that the heap can still grant, judged
\* from the live extents alone.
StatsExact ==
    LET st == kheap_stats
    IN  /\ st.total + Header * Cardinality(blocks) = HeapSize
        /\ st.used >= MapThenSumSet(AskedFor, DOMAIN live)
        /\ st.largest_free > 0 => Contract!Room(st.largest_free)
        /\ ~Contract!Room(st.largest_free + 1)

=============================================================================
