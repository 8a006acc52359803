------------------------------- MODULE Kheap --------------------------------
(***************************************************************************)
(* The kernel heap (mm/kheap.c): first fit over a doubly linked list of     *)
(* blocks that tile a fixed region, headers stored in the region itself.    *)
(*                                                                         *)
(* mem is the region, one integer per 32-bit word; addresses and sizes are  *)
(* counted in words (all of the code's are multiples of 4 bytes once        *)
(* kmalloc() has rounded a size up).  A header is five words, see struct    *)
(* block.  `free' is a byte in the C structure and a word here: nothing     *)
(* reads the three padding bytes behind it.                                 *)
(*                                                                         *)
(* Clients are the rest of the kernel: they ask for blocks, write into the  *)
(* words they asked for, and free what they hold.  Interrupt handlers never *)
(* touch the heap, so no operation is interleaved with another one.         *)
(***************************************************************************)
EXTENDS Integers

CONSTANTS HeapStart,   \* word address of the region
          HeapSize,    \* its size in words (HEAP_SIZE / 4)
          Requests,    \* sizes the clients ask for, in words
          Words,       \* values the clients store
          Garbage      \* what the region holds before kheap_init()

NULL        == 0
Header      == 5             \* sizeof(struct block) / 4
MinSplit    == 4             \* MIN_SPLIT / 4
BLOCK_MAGIC == 1380012116    \* 0x52415054, "RAPT"

ASSUME HeapAssumption ==
    /\ HeapStart \in Nat \ {0}
    /\ HeapSize \in Nat
    /\ HeapSize > Header

\* The sum in ALIGN_UP wraps only for requests within 8 bytes of 4 GiB, and
\* no caller asks for more than a file's contents.
MaxRequest == 1073741821

ASSUME ClientAssumption ==
    /\ \A n \in Requests : n \in Nat /\ n <= MaxRequest
    /\ Words \subseteq Int
    /\ Garbage \subseteq Int /\ Garbage # {}

VARIABLES mem,      \* the words of the region
          blocks,   \* auxiliary: the headers reachable from heap_head
          live,     \* auxiliary: what the clients hold, see Live below
          pc,       \* "idle", "scan" (inside kmalloc's loop) or "panic"
          cur,      \* kmalloc's loop variable b
          asked,    \* the size kmalloc() was called with
          zero      \* the call came from kzalloc()

vars == <<mem, blocks, live, pc, cur, asked, zero>>

HeapEnd == HeapStart + HeapSize        \* kheap_end_addr()
Heap    == HeapStart .. HeapEnd - 1

\* live maps each pointer a client holds to the size it asked for and to what
\* it knows the words to hold: {} for a fresh block, {v} once they are all v.
Live == [size : Nat \ {0}, val : SUBSET Int]

-----------------------------------------------------------------------------
(* struct block: the five words of a header, read from memory m at b.       *)

Magic(m, b)  == m[b]
Size(m, b)   == m[b + 1]
IsFree(m, b) == m[b + 2] # 0
NextOf(m, b) == m[b + 3]
PrevOf(m, b) == m[b + 4]

ALIGN_UP(x) == ((x + 1) \div 2) * 2    \* to 8 bytes

\* A store through a pointer.  Nothing keeps it inside the region: a store
\* outside adds the word it falls on to the memory.
Put(m, b, v) == [a \in DOMAIN m \cup {b} |-> IF a = b THEN v ELSE m[a]]

\* The header of a free block.
PutHeader(m, b, size, next, prev) ==
    Put(Put(Put(Put(Put(m, b, BLOCK_MAGIC), b + 1, size), b + 2, 1), b + 3, next), b + 4, prev)

\* Mutant: the last word is missed.
Fill_short(m, p, n, v) ==
    [a \in DOMAIN m \cup p .. p + n - 2 |-> IF a \in p .. p + n - 2 THEN v ELSE m[a]]

\* memset and the clients' stores: words p .. p + n - 1 become v.
Fill(m, p, n, v) ==
    [a \in DOMAIN m \cup p .. p + n - 1 |-> IF a \in p .. p + n - 1 THEN v ELSE m[a]]

-----------------------------------------------------------------------------
(* The list operations, from memory to memory.                              *)

\* Mutant: no block is ever split.
Splits_never(m, b, n) == FALSE

\* The remainder behind an allocation of n words is worth a block.
Splits(m, b, n) == Size(m, b) >= n + Header + MinSplit

split(m, b, n) ==
    LET rest  == b + Header + n
        after == NextOf(m, b)
        m1    == PutHeader(m, rest, Size(m, b) - n - Header, after, b)
        m2    == IF after # NULL THEN Put(m1, after + 4, rest) ELSE m1
    IN  IF Splits(m, b, n)
        THEN Put(Put(m2, b + 1, n), b + 3, rest)
        ELSE m

Merges(m, b) == NextOf(m, b) # NULL /\ IsFree(m, b) /\ IsFree(m, NextOf(m, b))

\* Mutant: the block behind keeps its link to the header that went away.
merge_next_stale_prev(m, b) ==
    IF ~Merges(m, b) THEN m
    ELSE Put(Put(m, b + 1, Size(m, b) + Header + Size(m, NextOf(m, b))),
             b + 3, NextOf(m, NextOf(m, b)))

merge_next(m, b) ==
    LET n  == NextOf(m, b)
        m1 == Put(Put(m, b + 1, Size(m, b) + Header + Size(m, n)), b + 3, NextOf(m, n))
    IN  IF ~Merges(m, b) THEN m
        ELSE IF NextOf(m, n) # NULL THEN Put(m1, NextOf(m, n) + 4, b)
        ELSE m1

\* The header that merge_next(m, b) takes off the list, if any.
Absorbed(m, b) == IF Merges(m, b) THEN {NextOf(m, b)} ELSE {}

-----------------------------------------------------------------------------

\* kheap_init(): one free block over the whole region.
Init ==
    /\ \E g \in Garbage :
           mem = PutHeader([a \in Heap |-> g], HeapStart, HeapSize - Header, NULL, NULL)
    /\ blocks = {HeapStart}
    /\ live = [p \in {} |-> 0]
    /\ pc = "idle" /\ cur = NULL /\ asked = 0 /\ zero = FALSE

Panic ==
    /\ pc' = "panic"
    /\ UNCHANGED <<mem, blocks, live, cur, asked, zero>>

\* Mutant: the loop starts one block late.
kmalloc_skips_head(n, z) ==
    /\ pc = "idle"
    /\ n # 0
    /\ pc' = "scan" /\ cur' = NextOf(mem, HeapStart) /\ asked' = n /\ zero' = z
    /\ UNCHANGED <<mem, blocks, live>>

\* kmalloc(n), or kzalloc(n) when z, up to the loop.  A request for zero
\* bytes returns NULL at once and changes nothing.
kmalloc(n, z) ==
    /\ pc = "idle"
    /\ n # 0
    /\ pc' = "scan" /\ cur' = HeapStart /\ asked' = n /\ zero' = z
    /\ UNCHANGED <<mem, blocks, live>>

Return ==
    pc' = "idle" /\ cur' = NULL /\ asked' = 0 /\ zero' = FALSE

Fits(m, b, n) == IsFree(m, b) /\ Size(m, b) >= n

\* Mutant: the block handed out stays marked free.
Take_unmarked ==
    LET n == ALIGN_UP(asked)
        p == cur + Header
    IN  /\ mem' = split(mem, cur, n)
        /\ blocks' = IF Splits(mem, cur, n) THEN blocks \cup {p + n} ELSE blocks
        /\ live' = [q \in DOMAIN live \cup {p} |->
                      IF q = p THEN [size |-> asked, val |-> {}] ELSE live[q]]
        /\ Return

\* The allocation itself: split, mark, and kzalloc's memset.
Take ==
    LET n  == ALIGN_UP(asked)
        p  == cur + Header
        m1 == Put(split(mem, cur, n), cur + 2, 0)
    IN  /\ mem' = IF zero THEN Fill(m1, p, asked, 0) ELSE m1
        /\ blocks' = IF Splits(mem, cur, n) THEN blocks \cup {p + n} ELSE blocks
        /\ live' = [q \in DOMAIN live \cup {p} |->
                      IF q = p THEN [size |-> asked, val |-> IF zero THEN {0} ELSE {}]
                               ELSE live[q]]
        /\ Return

\* Mutant: the loop does not move on.
Scan_stuck ==
    /\ pc = "scan"
    /\ cur # NULL
    /\ IF Fits(mem, cur, ALIGN_UP(asked)) THEN Take ELSE UNCHANGED vars

\* One round of kmalloc's loop.
Scan ==
    /\ pc = "scan"
    /\ cur # NULL
    /\ IF Magic(mem, cur) # BLOCK_MAGIC THEN Panic
       ELSE IF Fits(mem, cur, ALIGN_UP(asked)) THEN Take
       ELSE /\ cur' = NextOf(mem, cur)
            /\ UNCHANGED <<mem, blocks, live, pc, asked, zero>>

\* Mutant: the loop gives up on the last block without looking at it.
OutOfHeap_early ==
    /\ pc = "scan"
    /\ cur = NULL \/ NextOf(mem, cur) = NULL
    /\ Return
    /\ UNCHANGED <<mem, blocks, live>>

\* The loop ran off the list: NULL, out of heap.
OutOfHeap ==
    /\ pc = "scan"
    /\ cur = NULL
    /\ Return
    /\ UNCHANGED <<mem, blocks, live>>

\* Mutants: no merge with the block in front; the flag is set before it is
\* checked.
kfree_forward_only(p) ==
    LET b  == p - Header
        m1 == Put(mem, b + 2, 1)
    IN  /\ pc = "idle"
        /\ mem' = merge_next(m1, b)
        /\ blocks' = blocks \ Absorbed(m1, b)
        /\ live' = [r \in DOMAIN live \ {p} |-> live[r]]
        /\ UNCHANGED <<pc, cur, asked, zero>>

kfree_marks_first(p) ==
    /\ pc = "idle"
    /\ IF IsFree(Put(mem, p - 3, 1), p - Header) THEN Panic ELSE UNCHANGED vars

\* kfree(p) for a pointer the caller holds.  kfree(NULL) does nothing.
kfree(p) ==
    LET b  == p - Header
        m1 == Put(mem, b + 2, 1)
        m2 == merge_next(m1, b)
        q  == PrevOf(m2, b)
        back == q # NULL /\ IsFree(m2, q)
    IN  /\ pc = "idle"
        /\ IF Magic(mem, b) # BLOCK_MAGIC \/ IsFree(mem, b) THEN Panic
           ELSE /\ mem' = IF back THEN merge_next(m2, q) ELSE m2
                /\ blocks' = blocks \ (Absorbed(m1, b) \cup
                                       IF back THEN Absorbed(m2, q) ELSE {})
                /\ live' = [r \in DOMAIN live \ {p} |-> live[r]]
                /\ UNCHANGED <<pc, cur, asked, zero>>

\* A client writes all the words it asked for.
Store(p, v) ==
    /\ pc = "idle"
    /\ mem' = Fill(mem, p, live[p].size, v)
    /\ live' = [live EXCEPT ![p].val = {v}]
    /\ UNCHANGED <<blocks, pc, cur, asked, zero>>

Next ==
    \/ \E n \in Requests, z \in BOOLEAN : kmalloc(n, z)
    \/ Scan
    \/ OutOfHeap
    \/ \E p \in DOMAIN live : kfree(p)
    \/ \E p \in DOMAIN live, v \in Words : Store(p, v)

Spec == Init /\ [][Next]_vars

\* The kernel has one thread and interrupt handlers return: a call that was
\* entered keeps running.  Nobody is obliged to allocate or free.
FairSpec == Spec /\ WF_vars(Scan \/ OutOfHeap)
-----------------------------------------------------------------------------
(* Properties.                                                              *)

\* In memory m with the headers bs on the list: where the block at b ends.
End(m, b) == b + Header + Size(m, b)

\* Shapes of the variables.  The words written are those of the region: no
\* header, link, memset or client's store has fallen outside.
TypeOK ==
    /\ mem \in [Heap -> Int]
    /\ blocks \subseteq Heap
    /\ live \in [DOMAIN live -> Live]
    /\ pc \in {"idle", "scan", "panic"}
    /\ cur \in Heap \cup {NULL}
    /\ asked \in Nat /\ (pc = "scan" => asked > 0)
    /\ zero \in BOOLEAN

\* Every header on the list is intact, and the blocks lie inside the region.
HeadersOK(m, bs) ==
    \A b \in bs :
        /\ Magic(m, b) = BLOCK_MAGIC
        /\ Size(m, b) \in Nat
        /\ End(m, b) <= HeapEnd

\* No two blocks share a word: split() and merge_next() keep the sizes and
\* the addresses in step.
Disjoint(m, bs) == \A a, b \in bs : a < b => End(m, a) <= b

\* The list is in address order without gaps, from heap_head to the end of
\* the region, and prev is the inverse of next.  merge_next() relies on it
\* when it takes list neighbours for neighbours in memory.
Linked(m, bs) ==
    /\ HeapStart \in bs
    /\ PrevOf(m, HeapStart) = NULL
    /\ \A b \in bs :
           /\ NextOf(m, b) = IF End(m, b) = HeapEnd THEN NULL ELSE End(m, b)
           /\ End(m, b) # HeapEnd => End(m, b) \in bs /\ PrevOf(m, End(m, b)) = b
           /\ b # HeapStart =>
                 PrevOf(m, b) \in bs /\ NextOf(m, PrevOf(m, b)) = b

Tiles(m, bs) == HeadersOK(m, bs) /\ Disjoint(m, bs) /\ Linked(m, bs)

\* The blocks on the list tile the region, header by header, after any
\* sequence of splits and merges (kheap.c:5-14).
Tiling == Tiles(mem, blocks)

\* "coalesced with both neighbours on free" (kheap.c:12-13): no two
\* neighbouring blocks are both free.
Coalesced ==
    \A b \in blocks :
        IsFree(mem, b) /\ End(mem, b) # HeapEnd => ~IsFree(mem, End(mem, b))

\* The blocks marked used are those the clients hold, and each is as large as
\* was asked for: nothing is lost and nothing is handed out twice.
Accounted ==
    /\ DOMAIN live = {b + Header : b \in {c \in blocks : ~IsFree(mem, c)}}
    /\ \A p \in DOMAIN live : live[p].size <= Size(mem, p - Header)

\* What a client stored, or kzalloc() zeroed, is still there: no operation on
\* any other block writes into a block in use.
DataIntact ==
    \A p \in DOMAIN live :
        \A v \in live[p].val : \A a \in p .. p + live[p].size - 1 : mem[a] = v

\* A block in use never hides as much room as split() would have given back.
BoundedWaste ==
    \A p \in DOMAIN live :
        Size(mem, p - Header) < ALIGN_UP(live[p].size) + Header + MinSplit

\* First fit: every block the loop has passed is used or too small.
FirstFit ==
    pc = "scan" =>
        /\ cur = NULL \/ cur \in blocks
        /\ \A b \in blocks :
               (cur = NULL \/ b < cur) => ~Fits(mem, b, ALIGN_UP(asked))

\* Clients that free only what they hold, once, never trip a corruption check
\* (kheap.c:83, 123, 125).
NoPanic == pc # "panic"

\* The heap keeps the promises of HeapContract: extents of live blocks never
\* overlap, never move, and kmalloc() fails only when no gap is large enough.
Contract == INSTANCE HeapContract
    WITH Lo <- HeapStart, Hi <- HeapEnd, Overhead <- Header,
         alloc   <- {<<p - Header, p + Size(mem, p - Header)>> : p \in DOMAIN live},
         pending <- IF pc = "scan" THEN ALIGN_UP(asked) ELSE 0

HeapContractHolds == Contract!Spec

\* kmalloc() returns: its loop cannot run around a cycle of the list.
KmallocReturns == (pc = "scan") ~> (pc = "idle")

=============================================================================
