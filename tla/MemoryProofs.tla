---------------------------- MODULE MemoryProofs ----------------------------
(***************************************************************************)
(* Proofs about the memory layout and the frame bitmap, for every boot      *)
(* loader, every size of the image and any number of frames handed out.     *)
(*                                                                         *)
(* The invariant adds to the properties what kmain()'s order establishes:   *)
(* the heap is placed before the bitmap is built, the bitmap starts as the  *)
(* reserved frames, and the new directory is made from the final count of   *)
(* frames.                                                                  *)
(***************************************************************************)
EXTENDS Memory, FiniteSetTheorems, WellFoundedInduction, TLAPS

\* Which calls of kmain() have been made.
Placed == pc \in {"pmm_init", "paging_init", "running"}
Sized  == pc \in {"paging_init", "running"}

Booted ==
    /\ Placed => heap_start = ALIGN_UP(KERNEL_END, PAGE)
    /\ ~Sized => bitmap = {} /\ used_frames = 0
    /\ Sized => /\ total_frames >= 256
                /\ bitmap = (0 .. Reserved - 1) \cup held
                /\ held \cap (0 .. Reserved - 1) = {}
                /\ held \subseteq 0 .. total_frames - 1
    /\ pc # "running" => held = {}
    /\ pc = "running" => large = 0 .. Entries - 1 /\ ~identity

Inv == TypeOK /\ CounterExact /\ Booted

-----------------------------------------------------------------------------
(* Arithmetic.                                                              *)

\* Every nonempty set of frames has a lowest one: the loop of
\* pmm_alloc_frame() finds it.
LEMMA LowestExists ==
    ASSUME NEW S \in SUBSET Nat, S # {}
    PROVE  \E m \in S : \A n \in S : m <= n
<1> DEFINE R == {ss \in Nat \X Nat : ss[1] < ss[2]}
<1>1. IsWellFoundedOn(R, Nat) BY NatLessThanWellFounded DEF OpToRel
<1>2. \E m \in S : \A n \in S : ~(<<n, m>> \in R)
  <2> HIDE DEF R
  <2> QED BY <1>1, WFMin
<1>3. PICK m \in S : \A n \in S : ~(<<n, m>> \in R) BY <1>2
<1>4. ASSUME NEW n \in S PROVE m <= n
  <2>1. ~(<<n, m>> \in R) BY <1>3
  <2>2. n \in Nat /\ m \in Nat OBVIOUS
  <2>3. ~(n < m) BY <2>1, <2>2
  <2> QED BY <2>2, <2>3
<1> QED BY <1>4

\* The number of frames in a range from 0.
LEMMA UpTo ==
    ASSUME NEW n \in Nat
    PROVE  IsFiniteSet(0 .. n - 1) /\ Cardinality(0 .. n - 1) = n
<1>1. 0 \in Int /\ n - 1 \in Int OBVIOUS
<1>2. /\ IsFiniteSet(0 .. n - 1)
      /\ Cardinality(0 .. n - 1) = IF 0 > n - 1 THEN 0 ELSE (n - 1) - 0 + 1
  BY <1>1, FS_Interval
<1>3. (IF 0 > n - 1 THEN 0 ELSE (n - 1) - 0 + 1) = n OBVIOUS
<1> QED BY <1>2, <1>3

\* The heap begins on a page and ends within the frames that are reserved.
LEMMA Layout ==
    ASSUME heap_start = ALIGN_UP(KERNEL_END, PAGE)
    PROVE  /\ heap_start \in Nat /\ heap_start % PAGE = 0
           /\ Reserved \in Nat /\ 0 < Reserved /\ Reserved <= MAX_FRAMES
           /\ PAGE * Reserved < Word
BY LoaderAssumption DEF ALIGN_UP, PAGE, Reserved, kheap_end_addr

\* The number of frames fits the bitmap, whatever the loader says.
LEMMA FramesFit ==
    ASSUME NEW k \in Nat
    PROVE  /\ Frames(k) \in 0 .. MAX_FRAMES
           /\ k >= 1024 => Frames(k) >= 256
BY LoaderAssumption DEF Frames, PAGE

\* The entries cover every frame, and are never more than the window has.
LEMMA EntriesCover ==
    ASSUME total_frames \in 0 .. MAX_FRAMES
    PROVE  /\ Entries \in 0 .. Window
           /\ \A f \in 0 .. total_frames - 1 : (f * PAGE) \div LARGE \in 0 .. Entries - 1
BY LoaderAssumption DEF Entries, pmm_total_kib, PAGE, LARGE

-----------------------------------------------------------------------------
(* The invariant.                                                           *)

\* The invariant holds when boot.S calls kmain().
LEMMA InvInit == Init => Inv
<1> SUFFICES ASSUME Init PROVE Inv OBVIOUS
<1>1. TypeOK
  BY FS_EmptySet, LoaderAssumption DEF Init, TypeOK, PAGE
<1>2. CounterExact BY FS_EmptySet DEF Init, CounterExact
<1>3. Booted BY DEF Init, Booted, Placed, Sized
<1> QED BY <1>1, <1>2, <1>3 DEF Inv

\* The check of the magic.
LEMMA KmainKeeps == Inv /\ kmain => Inv'
<1> SUFFICES ASSUME Inv, kmain PROVE Inv' OBVIOUS
<1>1. TypeOK' BY DEF Inv, kmain, TypeOK, pmm
<1>2. CounterExact' BY DEF Inv, kmain, CounterExact, pmm
<1>3. Booted' BY DEF Inv, kmain, Booted, Placed, Sized, pmm
<1> QED BY <1>1, <1>2, <1>3 DEF Inv

\* The heap gets its place.
LEMMA KheapInitKeeps == Inv /\ kheap_init => Inv'
<1> SUFFICES ASSUME Inv, kheap_init PROVE Inv' OBVIOUS
<1>1. heap_start' \in Nat /\ heap_start' % PAGE = 0
  BY LoaderAssumption DEF kheap_init, ALIGN_UP, PAGE
<1>2. TypeOK' BY <1>1 DEF Inv, kheap_init, TypeOK, pmm
<1>3. CounterExact' BY DEF Inv, kheap_init, CounterExact, pmm
<1>4. Booted' BY DEF Inv, kheap_init, Booted, Placed, Sized, pmm
<1> QED BY <1>2, <1>3, <1>4 DEF Inv

\* The bitmap is built, or the kernel panics.
LEMMA PmmInitKeeps == Inv /\ pmm_init => Inv'
<1> SUFFICES ASSUME Inv, pmm_init PROVE Inv' OBVIOUS
<1>1. CASE ~mbi.mem /\ pc' = "panic" /\ UNCHANGED pmm
  <2>1. TypeOK' BY <1>1 DEF Inv, pmm_init, TypeOK, pmm
  <2>2. CounterExact' BY <1>1 DEF Inv, CounterExact, pmm
  <2>3. Booted' BY <1>1 DEF Inv, pmm_init, Booted, Placed, Sized, pmm
  <2> QED BY <2>1, <2>2, <2>3 DEF Inv
<1>2. CASE /\ mbi.mem
           /\ total_frames' = Frames(1024 + mbi.mem_upper)
           /\ bitmap' = 0 .. reserved_end - 1
           /\ used_frames' = reserved_end
           /\ pc' = "paging_init"
  <2>1. /\ heap_start = ALIGN_UP(KERNEL_END, PAGE)
        /\ held = {}
    BY DEF Inv, Booted, pmm_init, Placed
  <2>2. Reserved \in Nat /\ 0 < Reserved /\ Reserved <= MAX_FRAMES BY <2>1, Layout
  <2>3. mbi.mem_upper \in Nat BY LoaderAssumption DEF Inv, TypeOK
  <2>4. total_frames' \in 0 .. MAX_FRAMES /\ total_frames' >= 256
    BY <1>2, <2>3, FramesFit
  <2>5. IsFiniteSet(bitmap') /\ Cardinality(bitmap') = reserved_end
    BY <1>2, <2>2, FS_Interval DEF reserved_end
  <2>6. bitmap' \subseteq 0 .. MAX_FRAMES - 1 /\ used_frames' \in Nat
    BY <1>2, <2>2, LoaderAssumption DEF reserved_end
  <2>7. TypeOK' BY <1>2, <2>1, <2>4, <2>5, <2>6 DEF Inv, TypeOK, pmm_init
  <2>8. CounterExact' BY <1>2, <2>5 DEF CounterExact
  <2>9. Booted'
    <3>1. Reserved' = Reserved BY DEF pmm_init, Reserved, kheap_end_addr, ALIGN_UP
    <3>2. held' = {} BY <2>1 DEF pmm_init
    <3> QED BY <1>2, <2>1, <2>4, <3>1, <3>2 DEF Booted, Placed, Sized, reserved_end, pmm_init
  <2> QED BY <2>7, <2>8, <2>9 DEF Inv
<1> QED BY <1>1, <1>2 DEF pmm_init

\* The new directory is loaded.
LEMMA PagingInitKeeps == Inv /\ paging_init => Inv'
<1> SUFFICES ASSUME Inv, paging_init PROVE Inv' OBVIOUS
<1>1. Entries \in 0 .. Window BY EntriesCover DEF Inv, TypeOK
<1>2. large' \subseteq 0 .. Window - 1 BY <1>1, LoaderAssumption DEF paging_init
<1>3. TypeOK' BY <1>2 DEF Inv, paging_init, TypeOK, pmm
<1>4. CounterExact' BY DEF Inv, paging_init, CounterExact, pmm
<1>5. Entries' = Entries BY DEF paging_init, pmm, Entries, pmm_total_kib
<1>6. Reserved' = Reserved BY DEF paging_init, Reserved, kheap_end_addr, ALIGN_UP
<1>7. Booted' BY <1>5, <1>6 DEF Inv, paging_init, Booted, Placed, Sized, pmm
<1> QED BY <1>3, <1>4, <1>7 DEF Inv

\* A frame is handed out.
LEMMA AllocKeeps == Inv /\ pmm_alloc_frame => Inv'
<1> SUFFICES ASSUME Inv, pmm_alloc_frame PROVE Inv' OBVIOUS
<1> DEFINE f == CHOOSE f \in Available : \A g \in Available : f <= g
<1>1. f \in Available
  <2>1. Available \in SUBSET Nat /\ Available # {}
    BY DEF Inv, TypeOK, Available, pmm_alloc_frame
  <2> QED BY <2>1, LowestExists
<1>2. mark_used(f)
  BY DEF pmm_alloc_frame
<1>3. /\ held' = held \cup {f}
      /\ pc = "running"
      /\ UNCHANGED <<mbi, pc, heap_start, total_frames, large, identity>>
  BY DEF pmm_alloc_frame
<1> HIDE DEF f
<1>4. f \in 0 .. total_frames - 1 /\ f \notin bitmap BY <1>1 DEF Available
<1>5. bitmap' = bitmap \cup {f} /\ used_frames' = used_frames + 1
  BY <1>2, <1>4 DEF mark_used
<1>6. IsFiniteSet(bitmap') /\ Cardinality(bitmap') = Cardinality(bitmap) + 1
  BY <1>4, <1>5, FS_AddElement DEF Inv, TypeOK
<1>7. TypeOK'
  <2>1. f \in 0 .. MAX_FRAMES - 1 BY <1>4, LoaderAssumption DEF Inv, TypeOK
  <2> QED BY <1>3, <1>5, <1>6, <2>1 DEF Inv, TypeOK
<1>8. CounterExact' BY <1>5, <1>6 DEF Inv, CounterExact
<1>9. Reserved' = Reserved /\ Entries' = Entries
  BY <1>3 DEF Reserved, kheap_end_addr, ALIGN_UP, Entries, pmm_total_kib
<1>10. Booted'
  <2>1. f \notin 0 .. Reserved - 1 BY <1>3, <1>4 DEF Inv, Booted, Sized
  <2> QED BY <1>3, <1>4, <1>5, <1>9, <2>1 DEF Inv, Booted, Placed, Sized
<1> QED BY <1>7, <1>8, <1>10 DEF Inv

\* Freeing a frame that is held, or one that is not in use.
LEMMA FreeKeeps ==
    ASSUME Inv, NEW f \in held \cup {Reserved, Reserved + 1, total_frames}, pmm_free_frame(f)
    PROVE  Inv'
<1>1. /\ bitmap' = bitmap \ {f} /\ used_frames' = used_frames - 1
      /\ held' = held \ {f}
      /\ f < total_frames /\ f \in bitmap
      /\ pc = "running"
      /\ UNCHANGED <<mbi, pc, heap_start, total_frames, large, identity>>
  BY DEF pmm_free_frame
<1>2. Reserved \in Nat BY <1>1, Layout DEF Inv, Booted, Placed
<1>3. f \notin 0 .. Reserved - 1
  BY <1>1, <1>2 DEF Inv, Booted, Sized
<1>4. IsFiniteSet(bitmap') /\ Cardinality(bitmap') = Cardinality(bitmap) - 1
  BY <1>1, FS_RemoveElement DEF Inv, TypeOK
<1>5. Cardinality(bitmap') \in Nat BY <1>4, FS_CardinalityType
<1>6. CounterExact' BY <1>1, <1>4 DEF Inv, CounterExact
<1>7. used_frames' \in Nat BY <1>5, <1>6 DEF CounterExact
<1>8. TypeOK' BY <1>1, <1>4, <1>7 DEF Inv, TypeOK
<1>9. Reserved' = Reserved /\ Entries' = Entries
  BY <1>1 DEF Reserved, kheap_end_addr, ALIGN_UP, Entries, pmm_total_kib
<1>10. Booted' BY <1>1, <1>3, <1>9 DEF Inv, Booted, Placed, Sized
<1> QED BY <1>6, <1>8, <1>10 DEF Inv

\* Nothing happens.
LEMMA IdleKeeps == Inv /\ UNCHANGED vars => Inv'
<1> SUFFICES ASSUME Inv, UNCHANGED vars PROVE Inv' OBVIOUS
<1>1. TypeOK' BY DEF Inv, vars, TypeOK, pmm
<1>2. CounterExact' BY DEF Inv, vars, CounterExact, pmm
<1>3. Reserved' = Reserved /\ Entries' = Entries
  BY DEF vars, pmm, Reserved, kheap_end_addr, ALIGN_UP, Entries, pmm_total_kib
<1>4. Booted' BY <1>3 DEF Inv, vars, Booted, Placed, Sized, pmm
<1> QED BY <1>1, <1>2, <1>4 DEF Inv

\* The invariant holds from power on.
LEMMA Invariant == Spec => []Inv
<1>1. Init => Inv BY InvInit
<1>2. Inv /\ [Next]_vars => Inv'
  BY KmainKeeps, KheapInitKeeps, PmmInitKeeps, PagingInitKeeps, AllocKeeps, FreeKeeps,
     IdleKeeps DEF Next, Idle
<1> QED BY <1>1, <1>2, PTL DEF Spec

-----------------------------------------------------------------------------
(* The properties.                                                          *)

\* pmm_init() and pmm_alloc_frame() set no bit beyond the MAX_FRAMES the bitmap
\* has, and paging_init() makes no entry beyond the kernel's window, for every
\* amount of memory the boot loader reports, however little or much.
THEOREM TypeCorrect == Spec => []TypeOK
<1>1. Inv => TypeOK BY DEF Inv
<1> QED BY <1>1, Invariant, PTL

\* The counter that pmm_init(), pmm_alloc_frame() and pmm_free_frame() keep
\* is the number of bits set, repeated and stray frees included.
THEOREM CounterHolds == Spec => []CounterExact
<1>1. Inv => CounterExact BY DEF Inv
<1> QED BY <1>1, Invariant, PTL

\* pmm_alloc_frame() never hands out a frame of the kernel, of its heap, of
\* another caller, or beyond the RAM.
THEOREM FramesAreExclusive == Spec => []FramesExclusive
<1>1. Inv => FramesExclusive BY DEF Inv, Booted, Sized, FramesExclusive
<1> QED BY <1>1, Invariant, PTL

\* paging_init()'s directory maps every frame there is, the screen and, if
\* there is RAM for it, the heap, and no longer maps address 0.
THEOREM EverythingMapped == Spec => []AllMapped
<1>1. ASSUME Inv, pc = "running" PROVE AllMapped
  <2>1. /\ ~identity /\ large = 0 .. Entries - 1
        /\ total_frames \in 0 .. MAX_FRAMES /\ total_frames >= 256
        /\ heap_start = ALIGN_UP(KERNEL_END, PAGE)
    BY <1>1 DEF Inv, TypeOK, Booted, Placed, Sized
  <2>2. \A f \in 0 .. total_frames - 1 : Mapped(f)
    BY <2>1, EntriesCover DEF Mapped
  <2>3. Mapped(184) BY <2>1, <2>2
  <2>4. Reserved \in Nat BY <2>1, Layout
  <2>5. Reserved <= total_frames => \A f \in 0 .. Reserved - 1 : Mapped(f)
    BY <2>1, <2>2, <2>4
  <2> QED BY <2>1, <2>2, <2>3, <2>5 DEF AllMapped
<1>2. Inv => AllMapped BY <1>1 DEF AllMapped
<1> QED BY <1>2, Invariant, PTL

\* A difference that fits is printed as it is; a negative one wraps to a
\* figure that is not 0.
LEMMA Wraps ==
    ASSUME NEW x \in Int, NEW w \in Nat, w > 0
    PROVE  /\ 0 <= x /\ x < w => x % w = x
           /\ -w < x /\ x < 0 => x % w # 0
OBVIOUS

\* cmd_free()'s last column is the RAM that is left if and only if the RAM
\* holds the kernel and its heap.
THEOREM FreeIsHonest == Spec => []FreeHonest
<1>1. ASSUME Inv, pc = "running" PROVE FreeHonest
  <2> DEFINE t == total_frames
             u == used_frames
             ram == 0 .. t - 1
  <2>1. /\ t \in Nat /\ PAGE * t < Word /\ u \in Nat
        /\ heap_start = ALIGN_UP(KERNEL_END, PAGE)
        /\ bitmap = (0 .. Reserved - 1) \cup held
        /\ held \cap (0 .. Reserved - 1) = {}
        /\ held \subseteq ram
        /\ IsFiniteSet(bitmap) /\ u = Cardinality(bitmap)
    BY <1>1, LoaderAssumption DEF Inv, TypeOK, CounterExact, Booted, Placed, Sized, PAGE
  <2>2. Reserved \in Nat /\ 0 < Reserved /\ PAGE * Reserved < Word BY <2>1, Layout
  <2>3. cmd_free = (PAGE * t - PAGE * u) % Word
    BY <2>1 DEF cmd_free, pmm_total_kib, pmm_used_kib, PAGE
  <2>4. IsFiniteSet(ram) /\ Cardinality(ram) = t
    <3>1. t \in Nat BY <2>1
    <3> QED BY <3>1, UpTo
  <2>5. CASE Reserved <= t
    <3>1. \A f \in 0 .. Reserved - 1 : f \in ram BY <2>1, <2>2, <2>5
    <3>2. ram \cap bitmap = bitmap BY <2>1, <3>1
    <3>3. Cardinality(ram \ bitmap) = Cardinality(ram) - Cardinality(ram \cap bitmap)
      BY <2>4, FS_Difference
    <3>4. Cardinality(Available) = t - u BY <2>1, <2>4, <3>2, <3>3 DEF Available
    <3>5. u <= t
      <4>1. bitmap \in SUBSET ram BY <3>2
      <4> QED BY <2>1, <2>4, <4>1, FS_Subset
    <3> HIDE DEF t, u
    <3>6. PAGE * t - PAGE * u \in Int /\ 0 <= PAGE * t - PAGE * u /\ PAGE * t - PAGE * u < Word
      BY <2>1, <3>5, LoaderAssumption DEF PAGE
    <3>7. cmd_free = PAGE * t - PAGE * u BY <2>3, <3>6, Wraps, LoaderAssumption
    <3>8. PAGE * (t - u) = PAGE * t - PAGE * u BY <2>1 DEF PAGE
    <3> QED BY <2>5, <3>4, <3>7, <3>8 DEF FreeHonest, t
  <2>6. CASE t < Reserved
    <3>1. t - 1 < Reserved BY <2>1, <2>2, <2>6
    <3>2. \A f \in ram : f \in 0 .. Reserved - 1 BY <2>1, <2>2, <3>1
    <3>3. held = {} BY <2>1, <3>2
    <3>4. bitmap = 0 .. Reserved - 1 BY <2>1, <3>3
    <3>5. u = Reserved
      <4>1. Cardinality(0 .. Reserved - 1) = Reserved BY <2>2, UpTo
      <4>2. u = Cardinality(0 .. Reserved - 1) BY <2>1, <3>4
      <4> QED BY <4>1, <4>2
    <3>6. Available = {} BY <3>2, <3>4 DEF Available
    <3>7. PAGE * Cardinality(Available) = 0 BY <3>6, FS_EmptySet DEF PAGE
    <3>8. PAGE * t - PAGE * u \in Int /\ -Word < PAGE * t - PAGE * u /\ PAGE * t - PAGE * u < 0
      BY <2>1, <2>2, <2>6, <3>5, LoaderAssumption DEF PAGE
    <3> HIDE DEF t, u
    <3>9. (PAGE * t - PAGE * u) % Word # 0
      BY <3>8, Wraps, LoaderAssumption
    <3> QED BY <2>1, <2>2, <2>3, <2>6, <3>7, <3>9 DEF FreeHonest, t
  <2> QED BY <2>1, <2>2, <2>5, <2>6
<1>2. Inv => FreeHonest BY <1>1 DEF FreeHonest
<1> QED BY <1>2, Invariant, PTL
=============================================================================
