------------------------------- MODULE Memory -------------------------------
(***************************************************************************)
(* How kmain() (kernel/main.c) lays memory out: kheap_init() fixes the      *)
(* heap's place, pmm_init() (mm/pmm.c) builds the frame bitmap from what    *)
(* the boot loader says and reserves everything below the heap's end, and   *)
(* paging_init() (mm/paging.c) replaces boot.S's page directory, which maps *)
(* the whole first GiB, by one as large as the RAM.  Afterwards frames are  *)
(* handed out and taken back.                                               *)
(*                                                                         *)
(* Addresses are physical and counted in KiB, frames in pages of 4 KiB.     *)
(* The bitmap is the set of frames whose bit is set.                        *)
(***************************************************************************)
EXTENDS Integers, FiniteSets

CONSTANTS Loaders,      \* multiboot infos: [magic, mem (flag), mem_upper]
          KERNEL_END,   \* where the image ends, in KiB
          HEAP_SIZE,    \* in KiB
          MAX_FRAMES,   \* bits of the bitmap
          Window,       \* 1024 - KERNEL_PDE: entries of the kernel's window
          Word,         \* 2^32 in the build: what unsigned figures wrap at
          MaxHeld       \* bound: frames handed out at a time

PAGE  == 4               \* PAGE_SIZE in KiB
LARGE == 4096            \* a large page in KiB

\* The kernel is loaded at 1 MiB; the window is as large as the bitmap.  Kernel
\* and heap lie within the GiB that boot.S maps and the bitmap covers: that is
\* the image's doing, pmm_init() does not test it.
ASSUME LoaderAssumption ==
    /\ Loaders \subseteq [magic : BOOLEAN, mem : BOOLEAN, mem_upper : Nat]
    /\ KERNEL_END \in Nat /\ KERNEL_END >= 1024 /\ HEAP_SIZE \in Nat /\ MaxHeld \in Nat
    /\ MAX_FRAMES \in Nat /\ MAX_FRAMES >= 256
    /\ Window \in Nat /\ PAGE * MAX_FRAMES <= LARGE * Window
    /\ KERNEL_END + HEAP_SIZE + PAGE <= PAGE * MAX_FRAMES
    /\ Word \in Nat /\ Word > PAGE * MAX_FRAMES

VARIABLES mbi,            \* what the boot loader passed
          pc,             \* kmain()'s next call, then "running" or "panic"
          heap_start,
          bitmap, total_frames, used_frames,
          large,          \* present entries of the kernel's window
          identity,       \* the first large page is also mapped at 0
          held            \* auxiliary: frames handed out

pmm  == <<bitmap, total_frames, used_frames>>
vars == <<mbi, pc, heap_start, pmm, large, identity, held>>

Init ==
    /\ mbi \in Loaders
    /\ pc = "kmain" /\ heap_start = 0
    /\ bitmap = {} /\ total_frames = 0 /\ used_frames = 0
    /\ large = 0 .. Window - 1 /\ identity = TRUE
    /\ held = {}

-----------------------------------------------------------------------------
(* Booting.                                                                 *)

\* The check of the magic, up to keyboard_init().
kmain ==
    /\ pc = "kmain"
    /\ pc' = IF mbi.magic THEN "kheap_init" ELSE "panic"
    /\ UNCHANGED <<mbi, heap_start, pmm, large, identity, held>>

ALIGN_UP(x, a) == ((x + a - 1) \div a) * a

kheap_init ==
    /\ pc = "kheap_init"
    /\ heap_start' = ALIGN_UP(KERNEL_END, PAGE)
    /\ pc' = "pmm_init"
    /\ UNCHANGED <<mbi, pmm, large, identity, held>>

kheap_end_addr == heap_start + HEAP_SIZE

\* Frames 0 .. Reserved - 1 begin below the heap's end.
Reserved == ALIGN_UP(kheap_end_addr, PAGE) \div PAGE

Frames(kib) == IF kib \div PAGE > MAX_FRAMES THEN MAX_FRAMES ELSE kib \div PAGE

\* Mutant: the loop stops one frame short.
reserved_end_short == Reserved - 1

\* How many frames the loop marks; the bitmap was empty.
reserved_end == Reserved

pmm_init ==
    /\ pc = "pmm_init"
    /\ \/ /\ ~mbi.mem
          /\ pc' = "panic" /\ UNCHANGED pmm
       \/ /\ mbi.mem
          /\ total_frames' = Frames(1024 + mbi.mem_upper)
          /\ bitmap' = 0 .. reserved_end - 1
          /\ used_frames' = reserved_end
          /\ pc' = "paging_init"
    /\ UNCHANGED <<mbi, heap_start, large, identity, held>>

pmm_total_kib == total_frames * PAGE
pmm_used_kib  == used_frames * PAGE

\* Mutant: a last page that is not full is left out.
Entries_rounded_down == (pmm_total_kib \div 1024) \div 4

\* Full MiB first, then full large pages, both rounded up.
Entries ==
    LET mib     == (pmm_total_kib + 1023) \div 1024
        entries == (mib + 3) \div 4
    IN  IF entries > Window THEN Window ELSE entries

paging_init ==
    /\ pc = "paging_init"
    /\ large' = 0 .. Entries - 1
    /\ identity' = FALSE
    /\ pc' = "running"
    /\ UNCHANGED <<mbi, heap_start, pmm, held>>

-----------------------------------------------------------------------------
(* Frames.                                                                  *)

\* Mutant: the counter is left behind.
mark_used_uncounted(f) == bitmap' = bitmap \cup {f} /\ UNCHANGED used_frames

mark_used(f) ==
    /\ bitmap' = bitmap \cup {f}
    /\ used_frames' = IF f \in bitmap THEN used_frames ELSE used_frames + 1

Available == (0 .. total_frames - 1) \ bitmap

\* The loop finds the lowest frame whose bit is clear.
pmm_alloc_frame ==
    /\ pc = "running" /\ Cardinality(held) < MaxHeld
    /\ Available # {}
    /\ LET f == CHOOSE f \in Available : \A g \in Available : f <= g
       IN  mark_used(f) /\ held' = held \cup {f}
    /\ UNCHANGED <<mbi, pc, heap_start, total_frames, large, identity>>

\* Mutant: a frame that is free already is counted again.
pmm_free_frame_uncounted(f) ==
    /\ pc = "running"
    /\ f < total_frames
    /\ bitmap' = bitmap \ {f} /\ used_frames' = used_frames - 1
    /\ held' = held \ {f}
    /\ UNCHANGED <<mbi, pc, heap_start, total_frames, large, identity>>

\* Ignored unless the frame is in use.
pmm_free_frame(f) ==
    /\ pc = "running"
    /\ f < total_frames /\ f \in bitmap
    /\ bitmap' = bitmap \ {f} /\ used_frames' = used_frames - 1
    /\ held' = held \ {f}
    /\ UNCHANGED <<mbi, pc, heap_start, total_frames, large, identity>>

\* The figure in cmd_free's third column, an unsigned difference.
cmd_free == (pmm_total_kib - pmm_used_kib) % Word

\* The CPU is parked, or nothing asks for a frame.
Idle == pc \in {"panic", "running"} /\ UNCHANGED vars

\* Callers give back what they hold, or by mistake a frame that is not in
\* use or not there; never one that somebody else holds or that is reserved.
Next ==
    \/ kmain \/ kheap_init \/ pmm_init \/ paging_init
    \/ pmm_alloc_frame
    \/ \E f \in held \cup {Reserved, Reserved + 1, total_frames} : pmm_free_frame(f)
    \/ Idle

Spec == Init /\ [][Next]_vars

-----------------------------------------------------------------------------
(* Properties.                                                              *)

TypeOK ==
    /\ mbi \in Loaders
    /\ pc \in {"kmain", "kheap_init", "pmm_init", "paging_init", "running", "panic"}
    /\ heap_start \in Nat /\ heap_start % PAGE = 0
    /\ bitmap \subseteq 0 .. MAX_FRAMES - 1 /\ IsFiniteSet(bitmap)
    /\ total_frames \in 0 .. MAX_FRAMES /\ used_frames \in Nat
    /\ large \subseteq 0 .. Window - 1 /\ identity \in BOOLEAN
    /\ held \subseteq bitmap

\* used_frames counts the bits, through every allocation and every free,
\* repeated and stray ones included.
CounterExact == used_frames = Cardinality(bitmap)

\* A frame handed out is RAM, belongs neither to the kernel nor to its heap,
\* and stays marked until it is given back; nothing else is marked.
FramesExclusive ==
    pc = "running" =>
        /\ bitmap = (0 .. Reserved - 1) \cup held
        /\ held \cap (0 .. Reserved - 1) = {}
        /\ held \subseteq 0 .. total_frames - 1

Mapped(f) == (f * PAGE) \div LARGE \in large

\* Where there is RAM for the heap, all of the heap, the screen's memory and
\* every frame that can be handed out are mapped, and page 0 is not.
AllMapped ==
    pc = "running" =>
        /\ ~identity /\ Mapped(184)
        /\ \A f \in 0 .. total_frames - 1 : Mapped(f)
        /\ Reserved <= total_frames => \A f \in 0 .. Reserved - 1 : Mapped(f)

\* free's figure is the RAM that is left exactly if the RAM holds the kernel
\* and its heap; otherwise it wraps.
FreeHonest ==
    pc = "running" =>
        (cmd_free = PAGE * Cardinality(Available)
            <=> Reserved <= total_frames)
=============================================================================
