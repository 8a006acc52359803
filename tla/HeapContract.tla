---------------------------- MODULE HeapContract ----------------------------
(***************************************************************************)
(* What the kernel heap promises its callers, without blocks, headers or    *)
(* lists: every live allocation owns an extent of the heap region, extents  *)
(* never overlap and never move, and kmalloc() returns NULL only when no    *)
(* gap between the live extents could hold the request.                     *)
(*                                                                         *)
(* An extent <<lo, hi>> covers the addresses lo .. hi-1 and begins with     *)
(* Overhead words of bookkeeping.                                           *)
(***************************************************************************)
EXTENDS Integers

CONSTANTS Lo,          \* first address of the heap region
          Hi,          \* first address past it
          Overhead     \* bookkeeping in front of every allocation

VARIABLES alloc,       \* the set of live extents
          pending      \* size of the request being served, 0 if none

cvars == <<alloc, pending>>

Apart(e, f) == e[2] <= f[1] \/ f[2] <= e[1]

\* Some gap between the live extents could hold n more words and their
\* bookkeeping.
Room(n) ==
    \E lo \in Lo .. Hi - (Overhead + n) :
        \A e \in alloc : Apart(<<lo, lo + Overhead + n>>, e)

Init == alloc = {} /\ pending = 0

Request ==
    /\ pending = 0
    /\ pending' \in Nat \ {0}
    /\ UNCHANGED alloc

Grant(lo, hi) ==
    /\ pending > 0
    /\ lo + Overhead + pending <= hi
    /\ \A e \in alloc : Apart(<<lo, hi>>, e)
    /\ alloc' = alloc \cup {<<lo, hi>>}
    /\ pending' = 0

Refuse ==
    /\ pending > 0
    /\ ~Room(pending)
    /\ pending' = 0
    /\ UNCHANGED alloc

Release(e) ==
    /\ pending = 0
    /\ alloc' = alloc \ {e}
    /\ UNCHANGED pending

Next ==
    \/ Request
    \/ \E lo, hi \in Lo .. Hi : Grant(lo, hi)
    \/ Refuse
    \/ \E e \in alloc : Release(e)

Spec == Init /\ [][Next]_cvars
=============================================================================
