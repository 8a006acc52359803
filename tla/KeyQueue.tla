------------------------------ MODULE KeyQueue ------------------------------
(***************************************************************************)
(* What the keyboard driver promises the console: keys come out once each   *)
(* and in the order typed, and a key is lost only when at least Capacity    *)
(* keys are waiting.                                                        *)
(***************************************************************************)
EXTENDS Naturals, Sequences

CONSTANTS Capacity, Key

VARIABLES queue,    \* keys typed and not yet read
          out,      \* keys read, oldest first
          lost      \* how many keys were dropped

qvars == <<queue, out, lost>>

Init == queue = <<>> /\ out = <<>> /\ lost = 0

Type(k) ==
    /\ queue' = Append(queue, k)
    /\ UNCHANGED <<out, lost>>

Drop ==
    /\ Len(queue) >= Capacity
    /\ lost' = lost + 1
    /\ UNCHANGED <<queue, out>>

Read ==
    /\ queue # <<>>
    /\ out' = Append(out, Head(queue))
    /\ queue' = Tail(queue)
    /\ UNCHANGED lost

Next == (\E k \in Key : Type(k)) \/ Drop \/ Read

Spec == Init /\ [][Next]_qvars
=============================================================================
