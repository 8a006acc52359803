------------------------------ MODULE MCMemory ------------------------------
(* An image of 252 KiB, whose heap ends at 5372 KiB: machines with less RAM  *)
(* than that, exactly that, a few frames more, a partly filled large page,   *)
(* and more than the bitmap covers.                                          *)
EXTENDS Memory

MCLoaders ==
    [magic : {TRUE}, mem : {TRUE},
     mem_upper : {0, 3000, 4347, 4348, 4350, 4356, 4363, 7168, 7170, 9216, 1047560, 4193280}]
    \cup {[magic |-> FALSE, mem |-> TRUE, mem_upper |-> 4356],
          [magic |-> TRUE, mem |-> FALSE, mem_upper |-> 0]}
=============================================================================
