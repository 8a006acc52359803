------------------------------ MODULE MCKheap -------------------------------
(* The heap on a small region, with requests that leave remainders just      *)
(* below and just above the size that split() keeps.                         *)
EXTENDS KheapStats

MCRequests == {0, 1, 7}
MCWords    == {0}
MCGarbage  == {0}
=============================================================================
