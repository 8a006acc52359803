------------------------------ MODULE MCTypist ------------------------------
(* A letter, a digit, the up and down arrows, another key of the arrow block *)
(* (Home), Caps Lock and one or both Shift keys.                             *)
EXTENDS Typist, TLC

MCLower == (30 :> 97) @@ (2 :> 49) @@ (1 :> 27)     \* 'a', '1', ESC
MCUpper == (30 :> 65) @@ (2 :> 33) @@ (1 :> 27)     \* 'A', '!', ESC
=============================================================================
