--------------------------- MODULE MCConsoleInput ---------------------------
(* The console with two keys of the US layout (Typist has the others) and a  *)
(* serial line that sends text, Enter, Backspace and escape sequences.       *)
EXTENDS ConsoleInput, TLC

MCLower == (30 :> 97) @@ (2 :> 49)     \* 'a', '1'
MCUpper == (30 :> 65) @@ (2 :> 33)     \* 'A', '!'

MCKeys  == {30, 2}
MCBytes == {13, 127, 27, 91, 65, 66}   \* CR DEL ESC [ A B
=============================================================================
