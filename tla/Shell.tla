------------------------------- MODULE Shell --------------------------------
(***************************************************************************)
(* What the parts of the shell have in common (include/raptor/shell.h).      *)
(***************************************************************************)

CONSTANT SHELL_LINE_MAX      \* characters of a line and its NUL, 256 in the code
=============================================================================
