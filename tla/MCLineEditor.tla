---------------------------- MODULE MCLineEditor ----------------------------
(* Two letters, a prompt of one character, commands that print nothing or a  *)
(* line (one of them with a tab and a carriage return), on a tiny screen.    *)
EXTENDS LineEditor

MCPrompt  == <<"$">>
MCOutputs == {<<>>, <<"o", "\n">>, <<"\t", "o", "\r", "\n">>}
=============================================================================
