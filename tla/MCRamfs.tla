------------------------------- MODULE MCRamfs -------------------------------
(* A small disk: two names, one the beginning of the other, one long name    *)
(* that is cut to one of them, a handful of pointers shared by nodes and     *)
(* buffers, and paths that are relative, absolute, go through "..", and end  *)
(* in a slash.                                                               *)
EXTENDS Ramfs, TLC

Rel(comps, length) == [abs |-> FALSE, comps |-> comps, slash |-> FALSE, len |-> length]
Abs(comps, length) == [abs |-> TRUE, comps |-> comps, slash |-> FALSE, len |-> length]
Slashed(path) == [path EXCEPT !.slash = TRUE, !.len = @ + 1]

MCPaths == {Rel(<<"a">>, 1), Rel(<<"ab">>, 2), Rel(<<"a", "ab">>, 4), Rel(<<"..">>, 2),
            Abs(<<"a">>, 2), Slashed(Abs(<<>>, 0)), Slashed(Rel(<<"ab">>, 2))}
MCLongPaths == {Rel(<<"a">>, 1), Rel(<<"b">>, 1), Rel(<<"bb">>, 2)}
MCNested == {Rel(<<"a">>, 1), Rel(<<"..">>, 2)}
MCSpelled == ("" :> <<>>) @@ ("a" :> <<"a">>) @@ ("b" :> <<"b">>)
MCSpelledTwo == ("" :> <<>>) @@ ("a" :> <<"a">>) @@ ("ab" :> <<"a", "ab">>)
MCSpelledLong == MCSpelled @@ ("bb" :> <<"b", "bb">>)
MCTexts == {<<"x", "\n">>}
MCPreDirs == <<"a">>
MCSymmetry == Permutations(Ptrs \ {root})
=============================================================================
