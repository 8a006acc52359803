--------------------------- MODULE MCCommandLine ---------------------------
(* Lines made of a command's name, arguments and operators, all lines of up  *)
(* to four characters, every file of up to three characters and some longer  *)
(* ones.                                                                     *)
EXTENDS CommandLine, TLC

MCCode == ("a" :> 97) @@ ("b" :> 98) @@ (" " :> 32) @@ ("\n" :> 10)

F == <<"f">>
N == <<"-", "n">>
MCFileNames == {F}

Plain(w)  == [word |-> w, quoted |-> FALSE]
Quoted(w) == [word |-> w, quoted |-> TRUE]

Commands ==
    {<<Plain(<<"w", "c">>), Plain(F)>>,
     <<Plain(<<"w", "c">>), Plain(F), Plain(<<"a">>), Plain(F)>>,
     <<Plain(<<"g", "r", "e", "p">>), Plain(<<"a">>), Plain(F)>>,
     <<Plain(<<"g", "r", "e", "p">>), Quoted(<<" ">>), Plain(F)>>,
     <<Plain(<<"h", "e", "a", "d">>), Plain(F)>>,
     <<Plain(<<"h", "e", "a", "d">>), Plain(N), Plain(<<"1">>), Plain(F)>>,
     <<Plain(<<"h", "e", "a", "d">>), Plain(F), Plain(N), Plain(<<"0">>)>>,
     <<Plain(<<"h", "e", "a", "d">>), Plain(N), Plain(<<"0", "2">>), Plain(F)>>,
     <<Plain(<<"h", "e", "x", "d", "u", "m", "p">>), Plain(F)>>,
     <<Plain(<<"e", "c", "h", "o">>), Quoted(<<"a", " ", "b">>), Quoted(<<>>)>>,
     <<Plain(<<"e", "c", "h", "o">>), Plain(<<"a", ">">>), Quoted(<<"b", " ">>)>>,
     <<Plain(<<"h">>), Plain(F)>>}

Tails ==
    {<<>>, <<Plain(<<">">>), Plain(<<"b">>)>>, <<Plain(<<">", ">">>), Quoted(<<"b", " ">>)>>,
     <<Plain(<<">">>)>>, <<Plain(<<"a">>), Plain(<<">">>), Plain(<<"b">>)>>}

MCTyped    == {c \o t : c \in Commands, t \in Tails}
MCRawLines == BoundedSeq({"a", " ", "\"", ">"}, 4)
MCFiles    == BoundedSeq({"a", " ", "\n"}, 3)
              \cup {<<"b", "a", "b", "a">>, <<"b", "b", "b", "a">>, <<"a", "b", "\n", "b", "\n">>, <<"b", "\n", "\n", "a", "a">>}

Conversions ==
    [conv : {"d"}, flags : {<<>>, <<"-">>, <<"0">>, <<"-", "0">>},
     width : {<<>>, <<"3">>, <<"1", "2">>}, arg : {0, 9, 10, 4095, -17}]
    \cup [conv : {"u", "x"}, flags : {<<>>, <<"-">>, <<"0">>, <<"0", "-">>},
          width : {<<>>, <<"1">>, <<"4">>}, arg : {0, 7, 16, 255, 65535}]
    \cup [conv : {"s"}, flags : {<<>>, <<"-">>, <<"0">>}, width : {<<>>, <<"3">>},
          arg : {<<>>, <<"a">>, <<"a", "b", "c", "d">>}]
    \cup [conv : {"c"}, flags : {<<>>, <<"-">>, <<"0">>}, width : {<<>>, <<"2">>}, arg : {"a"}]

Around(c) == [conv |-> "", flags |-> <<>>, width |-> <<>>, arg |-> c]
Second    == [conv : {"u"}, flags : {<<>>}, width : {<<"2">>}, arg : {5, 123}]
             \cup [conv : {"s"}, flags : {<<"-">>}, width : {<<"3">>}, arg : {<<"b">>}]
MCCalls   == {<<Around("["), c, Around("]")>> : c \in Conversions}
             \cup {<<Around("["), c, d, Around("]")>> : c \in Conversions, d \in Second}
             \cup {<<c, Around("7"), d>> : c \in Conversions, d \in Second}
=============================================================================
