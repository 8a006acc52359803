------------------------------- MODULE MCRtc -------------------------------
(* The clock just before the seconds, minutes, hours, days and years change, *)
(* in all four formats of status register B.                                *)
EXTENDS Rtc

At(h, m, s, d, mo, y) ==
    [second |-> s, minute |-> m, hour |-> h, day |-> d, month |-> mo, year |-> y]

Times == {At(23, 59, 58, 31, 12, 99), At(9, 59, 59, 28, 2, 24), At(19, 9, 58, 30, 4, 25)}
Noon  == At(11, 59, 59, 9, 10, 26)

\* 12-hour clocks away from noon and midnight.
MCSettings ==
    [bcd : BOOLEAN, h24 : {TRUE}, time : Times \cup {Noon}]
    \cup [bcd : BOOLEAN, h24 : {FALSE}, time : Times \ {At(23, 59, 58, 31, 12, 99)}]

MCNoon == [bcd : BOOLEAN, h24 : {FALSE}, time : {Noon}]
=============================================================================
