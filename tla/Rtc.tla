-------------------------------- MODULE Rtc --------------------------------
(***************************************************************************)
(* rtc_read() (drivers/rtc.c) against the MC146818 it reads.  The chip       *)
(* counts on while its registers are read one at a time: it raises the      *)
(* update-in-progress flag, changes the registers, and lowers the flag.     *)
(* The thread tests the flag, reads six registers, and starts over until    *)
(* two reads in a row agree; an interrupt handler may delay it anywhere, so *)
(* an update can begin behind the test of the flag.                         *)
(***************************************************************************)
EXTENDS Integers, Sequences

CONSTANTS Settings,    \* how the firmware left the clock: [bcd, h24, time]
          MaxUpdates   \* bound: seconds that pass in a behaviour

\* struct rtc_time, in the order in which read_raw() fills it.
Fields == <<"second", "minute", "hour", "day", "month", "year">>
Field  == {Fields[i] : i \in 1 .. 6}

\* What the clock can show: a 24-hour time and two digits of the year.
Time == [second : 0 .. 59, minute : 0 .. 59, hour : 0 .. 23,
         day : 1 .. 31, month : 1 .. 12, year : 0 .. 99]

DaysIn(m, y) == CASE m = 2 -> IF y % 4 = 0 THEN 29 ELSE 28
                  [] m \in {4, 6, 9, 11} -> 30
                  [] OTHER -> 31

ASSUME ClockAssumption ==
    /\ Settings \subseteq [bcd : BOOLEAN, h24 : BOOLEAN, time : Time]
    /\ \A s \in Settings : s.time.day <= DaysIn(s.time.month, s.time.year)
    /\ MaxUpdates \in Nat

VARIABLES status_b,   \* status register B: [bcd, h24]
          clock,      \* the time the chip shows
          update,     \* its update cycle: "none", "announced", "running"
          updates,    \* updates so far
          pc,         \* where rtc_read() is
          n,          \* registers read_raw() has read
          t, prev,    \* the two copies rtc_read() compares
          first,      \* it has nothing to compare with yet
          out,        \* what it returned last
          shown       \* auxiliary: times shown since it was called

chip   == <<status_b, clock, update, updates>>
thread == <<pc, n, t, prev, first, out>>
vars   == <<chip, thread, shown>>

-----------------------------------------------------------------------------
(* The chip.                                                                *)

\* The time one second later: a field advances when all faster ones wrap.
Later(c) ==
    LET wrapS == c.second = 59
        wrapM == wrapS /\ c.minute = 59
        wrapH == wrapM /\ c.hour = 23
        wrapD == wrapH /\ c.day = DaysIn(c.month, c.year)
        wrapY == wrapD /\ c.month = 12
    IN  [second |-> (c.second + 1) % 60,
         minute |-> IF wrapS THEN (c.minute + 1) % 60 ELSE c.minute,
         hour   |-> IF wrapM THEN (c.hour + 1) % 24 ELSE c.hour,
         day    |-> IF wrapD THEN 1 ELSE IF wrapH THEN c.day + 1 ELSE c.day,
         month  |-> IF wrapY THEN 1 ELSE IF wrapD THEN c.month + 1 ELSE c.month,
         year   |-> IF wrapY THEN (c.year + 1) % 100 ELSE c.year]

Stored(v) == IF status_b.bcd THEN (v \div 10) * 16 + (v % 10) ELSE v

\* A register's contents.  In 12-hour mode the hour is 1 to 12, with bit 7
\* set from noon on.
Register(c, f) ==
    IF f = "hour" /\ ~status_b.h24
    THEN Stored(IF c.hour % 12 = 0 THEN 12 ELSE c.hour % 12)
         + (IF c.hour >= 12 THEN 128 ELSE 0)
    ELSE Stored(c[f])

\* The flag goes up at least 244 us before the first register changes.
Announce ==
    /\ update = "none" /\ updates < MaxUpdates
    /\ update' = "announced" /\ updates' = updates + 1
    /\ UNCHANGED <<status_b, clock, thread, shown>>

Start ==
    /\ update = "announced"
    /\ update' = "running"
    /\ UNCHANGED <<status_b, clock, updates, thread, shown>>

Complete ==
    /\ update = "running"
    /\ update' = "none"
    /\ clock' = Later(clock)
    /\ shown' = shown \cup {clock'}
    /\ UNCHANGED <<status_b, updates, thread>>

\* What a read of a register returns: during the update the old or the new
\* contents.
cmos_read(f) ==
    {Register(clock, f)}
    \cup (IF update = "running" THEN {Register(Later(clock), f)} ELSE {})

-----------------------------------------------------------------------------
(* rtc_read().                                                              *)

NoTime == [f \in Field |-> 0]

Init ==
    /\ \E s \in Settings : status_b = [bcd |-> s.bcd, h24 |-> s.h24] /\ clock = s.time
    /\ update = "none" /\ updates = 0
    /\ pc = "idle" /\ n = 0 /\ t = NoTime /\ prev = NoTime
    /\ first = TRUE /\ out = NoTime /\ shown = {}

rtc_read ==
    /\ pc = "idle"
    /\ pc' = "wait" /\ first' = TRUE
    /\ shown' = {clock}
    /\ UNCHANGED <<chip, n, t, prev, out>>

\* The flag was clear when it was tested.
WaitOver ==
    /\ pc = "wait" /\ update = "none"
    /\ pc' = "read" /\ n' = 0
    /\ UNCHANGED <<chip, t, prev, first, out, shown>>

read_raw ==
    /\ pc = "read" /\ n < 6
    /\ \E v \in cmos_read(Fields[n + 1]) : t' = [t EXCEPT ![Fields[n + 1]] = v]
    /\ n' = n + 1
    /\ UNCHANGED <<chip, pc, prev, first, out, shown>>

\* Mutant: one read is enough.
Agree_at_once == TRUE

\* memcmp() finds no difference.
Agree == ~first /\ prev = t

\* Mutant: prev is set once, in front of the loop.
Again_keeps_first ==
    /\ pc = "read" /\ n = 6 /\ ~Agree
    /\ prev' = (IF first THEN t ELSE prev) /\ first' = FALSE
    /\ pc' = "wait" /\ n' = 0
    /\ UNCHANGED <<chip, t, out, shown>>

Again ==
    /\ pc = "read" /\ n = 6 /\ ~Agree
    /\ prev' = t /\ first' = FALSE
    /\ pc' = "wait" /\ n' = 0
    /\ UNCHANGED <<chip, t, out, shown>>

bcd_to_bin(v) == (v % 16) + (v \div 16) * 10

\* Bit 7 of the hour is carried over the conversion.
FromBcd(r) ==
    [f \in Field |-> IF f = "hour"
                     THEN bcd_to_bin(r[f] % 128) + 128 * (r[f] \div 128)
                     ELSE bcd_to_bin(r[f])]

From12Hour(h) == IF h >= 128 THEN ((h % 128) + 12) % 24 ELSE h

Normalised(r) ==
    LET b == IF status_b.bcd THEN FromBcd(r) ELSE r
    IN  [b EXCEPT !.hour = IF status_b.h24 THEN @ ELSE From12Hour(@),
                  !.year = @ + 2000]

Return ==
    /\ pc = "read" /\ n = 6 /\ Agree
    /\ out' = Normalised(t)
    /\ pc' = "idle" /\ n' = 0
    /\ UNCHANGED <<chip, t, prev, first, shown>>

Thread == rtc_read \/ WaitOver \/ read_raw \/ Again \/ Return

Next == Thread \/ Announce \/ Start \/ Complete

\* The CPU runs, and an update that was announced takes place.
Spec ==
    /\ Init /\ [][Next]_vars
    /\ WF_vars(WaitOver \/ read_raw \/ Again \/ Return)
    /\ WF_vars(Start) /\ WF_vars(Complete)

-----------------------------------------------------------------------------
(* Properties.                                                              *)

\* A date as rtc.h promises it: the full year, hours from 0 to 23.
Date(c) == [c EXCEPT !.year = 2000 + @]

\* The time returned is one the clock showed between the call and the
\* return, whatever format its registers are in: never a mixture of the
\* registers of two seconds.
DateShown == pc = "idle" /\ out # NoTime => out \in {Date(c) : c \in shown}

\* rtc_read() comes back: updates delay it, but each of them for one round.
ReadEnds == (pc # "idle") ~> (pc = "idle")
=============================================================================
