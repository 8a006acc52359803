------------------------------ MODULE RtcProofs -----------------------------
(***************************************************************************)
(* rtc_read() never mixes the registers of two seconds, for every date and  *)
(* every format of the clock and wherever its updates fall.  The times that *)
(* the clock showed since the call are a chain h[0] .. h[k]; the proof notes *)
(* of which of them each register may have been read.                       *)
(***************************************************************************)
EXTENDS Rtc, RecursionProofs, TLAPS

\* A date that exists.
Valid == {c \in Time : c.day <= DaysIn(c.month, c.year)}

LEMMA FieldIs == Field = {"second", "minute", "hour", "day", "month", "year"}
<1>1. 1 .. 6 = {1, 2, 3, 4, 5, 6} OBVIOUS
<1>2. /\ Fields[1] = "second" /\ Fields[2] = "minute" /\ Fields[3] = "hour"
      /\ Fields[4] = "day" /\ Fields[5] = "month" /\ Fields[6] = "year"
  BY DEF Fields
<1> HIDE DEF Fields
<1> QED BY <1>1, <1>2 DEF Field

LEMMA FieldsOf ==
    ASSUME NEW c \in Valid
    PROVE  /\ c.second \in 0 .. 59 /\ c.minute \in 0 .. 59 /\ c.hour \in 0 .. 23
           /\ c.day \in 1 .. 31 /\ c.month \in 1 .. 12 /\ c.year \in 0 .. 99
           /\ c.day <= DaysIn(c.month, c.year)
BY DEF Valid, Time

LEMMA DaysType ==
    ASSUME NEW m \in Int, NEW y \in Int
    PROVE  DaysIn(m, y) \in 28 .. 31
BY DEF DaysIn

LEMMA LaterIs ==
    ASSUME NEW c \in Valid
    PROVE  /\ Later(c).second = (c.second + 1) % 60
           /\ c.second # 59 => /\ Later(c).minute = c.minute /\ Later(c).hour = c.hour
                               /\ Later(c).day = c.day /\ Later(c).month = c.month
                               /\ Later(c).year = c.year
BY DEF Later

LEMMA LaterValid ==
    ASSUME NEW c \in Valid
    PROVE  Later(c) \in Valid
<1> DEFINE e == Later(c)
<1>0. /\ c.second \in 0 .. 59 /\ c.minute \in 0 .. 59 /\ c.hour \in 0 .. 23
      /\ c.day \in 1 .. 31 /\ c.month \in 1 .. 12 /\ c.year \in 0 .. 99
      /\ c.day <= DaysIn(c.month, c.year)
  BY FieldsOf
<1>1. e.second \in 0 .. 59 /\ e.minute \in 0 .. 59 /\ e.hour \in 0 .. 23
  BY <1>0 DEF Later
<1> DEFINE d == DaysIn(c.month, c.year)
           wH == c.second = 59 /\ c.minute = 59 /\ c.hour = 23
           wD == wH /\ c.day = d
           wY == wD /\ c.month = 12
<1>2. /\ e.day = IF wD THEN 1 ELSE IF wH THEN c.day + 1 ELSE c.day
      /\ e.month = IF wY THEN 1 ELSE IF wD THEN c.month + 1 ELSE c.month
      /\ e.year = IF wY THEN (c.year + 1) % 100 ELSE c.year
  BY DEF Later
<1>3. d \in 28 .. 31 BY <1>0, DaysType
<1>4. e.month \in 1 .. 12 /\ e.year \in 0 .. 99 /\ e.day \in 1 .. 31 /\ DaysIn(e.month, e.year) \in 28 .. 31
  <2> HIDE DEF e, d
  <2>1. e.month \in 1 .. 12 BY <1>0, <1>2
  <2>2. e.year \in 0 .. 99 BY <1>0, <1>2
  <2>3. e.day \in 1 .. 31 BY <1>0, <1>2, <1>3 DEF d
  <2> QED BY <2>1, <2>2, <2>3, DaysType, SMTT(60)
<1>5. e.day <= DaysIn(e.month, e.year)
  <2> HIDE DEF e
  <2>1. CASE wD BY <1>2, <1>4, <2>1
  <2>2. CASE ~wD
    <3>1. e.month = c.month /\ e.year = c.year BY <1>2, <2>2
    <3>2. e.day <= d
      <4> HIDE DEF d
      <4> QED BY <1>0, <1>2, <1>3, <2>2 DEF d
    <3> QED BY <3>1, <3>2
  <2> QED BY <2>1, <2>2
<1>6. e \in Time BY <1>1, <1>4 DEF Later, Time
<1> HIDE DEF e
<1>7. e \in Valid BY <1>5, <1>6 DEF Valid
<1> QED BY <1>7 DEF e

\* The times the clock shows one after the other.
Chain(h, k) == h \in [0 .. k -> Valid] /\ \A i \in 0 .. k - 1 : h[i + 1] = Later(h[i])

\* The seconds count on.
LEMMA Seconds ==
    ASSUME NEW k \in Nat, NEW h, Chain(h, k)
    PROVE  \A i \in 0 .. k : h[i].second = (h[0].second + i) % 60
<1> DEFINE a == h[0].second
           S == {i \in 0 .. k : h[i].second = (a + i) % 60}
<1>0. h[0] \in Valid BY DEF Chain
<1>1. a \in 0 .. 59 BY <1>0, FieldsOf
<1>2. 0 \in S
  <2> HIDE DEF a
  <2>1. (a + 0) % 60 = a BY <1>1
  <2> QED BY <2>1 DEF a
<1>3. ASSUME NEW i \in 0 .. k - 1, i \in S PROVE i + 1 \in S
  <2>1. i \in 0 .. k /\ i + 1 \in 0 .. k BY <1>3
  <2>2. h[i + 1] = Later(h[i]) /\ h[i] \in Valid BY <2>1 DEF Chain
  <2>3. h[i + 1].second = (h[i].second + 1) % 60 BY <2>2, LaterIs
  <2>4. h[i].second = (a + i) % 60 BY <1>3
  <2> HIDE DEF a
  <2>5. (((a + i) % 60) + 1) % 60 = (a + (i + 1)) % 60 BY <1>1, <2>1
  <2> QED BY <2>1, <2>3, <2>4, <2>5
<1> HIDE DEF S
<1>4. \A i \in 0 .. k : i \in S BY <1>2, <1>3, RangeInduction
<1> QED BY <1>4 DEF S

\* What changes only when a minute is over.
Slow == {"minute", "hour", "day", "month", "year"}

LEMMA LaterSlow ==
    ASSUME NEW c \in Valid, c.second # 59, NEW f \in Slow
    PROVE  Later(c)[f] = c[f]
BY LaterIs DEF Slow

\* Between two ends of a minute it stays.
LEMMA Steady ==
    ASSUME NEW k \in Nat, NEW h, Chain(h, k), NEW a \in 0 .. k, NEW b \in a .. k,
           \A x \in a .. b - 1 : h[x].second # 59, NEW f \in Slow
    PROVE  \A x \in a .. b : h[x][f] = h[a][f]
<1> DEFINE S == {x \in a .. b : h[x][f] = h[a][f]}
<1>1. a \in S OBVIOUS
<1>2. ASSUME NEW x \in a .. b - 1, x \in S PROVE x + 1 \in S
  <2>1. x \in 0 .. k - 1 /\ x + 1 \in a .. b /\ x \in 0 .. k BY <1>2
  <2>2. h[x + 1] = Later(h[x]) /\ h[x] \in Valid BY <2>1 DEF Chain
  <2>3. h[x + 1][f] = h[x][f] BY <1>2, <2>2, LaterSlow
  <2> QED BY <1>2, <2>1, <2>3
<1> HIDE DEF S
<1>3. a \in Nat /\ b \in Nat OBVIOUS
<1>4. \A x \in a .. b : x \in S BY <1>1, <1>2, <1>3, RangeInduction
<1> QED BY <1>4 DEF S

\* Less than a minute apart, the same second is the same time.
LEMMA SameSecond ==
    ASSUME NEW a \in 0 .. 59, NEW x \in 0 .. 59, NEW y \in 0 .. 59,
           (a + x) % 60 = (a + y) % 60
    PROVE  x = y
<1>1. ASSUME NEW z \in 0 .. 59 PROVE (a + z) % 60 = IF a + z < 60 THEN a + z ELSE a + z - 60
  OBVIOUS
<1>2. /\ (a + x) % 60 = IF a + x < 60 THEN a + x ELSE a + x - 60
      /\ (a + y) % 60 = IF a + y < 60 THEN a + y ELSE a + y - 60
  BY <1>1
<1> QED BY <1>2

\* Within a minute, a field that is the same at two times was the same at
\* all times between them.
LEMMA Between ==
    ASSUME NEW k \in 0 .. 59, NEW h, Chain(h, k), NEW f \in Field,
           NEW i \in 0 .. k, NEW m \in i .. k, NEW j \in m .. k, h[i][f] = h[j][f]
    PROVE  h[m][f] = h[i][f]
<1>a. k \in Nat /\ h[0] \in Valid BY DEF Chain
<1>0. k \in Nat /\ h[0].second \in 0 .. 59 BY <1>a, FieldsOf
<1>1. \A x \in 0 .. k : h[x].second = (h[0].second + x) % 60 BY <1>0, Seconds
<1>2. CASE f = "second"
  <2>1. i = j
    <3>1. h[i].second = h[j].second BY <1>2
    <3>2. (h[0].second + i) % 60 = (h[0].second + j) % 60 BY <1>0, <1>1, <3>1
    <3>3. i \in 0 .. 59 /\ j \in 0 .. 59 BY <1>0
    <3> QED BY <1>0, <3>2, <3>3, SameSecond
  <2> QED BY <2>1
<1>3. CASE f \in Slow
  <2>1. CASE \A x \in 0 .. k - 1 : h[x].second # 59
    <3>1. 0 \in 0 .. k /\ k \in 0 .. k BY <1>0
    <3>2. \A x \in 0 .. k : h[x][f] = h[0][f] BY <1>0, <1>3, <2>1, <3>1, Steady
    <3> QED BY <3>2
  <2>2. CASE \E x \in 0 .. k - 1 : h[x].second = 59
    <3>1. PICK w \in 0 .. k - 1 : h[w].second = 59 BY <2>2
    <3>2. ASSUME NEW x \in 0 .. k, x # w, h[x].second = 59, x < k PROVE FALSE
      <4>1. (h[0].second + w) % 60 = 59 /\ (h[0].second + x) % 60 = 59 BY <1>0, <1>1, <3>1, <3>2
      <4>2. w \in 0 .. 59 /\ x \in 0 .. 59 BY <1>0
      <4>3. (h[0].second + w) % 60 = (h[0].second + x) % 60 BY <4>1
      <4>4. w = x BY <1>0, <4>2, <4>3, SameSecond
      <4> QED BY <3>2, <4>4
    <3>3. \A x \in 0 .. w : h[x][f] = h[0][f]
      <4>1. \A x \in 0 .. w - 1 : h[x].second # 59 BY <1>0, <3>2
      <4>2. 0 \in 0 .. k /\ w \in 0 .. k BY <1>0
      <4> QED BY <1>0, <1>3, <4>1, <4>2, Steady
    <3>4. \A x \in w + 1 .. k : h[x][f] = h[w + 1][f]
      <4>1. \A x \in w + 1 .. k - 1 : h[x].second # 59 BY <1>0, <3>2
      <4>2. w + 1 \in 0 .. k /\ k \in w + 1 .. k BY <1>0
      <4> QED BY <1>0, <1>3, <4>1, <4>2, Steady, SMTT(60)
    <3>5. CASE j <= w BY <1>0, <3>3, <3>5
    <3>6. CASE i > w
      <4>1. i \in w + 1 .. k /\ m \in w + 1 .. k BY <1>0, <3>6
      <4> QED BY <3>4, <4>1
    <3>7. CASE i <= w /\ w < j
      <4>1. i \in 0 .. w /\ j \in w + 1 .. k BY <1>0, <3>7
      <4>2. h[0][f] = h[w + 1][f] BY <3>3, <3>4, <4>1
      <4>3. m \in 0 .. w \/ m \in w + 1 .. k BY <1>0
      <4> QED BY <3>3, <3>4, <4>1, <4>2, <4>3
    <3> QED BY <1>0, <3>5, <3>6, <3>7
  <2> QED BY <2>1, <2>2
<1> QED BY <1>2, <1>3, FieldIs DEF Slow

-----------------------------------------------------------------------------
(* The formats.                                                             *)

\* What status register B may say.
Status == [bcd : BOOLEAN, h24 : BOOLEAN]

\* What rtc_read() makes of one register.
Decoded(f, v) ==
    LET b == IF ~status_b.bcd THEN v
             ELSE IF f = "hour" THEN bcd_to_bin(v % 128) + 128 * (v \div 128) ELSE bcd_to_bin(v)
    IN  IF f = "hour" /\ ~status_b.h24 THEN From12Hour(b) ELSE b

LEMMA BcdRoundTrip ==
    ASSUME NEW v \in 0 .. 99
    PROVE  /\ (v \div 10) * 16 + (v % 10) \in 0 .. 255
           /\ bcd_to_bin((v \div 10) * 16 + (v % 10)) = v
           /\ v <= 12 => (v \div 10) * 16 + (v % 10) < 128
           /\ v <= 59 => (v \div 10) * 16 + (v % 10) < 128
<1> DEFINE q == v \div 10
           r == v % 10
           x == q * 16 + r
<1>1. q \in 0 .. 9 /\ r \in 0 .. 9 /\ v = 10 * q + r /\ (v <= 59 => q <= 5) OBVIOUS
<1> HIDE DEF q, r
<1>2. x % 16 = r /\ x \div 16 = q BY <1>1
<1>3. bcd_to_bin(x) = v BY <1>1, <1>2 DEF bcd_to_bin
<1> QED BY <1>1, <1>3 DEF q, r

\* Of a register, rtc_read() makes the field it holds, but for 12 o'clock on
\* a 12-hour clock.
LEMMA Decodes ==
    ASSUME status_b \in Status, NEW c \in Valid, NEW f \in Field,
           f = "hour" => status_b.h24 \/ c.hour % 12 # 0
    PROVE  Decoded(f, Register(c, f)) = c[f]
<1>0. /\ c.second \in 0 .. 59 /\ c.minute \in 0 .. 59 /\ c.hour \in 0 .. 23
      /\ c.day \in 1 .. 31 /\ c.month \in 1 .. 12 /\ c.year \in 0 .. 99
  BY FieldsOf
<1>1. CASE f # "hour"
  <2>1. c[f] \in 0 .. 99 BY <1>0, <1>1, FieldIs
  <2> DEFINE v == c[f]
  <2> HIDE DEF v
  <2>2. v \in 0 .. 99 BY <2>1 DEF v
  <2>3. Register(c, f) = IF status_b.bcd THEN (v \div 10) * 16 + (v % 10) ELSE v
    BY <1>1 DEF Register, Stored, v
  <2>4. Decoded(f, Register(c, f)) = v
    <3>1. CASE status_b.bcd BY <1>1, <2>2, <2>3, <3>1, BcdRoundTrip DEF Decoded
    <3>2. CASE ~status_b.bcd BY <1>1, <2>3, <3>2 DEF Decoded
    <3> QED BY <3>1, <3>2
  <2> QED BY <2>4 DEF v
<1>2. CASE f = "hour"
  <2> DEFINE u == c.hour
  <2>0. u \in 0 .. 23 BY <1>0
  <2>1. CASE status_b.h24
    <3> DEFINE x == (u \div 10) * 16 + (u % 10)
    <3>1. Register(c, f) = IF status_b.bcd THEN x ELSE u
      BY <1>2, <2>1 DEF Register, Stored
    <3> HIDE DEF u
    <3>2. x \in 0 .. 127 /\ bcd_to_bin(x) = u BY <2>0, BcdRoundTrip
    <3> HIDE DEF x
    <3>3. x % 128 = x /\ x \div 128 = 0 BY <3>2
    <3>4. bcd_to_bin(x % 128) + 128 * (x \div 128) = u BY <2>0, <3>2, <3>3
    <3>5. Decoded(f, Register(c, f)) = u BY <1>2, <2>1, <3>1, <3>4 DEF Decoded
    <3> QED BY <1>2, <3>5 DEF u
  <2>2. CASE ~status_b.h24
    <3> DEFINE w == u % 12
               x == (w \div 10) * 16 + (w % 10)
               g == IF u >= 12 THEN 128 ELSE 0
    <3>1. w # 0 BY <1>2, <2>2
    <3>2. Register(c, f) = IF status_b.bcd THEN x + g ELSE w + g
      BY <1>2, <2>2, <3>1 DEF Register, Stored
    <3> HIDE DEF u
    <3>3. w \in 1 .. 11 /\ u = IF u >= 12 THEN w + 12 ELSE w BY <2>0, <3>1
    <3> HIDE DEF w
    <3>4. x \in 0 .. 127 /\ bcd_to_bin(x) = w BY <3>3, BcdRoundTrip
    <3> HIDE DEF x
    <3>5. (x + g) % 128 = x /\ 128 * ((x + g) \div 128) = g BY <2>0, <3>4
    <3>6. From12Hour(w + g) = u
      <4>1. CASE u >= 12 BY <2>0, <3>3, <4>1 DEF From12Hour
      <4>2. CASE ~(u >= 12) BY <2>0, <3>3, <4>2 DEF From12Hour
      <4> QED BY <4>1, <4>2
    <3> HIDE DEF g
    <3>7. Decoded(f, Register(c, f)) = u
      <4>1. CASE status_b.bcd BY <1>2, <2>2, <3>2, <3>4, <3>5, <3>6, <4>1 DEF Decoded
      <4>2. CASE ~status_b.bcd BY <1>2, <2>2, <3>2, <3>6, <4>2 DEF Decoded
      <4> QED BY <4>1, <4>2
    <3> QED BY <1>2, <3>7 DEF u
  <2> QED BY <2>1, <2>2
<1> QED BY <1>1, <1>2

\* A register tells what its field is, 12 o'clock included.
LEMMA RegisterTells ==
    ASSUME status_b \in Status, NEW c \in Valid, NEW d \in Valid, NEW f \in Field
    PROVE  Register(c, f) = Register(d, f) <=> c[f] = d[f]
<1>1. CASE c[f] = d[f]
  <2>1. CASE f = "hour" BY <1>1, <2>1 DEF Register
  <2>2. CASE f # "hour" BY <1>1, <2>2 DEF Register
  <2> QED BY <1>1, <2>1, <2>2
<1>2. SUFFICES ASSUME Register(c, f) = Register(d, f) PROVE c[f] = d[f] BY <1>1
<1>3. CASE f # "hour" \/ status_b.h24 BY <1>2, <1>3, Decodes
<1>4. CASE f = "hour" /\ ~status_b.h24
  <2> DEFINE u == c.hour
             v == d.hour
             a == IF u % 12 = 0 THEN 12 ELSE u % 12
             b == IF v % 12 = 0 THEN 12 ELSE v % 12
             x == IF status_b.bcd THEN (a \div 10) * 16 + (a % 10) ELSE a
             y == IF status_b.bcd THEN (b \div 10) * 16 + (b % 10) ELSE b
             g == IF u >= 12 THEN 128 ELSE 0
             e == IF v >= 12 THEN 128 ELSE 0
  <2>1. u \in 0 .. 23 /\ v \in 0 .. 23 BY FieldsOf
  <2>2. Register(c, f) = x + g /\ Register(d, f) = y + e BY <1>4 DEF Register, Stored
  <2> HIDE DEF u, v
  <2>3. a \in 1 .. 12 /\ b \in 1 .. 12 BY <2>1
  <2>4. (u % 12 = 0 <=> a = 12) /\ (v % 12 = 0 <=> b = 12) BY <2>1
  <2>5. u = (IF a = 12 THEN 0 ELSE a) + (IF u >= 12 THEN 12 ELSE 0)
        /\ v = (IF b = 12 THEN 0 ELSE b) + (IF v >= 12 THEN 12 ELSE 0)
    BY <2>1
  <2> HIDE DEF a, b
  <2>6. /\ (a \div 10) * 16 + (a % 10) \in 0 .. 127 /\ bcd_to_bin((a \div 10) * 16 + (a % 10)) = a
        /\ (b \div 10) * 16 + (b % 10) \in 0 .. 127 /\ bcd_to_bin((b \div 10) * 16 + (b % 10)) = b
    BY <2>3, BcdRoundTrip
  <2>7. x \in 0 .. 127 /\ y \in 0 .. 127 BY <2>3, <2>6
  <2>8. x = y => a = b
    <3>1. CASE status_b.bcd BY <2>6, <3>1
    <3>2. CASE ~status_b.bcd BY <3>2
    <3> QED BY <3>1, <3>2
  <2> HIDE DEF x, y
  <2>a. x + g = y + e BY <1>2, <2>2
  <2>b. g \in {0, 128} /\ e \in {0, 128} /\ (g = 128 <=> u >= 12) /\ (e = 128 <=> v >= 12) BY <2>1
  <2> HIDE DEF g, e
  <2>9. x = y /\ (u >= 12 <=> v >= 12) BY <2>7, <2>a, <2>b
  <2>10. u = v BY <2>5, <2>8, <2>9
  <2> QED BY <1>4, <2>10 DEF u, v
<1> QED BY <1>3, <1>4

\* Normalised() works field by field.
LEMMA NormalisedIs ==
    ASSUME status_b \in Status, NEW c \in Valid, NEW r \in [Field -> Int],
           \A f \in Field : r[f] = Register(c, f), status_b.h24 \/ c.hour % 12 # 0
    PROVE  Normalised(r) = Date(c)
<1> DEFINE b == IF status_b.bcd THEN FromBcd(r) ELSE r
           o == Normalised(r)
<1>1. \A f \in Field : Decoded(f, r[f]) = c[f] BY Decodes
<1>2. DOMAIN b = Field /\ b = [f \in Field |-> b[f]]
  <2>1. CASE status_b.bcd BY <2>1 DEF FromBcd
  <2>2. CASE ~status_b.bcd BY <2>2
  <2> QED BY <2>1, <2>2
<1>3. o = [f \in Field |-> IF f = "year" THEN b[f] + 2000
                           ELSE IF f = "hour" /\ ~status_b.h24 THEN From12Hour(b[f]) ELSE b[f]]
  <2> DEFINE v == IF status_b.h24 THEN b.hour ELSE From12Hour(b.hour)
             e == [b EXCEPT !.hour = v]
  <2>1. o = [b EXCEPT !.hour = IF status_b.h24 THEN @ ELSE From12Hour(@), !.year = @ + 2000]
    BY DEF Normalised
  <2> HIDE DEF b
  <2>2. o = [e EXCEPT !.year = e.year + 2000] BY <2>1
  <2> HIDE DEF v
  <2>3. e = [f \in Field |-> IF f = "hour" THEN v ELSE b[f]] BY <1>2, FieldIs
  <2> HIDE DEF e, o
  <2>4. o = [f \in Field |-> IF f = "year" THEN e[f] + 2000 ELSE e[f]] BY <2>2, <2>3, FieldIs
  <2>5. ASSUME NEW f \in Field
        PROVE  o[f] = IF f = "year" THEN b[f] + 2000
                      ELSE IF f = "hour" /\ ~status_b.h24 THEN From12Hour(b[f]) ELSE b[f]
    BY <2>3, <2>4 DEF v
  <2> QED BY <2>4, <2>5
<1>4. ASSUME NEW f \in Field, f # "year"
      PROVE  o[f] = Decoded(f, r[f])
  <2>1. b[f] = IF ~status_b.bcd THEN r[f]
               ELSE IF f = "hour" THEN bcd_to_bin(r[f] % 128) + 128 * (r[f] \div 128)
               ELSE bcd_to_bin(r[f])
    BY <1>4 DEF FromBcd
  <2>2. o[f] = IF f = "hour" /\ ~status_b.h24 THEN From12Hour(b[f]) ELSE b[f]
    <3> HIDE DEF b, o
    <3> QED BY <1>3, <1>4
  <2> HIDE DEF b, o
  <2> QED BY <2>1, <2>2 DEF Decoded
<1>5. o["year"] = 2000 + c["year"]
  <2>1. "year" \in Field BY FieldIs
  <2>2. o["year"] = b["year"] + 2000
    <3> HIDE DEF b, o
    <3> QED BY <1>3, <2>1
  <2>3. b["year"] = Decoded("year", r["year"]) BY <2>1 DEF Decoded, FromBcd
  <2>4. c.year \in 0 .. 99 BY FieldsOf
  <2> QED BY <1>1, <2>1, <2>2, <2>3, <2>4
<1>6. DOMAIN o = Field /\ o = [f \in Field |-> o[f]]
  <2> HIDE DEF b, o
  <2> QED BY <1>3
<1>7. o = [f \in Field |-> IF f = "year" THEN 2000 + c[f] ELSE c[f]]
  <2> HIDE DEF b, o
  <2> QED BY <1>1, <1>4, <1>5, <1>6
<1>8. DOMAIN c = Field /\ c = [f \in Field |-> c[f]] BY FieldIs DEF Valid, Time
<1>9. Date(c) = [f \in Field |-> IF f = "year" THEN 2000 + c[f] ELSE c[f]]
  <2>1. DOMAIN Date(c) = Field /\ Date(c) = [f \in Field |-> Date(c)[f]] BY <1>8 DEF Date
  <2>2. ASSUME NEW f \in Field PROVE Date(c)[f] = IF f = "year" THEN 2000 + c[f] ELSE c[f]
    BY <1>8 DEF Date
  <2> QED BY <2>1, <2>2
<1> QED BY <1>7, <1>9

-----------------------------------------------------------------------------
(* The inductive invariant.                                                 *)

Registers(c) == [f \in Field |-> Register(c, f)]

\* Normalised() under what status register B says.
NormalisedAs(b, r) ==
    LET d == IF b.bcd THEN FromBcd(r) ELSE r
    IN  [d EXCEPT !.hour = IF b.h24 THEN @ ELSE From12Hour(@), !.year = @ + 2000]

\* Less than a minute has passed since the call: some second did not come up.
WithinAMinute == {c.second : c \in shown} # 0 .. 59

\* What rtc_read() returned is what it makes of the registers of one time that
\* was shown since the call, never of two.
Unmixed ==
    pc = "idle" /\ out # NoTime /\ WithinAMinute =>
        out \in {Normalised(Registers(c)) : c \in shown}

\* h[0] to h[k] were shown since the call and h[k + 1] is next; the last time
\* a register may be read of.
Upto(k) == IF update = "running" THEN k + 1 ELSE k

\* The fields fs of the copy r were read of the times h[a] to h[b].
Copied(r, fs, h, a, b) == \A f \in fs : \E j \in a .. b : r[f] = Register(h[j], f)

SoFar == {Fields[i] : i \in 1 .. n}

\* The round under way began at h[m], and the one before it had ended by then.
RoundFrom(h, k, m) ==
    /\ ~first => Copied(prev, Field, h, 0, m)
    /\ Copied(t, SoFar, h, m, Upto(k))

Reading(h, k) ==
    /\ Chain(h, k + 1) /\ clock = h[k] /\ shown = {h[i] : i \in 0 .. k}
    /\ pc = "wait" /\ ~first => Copied(prev, Field, h, 0, Upto(k))
    /\ pc = "read" => \E m \in 0 .. k : RoundFrom(h, k, m)

Types ==
    /\ status_b \in Status /\ clock \in Valid /\ shown \subseteq Valid
    /\ update \in {"none", "announced", "running"} /\ pc \in {"idle", "wait", "read"}
    /\ n \in 0 .. 6 /\ first \in BOOLEAN
    /\ t \in [Field -> Int] /\ prev \in [Field -> Int]

IInv ==
    /\ Types /\ Unmixed
    /\ pc # "idle" => \E k \in Nat : \E h : Reading(h, k)

LEMMA InitHolds == Init => IInv
<1> SUFFICES ASSUME Init PROVE IInv OBVIOUS
<1>1. PICK s \in Settings : status_b = [bcd |-> s.bcd, h24 |-> s.h24] /\ clock = s.time
  BY DEF Init
<1>2. s \in [bcd : BOOLEAN, h24 : BOOLEAN, time : Time]
      /\ s.time.day <= DaysIn(s.time.month, s.time.year)
  BY ClockAssumption
<1>3. status_b \in Status /\ clock \in Valid BY <1>1, <1>2 DEF Status, Valid
<1>4. NoTime \in [Field -> Int] BY DEF NoTime
<1>5. Types BY <1>3, <1>4 DEF Init, Types
<1>6. Unmixed BY DEF Init, Unmixed
<1> QED BY <1>5, <1>6 DEF Init, IInv

LEMMA RegisterType ==
    ASSUME status_b \in Status, NEW c \in Valid, NEW f \in Field
    PROVE  Register(c, f) \in Int
<1>1. c[f] \in Int /\ c.hour \in Int BY FieldsOf, FieldIs
<1>2. ASSUME NEW v \in Int PROVE Stored(v) \in Int BY DEF Stored
<1> QED BY <1>1, <1>2 DEF Register

\* The format stays.
LEMMA SameFormat ==
    ASSUME status_b' = status_b
    PROVE  \A c, f : Register(c, f)' = Register(c, f)
BY DEF Register, Stored

LEMMA CopiedMore ==
    ASSUME NEW r, NEW fs, NEW h, NEW a \in Int, NEW b \in Int, Copied(r, fs, h, a, b),
           NEW c \in Int, NEW d \in Int, c <= a, b <= d
    PROVE  Copied(r, fs, h, c, d)
<1> SUFFICES ASSUME NEW f \in fs PROVE \E j \in c .. d : r[f] = Register(h[j], f) BY DEF Copied
<1>1. PICK j \in a .. b : r[f] = Register(h[j], f) BY DEF Copied
<1>2. j \in c .. d OBVIOUS
<1> QED BY <1>1, <1>2

\* The thread is called.
LEMMA CallKeeps == IInv /\ rtc_read => IInv'
<1> SUFFICES ASSUME IInv, rtc_read PROVE IInv' OBVIOUS
<1>0. PICK h : h = [i \in 0 .. 1 |-> IF i = 0 THEN clock ELSE Later(clock)] OBVIOUS
<1>1. /\ pc' = "wait" /\ first' = TRUE /\ shown' = {clock} /\ status_b' = status_b /\ clock' = clock
      /\ update' = update /\ n' = n /\ t' = t /\ prev' = prev
  BY DEF rtc_read, chip
<1>2. Types' BY <1>1 DEF IInv, Types
<1>3. clock \in Valid /\ Later(clock) \in Valid BY LaterValid DEF IInv, Types
<1>4. h \in [0 .. 1 -> Valid] /\ h[0] = clock /\ h[1] = Later(clock) BY <1>0, <1>3
<1>5. Chain(h, 0 + 1)
  <2>1. 0 + 1 = 1 /\ \A i \in 0 .. 1 - 1 : i = 0 OBVIOUS
  <2> QED BY <1>4, <2>1 DEF Chain
<1>6. shown' = {h[i] : i \in 0 .. 0} BY <1>1, <1>4
<1>7. Reading(h, 0)' BY <1>1, <1>4, <1>5, <1>6 DEF Reading
<1>8. Unmixed' BY <1>1 DEF Unmixed
<1>9. \E k \in Nat : \E g : Reading(g, k)' BY <1>7
<1> QED BY <1>2, <1>8, <1>9 DEF IInv

\* The flag is clear: a round begins, at the time shown now.
LEMMA WaitKeeps == IInv /\ WaitOver => IInv'
<1> SUFFICES ASSUME IInv, WaitOver PROVE IInv' OBVIOUS
<1>1. /\ pc = "wait" /\ update = "none" /\ pc' = "read" /\ n' = 0 /\ status_b' = status_b
      /\ clock' = clock /\ update' = update /\ t' = t /\ prev' = prev /\ first' = first
      /\ shown' = shown
  BY DEF WaitOver, chip
<1>2. Types' BY <1>1 DEF IInv, Types
<1>3. PICK k \in Nat : \E h : Reading(h, k) BY <1>1 DEF IInv
<1>4. PICK h : Reading(h, k) BY <1>3
<1>5. Chain(h, k + 1) /\ clock = h[k] /\ shown = {h[i] : i \in 0 .. k}
      /\ (~first => Copied(prev, Field, h, 0, k))
  BY <1>1, <1>4 DEF Reading, Upto
<1>6. (~first => Copied(prev, Field, h, 0, k))' BY <1>1, <1>5, SameFormat DEF Copied
<1>7. Copied(t, SoFar, h, k, Upto(k))'
  <2>1. SoFar' = {} BY <1>1 DEF SoFar
  <2> QED BY <2>1 DEF Copied
<1>8. RoundFrom(h, k, k)' BY <1>6, <1>7 DEF RoundFrom
<1>9. k \in 0 .. k OBVIOUS
<1>10. Reading(h, k)' BY <1>1, <1>5, <1>8, <1>9 DEF Reading
<1>11. Unmixed' BY <1>1 DEF Unmixed
<1> QED BY <1>2, <1>10, <1>11 DEF IInv

\* A register is read.
LEMMA ReadKeeps == IInv /\ read_raw => IInv'
<1> SUFFICES ASSUME IInv, read_raw PROVE IInv' OBVIOUS
<1> DEFINE f == Fields[n + 1]
<1>1. /\ pc = "read" /\ pc' = "read" /\ n < 6 /\ n' = n + 1 /\ status_b' = status_b
      /\ clock' = clock /\ update' = update /\ prev' = prev /\ first' = first
      /\ shown' = shown
  BY DEF read_raw, chip
<1>2. PICK v \in cmos_read(f) : t' = [t EXCEPT ![f] = v] BY DEF read_raw
<1>3. n \in 0 .. 6 /\ t \in [Field -> Int] /\ status_b \in Status /\ clock \in Valid
  BY DEF IInv, Types
<1>4. f \in Field
  <2>1. n + 1 \in 1 .. 6 BY <1>1, <1>3
  <2> QED BY <2>1 DEF Field
<1> HIDE DEF f
<1>5. PICK k \in Nat : \E h : Reading(h, k) BY <1>1 DEF IInv
<1>6. PICK h : Reading(h, k) BY <1>5
<1>7. /\ Chain(h, k + 1) /\ clock = h[k] /\ shown = {h[i] : i \in 0 .. k}
      /\ \E m \in 0 .. k : RoundFrom(h, k, m)
  BY <1>1, <1>6 DEF Reading
<1>8. PICK m \in 0 .. k : RoundFrom(h, k, m) BY <1>7
<1>9. \E j \in m .. Upto(k) : v = Register(h[j], f)
  <2>1. v = Register(clock, f) \/ (update = "running" /\ v = Register(Later(clock), f))
    BY <1>2 DEF cmos_read
  <2>2. k \in m .. Upto(k) BY DEF Upto
  <2>3. update = "running" => k + 1 \in m .. Upto(k) BY DEF Upto
  <2>4. k \in 0 .. k + 1 - 1 /\ h[k + 1] = Later(h[k]) BY <1>7 DEF Chain
  <2> QED BY <1>7, <2>1, <2>2, <2>3, <2>4
<1>10. v \in Int
  <2>1. Later(clock) \in Valid BY <1>3, LaterValid
  <2> QED BY <1>2, <1>3, <1>4, <2>1, RegisterType DEF cmos_read
<1>11. t' \in [Field -> Int] /\ t'[f] = v /\ \A g \in Field : g # f => t'[g] = t[g]
  BY <1>2, <1>3, <1>4, <1>10
<1>12. Types' BY <1>1, <1>3, <1>11 DEF IInv, Types
<1>13. SoFar' \subseteq SoFar \cup {f} /\ SoFar \subseteq Field
  <2>1. \A i \in 1 .. n + 1 : i \in 1 .. n \/ i = n + 1 BY <1>3
  <2>2. \A i \in 1 .. n : i \in 1 .. 6 BY <1>3
  <2> QED BY <1>1, <2>1, <2>2 DEF SoFar, f, Field
<1>14. Upto(k)' = Upto(k) BY <1>1 DEF Upto
<1>15. (Copied(t, SoFar, h, m, Upto(k)))'
  <2> SUFFICES ASSUME NEW g \in SoFar'
               PROVE  \E j \in m .. Upto(k) : t'[g] = Register(h[j], g)
    BY <1>1, <1>14, SameFormat DEF Copied
  <2>1. CASE g = f BY <1>9, <1>11, <2>1
  <2>2. CASE g # f
    <3>1. g \in SoFar /\ g \in Field BY <1>13, <2>2
    <3>2. t'[g] = t[g] BY <1>11, <2>2, <3>1
    <3> QED BY <1>8, <3>1, <3>2 DEF RoundFrom, Copied
  <2> QED BY <2>1, <2>2
<1>16. (~first => Copied(prev, Field, h, 0, m))' BY <1>1, <1>8, SameFormat DEF RoundFrom, Copied
<1>17. RoundFrom(h, k, m)' BY <1>15, <1>16 DEF RoundFrom
<1>18. Reading(h, k)' BY <1>1, <1>7, <1>17 DEF Reading
<1>19. Unmixed' BY <1>1 DEF Unmixed
<1> QED BY <1>12, <1>18, <1>19 DEF IInv

\* The two copies differ: another round.
LEMMA AgainKeeps == IInv /\ Again => IInv'
<1> SUFFICES ASSUME IInv, Again PROVE IInv' OBVIOUS
<1>1. /\ pc = "read" /\ pc' = "wait" /\ n = 6 /\ n' = 0 /\ status_b' = status_b
      /\ clock' = clock /\ update' = update /\ prev' = t /\ t' = t /\ first' = FALSE
      /\ shown' = shown
  BY DEF Again, chip
<1>a. n' \in 0 .. 6 BY <1>1
<1>b. first' \in BOOLEAN BY <1>1, Zenon
<1>2. Types' BY <1>1, <1>a, <1>b DEF IInv, Types
<1>3. PICK k \in Nat : \E h : Reading(h, k) BY <1>1 DEF IInv
<1>4. PICK h : Reading(h, k) BY <1>3
<1>5. /\ Chain(h, k + 1) /\ clock = h[k] /\ shown = {h[i] : i \in 0 .. k}
      /\ \E m \in 0 .. k : RoundFrom(h, k, m)
  BY <1>1, <1>4 DEF Reading
<1>6. PICK m \in 0 .. k : RoundFrom(h, k, m) BY <1>5
<1>7. SoFar = Field BY <1>1 DEF SoFar, Field
<1>8. Copied(t, Field, h, m, Upto(k)) BY <1>6, <1>7 DEF RoundFrom
<1>9. Upto(k) \in Int /\ Upto(k)' = Upto(k) BY <1>1 DEF Upto
<1>10. Copied(t, Field, h, 0, Upto(k)) BY <1>8, <1>9, CopiedMore
<1>11. Copied(prev, Field, h, 0, Upto(k))' BY <1>1, <1>9, <1>10, SameFormat DEF Copied
<1>12. Reading(h, k)' BY <1>1, <1>5, <1>11 DEF Reading
<1>13. Unmixed' BY <1>1 DEF Unmixed
<1> QED BY <1>2, <1>12, <1>13 DEF IInv

LEMMA SameNormalised ==
    ASSUME status_b' = status_b
    PROVE  \A c : Normalised(Registers(c))' = Normalised(Registers(c))
<1>1. \A c : Registers(c)' = Registers(c) BY SameFormat DEF Registers
<1> SUFFICES ASSUME NEW c PROVE Normalised(Registers(c))' = Normalised(Registers(c)) OBVIOUS
<1>2. Normalised(Registers(c)) = NormalisedAs(status_b, Registers(c))
  BY DEF Normalised, NormalisedAs
<1>3. Normalised(Registers(c))' = NormalisedAs(status_b', Registers(c)')
  BY DEF Normalised, NormalisedAs
<1> QED BY <1>1, <1>2, <1>3

\* Within a minute fewer than 60 times were shown.
LEMMA FewShown ==
    ASSUME NEW k \in Nat, NEW h, Chain(h, k + 1), shown = {h[i] : i \in 0 .. k}, WithinAMinute
    PROVE  k + 1 \in 0 .. 59
<1>1. SUFFICES ASSUME k >= 59 PROVE FALSE OBVIOUS
<1> DEFINE a == h[0].second
<1>2. k + 1 \in Nat /\ h \in [0 .. k + 1 -> Valid] BY DEF Chain
<1>3. \A i \in 0 .. k + 1 : h[i].second = (a + i) % 60 BY <1>2, Seconds
<1>4. a \in 0 .. 59
  <2>1. h[0] \in Valid BY <1>2
  <2> QED BY <2>1, FieldsOf
<1>5. ASSUME NEW x \in 0 .. 59 PROVE x \in {c.second : c \in shown}
  <2> HIDE DEF a
  <2> DEFINE i == IF x >= a THEN x - a ELSE x - a + 60
  <2>1. i \in 0 .. 59 /\ (a + i = x \/ a + i = x + 60) BY <1>4
  <2> HIDE DEF i
  <2>2. (a + i) % 60 = x BY <1>4, <2>1
  <2>3. i \in 0 .. k /\ i \in 0 .. k + 1 BY <1>1, <2>1
  <2>4. h[i] \in shown /\ h[i].second = x BY <1>3, <2>2, <2>3
  <2> QED BY <2>4
<1>6. ASSUME NEW c \in shown PROVE c.second \in 0 .. 59
  <2>1. PICK i \in 0 .. k : c = h[i] OBVIOUS
  <2>2. c \in Valid BY <1>2, <2>1
  <2> QED BY <2>2, FieldsOf
<1>7. {c.second : c \in shown} = 0 .. 59 BY <1>5, <1>6
<1> QED BY <1>7 DEF WithinAMinute

\* Two rounds that agree have read the registers of the time at which the
\* second one began.
LEMMA AgreedCopy ==
    ASSUME status_b \in Status, NEW k \in Nat, NEW h, Chain(h, k + 1), k + 1 \in 0 .. 59,
           NEW m \in 0 .. k, NEW r,
           Copied(r, Field, h, 0, m), Copied(r, Field, h, m, k + 1), NEW f \in Field
    PROVE  r[f] = Register(h[m], f)
<1>1. PICK i \in 0 .. m : r[f] = Register(h[i], f) BY DEF Copied
<1>2. PICK j \in m .. k + 1 : r[f] = Register(h[j], f) BY DEF Copied
<1>3. i \in 0 .. k + 1 /\ m \in i .. k + 1 /\ m \in 0 .. k + 1 /\ j \in 0 .. k + 1 OBVIOUS
<1>4. h[i] \in Valid /\ h[j] \in Valid /\ h[m] \in Valid BY <1>3 DEF Chain
<1>5. h[i][f] = h[j][f] BY <1>1, <1>2, <1>4, RegisterTells
<1>6. h[m][f] = h[i][f] BY <1>3, <1>5, Between
<1> QED BY <1>1, <1>4, <1>6, RegisterTells

LEMMA ReturnKeeps == IInv /\ Return => IInv'
<1> SUFFICES ASSUME IInv, Return PROVE IInv' OBVIOUS
<1>1. /\ pc = "read" /\ pc' = "idle" /\ n = 6 /\ n' = 0 /\ status_b' = status_b
      /\ clock' = clock /\ update' = update /\ prev' = prev /\ t' = t /\ first' = first
      /\ shown' = shown /\ ~first /\ prev = t /\ out' = Normalised(t)
  BY DEF Return, chip, Agree
<1>a. n' \in 0 .. 6 BY <1>1
<1>2. Types' BY <1>1, <1>a DEF IInv, Types
<1>3. PICK k \in Nat : \E h : Reading(h, k) BY <1>1 DEF IInv
<1>4. PICK h : Reading(h, k) BY <1>3
<1>5. /\ Chain(h, k + 1) /\ shown = {h[i] : i \in 0 .. k}
      /\ \E m \in 0 .. k : RoundFrom(h, k, m)
  BY <1>1, <1>4 DEF Reading
<1>6. PICK m \in 0 .. k : RoundFrom(h, k, m) BY <1>5
<1>7. SoFar = Field BY <1>1 DEF SoFar, Field
<1>8. Copied(t, Field, h, 0, m) /\ Copied(t, Field, h, m, Upto(k)) BY <1>1, <1>6, <1>7 DEF RoundFrom
<1>9. Upto(k) \in Int /\ Upto(k) <= k + 1 /\ k + 1 \in Int BY DEF Upto
<1>10. Copied(t, Field, h, m, k + 1) BY <1>8, <1>9, CopiedMore
<1>11. WithinAMinute => t = Registers(h[m])
  <2> SUFFICES ASSUME WithinAMinute PROVE t = Registers(h[m]) OBVIOUS
  <2>1. k + 1 \in 0 .. 59 BY <1>5, FewShown
  <2>2. status_b \in Status /\ t \in [Field -> Int] BY DEF IInv, Types
  <2>3. \A f \in Field : t[f] = Register(h[m], f) BY <1>5, <1>8, <1>10, <2>1, <2>2, AgreedCopy
  <2> QED BY <2>2, <2>3 DEF Registers
<1>12. h[m] \in shown BY <1>5
<1>13. Unmixed'
  <2> SUFFICES ASSUME WithinAMinute' PROVE out' \in {Normalised(Registers(c)) : c \in shown}'
    BY DEF Unmixed
  <2>1. WithinAMinute BY <1>1 DEF WithinAMinute
  <2>2. out' = Normalised(Registers(h[m])) BY <1>1, <1>11, <2>1
  <2>3. \A c : Normalised(Registers(c))' = Normalised(Registers(c)) BY <1>1, SameNormalised
  <2> QED BY <1>1, <1>12, <2>2, <2>3
<1> QED BY <1>1, <1>2, <1>13 DEF IInv

\* What was returned stays right while the clock goes on.
LEMMA SameUnmixed ==
    ASSUME Unmixed, status_b' = status_b, pc' = pc, out' = out, shown \subseteq shown',
           \A c \in shown' : c.second \in 0 .. 59
    PROVE  Unmixed'
<1> SUFFICES ASSUME pc' = "idle", out' # NoTime, WithinAMinute'
             PROVE  out' \in {Normalised(Registers(c)) : c \in shown}'
  BY DEF Unmixed, NoTime
<1>1. WithinAMinute BY DEF WithinAMinute
<1>2. PICK c \in shown : out = Normalised(Registers(c)) BY <1>1 DEF Unmixed
<1>3. Normalised(Registers(c))' = Normalised(Registers(c)) BY SameNormalised
<1> QED BY <1>2, <1>3

\* An update comes closer.
LEMMA UpdateKeeps == IInv /\ (Announce \/ Start) => IInv'
<1> SUFFICES ASSUME IInv, Announce \/ Start PROVE IInv' OBVIOUS
<1>1. /\ status_b' = status_b /\ clock' = clock /\ pc' = pc /\ n' = n /\ t' = t
      /\ prev' = prev /\ first' = first /\ out' = out /\ shown' = shown
      /\ update' \in {"announced", "running"} /\ update # "running"
  BY DEF Announce, Start, thread
<1>2. Types' BY <1>1 DEF IInv, Types
<1>3. Unmixed'
  <2>1. \A c \in shown' : c.second \in 0 .. 59 BY <1>2, FieldsOf DEF Types
  <2>2. Unmixed /\ shown \subseteq shown' BY <1>1 DEF IInv
  <2> QED BY <1>1, <2>1, <2>2, SameUnmixed
<1>4. ASSUME pc # "idle" PROVE \E k \in Nat : \E h : Reading(h, k)'
  <2>1. PICK k \in Nat : \E h : Reading(h, k) BY <1>4 DEF IInv
  <2>2. PICK h : Reading(h, k) BY <2>1
  <2>3. Upto(k) \in Int /\ Upto(k)' \in Int /\ Upto(k) <= Upto(k)' BY <1>1 DEF Upto
  <2>4. (pc = "wait" /\ ~first => Copied(prev, Field, h, 0, Upto(k)))'
    <3>1. pc = "wait" /\ ~first => Copied(prev, Field, h, 0, Upto(k)') BY <2>2, <2>3, CopiedMore DEF Reading
    <3> QED BY <1>1, <3>1, SameFormat DEF Copied
  <2>5. ASSUME NEW m \in 0 .. k, RoundFrom(h, k, m) PROVE RoundFrom(h, k, m)'
    <3>1. Copied(t, SoFar, h, m, Upto(k)') BY <2>3, <2>5, CopiedMore DEF RoundFrom
    <3>2. SoFar' = SoFar BY <1>1 DEF SoFar
    <3>3. Copied(t, SoFar, h, m, Upto(k))' BY <1>1, <3>1, <3>2, SameFormat DEF Copied
    <3>4. (~first => Copied(prev, Field, h, 0, m))' BY <1>1, <2>5, SameFormat DEF RoundFrom, Copied
    <3> QED BY <3>3, <3>4 DEF RoundFrom
  <2>6. Reading(h, k)' BY <1>1, <2>2, <2>4, <2>5 DEF Reading
  <2> QED BY <2>6
<1> QED BY <1>1, <1>2, <1>3, <1>4 DEF IInv

\* The update is over: the next time is shown.
LEMMA CompleteKeeps == IInv /\ Complete => IInv'
<1> SUFFICES ASSUME IInv, Complete PROVE IInv' OBVIOUS
<1>1. /\ status_b' = status_b /\ clock' = Later(clock) /\ pc' = pc /\ n' = n /\ t' = t
      /\ prev' = prev /\ first' = first /\ out' = out /\ shown' = shown \cup {clock'}
      /\ update' = "none" /\ update = "running"
  BY DEF Complete, thread
<1>2. Later(clock) \in Valid BY LaterValid DEF IInv, Types
<1>3. Types' BY <1>1, <1>2 DEF IInv, Types
<1>4. Unmixed'
  <2>1. \A c \in shown' : c.second \in 0 .. 59 BY <1>3, FieldsOf DEF Types
  <2>2. Unmixed /\ shown \subseteq shown' BY <1>1 DEF IInv
  <2> QED BY <1>1, <2>1, <2>2, SameUnmixed
<1>5. ASSUME pc # "idle" PROVE \E k \in Nat : \E h : Reading(h, k)'
  <2>1. PICK k \in Nat : \E h : Reading(h, k) BY <1>5 DEF IInv
  <2>2. PICK h : Reading(h, k) BY <2>1
  <2>3. /\ h \in [0 .. k + 1 -> Valid] /\ \A i \in 0 .. k + 1 - 1 : h[i + 1] = Later(h[i])
        /\ clock = h[k] /\ shown = {h[i] : i \in 0 .. k}
    BY <2>2 DEF Reading, Chain
  <2>4. PICK g : g = [i \in 0 .. k + 2 |-> IF i = k + 2 THEN Later(h[k + 1]) ELSE h[i]] OBVIOUS
  <2>5. \A i \in 0 .. k + 1 : g[i] = h[i] BY <2>4
  <2>6. Chain(g, k + 2)
    <3>1. k + 1 \in 0 .. k + 1 /\ Later(h[k + 1]) \in Valid BY <2>3, LaterValid
    <3>2. g \in [0 .. k + 2 -> Valid]
      <4>1. ASSUME NEW i \in 0 .. k + 2
            PROVE  (IF i = k + 2 THEN Later(h[k + 1]) ELSE h[i]) \in Valid
        <5>1. i = k + 2 \/ i \in 0 .. k + 1 OBVIOUS
        <5> QED BY <2>3, <3>1, <5>1
      <4> QED BY <2>4, <4>1
    <3>3. ASSUME NEW i \in 0 .. k + 2 - 1 PROVE g[i + 1] = Later(g[i])
      <4>1. CASE i = k + 1 BY <2>4, <2>5, <4>1
      <4>2. CASE i # k + 1
        <5>1. i \in 0 .. k + 1 - 1 /\ i \in 0 .. k + 1 /\ i + 1 \in 0 .. k + 1 BY <4>2
        <5> QED BY <2>3, <2>5, <5>1
      <4> QED BY <4>1, <4>2
    <3> QED BY <3>2, <3>3 DEF Chain
  <2>7. k + 1 \in Nat /\ (k + 1) + 1 = k + 2 /\ Upto(k) = k + 1 /\ Upto(k + 1)' = k + 1
    BY <1>1 DEF Upto
  <2>8. clock' = g[k + 1]
    <3>1. k \in 0 .. k + 1 - 1 /\ k + 1 \in 0 .. k + 1 OBVIOUS
    <3> QED BY <1>1, <2>3, <2>5, <3>1
  <2>9. shown' = {g[i] : i \in 0 .. k + 1}
    <3>1. \A i \in 0 .. k + 1 : i \in 0 .. k \/ i = k + 1 OBVIOUS
    <3>2. \A i \in 0 .. k : i \in 0 .. k + 1 OBVIOUS
    <3>3. {g[i] : i \in 0 .. k + 1} = {h[i] : i \in 0 .. k} \cup {g[k + 1]} BY <2>5, <3>1, <3>2
    <3> QED BY <1>1, <2>3, <2>8, <3>3
  <2>10. ASSUME NEW r, NEW fs, NEW a \in Nat, NEW b \in 0 .. k + 1, Copied(r, fs, h, a, b)
         PROVE  \A f \in fs : \E j \in a .. b : r[f] = Register(g[j], f)'
    <3> SUFFICES ASSUME NEW f \in fs PROVE \E j \in a .. b : r[f] = Register(g[j], f)' OBVIOUS
    <3>1. PICK j \in a .. b : r[f] = Register(h[j], f) BY <2>10 DEF Copied
    <3>2. j \in 0 .. k + 1 OBVIOUS
    <3>3. g[j] = h[j] BY <2>5, <3>2
    <3>4. Register(g[j], f)' = Register(g[j], f) BY <1>1, SameFormat
    <3> QED BY <3>1, <3>3, <3>4
  <2>11. (pc = "wait" /\ ~first => Copied(prev, Field, g, 0, Upto(k + 1)))'
    <3> SUFFICES ASSUME pc = "wait", ~first
                 PROVE  \A f \in Field : \E j \in 0 .. k + 1 : prev[f] = Register(g[j], f)'
      BY <1>1, <2>7 DEF Copied
    <3>1. Copied(prev, Field, h, 0, k + 1) BY <2>2, <2>7 DEF Reading
    <3>2. k + 1 \in 0 .. k + 1 OBVIOUS
    <3> QED BY <2>10, <3>1, <3>2
  <2>12. ASSUME NEW m \in 0 .. k, RoundFrom(h, k, m) PROVE RoundFrom(g, k + 1, m)'
    <3>1. m \in 0 .. k + 1 /\ k + 1 \in 0 .. k + 1 OBVIOUS
    <3>2. SoFar' = SoFar BY <1>1 DEF SoFar
    <3>3. \A f \in SoFar : \E j \in m .. k + 1 : t[f] = Register(g[j], f)'
      BY <2>7, <2>10, <2>12, <3>1 DEF RoundFrom
    <3>4. ~first => \A f \in Field : \E j \in 0 .. m : prev[f] = Register(g[j], f)'
      BY <2>10, <2>12, <3>1 DEF RoundFrom
    <3>5. Copied(t, SoFar, g, m, Upto(k + 1))' BY <1>1, <2>7, <3>2, <3>3 DEF Copied
    <3>6. (~first => Copied(prev, Field, g, 0, m))' BY <1>1, <3>4 DEF Copied
    <3> QED BY <3>5, <3>6 DEF RoundFrom
  <2>13. ASSUME pc' = "read" PROVE \E m \in 0 .. k + 1 : RoundFrom(g, k + 1, m)'
    <3>1. PICK m \in 0 .. k : RoundFrom(h, k, m) BY <1>1, <2>2, <2>13 DEF Reading
    <3>2. m \in 0 .. k + 1 OBVIOUS
    <3> QED BY <2>12, <3>1, <3>2
  <2>14. Reading(g, k + 1)' BY <2>6, <2>7, <2>8, <2>9, <2>11, <2>13 DEF Reading
  <2> QED BY <2>7, <2>14
<1> QED BY <1>1, <1>3, <1>4, <1>5 DEF IInv

LEMMA StepHolds == IInv /\ [Next]_vars => IInv'
<1> SUFFICES ASSUME IInv, [Next]_vars PROVE IInv' OBVIOUS
<1>1. CASE UNCHANGED vars
  <2>1. /\ status_b' = status_b /\ clock' = clock /\ update' = update /\ pc' = pc /\ n' = n
        /\ t' = t /\ prev' = prev /\ first' = first /\ out' = out /\ shown' = shown
    BY <1>1 DEF vars, chip, thread
  <2>2. Types' BY <2>1 DEF IInv, Types
  <2>3. Unmixed'
    <3>1. \A c \in shown' : c.second \in 0 .. 59 BY <2>2, FieldsOf DEF Types
    <3> QED BY <2>1, <3>1, SameUnmixed DEF IInv
  <2>4. ASSUME pc # "idle" PROVE \E k \in Nat : \E h : Reading(h, k)'
    <3>1. PICK k \in Nat : \E h : Reading(h, k) BY <2>4 DEF IInv
    <3>2. PICK h : Reading(h, k) BY <3>1
    <3>3. Upto(k)' = Upto(k) /\ SoFar' = SoFar BY <2>1 DEF Upto, SoFar
    <3>4. (pc = "wait" /\ ~first => Copied(prev, Field, h, 0, Upto(k)))'
      BY <2>1, <3>2, <3>3, SameFormat DEF Reading, Copied
    <3>5. \A m : RoundFrom(h, k, m)' = RoundFrom(h, k, m)
      BY <2>1, <3>3, SameFormat DEF RoundFrom, Copied
    <3>6. Reading(h, k)' BY <2>1, <3>2, <3>4, <3>5 DEF Reading
    <3> QED BY <3>6
  <2> QED BY <2>1, <2>2, <2>3, <2>4 DEF IInv
<1> QED
  BY <1>1, CallKeeps, WaitKeeps, ReadKeeps, AgainKeeps, ReturnKeeps, UpdateKeeps, CompleteKeeps
  DEF Next, Thread

\* rtc_read() never mixes the registers of two times: a call that took less
\* than a minute returns what it makes of the registers of one time that the
\* clock showed since, in every format, wherever the updates fell.
THEOREM NeverMixed == Spec => []Unmixed
<1>1. IInv => Unmixed BY DEF IInv
<1> QED BY <1>1, InitHolds, StepHolds, PTL DEF Spec

\* The hour can be told: the clock counts 24 hours, or it was not 12 o'clock.
\* At 12 o'clock of a 12-hour clock rtc.c:69 is half a day off.
HourTold == status_b.h24 \/ \A c \in shown : c.hour % 12 # 0

\* Then the date returned is one the clock showed.
THEOREM DatesShown == Spec => [](WithinAMinute /\ HourTold => DateShown)
<1>1. IInv => (WithinAMinute /\ HourTold => DateShown)
  <2> SUFFICES ASSUME IInv, WithinAMinute, HourTold, pc = "idle", out # NoTime
               PROVE  out \in {Date(c) : c \in shown}
    BY DEF DateShown
  <2>1. PICK c \in shown : out = Normalised(Registers(c)) BY DEF IInv, Unmixed
  <2>2. status_b \in Status /\ c \in Valid /\ (status_b.h24 \/ c.hour % 12 # 0)
    BY DEF IInv, Types, HourTold
  <2>3. Registers(c) \in [Field -> Int] /\ \A f \in Field : Registers(c)[f] = Register(c, f)
    BY <2>2, RegisterType DEF Registers
  <2>4. Normalised(Registers(c)) = Date(c) BY <2>2, <2>3, NormalisedIs
  <2> QED BY <2>1, <2>4
<1> QED BY <1>1, InitHolds, StepHolds, PTL DEF Spec
=============================================================================
