--------------------------- MODULE KeyboardProofs ---------------------------
(***************************************************************************)
(* The driver's ring is a queue (KeyQueue), for every BUF_SIZE, every       *)
(* layout and every sequence of interrupts, whatever console_getchar() is   *)
(* doing and in whichever order the compiler put keyboard_read()'s two      *)
(* accesses.  The serial line is decoded as one stream (ConsoleInput), and  *)
(* what is typed on one Shift key arrives as it was meant (Typist).         *)
(***************************************************************************)
EXTENDS ConsoleInput, Typist, RecursionProofs, SequenceTheorems, TLAPS

RingTypeOK ==
    /\ buf \in [Slots -> KeyCode] /\ head \in Slots /\ tail \in Slots
    /\ rd \in Reader

\* keyboard_read() is under way only where console_getchar() called it; while
\* it is, the slot it is about to give back holds the key it saw.
Reading ==
    /\ pc # "read" => rd.at = "out"
    /\ rd.at \in {"take", "loaded"} => head # tail
    /\ rd.at = "loaded" => rd.c = buf[tail]

RingInv == RingTypeOK /\ Reading

\* The ring's contents between t and h, over a memory b.
Window(b, h, t) == [i \in 1 .. (h - t) % BUF_SIZE |-> b[(t + i - 1) % BUF_SIZE]]

-----------------------------------------------------------------------------
(* Arithmetic of the mask, and of sequences.                                *)

\* What the mask does to an index that has left the ring by less than its size.
LEMMA Masked ==
    ASSUME NEW x \in Int
    PROVE  /\ 0 <= x /\ x < BUF_SIZE => x % BUF_SIZE = x
           /\ BUF_SIZE <= x /\ x < 2 * BUF_SIZE => x % BUF_SIZE = x - BUF_SIZE
           /\ -BUF_SIZE <= x /\ x < 0 => x % BUF_SIZE = x + BUF_SIZE
BY RingAssumption

\* How many keys lie between the two indices.
Count(h, t) == IF h >= t THEN h - t ELSE h - t + BUF_SIZE

\* The slot i places behind t.
Slot(t, i) == IF t + i < BUF_SIZE THEN t + i ELSE t + i - BUF_SIZE

\* The code's masked differences and sums are these.
LEMMA Indices ==
    ASSUME NEW h \in Slots, NEW t \in Slots
    PROVE  /\ (h - t) % BUF_SIZE = Count(h, t)
           /\ Count(h, t) \in 0 .. BUF_SIZE - 1
           /\ Succ(t) = Slot(t, 1)
           /\ Succ(t) \in Slots
           /\ (t - 1) % BUF_SIZE = Slot(t, BUF_SIZE - 1)
           /\ (t - 1) % BUF_SIZE \in Slots
<1>1. (h - t) % BUF_SIZE = Count(h, t) /\ Count(h, t) \in 0 .. BUF_SIZE - 1
  BY Masked, RingAssumption DEF Slots, Count
<1>2. Succ(t) = Slot(t, 1) /\ Succ(t) \in Slots
  BY Masked, RingAssumption DEF Slots, Slot, Succ
<1>3. (t - 1) % BUF_SIZE = Slot(t, BUF_SIZE - 1) /\ (t - 1) % BUF_SIZE \in Slots
  BY Masked, RingAssumption DEF Slots, Slot
<1> QED BY <1>1, <1>2, <1>3

LEMMA SlotBehind ==
    ASSUME NEW t \in Slots, NEW i \in 1 .. BUF_SIZE
    PROVE  (t + i - 1) % BUF_SIZE = Slot(t, i - 1) /\ Slot(t, i - 1) \in Slots
BY Masked, RingAssumption DEF Slots, Slot

\* A key followed by the rest of a queue, and the two halves of a queue.
LEMMA HeadThenTail ==
    ASSUME NEW S, NEW s \in Seq(S), s # <<>>
    PROVE  <<Head(s)>> \o Tail(s) = s
BY SMT

LEMMA FirstOf ==
    ASSUME NEW S, NEW x \in S, NEW s \in Seq(S)
    PROVE  LET q == <<x>> \o s IN q # <<>> /\ Head(q) = x /\ Tail(q) = s /\ Len(q) = Len(s) + 1
BY SMT

LEMMA AppendBehind ==
    ASSUME NEW S, NEW x \in S, NEW s \in Seq(S), NEW c \in S
    PROVE  <<x>> \o Append(s, c) = Append(<<x>> \o s, c)
BY SMT

-----------------------------------------------------------------------------
(* What an access does to the ring's contents.                              *)

LEMMA WindowIs ==
    ASSUME NEW b \in [Slots -> KeyCode], NEW h \in Slots, NEW t \in Slots
    PROVE  /\ Window(b, h, t) \in Seq(KeyCode)
           /\ Len(Window(b, h, t)) = Count(h, t)
           /\ \A i \in 1 .. Count(h, t) : Window(b, h, t)[i] = b[Slot(t, i - 1)]
<1> DEFINE n == Count(h, t)
           w == Window(b, h, t)
<1>1. n \in 0 .. BUF_SIZE - 1 /\ w = [i \in 1 .. n |-> b[(t + i - 1) % BUF_SIZE]]
  BY Indices DEF Window
<1>2. \A i \in 1 .. n : (t + i - 1) % BUF_SIZE = Slot(t, i - 1) /\ Slot(t, i - 1) \in Slots
  <2> SUFFICES ASSUME NEW i \in 1 .. n
               PROVE  (t + i - 1) % BUF_SIZE = Slot(t, i - 1) /\ Slot(t, i - 1) \in Slots
    OBVIOUS
  <2>1. i \in 1 .. BUF_SIZE BY <1>1, RingAssumption
  <2> QED BY <2>1, SlotBehind
<1> HIDE DEF n, w
<1>3. w \in [1 .. n -> KeyCode] BY <1>1, <1>2
<1>4. w \in Seq(KeyCode) /\ Len(w) = n BY <1>1, <1>3
<1>5. \A i \in 1 .. n : w[i] = b[Slot(t, i - 1)] BY <1>1, <1>2
<1> QED BY <1>4, <1>5 DEF n, w

\* push() on a ring that is not full.
LEMMA Pushed ==
    ASSUME NEW b \in [Slots -> KeyCode], NEW h \in Slots, NEW t \in Slots,
           NEW c \in KeyCode, Succ(h) # t
    PROVE  /\ Window([b EXCEPT ![h] = c], Succ(h), t) = Append(Window(b, h, t), c)
           /\ (t - 1) % BUF_SIZE # h
<1> DEFINE d == [b EXCEPT ![h] = c]
           n == Count(h, t)
           v == Window(b, h, t)
           w == Window(d, Succ(h), t)
<1>1. d \in [Slots -> KeyCode] /\ d[h] = c /\ \A i \in Slots \ {h} : d[i] = b[i]
  OBVIOUS
<1>2. Succ(h) \in Slots /\ Succ(h) = Slot(h, 1) /\ n \in 0 .. BUF_SIZE - 1
  BY Indices
<1>3. Count(Succ(h), t) = n + 1 /\ Slot(t, n) = h
  BY <1>2, RingAssumption DEF Count, Slot, Slots
<1>4. \A i \in 1 .. n : Slot(t, i - 1) \in Slots \ {h}
  BY <1>2, RingAssumption DEF Count, Slot, Slots
<1>5. (t - 1) % BUF_SIZE # h
  <2>1. (t - 1) % BUF_SIZE = Slot(t, BUF_SIZE - 1) BY Indices
  <2> QED BY <2>1, <1>2, RingAssumption DEF Slot, Slots
<1>6. v \in Seq(KeyCode) /\ Len(v) = n /\ \A i \in 1 .. n : v[i] = b[Slot(t, i - 1)]
  BY WindowIs
<1>7. w \in Seq(KeyCode) /\ Len(w) = n + 1 /\ \A i \in 1 .. n + 1 : w[i] = d[Slot(t, i - 1)]
  <2> HIDE DEF d, n
  <2> DEFINE m == Count(Succ(h), t)
  <2>1. w \in Seq(KeyCode) /\ Len(w) = m /\ \A i \in 1 .. m : w[i] = d[Slot(t, i - 1)]
    BY <1>1, <1>2, WindowIs
  <2> QED BY <1>3, <2>1
<1> HIDE DEF d, n, v, w
<1>8. \A i \in 1 .. n : w[i] = v[i] BY <1>1, <1>2, <1>4, <1>6, <1>7
<1>9. w[n + 1] = c
  <2>1. n + 1 \in 1 .. n + 1 /\ (n + 1) - 1 = n BY <1>2
  <2> QED BY <1>1, <1>3, <1>7, <2>1
<1>10. w = Append(v, c)
  <2> DEFINE a == Append(v, c)
  <2>1. a \in Seq(KeyCode) /\ Len(a) = n + 1 /\ a[n + 1] = c /\ \A i \in 1 .. n : a[i] = v[i]
    BY <1>6, AppendProperties
  <2> HIDE DEF a
  <2>2. \A i \in 1 .. n + 1 : w[i] = a[i] BY <1>2, <1>8, <1>9, <2>1
  <2>3. w = a BY <1>7, <2>1, <2>2, SeqEqual
  <2> QED BY <2>3 DEF a
<1> QED BY <1>5, <1>10 DEF d, v, w

\* keyboard_read() advancing tail on a ring that is not empty.
LEMMA Taken ==
    ASSUME NEW b \in [Slots -> KeyCode], NEW h \in Slots, NEW t \in Slots, h # t
    PROVE  /\ Window(b, h, t) # <<>>
           /\ Head(Window(b, h, t)) = b[t]
           /\ Tail(Window(b, h, t)) = Window(b, h, Succ(t))
           /\ (Succ(t) - 1) % BUF_SIZE = t
<1> DEFINE n == Count(h, t)
           v == Window(b, h, t)
           w == Window(b, h, Succ(t))
<1>1. Succ(t) \in Slots /\ Succ(t) = Slot(t, 1) /\ n \in 1 .. BUF_SIZE - 1
  <2>1. n # 0 BY RingAssumption DEF Count, Slots
  <2> QED BY <2>1, Indices
<1>2. Count(h, Succ(t)) = n - 1 /\ Slot(t, 0) = t
  BY <1>1, RingAssumption DEF Count, Slot, Slots
<1>3. (Succ(t) - 1) % BUF_SIZE = t
  <2>1. (Succ(t) - 1) % BUF_SIZE = Slot(Succ(t), BUF_SIZE - 1) BY <1>1, Indices
  <2> QED BY <1>1, <2>1, RingAssumption DEF Slot, Slots
<1>4. \A i \in 1 .. n - 1 : Slot(Succ(t), i - 1) = Slot(t, i)
  BY <1>1, RingAssumption DEF Slot, Slots
<1>5. v \in Seq(KeyCode) /\ Len(v) = n /\ \A i \in 1 .. n : v[i] = b[Slot(t, i - 1)]
  BY WindowIs
<1>6. w \in Seq(KeyCode) /\ Len(w) = n - 1
      /\ \A i \in 1 .. n - 1 : w[i] = b[Slot(Succ(t), i - 1)]
  <2> HIDE DEF n
  <2> QED BY <1>1, <1>2, WindowIs, ZenonT(60)
<1> HIDE DEF n, v, w
<1>7. v # <<>> BY <1>1, <1>5
<1>8. Head(v) = b[t]
  <2>1. v[1] = b[Slot(t, 0)]
    <3>1. 1 \in 1 .. n /\ 1 - 1 = 0 BY <1>1
    <3> QED BY <3>1, <1>5
  <2> QED BY <1>2, <1>5, <1>7, <2>1
<1>9. Tail(v) = w
  <2> DEFINE a == Tail(v)
  <2>1. a \in Seq(KeyCode) /\ Len(a) = n - 1 /\ \A i \in 1 .. n - 1 : a[i] = v[i + 1]
    BY <1>5, <1>7, HeadTailProperties
  <2> HIDE DEF a
  <2>2. \A i \in 1 .. n - 1 : w[i] = a[i]
    <3> SUFFICES ASSUME NEW i \in 1 .. n - 1 PROVE w[i] = a[i] OBVIOUS
    <3>1. i + 1 \in 1 .. n /\ (i + 1) - 1 = i BY <1>1
    <3>2. v[i + 1] = b[Slot(t, i)] BY <1>5, <3>1
    <3> QED BY <1>4, <1>6, <2>1, <3>2
  <2>3. w = a BY <1>6, <2>1, <2>2, SeqEqual
  <2> QED BY <2>3 DEF a
<1> QED BY <1>3, <1>7, <1>8, <1>9 DEF v, w

-----------------------------------------------------------------------------
(* The handler.                                                             *)

\* What the layout and Caps Lock make of a scancode fits the ring.
LEMMA Translated ==
    ASSUME NEW sc
    PROVE  Translate(sc) \in KeyCode
<1> DEFINE map == IF shift THEN map_upper ELSE map_lower
           c == Char(map, sc)
<1>1. map \in {map_lower, map_upper} OBVIOUS
<1> HIDE DEF map
<1>2. c \in 0 .. 127
  <2>1. CASE sc \in DOMAIN map BY <1>1, <2>1, LayoutAssumption DEF Char
  <2>2. CASE sc \notin DOMAIN map BY <2>2 DEF Char
  <2> QED BY <2>1, <2>2
<1>3. Translate(sc) \in {c, c - 32, c + 32} /\ (c < 97 => Translate(sc) # c - 32)
      /\ (c > 90 => Translate(sc) # c + 32)
  <2>1. Translate(sc) = CASE caps /\ ~shift /\ c \in 97 .. 122 -> c - 32
                          [] caps /\ shift /\ c \in 65 .. 90   -> c + 32
                          [] OTHER                             -> c
    BY DEF Translate, map
  <2> HIDE DEF c
  <2> QED BY <1>2, <2>1
<1> HIDE DEF c
<1> QED BY <1>2, <1>3 DEF KeyCode

\* The handler pushes one key or none.
LEMMA HandlerPushes ==
    ASSUME NEW sc, keyboard_irq(sc)
    PROVE  NoPush \/ \E c \in KeyCode : push(c)
<1>1. KEY_UP \in KeyCode /\ KEY_DOWN \in KeyCode BY DEF KEY_UP, KEY_DOWN, KeyCode
<1>2. CASE /\ sc # 224 /\ saw_e0
           /\ CASE sc = 72 -> push(KEY_UP)
                [] sc = 80 -> push(KEY_DOWN)
                [] OTHER   -> NoPush
  <2>1. CASE sc = 72 BY <1>1, <1>2, <2>1
  <2>2. CASE sc = 80 BY <1>1, <1>2, <2>2
  <2>3. CASE sc \notin {72, 80} BY <1>2, <2>3
  <2> QED BY <2>1, <2>2, <2>3
<1>3. CASE IF Translate(sc) = 0 THEN NoPush ELSE push(Translate(sc))
  BY <1>3, Translated
<1>4. CASE NoPush BY <1>4
<1> QED BY <1>2, <1>3, <1>4 DEF keyboard_irq

-----------------------------------------------------------------------------
(* The invariant.                                                           *)

LEMMA RingInit == Init => RingInv
BY RingAssumption
   DEF Init, KbdInit, RingInv, RingTypeOK, Reading, Slots, KeyCode, NotReading, Reader

LEMMA KeyKeeps ==
    ASSUME RingInv, NEW sc, Key(sc)
    PROVE  RingInv'
<1>1. UNCHANGED <<tail, rd>> /\ (pc' = pc \/ (pc = "halted" /\ pc' = "test"))
  BY DEF Key, Wake
<1>2. CASE NoPush
  BY <1>1, <1>2 DEF NoPush, RingInv, RingTypeOK, Reading
<1>3. ASSUME NEW c \in KeyCode, push(c) PROVE RingInv'
  <2>1. CASE Succ(head) = tail
    BY <1>1, <1>3, <2>1 DEF push, RingInv, RingTypeOK, Reading
  <2>2. CASE Succ(head) # tail
    <3>1. buf' = [buf EXCEPT ![head] = c] /\ head' = Succ(head)
      BY <1>3, <2>2 DEF push
    <3>2. Succ(head) \in Slots BY Indices DEF RingInv, RingTypeOK
    <3>3. RingTypeOK' BY <1>1, <3>1, <3>2 DEF RingInv, RingTypeOK
    <3>4. head # tail => buf'[tail] = buf[tail] BY <3>1 DEF RingInv, RingTypeOK
    <3>5. Reading' BY <1>1, <2>2, <3>1, <3>4 DEF RingInv, Reading
    <3> QED BY <3>3, <3>5 DEF RingInv
  <2> QED BY <2>1, <2>2
<1> QED BY <1>2, <1>3, HandlerPushes DEF Key

LEMMA ReadKeeps ==
    ASSUME RingInv, ReadKey
    PROVE  RingInv'
<1> USE DEF RingInv, RingTypeOK
<1>1. Succ(tail) \in Slots BY Indices
<1>2. buf[tail] \in Int /\ NotReading \in Reader BY DEF KeyCode, NotReading, Reader
<1>3. CASE LoadChar
  BY <1>2, <1>3 DEF ReadKey, LoadChar, Reading, Reader, NotReading
<1>4. CASE AdvanceTail
  BY <1>1, <1>2, <1>4 DEF AdvanceTail, Returned, Reading, NotReading
<1>5. CASE AdvanceFirst
  BY <1>1, <1>5 DEF ReadKey, AdvanceFirst, Reading, Reader, NotReading
<1>6. CASE LoadLate
  BY <1>2, <1>6 DEF LoadLate, Returned, Reading, NotReading
<1> QED BY <1>3, <1>4, <1>5, <1>6 DEF ReadKey

\* The steps of the thread that do not touch the keyboard.
Elsewhere == Call \/ NoKey \/ NoByte \/ SomeByte \/ Escape \/ Arrow \/ GiveUp \/ Halt

LEMMA ElsewhereKeeps ==
    ASSUME Elsewhere \/ timer_irq \/ (\E x \in Bytes : Arrive(x)) \/ UNCHANGED vars
    PROVE  UNCHANGED kvars /\ (pc = "read" <=> pc' = "read")
BY DEF Elsewhere, Call, NoKey, NoByte, SomeByte, Escape, Arrow, GiveUp, Halt, Goto, Deliver,
       Discard, timer_irq, Wake, Arrive, vars

LEMMA RingStep == RingInv /\ [Next]_vars => RingInv'
<1> SUFFICES ASSUME RingInv, [Next]_vars PROVE RingInv'
  OBVIOUS
<1>1. ASSUME Elsewhere \/ timer_irq \/ (\E x \in Bytes : Arrive(x)) \/ UNCHANGED vars
      PROVE  RingInv'
  <2>1. UNCHANGED kvars /\ (pc = "read" <=> pc' = "read") BY <1>1, ElsewhereKeeps
  <2> QED
    BY <2>1, ElsewhereKeeps DEF kvars, RingInv, RingTypeOK, Reading
<1>2. CASE SomeKey
  BY <1>2 DEF SomeKey, TestRing, Empty, RingInv, RingTypeOK, Reading, Reader
<1>3. CASE ReadKey BY <1>3, ReadKeeps
<1>4. CASE \E sc \in Scancodes : Key(sc) BY <1>4, KeyKeeps
<1> QED BY <1>1, <1>2, <1>3, <1>4 DEF Next, Thread, Elsewhere

-----------------------------------------------------------------------------
(* The refinement.                                                          *)

\* The queue's contents, as a Window.
LEMMA PendingIs ==
    ASSUME RingInv
    PROVE  /\ Unread = Window(buf, head, tail)
           /\ Unread \in Seq(KeyCode)
           /\ Len(Unread) = Count(head, tail)
           /\ buf[(tail - 1) % BUF_SIZE] \in KeyCode
           /\ Pending = IF rd.at = "advanced"
                        THEN <<buf[(tail - 1) % BUF_SIZE]>> \o Unread ELSE Unread
<1>1. Unread = Window(buf, head, tail) BY DEF Unread, Window
<1>2. (tail - 1) % BUF_SIZE \in Slots BY Indices DEF RingInv, RingTypeOK
<1>3. buf \in [Slots -> KeyCode] /\ head \in Slots /\ tail \in Slots
  BY DEF RingInv, RingTypeOK
<1>4. Unread \in Seq(KeyCode) /\ Len(Unread) = Count(head, tail) BY <1>1, <1>3, WindowIs
<1>5. buf[(tail - 1) % BUF_SIZE] \in KeyCode BY <1>2, <1>3
<1>6. Pending = IF rd.at = "advanced"
                THEN <<buf[(tail - 1) % BUF_SIZE]>> \o Unread ELSE Unread
  BY DEF Pending
<1> QED BY <1>1, <1>4, <1>5, <1>6

\* Nothing moves in the queue while the keyboard is not touched.
LEMMA QueueStutters ==
    ASSUME UNCHANGED <<buf, head, tail, kgot, lost>>, (rd.at = "advanced") = (rd'.at = "advanced")
    PROVE  UNCHANGED Queue!qvars
BY DEF Queue!qvars, Pending, Unread

\* A key pushed is typed into the queue, or dropped because it is full, also
\* while keyboard_read() has still to load from the slot it gave back.
LEMMA PushIsType ==
    ASSUME RingInv, RingInv', NEW c \in KeyCode, push(c), UNCHANGED <<tail, rd, kgot>>
    PROVE  Queue!Next
<1> DEFINE first == buf[(tail - 1) % BUF_SIZE]
<1>1. buf \in [Slots -> KeyCode] /\ head \in Slots /\ tail \in Slots
  BY DEF RingInv, RingTypeOK
<1>2. CASE Succ(head) = tail
  <2>1. Count(head, tail) = BUF_SIZE - 1
    <3>1. Succ(head) = Slot(head, 1) BY <1>1, Indices
    <3> QED BY <1>1, <1>2, <3>1, RingAssumption DEF Count, Slot, Slots
  <2>2. Len(Pending) >= BUF_SIZE - 1
    <3>1. CASE rd.at = "advanced"
      BY <2>1, <3>1, PendingIs, FirstOf, RingAssumption
    <3>2. CASE rd.at # "advanced"
      BY <2>1, <3>2, PendingIs, RingAssumption
    <3> QED BY <3>1, <3>2
  <2>3. lost' = lost + 1 /\ UNCHANGED <<buf, head>> BY <1>2 DEF push
  <2>4. Pending' = Pending BY <2>3 DEF Pending, Unread
  <2> QED BY <2>2, <2>3, <2>4 DEF Queue!Next, Queue!Drop
<1>3. CASE Succ(head) # tail
  <2>1. buf' = [buf EXCEPT ![head] = c] /\ head' = Succ(head) /\ lost' = lost
    BY <1>3 DEF push
  <2>2. Unread' = Append(Unread, c)
    <3>1. Unread' = Window(buf', head', tail') BY DEF Unread, Window
    <3>2. Window([buf EXCEPT ![head] = c], Succ(head), tail) = Append(Window(buf, head, tail), c)
      BY <1>1, <1>3, Pushed
    <3>3. Unread' = Window([buf EXCEPT ![head] = c], Succ(head), tail)
      BY <2>1, <3>1
    <3>4. Unread = Window(buf, head, tail) BY PendingIs
    <3> QED BY <3>2, <3>3, <3>4
  <2>3. first' = first
    <3>1. (tail - 1) % BUF_SIZE # head BY <1>1, <1>3, Pushed
    <3>2. (tail - 1) % BUF_SIZE \in Slots BY <1>1, Indices
    <3>3. buf'[(tail - 1) % BUF_SIZE] = first
      BY <1>1, <2>1, <3>1, <3>2
    <3>4. first' = buf'[(tail' - 1) % BUF_SIZE] OBVIOUS
    <3> QED BY <3>3, <3>4
  <2> HIDE DEF first
  <2>4. Pending' = Append(Pending, c)
    <3>1. CASE rd.at = "advanced"
      <4>1. Pending = <<first>> \o Unread /\ first \in KeyCode /\ Unread \in Seq(KeyCode)
        BY <3>1, PendingIs DEF first
      <4>2. Pending' = <<first'>> \o Unread' BY <3>1 DEF Pending, first
      <4> QED BY <2>2, <2>3, <4>1, <4>2, AppendBehind
    <3>2. CASE rd.at # "advanced"
      BY <2>2, <3>2 DEF Pending
    <3> QED BY <3>1, <3>2
  <2>5. Queue!Type(c) BY <2>1, <2>4 DEF Queue!Type
  <2> QED BY <2>5 DEF Queue!Next
<1> QED BY <1>2, <1>3

\* Either order of keyboard_read()'s accesses takes the oldest key, once.
LEMMA ReadIsRead ==
    ASSUME RingInv, ReadKey
    PROVE  [Queue!Next]_(Queue!qvars)
<1>1. buf \in [Slots -> KeyCode] /\ head \in Slots /\ tail \in Slots
  BY DEF RingInv, RingTypeOK
<1>2. CASE LoadChar
  BY <1>2, QueueStutters DEF LoadChar
<1>3. CASE AdvanceTail
  <2>1. rd.at = "loaded" /\ head # tail /\ rd.c = buf[tail]
    BY <1>3 DEF AdvanceTail, RingInv, Reading
  <2>2. Pending = Window(buf, head, tail) BY <2>1, PendingIs
  <2>3. Pending' = Window(buf, head, Succ(tail))
    BY <1>3 DEF AdvanceTail, Returned, NotReading, Pending, Unread, Window
  <2>4. kgot' = Append(kgot, buf[tail]) /\ lost' = lost
    BY <1>3, <2>1 DEF AdvanceTail, Returned
  <2>5. Pending # <<>> /\ Head(Pending) = buf[tail] /\ Tail(Pending) = Pending'
    BY <1>1, <2>1, <2>2, <2>3, Taken
  <2>6. Queue!Read BY <2>4, <2>5 DEF Queue!Read
  <2> QED BY <2>6 DEF Queue!Next
<1>4. CASE AdvanceFirst
  <2>1. rd.at = "take" /\ head # tail
    BY <1>4 DEF AdvanceFirst, RingInv, Reading
  <2> DEFINE v == Window(buf, head, tail)
             w == Window(buf, head, Succ(tail))
  <2>2. Pending = v BY <2>1, PendingIs
  <2>3. Pending' = <<buf[(Succ(tail) - 1) % BUF_SIZE]>> \o w
    BY <1>4 DEF AdvanceFirst, Pending, Unread, Window
  <2>4. v \in Seq(KeyCode) /\ v # <<>> /\ Head(v) = buf[tail] /\ Tail(v) = w
        /\ (Succ(tail) - 1) % BUF_SIZE = tail
    BY <1>1, <2>1, Taken, WindowIs
  <2> HIDE DEF v, w
  <2>5. Pending' = Pending BY <2>2, <2>3, <2>4, HeadThenTail
  <2>6. UNCHANGED <<kgot, lost>> BY <1>4 DEF AdvanceFirst
  <2> QED BY <2>5, <2>6 DEF Queue!qvars
<1>5. CASE LoadLate
  <2> DEFINE first == buf[(tail - 1) % BUF_SIZE]
  <2>1. rd.at = "advanced" BY <1>5 DEF LoadLate
  <2>2. Pending = <<first>> \o Unread /\ first \in KeyCode /\ Unread \in Seq(KeyCode)
    BY <2>1, PendingIs
  <2>3. Pending' = Unread
    BY <1>5 DEF LoadLate, Returned, NotReading, Pending, Unread
  <2>4. kgot' = Append(kgot, first) /\ lost' = lost BY <1>5 DEF LoadLate, Returned
  <2> HIDE DEF first
  <2>5. Pending # <<>> /\ Head(Pending) = first /\ Tail(Pending) = Pending'
    BY <2>2, <2>3, FirstOf
  <2>6. Queue!Read BY <2>4, <2>5 DEF Queue!Read
  <2> QED BY <2>6 DEF Queue!Next
<1> QED BY <1>2, <1>3, <1>4, <1>5 DEF ReadKey

LEMMA QueueStep == RingInv /\ RingInv' /\ [Next]_vars => [Queue!Next]_(Queue!qvars)
<1> SUFFICES ASSUME RingInv, RingInv', [Next]_vars PROVE [Queue!Next]_(Queue!qvars)
  OBVIOUS
<1>1. ASSUME Elsewhere \/ timer_irq \/ (\E x \in Bytes : Arrive(x)) \/ UNCHANGED vars
      PROVE  UNCHANGED Queue!qvars
  <2>1. UNCHANGED kvars BY <1>1, ElsewhereKeeps
  <2> QED BY <2>1, QueueStutters DEF kvars
<1>2. ASSUME SomeKey PROVE UNCHANGED Queue!qvars
  BY <1>2, QueueStutters DEF SomeKey, TestRing, RingInv, Reading
<1>3. CASE ReadKey BY <1>3, ReadIsRead
<1>4. ASSUME NEW sc \in Scancodes, Key(sc) PROVE [Queue!Next]_(Queue!qvars)
  <2>1. UNCHANGED <<tail, rd, kgot>> BY <1>4 DEF Key
  <2>2. CASE NoPush BY <2>1, <2>2, QueueStutters DEF NoPush
  <2>3. CASE \E c \in KeyCode : push(c) BY <2>1, <2>3, PushIsType
  <2> QED BY <1>4, <2>2, <2>3, HandlerPushes DEF Key
<1> QED BY <1>1, <1>2, <1>3, <1>4 DEF Next, Thread, Elsewhere

\* The ring implements a queue of BUF_SIZE - 1 keys: keys come out once and
\* in order, and one is dropped only when the ring is full, wherever the
\* interrupt falls into keyboard_read().
THEOREM RingIsQueue == Spec => KeysInOrder
<1>1. Init => Queue!Init
  <2> SUFFICES ASSUME Init PROVE Queue!Init OBVIOUS
  <2>1. head = 0 /\ tail = 0 /\ rd.at = "out" /\ kgot = <<>> /\ lost = 0
    BY DEF Init, KbdInit, NotReading
  <2>2. Unread \in Seq(KeyCode) /\ Len(Unread) = 0 /\ Pending = Unread
    <3>1. RingInv BY RingInit
    <3> QED BY <2>1, <3>1, PendingIs, RingAssumption DEF Count
  <2>3. Pending = <<>> BY <2>2, EmptySeq
  <2> QED BY <2>1, <2>3 DEF Queue!Init
<1> QED BY <1>1, RingInit, RingStep, QueueStep, PTL DEF Spec, KeysInOrder, Queue!Spec

-----------------------------------------------------------------------------
(* The serial bytes.                                                        *)

Stream == Seq(KeyCode)

\* Where Decode stops: at the end, or within a sequence.
Ended == {s \in Stream : \/ s = <<>>
                         \/ s[1] = ESC /\ Len(s) = 1
                         \/ s[1] = ESC /\ s[2] = LBRACKET /\ Len(s) = 2}

\* What the first key or sequence of a stream means, and what is behind it.
FirstMeans(s) ==
    IF s[1] # ESC
    THEN <<CASE s[1] = CR -> LF [] s[1] = DEL -> BS [] OTHER -> s[1]>>
    ELSE IF s[2] # LBRACKET THEN <<>>
    ELSE CASE s[3] = 65 -> <<KEY_UP>> [] s[3] = 66 -> <<KEY_DOWN>> [] OTHER -> <<>>

Behind(s) ==
    IF s[1] # ESC THEN Tail(s)
    ELSE IF s[2] # LBRACKET THEN SubSeq(s, 3, Len(s)) ELSE SubSeq(s, 4, Len(s))

\* A stream without its first bytes.
LEMMA Dropped ==
    ASSUME NEW s \in Stream, NEW m \in 1 .. Len(s) + 1
    PROVE  LET r == SubSeq(s, m, Len(s)) IN
           r \in Stream /\ Len(r) = Len(s) - m + 1 /\ \A i \in 1 .. Len(s) - m + 1 : r[i] = s[m + i - 1]
<1> DEFINE r == SubSeq(s, m, Len(s))
<1>1. Len(s) \in Nat /\ m \in Int BY DEF Stream
<1>2. \A i \in m .. Len(s) : s[i] \in KeyCode BY DEF Stream
<1>3. /\ r \in Seq(KeyCode) /\ Len(r) = IF m <= Len(s) THEN Len(s) - m + 1 ELSE 0
      /\ \A i \in 1 .. Len(s) - m + 1 : r[i] = s[m + i - 1]
  BY <1>1, <1>2, SubSeqProperties
<1> HIDE DEF r
<1> QED BY <1>1, <1>3 DEF Stream, r

LEMMA Together ==
    ASSUME NEW a \in Stream, NEW b \in Stream, NEW c \in Stream
    PROVE  (a \o b) \o c = a \o (b \o c) /\ b \o c \in Stream
<1>1. a \in Seq(KeyCode) /\ b \in Seq(KeyCode) /\ c \in Seq(KeyCode) BY DEF Stream
<1>2. (a \o b) \o c = a \o (b \o c)
  <2> DEFINE p == a \o b
             r == b \o c
  <2>1. /\ p \in Seq(KeyCode) /\ Len(p) = Len(a) + Len(b)
        /\ \A i \in 1 .. Len(a) + Len(b) : p[i] = IF i <= Len(a) THEN a[i] ELSE b[i - Len(a)]
    BY <1>1, ConcatProperties
  <2>2. /\ r \in Seq(KeyCode) /\ Len(r) = Len(b) + Len(c)
        /\ \A i \in 1 .. Len(b) + Len(c) : r[i] = IF i <= Len(b) THEN b[i] ELSE c[i - Len(b)]
    BY <1>1, ConcatProperties
  <2>3. Len(a) \in Nat /\ Len(b) \in Nat /\ Len(c) \in Nat BY <1>1
  <2> HIDE DEF p, r
  <2>4. p \o c \in Seq(KeyCode) /\ a \o r \in Seq(KeyCode) /\ Len(p \o c) = Len(a \o r)
    <3>1. p \o c \in Seq(KeyCode) /\ Len(p \o c) = Len(p) + Len(c) BY <1>1, <2>1, ConcatProperties
    <3>2. a \o r \in Seq(KeyCode) /\ Len(a \o r) = Len(a) + Len(r) BY <1>1, <2>2, ConcatProperties
    <3>3. Len(p) + Len(c) = Len(a) + Len(r) BY <2>1, <2>2, <2>3
    <3> QED BY <3>1, <3>2, <3>3
  <2>5. ASSUME NEW i \in 1 .. Len(p \o c) PROVE (p \o c)[i] = (a \o r)[i]
    <3>1. i \in 1 .. Len(a) + Len(b) + Len(c) BY <1>1, <2>1, <2>3, ConcatProperties
    <3>2. (p \o c)[i] = IF i <= Len(p) THEN p[i] ELSE c[i - Len(p)]
      BY <1>1, <2>1, <2>3, <3>1, ConcatProperties
    <3>3. (a \o r)[i] = IF i <= Len(a) THEN a[i] ELSE r[i - Len(a)]
      BY <1>1, <2>2, <2>3, <3>1, ConcatProperties
    <3>4. CASE i <= Len(a) BY <2>1, <2>3, <3>1, <3>2, <3>3, <3>4
    <3>5. CASE i > Len(a)
      <4>1. i - Len(a) \in 1 .. Len(b) + Len(c) /\ (i - Len(a)) - Len(b) = i - Len(p)
        BY <2>1, <2>3, <3>1, <3>5
      <4>2. r[i - Len(a)] = IF i - Len(a) <= Len(b) THEN b[i - Len(a)] ELSE c[i - Len(p)]
        BY <2>2, <4>1
      <4>3. i <= Len(p) => p[i] = b[i - Len(a)] BY <2>1, <2>3, <3>1, <3>5
      <4>4. i - Len(a) <= Len(b) <=> i <= Len(p) BY <2>1, <2>3, <3>1
      <4>5. ~(i <= Len(a)) BY <2>3, <3>1, <3>5
      <4> QED BY <3>2, <3>3, <4>2, <4>3, <4>4, <4>5
    <3>6. i <= Len(a) \/ i > Len(a) BY <2>3, <3>1
    <3> QED BY <3>4, <3>5, <3>6
  <2>6. p \o c = a \o r BY <2>4, <2>5, SeqEqual
  <2> QED BY <2>6 DEF p, r
<1>3. b \o c \in Stream BY DEF Stream
<1> QED BY <1>2, <1>3

\* A byte before a stream.
LEMMA Before ==
    ASSUME NEW x \in KeyCode, NEW s \in Stream
    PROVE  LET q == <<x>> \o s IN
           /\ q \in Stream /\ q # <<>> /\ q[1] = x /\ Tail(q) = s
           /\ Len(q) = Len(s) + 1 /\ Len(s) \in Nat
           /\ \A i \in 1 .. Len(s) : q[i + 1] = s[i]
BY DEF Stream

LEMMA BehindIs ==
    ASSUME NEW s \in Stream, s \notin Ended
    PROVE  /\ FirstMeans(s) \in Stream
           /\ Behind(s) \in Stream /\ Len(Behind(s)) < Len(s)
<1>1. Len(s) \in Nat /\ Len(s) >= 1 /\ \A i \in 1 .. Len(s) : s[i] \in KeyCode
  BY DEF Ended, Stream
<1>2. CASE s[1] # ESC
  <2>1. Behind(s) = Tail(s) /\ s # <<>> BY <1>1, <1>2 DEF Behind
  <2>2. Tail(s) \in Stream /\ Len(Tail(s)) = Len(s) - 1 BY <2>1 DEF Stream
  <2>3. FirstMeans(s) \in Stream
    <3>1. s[1] \in KeyCode /\ LF \in KeyCode /\ BS \in KeyCode BY <1>1 DEF LF, BS, KeyCode
    <3>2. \A c \in KeyCode : <<c>> \in Stream BY DEF Stream
    <3> DEFINE c == CASE s[1] = CR -> LF [] s[1] = DEL -> BS [] OTHER -> s[1]
    <3>3. c \in KeyCode BY <3>1
    <3>4. FirstMeans(s) = <<c>> BY <1>2 DEF FirstMeans
    <3> HIDE DEF c
    <3> QED BY <3>2, <3>3, <3>4
  <2> QED BY <1>1, <2>1, <2>2, <2>3
<1>3. CASE s[1] = ESC
  <2>1. Len(s) # 1 BY <1>3 DEF Ended
  <2>2. CASE s[2] # LBRACKET
    <3>1. Behind(s) = SubSeq(s, 3, Len(s)) /\ FirstMeans(s) = <<>>
      BY <1>3, <2>2 DEF Behind, FirstMeans
    <3>2. SubSeq(s, 3, Len(s)) \in Stream /\ Len(SubSeq(s, 3, Len(s))) = Len(s) - 2
      <4>1. 3 \in 1 .. Len(s) + 1 BY <1>1, <2>1
      <4>2. Len(s) - 3 + 1 = Len(s) - 2 BY <1>1
      <4> QED BY <4>1, <4>2, Dropped
    <3> QED BY <1>1, <2>1, <3>1, <3>2 DEF Stream
  <2>3. CASE s[2] = LBRACKET
    <3>1. Behind(s) = SubSeq(s, 4, Len(s)) BY <1>3, <2>3 DEF Behind
    <3>2. Len(s) # 2 BY <1>3, <2>3 DEF Ended
    <3>3. SubSeq(s, 4, Len(s)) \in Stream /\ Len(SubSeq(s, 4, Len(s))) = Len(s) - 3
      <4>1. 4 \in 1 .. Len(s) + 1
        <5>1. \A n \in Nat : n >= 1 /\ n # 1 /\ n # 2 => 4 \in 1 .. n + 1 OBVIOUS
        <5> QED BY <1>1, <2>1, <3>2, <5>1
      <4>2. Len(s) - 4 + 1 = Len(s) - 3 BY <1>1
      <4> QED BY <4>1, <4>2, Dropped
    <3>4. FirstMeans(s) \in Stream
      <4>1. FirstMeans(s) \in {<<KEY_UP>>, <<KEY_DOWN>>, <<>>}
        BY <1>3, <2>3 DEF FirstMeans
      <4>2. {<<KEY_UP>>, <<KEY_DOWN>>, <<>>} \subseteq Stream
        BY DEF Stream, KeyCode, KEY_UP, KEY_DOWN
      <4> QED BY <4>1, <4>2
    <3> QED BY <1>1, <2>1, <3>1, <3>2, <3>3, <3>4
  <2> QED BY <2>2, <2>3
<1> QED BY <1>2, <1>3

\* The definition of Decode has a solution, and so is one.
LEMMA DecodeIs ==
    /\ Decode \in [Stream -> Stream]
    /\ \A s \in Stream : Decode[s] = IF s \in Ended THEN <<>> ELSE FirstMeans(s) \o Decode[Behind(s)]
<1> DEFINE rank == [s \in Stream |-> Len(s)]
           N == [s \in Stream |-> IF s \in Ended THEN s ELSE Behind(s)]
           B == [s \in Stream |-> <<>>]
           F == [p \in Stream \X Stream |-> IF p[1] \in Ended THEN <<>> ELSE FirstMeans(p[1]) \o p[2]]
           Body(f, s) == IF s = <<>> THEN <<>>
                ELSE IF s[1] # ESC
                     THEN <<CASE s[1] = CR -> LF [] s[1] = DEL -> BS [] OTHER -> s[1]>> \o f[Tail(s)]
                ELSE IF Len(s) = 1 THEN <<>>
                ELSE IF s[2] # LBRACKET THEN f[SubSeq(s, 3, Len(s))]
                ELSE IF Len(s) = 2 THEN <<>>
                ELSE (CASE s[3] = 65 -> <<KEY_UP>> [] s[3] = 66 -> <<KEY_DOWN>> [] OTHER -> <<>>)
                     \o f[SubSeq(s, 4, Len(s))]
<1>1. /\ rank \in [Stream -> Nat] /\ N \in [Stream -> Stream] /\ B \in [Stream -> Stream]
  <2>1. \A s \in Stream : Len(s) \in Nat /\ <<>> \in Stream BY DEF Stream
  <2>2. \A s \in Stream : (IF s \in Ended THEN s ELSE Behind(s)) \in Stream BY BehindIs
  <2> QED BY <2>1, <2>2
<1>2. F \in [Stream \X Stream -> Stream]
  <2>1. ASSUME NEW p \in Stream \X Stream
        PROVE  (IF p[1] \in Ended THEN <<>> ELSE FirstMeans(p[1]) \o p[2]) \in Stream
    <3>1. p[1] \in Stream /\ p[2] \in Stream /\ <<>> \in Stream BY DEF Stream
    <3>2. \A a, b \in Stream : a \o b \in Stream BY DEF Stream
    <3> QED BY <3>1, <3>2, BehindIs
  <2> QED BY <2>1
<1>3. \A s \in Stream \ Ended : rank[N[s]] < rank[s] BY BehindIs
<1>4. PICK f \in [Stream -> Stream] : Unfolds(f, Stream, Ended, B, F, N)
  <2> HIDE DEF rank, N, B, F
  <2> QED BY <1>1, <1>2, <1>3, RankedRecursion
<1>5. ASSUME NEW s \in Stream
      PROVE  f[s] = IF s \in Ended THEN <<>> ELSE FirstMeans(s) \o f[Behind(s)]
  <2>1. f[s] = IF s \in Ended THEN B[s] ELSE F[<<s, f[N[s]]>>] BY <1>4 DEF Unfolds
  <2>2. CASE s \in Ended BY <2>1, <2>2
  <2>3. CASE s \notin Ended
    <3>1. N[s] = Behind(s) /\ Behind(s) \in Stream BY <2>3, BehindIs
    <3>2. f[Behind(s)] \in Stream BY <3>1
    <3> QED BY <2>1, <2>3, <3>1, <3>2
  <2> QED BY <2>2, <2>3
<1> HIDE DEF rank, N, B, F
\* The text of the definition says the same.
<1>6. ASSUME NEW g, NEW s \in Stream, s \notin Ended => g[Behind(s)] \in Stream
      PROVE  Body(g, s) = IF s \in Ended THEN <<>> ELSE FirstMeans(s) \o g[Behind(s)]
  <2>1. \A a \in Stream : <<>> \o a = a BY DEF Stream
  <2>2. CASE s \in Ended BY <2>2 DEF Ended
  <2>3. CASE s \notin Ended
    <3>1. s # <<>> BY <2>3 DEF Ended
    <3>2. CASE s[1] # ESC BY <2>3, <3>1, <3>2 DEF FirstMeans, Behind
    <3>3. CASE s[1] = ESC /\ s[2] # LBRACKET
      <4>1. Len(s) # 1 BY <2>3, <3>3 DEF Ended
      <4>2. Body(g, s) = g[Behind(s)] BY <3>1, <3>3, <4>1 DEF Behind
      <4>3. FirstMeans(s) = <<>> BY <3>3 DEF FirstMeans
      <4> HIDE DEF Body
      <4> QED BY <1>6, <2>1, <2>3, <4>2, <4>3
    <3>4. CASE s[1] = ESC /\ s[2] = LBRACKET
      <4>1. Len(s) # 1 /\ Len(s) # 2 BY <2>3, <3>4 DEF Ended
      <4>2. FirstMeans(s) = CASE s[3] = 65 -> <<KEY_UP>> [] s[3] = 66 -> <<KEY_DOWN>> [] OTHER -> <<>>
        BY <3>4 DEF FirstMeans
      <4>3. Behind(s) = SubSeq(s, 4, Len(s)) BY <3>4 DEF Behind
      <4> DEFINE m == CASE s[3] = 65 -> <<KEY_UP>> [] s[3] = 66 -> <<KEY_DOWN>> [] OTHER -> <<>>
      <4>4. Body(g, s) = m \o g[SubSeq(s, 4, Len(s))] BY <3>1, <3>4, <4>1
      <4>5. FirstMeans(s) = m BY <4>2
      <4> HIDE DEF m, Body
      <4> QED BY <2>3, <4>3, <4>4, <4>5
    <3> QED BY <3>2, <3>3, <3>4
  <2> QED BY <2>2, <2>3
<1>7. f = [s \in Stream |-> Body(f, s)]
  <2>1. ASSUME NEW s \in Stream PROVE f[s] = Body(f, s)
    <3>1. s \notin Ended => f[Behind(s)] \in Stream BY BehindIs
    <3> HIDE DEF Body
    <3> QED BY <1>5, <1>6, <3>1
  <2> HIDE DEF Body
  <2> QED BY <2>1
<1>8. Decode = [s \in Stream |-> Body(Decode, s)]
  <2>1. \E g : g = [s \in Stream |-> Body(g, s)]
    <3> HIDE DEF Body
    <3> QED BY <1>7
  <2>2. Decode = CHOOSE g : g = [s \in Stream |-> Body(g, s)] BY DEF Decode, Stream, KeyCode
  <2> HIDE DEF Body
  <2> QED BY <2>1, <2>2
\* The solution is the only one.
<1>9. ASSUME NEW u \in Stream PROVE Decode[u] = f[u]
  <2> DEFINE R == {i \in Nat : \E s \in Stream : Len(s) = i /\ Decode[s] # f[s]}
  <2>1. SUFFICES ASSUME Decode[u] # f[u] PROVE FALSE OBVIOUS
  <2>2. Len(u) \in R /\ R \in SUBSET Nat BY <2>1 DEF Stream
  <2>3. PICK i \in R : \A l \in R : i <= l
    <3> HIDE DEF R
    <3> QED BY <2>2, LeastExists
  <2>4. PICK s \in Stream : Len(s) = i /\ Decode[s] # f[s] OBVIOUS
  <2>5. ASSUME s \notin Ended PROVE Decode[Behind(s)] = f[Behind(s)]
    <3>1. Behind(s) \in Stream /\ Len(Behind(s)) < i BY <2>4, <2>5, BehindIs
    <3>2. Len(Behind(s)) \in Nat /\ i \in Nat BY <3>1 DEF Stream
    <3>3. Len(Behind(s)) \notin R
      <4> HIDE DEF R
      <4> QED BY <2>3, <3>1, <3>2
    <3> QED BY <3>1, <3>2, <3>3
  <2>6. s \notin Ended => f[Behind(s)] \in Stream BY BehindIs
  <2>7. Decode[s] = Body(Decode, s)
    <3> HIDE DEF Body
    <3> QED BY <1>8
  <2> HIDE DEF Body, R
  <2>8. Decode[s] = IF s \in Ended THEN <<>> ELSE FirstMeans(s) \o Decode[Behind(s)]
    BY <1>6, <2>5, <2>6, <2>7
  <2> QED BY <1>5, <2>4, <2>5, <2>8
<1>10. Decode = f
  <2> DEFINE D == Decode
  <2>1. D = [s \in Stream |-> Body(D, s)] BY <1>8
  <2>2. \A s \in Stream : D[s] = f[s] BY <1>9
  <2> HIDE DEF D, Body
  <2>3. D = f BY <2>1, <2>2
  <2> QED BY <2>3 DEF D
<1> HIDE DEF Body
<1> QED BY <1>5, <1>10

\* The sequences, one by one.
LEMMA DecodePlain ==
    ASSUME NEW x \in KeyCode, x # ESC, NEW s \in Stream
    PROVE  Decode[<<x>> \o s] = <<Normalise(x)>> \o Decode[s]
<1> DEFINE q == <<x>> \o s
<1>1. q \in Stream /\ q # <<>> /\ q[1] = x /\ Tail(q) = s BY DEF Stream
<1> HIDE DEF q
<1>2. q \notin Ended BY <1>1 DEF Ended
<1>3. Behind(q) = s /\ FirstMeans(q) = <<Normalise(x)>>
  BY <1>1 DEF Behind, FirstMeans, Normalise
<1> QED BY <1>1, <1>2, <1>3, DecodeIs DEF q

LEMMA DecodeEscape ==
    ASSUME NEW x \in KeyCode, x # LBRACKET, NEW s \in Stream
    PROVE  Decode[<<ESC>> \o (<<x>> \o s)] = Decode[s]
<1> DEFINE q == <<ESC>> \o (<<x>> \o s)
<1>1. /\ q \in Stream /\ q # <<>> /\ q[1] = ESC /\ q[2] = x
      /\ Len(q) = Len(s) + 2 /\ Len(s) \in Nat
      /\ \A i \in 1 .. Len(s) : q[i + 2] = s[i] /\ s[i] \in KeyCode
  <2> DEFINE t == <<x>> \o s
  <2>1. /\ t \in Stream /\ t[1] = x /\ Len(t) = Len(s) + 1 /\ Len(s) \in Nat
        /\ \A i \in 1 .. Len(s) : t[i + 1] = s[i]
    BY Before
  <2>2. ESC \in KeyCode BY DEF ESC, KeyCode
  <2>3. q = <<ESC>> \o t OBVIOUS
  <2> HIDE DEF q, t
  <2>4. /\ q \in Stream /\ q # <<>> /\ q[1] = ESC /\ Len(q) = Len(t) + 1
        /\ \A i \in 1 .. Len(t) : q[i + 1] = t[i]
    BY <2>1, <2>2, <2>3, Before
  <2>5. ASSUME NEW i \in 1 .. Len(s) PROVE q[i + 2] = s[i] /\ s[i] \in KeyCode
    <3>1. i + 1 \in 1 .. Len(t) /\ i + 2 = (i + 1) + 1 BY <2>1
    <3>2. q[(i + 1) + 1] = t[i + 1] BY <2>4, <3>1
    <3> QED BY <2>1, <3>1, <3>2 DEF Stream
  <2>6. q[1 + 1] = t[1] BY <2>1, <2>4
  <2> QED BY <2>1, <2>4, <2>5, <2>6
<1> HIDE DEF q
<1>2. q \notin Ended BY <1>1 DEF Ended
<1>3. Behind(q) = SubSeq(q, 3, Len(q)) /\ FirstMeans(q) = <<>>
  BY <1>1 DEF Behind, FirstMeans
<1>4. SubSeq(q, 3, Len(q)) = s
  <2> DEFINE r == SubSeq(q, 3, Len(q))
  <2>1. 3 \in 1 .. Len(q) + 1 /\ Len(q) - 3 + 1 = Len(s) BY <1>1
  <2>2. r \in Stream /\ Len(r) = Len(s) /\ \A i \in 1 .. Len(s) : r[i] = q[3 + i - 1]
    BY <1>1, <2>1, Dropped
  <2>3. \A i \in 1 .. Len(s) : r[i] = s[i]
    <3> HIDE DEF r
    <3> SUFFICES ASSUME NEW i \in 1 .. Len(s) PROVE r[i] = s[i] OBVIOUS
    <3>1. 3 + i - 1 = i + 2 BY <1>1
    <3> QED BY <1>1, <2>2, <3>1
  <2> HIDE DEF r
  <2>4. r = s BY <2>2, <2>3, SeqEqual DEF Stream
  <2> QED BY <2>4 DEF r
<1>5. <<>> \o Decode[s] = Decode[s]
  <2>1. Decode[s] \in Stream BY DecodeIs
  <2> QED BY <2>1 DEF Stream
<1> QED BY <1>1, <1>2, <1>3, <1>4, <1>5, DecodeIs DEF q

LEMMA DecodeArrow ==
    ASSUME NEW x \in KeyCode, NEW s \in Stream
    PROVE  Decode[<<ESC>> \o (<<LBRACKET>> \o (<<x>> \o s))]
             = IF x \in {65, 66} THEN <<ArrowOf(x)>> \o Decode[s] ELSE Decode[s]
<1> DEFINE q == <<ESC>> \o (<<LBRACKET>> \o (<<x>> \o s))
<1>1. /\ q \in Stream /\ q # <<>> /\ q[1] = ESC /\ q[2] = LBRACKET /\ q[3] = x
      /\ Len(q) = Len(s) + 3 /\ Len(s) \in Nat
      /\ \A i \in 1 .. Len(s) : q[i + 3] = s[i] /\ s[i] \in KeyCode
  <2> DEFINE t == <<x>> \o s
             u == <<LBRACKET>> \o t
  <2>1. /\ t \in Stream /\ t[1] = x /\ Len(t) = Len(s) + 1 /\ Len(s) \in Nat
        /\ \A i \in 1 .. Len(s) : t[i + 1] = s[i]
    BY Before
  <2>2. ESC \in KeyCode /\ LBRACKET \in KeyCode BY DEF ESC, LBRACKET, KeyCode
  <2>3. q = <<ESC>> \o u OBVIOUS
  <2> HIDE DEF q, t
  <2>4. /\ u \in Stream /\ u[1] = LBRACKET /\ Len(u) = Len(t) + 1
        /\ \A i \in 1 .. Len(t) : u[i + 1] = t[i]
    BY <2>1, <2>2, Before
  <2> HIDE DEF u
  <2>5. /\ q \in Stream /\ q # <<>> /\ q[1] = ESC /\ Len(q) = Len(u) + 1
        /\ \A i \in 1 .. Len(u) : q[i + 1] = u[i]
    BY <2>2, <2>3, <2>4, Before
  <2>6. ASSUME NEW i \in 1 .. Len(s) PROVE q[i + 3] = s[i] /\ s[i] \in KeyCode
    <3>1. /\ i + 1 \in 1 .. Len(t) /\ (i + 1) + 1 \in 1 .. Len(u)
          /\ i + 3 = ((i + 1) + 1) + 1
      BY <2>1, <2>4
    <3>2. q[((i + 1) + 1) + 1] = u[(i + 1) + 1] /\ u[(i + 1) + 1] = t[i + 1] BY <2>4, <2>5, <3>1
    <3> QED BY <2>1, <3>1, <3>2 DEF Stream
  <2>7. q[1 + 1] = u[1] /\ q[2 + 1] = u[2] /\ u[1 + 1] = t[1] BY <2>1, <2>4, <2>5
  <2> QED BY <2>1, <2>4, <2>5, <2>6, <2>7
<1> HIDE DEF q
<1>2. q \notin Ended BY <1>1, SMTT(60) DEF Ended
<1>3. /\ Behind(q) = SubSeq(q, 4, Len(q))
      /\ FirstMeans(q) = IF x \in {65, 66} THEN <<ArrowOf(x)>> ELSE <<>>
  BY <1>1 DEF Behind, FirstMeans, ArrowOf
<1>4. SubSeq(q, 4, Len(q)) = s
  <2> DEFINE r == SubSeq(q, 4, Len(q))
  <2>1. 4 \in 1 .. Len(q) + 1 /\ Len(q) - 4 + 1 = Len(s) BY <1>1
  <2>2. r \in Stream /\ Len(r) = Len(s) /\ \A i \in 1 .. Len(s) : r[i] = q[4 + i - 1]
    BY <1>1, <2>1, Dropped
  <2>3. \A i \in 1 .. Len(s) : r[i] = s[i]
    <3> HIDE DEF r
    <3> SUFFICES ASSUME NEW i \in 1 .. Len(s) PROVE r[i] = s[i] OBVIOUS
    <3>1. 4 + i - 1 = i + 3 BY <1>1
    <3> QED BY <1>1, <2>2, <3>1
  <2> HIDE DEF r
  <2>4. r = s BY <2>2, <2>3, SeqEqual DEF Stream
  <2> QED BY <2>4 DEF r
<1>5. <<>> \o Decode[s] = Decode[s]
  <2>1. Decode[s] \in Stream BY DecodeIs
  <2> QED BY <2>1 DEF Stream
<1> QED BY <1>1, <1>2, <1>3, <1>4, <1>5, DecodeIs, ZenonT(60) DEF q

\* The bytes still to be decoded, of which the thread has taken ESC or ESC [.
Ahead(l, q) ==
    IF l = "esc" THEN <<ESC>> \o q
    ELSE IF l = "csi" THEN <<ESC>> \o (<<LBRACKET>> \o q) ELSE q

\* Whatever may still arrive: the stream means what was returned, followed by
\* what lies ahead.
StreamInv ==
    /\ fifo \in Stream /\ arrived \in Stream /\ sgot \in Stream
    /\ ~late => \A z \in Stream : Decode[arrived \o z] = sgot \o Decode[Ahead(pc, fifo \o z)]

LEMMA StreamInit == Init => StreamInv
<1> SUFFICES ASSUME Init PROVE StreamInv OBVIOUS
<1>1. fifo = <<>> /\ arrived = <<>> /\ sgot = <<>> /\ pc = "caller" BY DEF Init
<1>2. <<>> \in Stream /\ \A s \in Stream : <<>> \o s = s BY DEF Stream
<1>3. ASSUME NEW z \in Stream PROVE Decode[arrived \o z] = sgot \o Decode[Ahead(pc, fifo \o z)]
  <2>1. Decode[z] \in Stream BY DecodeIs
  <2>2. arrived \o z = z /\ Ahead(pc, fifo \o z) = z BY <1>1, <1>2 DEF Ahead
  <2>3. sgot \o Decode[z] = Decode[z] BY <1>1, <1>2, <2>1
  <2> QED BY <2>2, <2>3
<1> QED BY <1>1, <1>2, <1>3 DEF StreamInv

\* Steps that have nothing to do with the serial line.
LEMMA Silent ==
    ASSUME StreamInv, UNCHANGED svars, pc \in {"esc", "csi"} \/ pc' \in {"esc", "csi"} => pc' = pc
    PROVE  StreamInv'
<1>1. fifo' = fifo /\ arrived' = arrived /\ sgot' = sgot /\ late' = late BY DEF svars
<1>2. \A q : Ahead(pc', q) = Ahead(pc, q) BY DEF Ahead
<1> QED BY <1>1, <1>2 DEF StreamInv

LEMMA ArriveKeeps ==
    ASSUME StreamInv, NEW x \in Bytes, Arrive(x)
    PROVE  StreamInv'
<1>1. x \in KeyCode BY InputAssumption DEF KeyCode
<1>2. /\ fifo' = Append(fifo, x) /\ arrived' = Append(arrived, x)
      /\ pc' = pc /\ sgot' = sgot /\ late' = late
  BY DEF Arrive
<1>3. fifo \in Stream /\ arrived \in Stream /\ sgot \in Stream BY DEF StreamInv
<1>4. ASSUME NEW s \in Stream, NEW z \in Stream
      PROVE  Append(s, x) \in Stream /\ Append(s, x) \o z = s \o (<<x>> \o z)
  BY <1>1 DEF Stream
<1>5. ASSUME NEW z \in Stream, ~late
      PROVE  Decode[arrived' \o z] = sgot \o Decode[Ahead(pc, fifo' \o z)]
  <2>1. <<x>> \o z \in Stream BY <1>1, Before
  <2>2. Decode[arrived \o (<<x>> \o z)] = sgot \o Decode[Ahead(pc, fifo \o (<<x>> \o z))]
    BY <1>5, <2>1 DEF StreamInv
  <2>3. arrived' \o z = arrived \o (<<x>> \o z) /\ fifo' \o z = fifo \o (<<x>> \o z)
    BY <1>2, <1>3, <1>4
  <2> QED BY <2>2, <2>3
<1>6. fifo' \in Stream /\ arrived' \in Stream BY <1>1, <1>2, <1>3 DEF Stream
<1> QED BY <1>2, <1>3, <1>5, <1>6 DEF StreamInv

\* A byte taken, that completes a meaning m or nothing.
LEMMA TakeKeeps ==
    ASSUME StreamInv, fifo # <<>>, fifo' = Tail(fifo), UNCHANGED <<arrived, late>>,
           NEW m \in Stream, sgot' = sgot \o m,
           \A q \in Stream : Decode[Ahead(pc, <<Head(fifo)>> \o q)] = m \o Decode[Ahead(pc', q)],
           \A q \in Stream : Ahead(pc', q) \in Stream
    PROVE  StreamInv'
<1>1. fifo \in Stream /\ arrived \in Stream /\ sgot \in Stream BY DEF StreamInv
<1>2. /\ Head(fifo) \in KeyCode /\ Tail(fifo) \in Stream
      /\ \A z \in Stream : /\ fifo \o z = <<Head(fifo)>> \o (Tail(fifo) \o z)
                           /\ Tail(fifo) \o z \in Stream
  <2>1. Head(fifo) \in KeyCode /\ Tail(fifo) \in Stream BY <1>1 DEF Stream
  <2>2. fifo = <<Head(fifo)>> \o Tail(fifo) BY <1>1, HeadThenTail DEF Stream
  <2>3. ASSUME NEW h \in KeyCode, NEW t \in Stream, NEW z \in Stream
        PROVE  (<<h>> \o t) \o z = <<h>> \o (t \o z) /\ t \o z \in Stream
    <3>1. <<h>> \in Stream BY DEF Stream
    <3> QED BY <3>1, Together, Zenon
  <2> SUFFICES ASSUME NEW z \in Stream
               PROVE  /\ fifo \o z = <<Head(fifo)>> \o (Tail(fifo) \o z)
                      /\ Tail(fifo) \o z \in Stream
    BY <2>1
  <2> DEFINE h == Head(fifo)
             t == Tail(fifo)
  <2>4. h \in KeyCode /\ t \in Stream /\ fifo = <<h>> \o t BY <2>1, <2>2
  <2> HIDE DEF h, t
  <2>5. fifo \o z = <<h>> \o (t \o z) /\ t \o z \in Stream BY <2>3, <2>4
  <2> QED BY <2>5 DEF h, t
<1>3. ASSUME NEW z \in Stream, ~late
      PROVE  Decode[arrived \o z] = sgot' \o Decode[Ahead(pc', fifo' \o z)]
  <2> DEFINE q == Tail(fifo) \o z
             d == Decode[Ahead(pc', q)]
  <2>1. Decode[arrived \o z] = sgot \o Decode[Ahead(pc, fifo \o z)] BY <1>3 DEF StreamInv
  <2>2. q \in Stream /\ fifo \o z = <<Head(fifo)>> \o q BY <1>2
  <2>3. Decode[Ahead(pc, fifo \o z)] = m \o d
    <3> HIDE DEF q
    <3> QED BY <2>2
  <2>4. d \in Stream
    <3> HIDE DEF q
    <3> QED BY <2>2, DecodeIs
  <2>5. sgot \o (m \o d) = (sgot \o m) \o d
    <3> HIDE DEF d
    <3>1. PICK e \in Stream : e = d BY <2>4
    <3>2. PICK g \in Stream : g = sgot BY <1>1
    <3>3. (g \o m) \o e = g \o (m \o e) BY Together, Zenon
    <3> QED BY <3>1, <3>2, <3>3, Zenon
  <2> QED BY <2>1, <2>3, <2>5
<1>4. sgot \o m \in Stream BY <1>1 DEF Stream
<1> QED BY <1>2, <1>3, <1>4, <1>1 DEF StreamInv

LEMMA AheadIsStream ==
    ASSUME NEW l, NEW q \in Stream
    PROVE  Ahead(l, q) \in Stream
<1>1. ESC \in KeyCode /\ LBRACKET \in KeyCode BY DEF ESC, LBRACKET, KeyCode
<1>2. <<ESC>> \o q \in Stream BY <1>1, Before
<1>3. <<LBRACKET>> \o q \in Stream BY <1>1, Before
<1>4. <<ESC>> \o (<<LBRACKET>> \o q) \in Stream BY <1>1, <1>3, Before
<1> QED BY <1>2, <1>4 DEF Ahead

LEMMA DeliverKeeps ==
    ASSUME StreamInv, fifo # <<>>, NEW c \in KeyCode, Deliver(c),
           \A q \in Stream : Decode[Ahead(pc, <<Head(fifo)>> \o q)] = <<c>> \o Decode[q]
    PROVE  StreamInv'
<1>1. /\ fifo' = Tail(fifo) /\ arrived' = arrived /\ late' = late /\ pc' = "caller"
      /\ sgot' = Append(sgot, c)
  BY DEF Deliver
<1>2. \A q : Ahead(pc', q) = q BY <1>1 DEF Ahead
<1>3. sgot' = sgot \o <<c>> /\ <<c>> \in Stream BY <1>1 DEF StreamInv, Stream
<1> QED BY <1>1, <1>2, <1>3, TakeKeeps

LEMMA DiscardKeeps ==
    ASSUME StreamInv, fifo # <<>>, NEW l, Discard(l),
           \A q \in Stream : Decode[Ahead(pc, <<Head(fifo)>> \o q)] = Decode[Ahead(l, q)]
    PROVE  StreamInv'
<1>1. /\ fifo' = Tail(fifo) /\ arrived' = arrived /\ late' = late /\ pc' = l /\ sgot' = sgot
  BY DEF Discard
<1>2. sgot' = sgot \o <<>> /\ <<>> \in Stream BY <1>1 DEF StreamInv, Stream
<1>3. ASSUME NEW q \in Stream
      PROVE  Decode[Ahead(pc, <<Head(fifo)>> \o q)] = <<>> \o Decode[Ahead(pc', q)]
  <2>1. Decode[Ahead(l, q)] \in Stream BY AheadIsStream, DecodeIs
  <2>2. <<>> \o Decode[Ahead(l, q)] = Decode[Ahead(l, q)] BY <2>1 DEF Stream
  <2> QED BY <1>1, <2>2
<1>4. \A q \in Stream : Ahead(pc', q) \in Stream BY AheadIsStream
<1> QED BY <1>1, <1>2, <1>3, <1>4, TakeKeeps

LEMMA ByteKeeps ==
    ASSUME StreamInv, SomeByte \/ Escape \/ Arrow
    PROVE  StreamInv'
<1>1. fifo \in Stream /\ fifo # <<>> BY DEF StreamInv, SomeByte, Escape, Arrow
<1>2. PICK h \in KeyCode : h = Head(fifo) BY <1>1 DEF Stream
<1>3. \A q : /\ pc = "serial" => Ahead(pc, q) = q
             /\ Ahead("esc", q) = <<ESC>> \o q
             /\ Ahead("csi", q) = <<ESC>> \o (<<LBRACKET>> \o q)
             /\ Ahead("hlt", q) = q
  BY DEF Ahead
<1>4. CASE SomeByte
  <2>1. pc = "serial" BY <1>4 DEF SomeByte
  <2>2. CASE h = ESC
    <3>1. Discard("esc") BY <1>2, <1>4, <2>2 DEF SomeByte
    <3>2. \A q \in Stream : Decode[Ahead(pc, <<h>> \o q)] = Decode[Ahead("esc", q)]
      BY <1>3, <2>1, <2>2
    <3> QED BY <1>1, <1>2, <3>1, <3>2, DiscardKeeps
  <2>3. CASE h # ESC
    <3>1. Deliver(Normalise(h)) BY <1>2, <1>4, <2>3 DEF SomeByte
    <3>2. Normalise(h) \in KeyCode BY DEF Normalise, KeyCode, LF, BS
    <3>3. \A q \in Stream : Decode[Ahead(pc, <<h>> \o q)] = <<Normalise(h)>> \o Decode[q]
      <4> SUFFICES ASSUME NEW q \in Stream PROVE Decode[Ahead(pc, <<h>> \o q)] = <<Normalise(h)>> \o Decode[q] OBVIOUS
      <4>1. Ahead(pc, <<h>> \o q) = <<h>> \o q BY <1>3, <2>1
      <4>2. Decode[<<h>> \o q] = <<Normalise(h)>> \o Decode[q] BY <2>3, DecodePlain
      <4> QED BY <1>3, <4>1, <4>2
    <3> QED BY <1>1, <1>2, <3>1, <3>2, <3>3, DeliverKeeps
  <2> QED BY <2>2, <2>3
<1>5. CASE Escape
  <2>1. pc = "esc" BY <1>5 DEF Escape
  <2>2. CASE h = LBRACKET
    <3>1. Discard("csi") BY <1>2, <1>5, <2>2 DEF Escape
    <3>2. \A q \in Stream : Decode[Ahead(pc, <<h>> \o q)] = Decode[Ahead("csi", q)]
      BY <1>3, <2>1, <2>2
    <3> QED BY <1>1, <1>2, <3>1, <3>2, DiscardKeeps
  <2>3. CASE h # LBRACKET
    <3>1. Discard("hlt") BY <1>2, <1>5, <2>3 DEF Escape
    <3>2. \A q \in Stream : Decode[Ahead(pc, <<h>> \o q)] = Decode[Ahead("hlt", q)]
      <4> SUFFICES ASSUME NEW q \in Stream PROVE Decode[Ahead(pc, <<h>> \o q)] = Decode[Ahead("hlt", q)] OBVIOUS
      <4>1. Ahead(pc, <<h>> \o q) = <<ESC>> \o (<<h>> \o q) BY <1>3, <2>1
      <4>2. Decode[<<ESC>> \o (<<h>> \o q)] = Decode[q] BY <2>3, DecodeEscape
      <4> QED BY <1>3, <4>1, <4>2
    <3> QED BY <1>1, <1>2, <3>1, <3>2, DiscardKeeps
  <2> QED BY <2>2, <2>3
<1>6. CASE Arrow
  <2>1. pc = "csi" BY <1>6 DEF Arrow
  <2>2. CASE h \in {65, 66}
    <3>1. Deliver(ArrowOf(h)) BY <1>2, <1>6, <2>2 DEF Arrow
    <3>2. ArrowOf(h) \in KeyCode BY DEF ArrowOf, KeyCode, KEY_UP, KEY_DOWN
    <3>3. \A q \in Stream : Decode[Ahead(pc, <<h>> \o q)] = <<ArrowOf(h)>> \o Decode[q]
      <4> SUFFICES ASSUME NEW q \in Stream PROVE Decode[Ahead(pc, <<h>> \o q)] = <<ArrowOf(h)>> \o Decode[q] OBVIOUS
      <4>1. Ahead(pc, <<h>> \o q) = <<ESC>> \o (<<LBRACKET>> \o (<<h>> \o q)) BY <1>3, <2>1
      <4>2. Decode[<<ESC>> \o (<<LBRACKET>> \o (<<h>> \o q))] = <<ArrowOf(h)>> \o Decode[q]
        <5>1. Decode[<<ESC>> \o (<<LBRACKET>> \o (<<h>> \o q))]
                = IF h \in {65, 66} THEN <<ArrowOf(h)>> \o Decode[q] ELSE Decode[q]
          BY DecodeArrow
        <5> QED BY <2>2, <5>1, Zenon
      <4> QED BY <1>3, <4>1, <4>2
    <3> QED BY <1>1, <1>2, <3>1, <3>2, <3>3, DeliverKeeps
  <2>3. CASE h \notin {65, 66}
    <3>1. Discard("hlt") BY <1>2, <1>6, <2>3 DEF Arrow
    <3>2. \A q \in Stream : Decode[Ahead(pc, <<h>> \o q)] = Decode[Ahead("hlt", q)]
      <4> SUFFICES ASSUME NEW q \in Stream PROVE Decode[Ahead(pc, <<h>> \o q)] = Decode[Ahead("hlt", q)] OBVIOUS
      <4>1. Ahead(pc, <<h>> \o q) = <<ESC>> \o (<<LBRACKET>> \o (<<h>> \o q)) BY <1>3, <2>1
      <4>2. Decode[<<ESC>> \o (<<LBRACKET>> \o (<<h>> \o q))] = Decode[q] BY <2>3, DecodeArrow
      <4> QED BY <1>3, <4>1, <4>2
    <3> QED BY <1>1, <1>2, <3>1, <3>2, DiscardKeeps
  <2> QED BY <2>2, <2>3
<1> QED BY <1>4, <1>5, <1>6

LEMMA StreamStep == StreamInv /\ [Next]_vars => StreamInv'
<1> SUFFICES ASSUME StreamInv, [Next]_vars PROVE StreamInv' OBVIOUS
<1>1. CASE SomeByte \/ Escape \/ Arrow BY <1>1, ByteKeeps
<1>2. CASE GiveUp BY <1>2 DEF GiveUp, StreamInv
<1>3. CASE \E x \in Bytes : Arrive(x) BY <1>3, ArriveKeeps
<1>4. CASE Call \/ NoKey \/ SomeKey \/ ReadKey \/ NoByte \/ Halt
  BY <1>4, Silent DEF Call, NoKey, SomeKey, ReadKey, NoByte, Halt, Goto
<1>5. CASE timer_irq \/ \E sc \in Scancodes : Key(sc)
  BY <1>5, Silent DEF timer_irq, Key, Wake
<1>6. CASE UNCHANGED vars BY <1>6, Silent DEF vars, svars
<1> QED BY <1>1, <1>2, <1>3, <1>4, <1>5, <1>6 DEF Next, Thread

\* Whatever keys, halts and interrupts come in between, and however the bytes
\* are spread over console_getchar()'s calls, the serial line is decoded as the
\* one stream it is, as long as no sequence was too slow for
\* serial_read_soon().
THEOREM StreamIsDecoded == Spec => []SerialDecoded
<1>1. StreamInv => SerialDecoded
  <2> SUFFICES ASSUME StreamInv, ~late, pc \notin {"esc", "csi"}
               PROVE  Decode[arrived] = sgot \o Decode[fifo]
    BY DEF SerialDecoded
  <2>1. <<>> \in Stream /\ arrived \o <<>> = arrived /\ fifo \o <<>> = fifo BY DEF StreamInv, Stream
  <2>2. Ahead(pc, fifo) = fifo BY DEF Ahead
  <2> QED BY <2>1, <2>2 DEF StreamInv
<1> QED BY <1>1, StreamInit, StreamStep, PTL DEF Spec

-----------------------------------------------------------------------------
(* What is typed.                                                           *)

\* The state of keyboard_irq(): the modifiers and the keys it has pushed.
Driver == [shift : BOOLEAN, caps : BOOLEAN, e0 : BOOLEAN, out : Seq(KeyCode)]

Meaning(sh, cp, sc) ==
    LET c == Char(IF sh THEN map_upper ELSE map_lower, sc)
    IN  CASE cp /\ ~sh /\ c \in 97 .. 122 -> c - 32
          [] cp /\ sh /\ c \in 65 .. 90   -> c + 32
          [] OTHER                        -> c

\* What the handler pushes for the code sc.
Pushes(d, sc) ==
    IF sc = 224 THEN <<>>
    ELSE IF d.e0 THEN IF sc = 72 THEN <<KEY_UP>> ELSE IF sc = 80 THEN <<KEY_DOWN>> ELSE <<>>
    ELSE IF sc >= 128 \/ sc \in Shifts \cup {58} \/ Meaning(d.shift, d.caps, sc) = 0 THEN <<>>
    ELSE <<Meaning(d.shift, d.caps, sc)>>

\* The handler, in the state d, makes e of it on the code sc.
Handled(d, sc, e) ==
    /\ e.e0 <=> sc = 224
    /\ e.shift <=> IF sc = 224 \/ d.e0 THEN d.shift
                   ELSE IF sc >= 128 THEN d.shift /\ Released(sc) \notin Shifts
                   ELSE d.shift \/ sc \in Shifts
    /\ e.caps <=> IF sc = 58 /\ ~d.e0 THEN ~d.caps ELSE d.caps
    /\ e.out = d.out \o Pushes(d, sc)

\* The handler gets from a to b on the codes w.
Trace(w, a, b, st) ==
    /\ st \in [0 .. Len(w) -> Driver]
    /\ st[0] = a /\ st[Len(w)] = b
    /\ \A i \in 1 .. Len(w) : Handled(st[i - 1], w[i], st[i])
Path(w, a, b) == \E st : Trace(w, a, b, st)

LEMMA NoPath == ASSUME NEW a \in Driver PROVE Path(<<>>, a, a)
<1> DEFINE st == [i \in 0 .. 0 |-> a]
<1>1. Trace(<<>>, a, a, st) BY DEF Trace
<1> HIDE DEF st
<1> QED BY <1>1 DEF Path

LEMMA PathEnds == ASSUME NEW a, NEW b, Path(<<>>, a, b) PROVE a = b
BY DEF Path, Trace

LEMMA PathGrows ==
    ASSUME NEW C, NEW w \in Seq(C), NEW sc \in C, NEW a, NEW b, Path(w, a, b),
           NEW c \in Driver, Handled(b, sc, c)
    PROVE  Path(Append(w, sc), a, c)
<1>1. PICK st : Trace(w, a, b, st) BY DEF Path
<1> DEFINE n == Len(w)
           x == Append(w, sc)
           ts == [i \in 0 .. n + 1 |-> IF i = n + 1 THEN c ELSE st[i]]
<1>2. n \in Nat /\ Len(x) = n + 1 /\ x[n + 1] = sc /\ \A i \in 1 .. n : x[i] = w[i] OBVIOUS
<1>3. /\ st \in [0 .. n -> Driver] /\ st[0] = a /\ st[n] = b
      /\ \A i \in 1 .. n : Handled(st[i - 1], w[i], st[i]) BY <1>1 DEF Trace
<1> HIDE DEF n, x
<1>4. ts \in [0 .. n + 1 -> Driver] BY <1>2, <1>3
<1>5. ts[0] = a /\ ts[n + 1] = c /\ ts[n] = b BY <1>2, <1>3
<1>6. ASSUME NEW i \in 1 .. n + 1 PROVE Handled(ts[i - 1], x[i], ts[i])
  <2>1. CASE i = n + 1
    <3>1. i - 1 = n /\ ts[i] = c /\ x[i] = sc BY <1>2, <1>5, <2>1
    <3> HIDE DEF ts
    <3> QED BY <1>5, <3>1
  <2>2. CASE i # n + 1
    <3>1. i \in 1 .. n /\ i - 1 \in 0 .. n /\ i - 1 # n + 1 BY <1>2, <2>2
    <3>2. ts[i] = st[i] /\ ts[i - 1] = st[i - 1] /\ x[i] = w[i] BY <1>2, <2>2, <3>1
    <3> HIDE DEF ts
    <3> QED BY <1>3, <3>1, <3>2
  <2> QED BY <2>1, <2>2
<1> HIDE DEF ts
<1>7. Trace(x, a, c, ts) BY <1>2, <1>4, <1>5, <1>6 DEF Trace
<1> QED BY <1>7 DEF Path, x

LEMMA PathTail ==
    ASSUME NEW C, NEW w \in Seq(C), w # <<>>, NEW a, NEW b, Path(w, a, b)
    PROVE  \E c \in Driver : Handled(a, Head(w), c) /\ Path(Tail(w), c, b)
<1>1. PICK st : Trace(w, a, b, st) BY DEF Path
<1> DEFINE n == Len(w)
           x == Tail(w)
           ts == [i \in 0 .. n - 1 |-> st[i + 1]]
<1>2. n \in Nat \ {0} /\ Len(x) = n - 1 /\ Head(w) = w[1] /\ \A i \in 1 .. n - 1 : x[i] = w[i + 1] OBVIOUS
<1>3. /\ st \in [0 .. n -> Driver] /\ st[0] = a /\ st[n] = b
      /\ \A i \in 1 .. n : Handled(st[i - 1], w[i], st[i]) BY <1>1 DEF Trace
<1> HIDE DEF n, x
<1>4. ts \in [0 .. n - 1 -> Driver]
  <2>1. \A i \in 0 .. n - 1 : i + 1 \in 0 .. n BY <1>2
  <2> QED BY <1>3, <2>1
<1>5. ts[0] = st[1] /\ ts[n - 1] = b
  <2>1. 0 \in 0 .. n - 1 /\ n - 1 \in 0 .. n - 1 /\ n - 1 + 1 = n /\ 0 + 1 = 1 BY <1>2
  <2> QED BY <1>3, <2>1
<1>6. ASSUME NEW i \in 1 .. n - 1 PROVE Handled(ts[i - 1], x[i], ts[i])
  <2>1. i + 1 \in 1 .. n /\ (i + 1) - 1 = i /\ i \in 0 .. n - 1 /\ i - 1 \in 0 .. n - 1 /\ i - 1 + 1 = i BY <1>2
  <2>2. Handled(st[(i + 1) - 1], w[i + 1], st[i + 1]) BY <1>3, <2>1
  <2>3. ts[i] = st[i + 1] /\ ts[i - 1] = st[i] /\ x[i] = w[i + 1] BY <1>2, <2>1
  <2> HIDE DEF ts
  <2> QED BY <2>1, <2>2, <2>3
<1> HIDE DEF ts
<1>7. Trace(x, st[1], b, ts) BY <1>2, <1>4, <1>5, <1>6 DEF Trace
<1>8. 1 \in 1 .. n /\ 1 \in 0 .. n /\ 1 - 1 = 0 BY <1>2
<1>9. st[1] \in Driver /\ Handled(a, Head(w), st[1]) BY <1>2, <1>3, <1>8
<1> QED BY <1>7, <1>9 DEF Path, x

Now  == [shift |-> shift, caps |-> caps, e0 |-> saw_e0, out |-> accepted]
Then == [shift |-> HeldShifts # {}, caps |-> locked, e0 |-> FALSE, out |-> meant]

\* Once the codes on the wire are handled, the modifiers are as the typist
\* holds them and what was typed has been pushed.
TInv ==
    /\ shift \in BOOLEAN /\ caps \in BOOLEAN /\ saw_e0 \in BOOLEAN /\ locked \in BOOLEAN
    /\ accepted \in Seq(KeyCode) /\ meant \in Seq(KeyCode) /\ lost \in Nat
    /\ wire \in Seq(KeyCode) /\ down \subseteq Keys
    /\ latest = <<>> \/ \E k \in down : latest = <<k>>
    /\ lost = 0 => Path(wire, Now, Then)

LEMMA MeaningIs ==
    ASSUME NEW sh \in BOOLEAN, NEW cp \in BOOLEAN, NEW sc \in KeyCode
    PROVE  Meaning(sh, cp, sc) \in KeyCode
<1> DEFINE c == Char(IF sh THEN map_upper ELSE map_lower, sc)
<1>1. c \in 0 .. 127 BY LayoutAssumption DEF Char
<1>2. Meaning(sh, cp, sc) = CASE cp /\ ~sh /\ c \in 97 .. 122 -> c - 32
                              [] cp /\ sh /\ c \in 65 .. 90   -> c + 32
                              [] OTHER                        -> c
  BY DEF Meaning
<1> HIDE DEF c
<1>3. CASE cp /\ ~sh /\ c \in 97 .. 122 BY <1>1, <1>2, <1>3 DEF KeyCode
<1>4. CASE cp /\ sh /\ c \in 65 .. 90 BY <1>1, <1>2, <1>4 DEF KeyCode
<1>5. CASE ~(cp /\ ~sh /\ c \in 97 .. 122) /\ ~(cp /\ sh /\ c \in 65 .. 90)
  BY <1>1, <1>2, <1>5 DEF KeyCode
<1> QED BY <1>3, <1>4, <1>5

LEMMA PushesIs ==
    ASSUME NEW d \in Driver, NEW sc \in KeyCode
    PROVE  Pushes(d, sc) \in Seq(KeyCode)
<1>1. Meaning(d.shift, d.caps, sc) \in KeyCode BY MeaningIs DEF Driver
<1>2. KEY_UP \in KeyCode /\ KEY_DOWN \in KeyCode BY DEF KEY_UP, KEY_DOWN, KeyCode
<1> DEFINE m == Meaning(d.shift, d.caps, sc)
<1>3. <<KEY_UP>> \in Seq(KeyCode) /\ <<KEY_DOWN>> \in Seq(KeyCode) /\ <<m>> \in Seq(KeyCode) /\ <<>> \in Seq(KeyCode)
  BY <1>1, <1>2
<1> HIDE DEF KeyCode
<1> QED BY <1>3 DEF Pushes

\* keyboard_irq() does what Handled says, unless the ring is full.
LEMMA HandlerIs ==
    ASSUME TInv, NEW sc \in KeyCode, keyboard_irq(sc), lost' = lost
    PROVE  Now' \in Driver /\ Handled(Now, sc, Now')
<1> DEFINE m == Meaning(shift, caps, sc)
<1>1. Now \in Driver BY DEF TInv, Now, Driver
<1>2. m = Translate(sc) BY DEF Meaning, Translate
<1>3. Pushes(Now, sc) = IF sc = 224 THEN <<>>
          ELSE IF saw_e0 THEN IF sc = 72 THEN <<KEY_UP>> ELSE IF sc = 80 THEN <<KEY_DOWN>> ELSE <<>>
          ELSE IF sc >= 128 \/ sc \in Shifts \cup {58} \/ m = 0 THEN <<>> ELSE <<m>>
  BY DEF Pushes, Now
<1>4. ASSUME NEW c, push(c) PROVE accepted' = accepted \o <<c>>
  <2>1. lost' # lost + 1 BY DEF TInv
  <2>2. accepted' = Append(accepted, c) BY <1>4, <2>1 DEF push
  <2> QED BY <2>2 DEF TInv
<1>5. ASSUME NoPush PROVE accepted' = accepted \o <<>> BY <1>5 DEF NoPush, TInv
<1> HIDE DEF m
<1> DEFINE Out == accepted' = accepted \o Pushes(Now, sc)
           Mod == /\ saw_e0' \in BOOLEAN /\ shift' \in BOOLEAN /\ caps' \in BOOLEAN
                  /\ saw_e0' <=> sc = 224
                  /\ shift' <=> IF sc = 224 \/ saw_e0 THEN shift
                                ELSE IF sc >= 128 THEN shift /\ Released(sc) \notin Shifts
                                ELSE shift \/ sc \in Shifts
                  /\ caps' <=> IF sc = 58 /\ ~saw_e0 THEN ~caps ELSE caps
<1>6. shift \in BOOLEAN /\ caps \in BOOLEAN /\ saw_e0 \in BOOLEAN BY DEF TInv
<1>7. sc \in 0 .. 255 /\ (sc \in Shifts => sc < 128 /\ sc # 224 /\ sc # 58) BY DEF KeyCode, Shifts
<1> SUFFICES Out /\ Mod
  <2>1. ASSUME Out, Mod PROVE Now' \in Driver /\ Handled(Now, sc, Now')
    <3>1. accepted' \in Seq(KeyCode)
      <4>1. Pushes(Now, sc) \in Seq(KeyCode) BY <1>1, PushesIs
      <4> QED BY <2>1, <4>1 DEF TInv
    <3>2. Now' \in Driver BY <2>1, <3>1 DEF Now, Driver
    <3>3. Now'.shift = shift' /\ Now'.caps = caps' /\ Now'.e0 = saw_e0' /\ Now'.out = accepted' BY DEF Now
    <3>4. Now.shift = shift /\ Now.caps = caps /\ Now.e0 = saw_e0 /\ Now.out = accepted BY DEF Now
    <3> QED BY <2>1, <3>2, <3>3, <3>4 DEF Handled
  <2> QED BY <2>1
<1>8. CASE sc = 224 /\ saw_e0' = TRUE /\ NoPush /\ UNCHANGED <<shift, caps>>
  <2>1. Out BY <1>3, <1>5, <1>8
  <2>2. Mod BY <1>6, <1>8
  <2> QED BY <2>1, <2>2
<1>9. CASE /\ sc # 224 /\ saw_e0 /\ saw_e0' = FALSE
           /\ CASE sc = 72 -> push(KEY_UP)
                [] sc = 80 -> push(KEY_DOWN)
                [] OTHER   -> NoPush
           /\ UNCHANGED <<shift, caps>>
  <2>1. Out
    <3>1. CASE sc = 72
      <4>1. push(KEY_UP) /\ Pushes(Now, sc) = <<KEY_UP>> BY <1>3, <1>9, <3>1
      <4> QED BY <1>4, <4>1
    <3>2. CASE sc = 80
      <4>1. push(KEY_DOWN) /\ Pushes(Now, sc) = <<KEY_DOWN>> BY <1>3, <1>9, <3>2
      <4> QED BY <1>4, <4>1
    <3>3. CASE sc # 72 /\ sc # 80
      <4>1. NoPush /\ Pushes(Now, sc) = <<>> BY <1>3, <1>9, <3>3
      <4> QED BY <1>5, <4>1
    <3> QED BY <3>1, <3>2, <3>3
  <2>2. Mod BY <1>6, <1>9
  <2> QED BY <2>1, <2>2
<1>10. CASE /\ sc # 224 /\ ~saw_e0 /\ sc >= 128
            /\ shift' = (shift /\ Released(sc) \notin Shifts)
            /\ NoPush /\ UNCHANGED <<caps, saw_e0>>
  <2>1. Out BY <1>3, <1>5, <1>10
  <2>2. Mod BY <1>6, <1>7, <1>10
  <2> QED BY <2>1, <2>2
<1>11. CASE ~saw_e0 /\ sc \in Shifts /\ shift' = TRUE /\ NoPush /\ UNCHANGED <<caps, saw_e0>>
  <2>1. Out BY <1>3, <1>5, <1>7, <1>11
  <2>2. Mod BY <1>6, <1>7, <1>11
  <2> QED BY <2>1, <2>2
<1>12. CASE ~saw_e0 /\ sc = 58 /\ caps' = ~caps /\ NoPush /\ UNCHANGED <<shift, saw_e0>>
  <2>1. Out BY <1>3, <1>5, <1>12
  <2>2. sc # 224 /\ ~(sc >= 128) /\ sc \notin Shifts BY <1>12 DEF Shifts
  <2>3. Mod BY <1>6, <1>12, <2>2
  <2> QED BY <2>1, <2>3
<1>13. CASE /\ ~saw_e0 /\ sc < 128 /\ sc \notin Shifts \cup {58}
            /\ IF Translate(sc) = 0 THEN NoPush ELSE push(Translate(sc))
            /\ UNCHANGED mods
  <2>1. sc # 224 /\ ~(sc >= 128) BY <1>7, <1>13
  <2>2. Out
    <3>1. CASE m = 0
      <4>1. NoPush /\ Pushes(Now, sc) = <<>> BY <1>2, <1>3, <1>13, <3>1
      <4> QED BY <1>5, <4>1
    <3>2. CASE m # 0
      <4>1. push(m) /\ Pushes(Now, sc) = <<m>> BY <1>2, <1>3, <1>13, <2>1, <3>2
      <4> QED BY <1>4, <4>1
    <3> QED BY <3>1, <3>2
  <2>3. Mod BY <1>6, <1>13, <2>1 DEF mods
  <2> QED BY <2>2, <2>3
<1> QED BY <1>8, <1>9, <1>10, <1>11, <1>12, <1>13 DEF keyboard_irq

LEMMA ThenIs ==
    ASSUME TInv
    PROVE  Now \in Driver /\ Then \in Driver
BY DEF TInv, Now, Then, Driver

LEMMA TypistInitHolds == TypistInit => TInv
<1> SUFFICES ASSUME TypistInit PROVE TInv OBVIOUS
<1>1. /\ shift = FALSE /\ caps = FALSE /\ saw_e0 = FALSE /\ locked = FALSE
      /\ accepted = <<>> /\ meant = <<>> /\ lost = 0 /\ wire = <<>> /\ down = {} /\ latest = <<>>
  BY DEF TypistInit, KbdInit
<1>2. HeldShifts = {} BY <1>1 DEF HeldShifts
<1>3. Now = [shift |-> FALSE, caps |-> FALSE, e0 |-> FALSE, out |-> <<>>] /\ Then = Now
  BY <1>1, <1>2 DEF Now, Then
<1>4. Now \in Driver BY <1>3 DEF Driver
<1>5. Path(wire, Now, Then) BY <1>1, <1>3, <1>4, NoPath
<1>6. /\ shift \in BOOLEAN /\ caps \in BOOLEAN /\ saw_e0 \in BOOLEAN /\ locked \in BOOLEAN
      /\ accepted \in Seq(KeyCode) /\ meant \in Seq(KeyCode) /\ lost \in Nat
      /\ wire \in Seq(KeyCode) /\ down \subseteq Keys
  <2>1. shift \in BOOLEAN /\ caps \in BOOLEAN /\ saw_e0 \in BOOLEAN /\ locked \in BOOLEAN
    BY <1>1, Zenon
  <2>2. <<>> \in Seq(KeyCode) /\ 0 \in Nat /\ {} \subseteq Keys OBVIOUS
  <2> QED BY <1>1, <2>1, <2>2, Zenon
<1> QED BY <1>1, <1>5, <1>6 DEF TInv

\* Two states that the same code leads to are the same.
LEMMA OneWay ==
    ASSUME NEW d, NEW sc, NEW e \in Driver, NEW f \in Driver, Handled(d, sc, e), Handled(d, sc, f)
    PROVE  e = f
<1>1. e.out = f.out BY DEF Handled
<1>2. (e.shift <=> f.shift) /\ (e.caps <=> f.caps) /\ (e.e0 <=> f.e0) BY DEF Handled
<1>3. e.shift \in BOOLEAN /\ f.shift \in BOOLEAN /\ e.caps \in BOOLEAN /\ f.caps \in BOOLEAN
      /\ e.e0 \in BOOLEAN /\ f.e0 \in BOOLEAN BY DEF Driver
<1>4. e.shift = f.shift /\ e.caps = f.caps /\ e.e0 = f.e0 BY <1>2, <1>3
<1> QED BY <1>1, <1>4 DEF Driver

LEMMA SendHolds == ASSUME TInv, Send PROVE TInv'
<1> DEFINE sc == Head(wire)
<1>1. wire # <<>> /\ wire \in Seq(KeyCode) BY DEF TInv, Send
<1>2. sc \in KeyCode /\ Tail(wire) \in Seq(KeyCode)
  <2> HIDE DEF KeyCode
  <2> QED BY <1>1
<1>3. UNCHANGED <<down, latest, locked, meant>> /\ wire' = Tail(wire) /\ keyboard_irq(sc) BY DEF Send
<1> HIDE DEF sc
<1>4. Then' = Then BY <1>3 DEF Then, HeldShifts
<1>5. NoPush \/ \E c \in KeyCode : push(c) BY <1>3, HandlerPushes
<1>6. CASE lost' = lost
  <2>1. Now' \in Driver /\ Handled(Now, sc, Now') BY <1>2, <1>3, <1>6, HandlerIs
  <2>2. shift' \in BOOLEAN /\ caps' \in BOOLEAN /\ saw_e0' \in BOOLEAN /\ accepted' \in Seq(KeyCode)
    BY <2>1 DEF Now, Driver
  <2>3. ASSUME lost = 0 PROVE Path(wire', Now', Then')
    <3>1. PICK c \in Driver : Handled(Now, Head(wire), c) /\ Path(Tail(wire), c, Then)
      <4>1. Path(wire, Now, Then) BY <2>3 DEF TInv
      <4> QED BY <1>1, <4>1, PathTail
    <3>2. c = Now' BY <2>1, <3>1, OneWay DEF sc
    <3> QED BY <1>3, <1>4, <3>1, <3>2
  <2> QED BY <1>2, <1>3, <1>6, <2>2, <2>3 DEF TInv
<1>7. CASE lost' # lost
  <2>1. ~NoPush BY <1>7 DEF NoPush
  <2>2. PICK c \in KeyCode : push(c) BY <1>5, <2>1
  <2>3. lost' = lost + 1 /\ accepted' = accepted BY <1>7, <2>2 DEF push
  <2>4. shift' \in BOOLEAN /\ caps' \in BOOLEAN /\ saw_e0' \in BOOLEAN BY <1>3 DEF TInv, keyboard_irq, mods
  <2>5. lost' # 0 /\ lost' \in Nat BY <2>3 DEF TInv
  <2> QED BY <1>2, <1>3, <2>3, <2>4, <2>5 DEF TInv
<1> QED BY <1>6, <1>7

ArrowKey(sc) == IF sc = 72 THEN <<KEY_UP>> ELSE IF sc = 80 THEN <<KEY_DOWN>> ELSE <<>>

Skipped(b, sc) == [shift |-> b.shift, caps |-> b.caps, e0 |-> FALSE, out |-> b.out \o ArrowKey(sc)]

\* The handler swallows an E0 and the code behind it, an arrow apart.
LEMMA BehindE0 ==
    ASSUME NEW w \in Seq(KeyCode), NEW a, NEW b \in Driver, Path(w, a, b), ~b.e0,
           NEW sc \in KeyCode, sc # 224
    PROVE  Skipped(b, sc) \in Driver /\ Path(w \o <<224, sc>>, a, Skipped(b, sc))
<1> DEFINE d == Skipped(b, sc)
           m == [shift |-> b.shift, caps |-> b.caps, e0 |-> TRUE, out |-> b.out]
<1>1. b.shift \in BOOLEAN /\ b.caps \in BOOLEAN /\ b.e0 \in BOOLEAN /\ b.out \in Seq(KeyCode) BY DEF Driver
<1>2. 224 \in KeyCode BY DEF KeyCode
<1>3. m \in Driver BY <1>1 DEF Driver
<1>4. Handled(b, 224, m)
  <2>1. Pushes(b, 224) = <<>> BY DEF Pushes
  <2>2. m.out = b.out \o Pushes(b, 224) BY <1>1, <2>1
  <2> QED BY <2>2 DEF Handled
<1>5. Pushes(m, sc) = ArrowKey(sc) BY DEF Pushes, ArrowKey
<1>6. Handled(m, sc, d)
  <2>1. m.e0 = TRUE /\ m.shift = b.shift /\ m.caps = b.caps /\ m.out = b.out OBVIOUS
  <2>2. d.e0 = FALSE /\ d.shift = b.shift /\ d.caps = b.caps /\ d.out = b.out \o ArrowKey(sc) BY DEF Skipped
  <2> HIDE DEF m, d
  <2> QED BY <1>5, <2>1, <2>2 DEF Handled
<1>7. d \in Driver
  <2>1. Pushes(m, sc) \in Seq(KeyCode) BY <1>3, PushesIs
  <2>2. b.out \o ArrowKey(sc) \in Seq(KeyCode) BY <1>1, <1>5, <2>1
  <2> QED BY <1>1, <2>2 DEF Driver, Skipped
<1> HIDE DEF m, d
<1>8. Path(Append(w, 224), a, m) BY <1>2, <1>3, <1>4, PathGrows
<1>9. Append(w, 224) \in Seq(KeyCode) BY <1>2
<1>10. Path(Append(Append(w, 224), sc), a, d) BY <1>6, <1>7, <1>8, <1>9, PathGrows
<1>11. Append(Append(w, 224), sc) = w \o <<224, sc>> OBVIOUS
<1> QED BY <1>7, <1>10, <1>11 DEF d

LEMMA CodesAre ==
    ASSUME NEW k \in Keys
    PROVE  /\ k = <<k[1], k[2]>> /\ k[2] \in 0 .. 127 \ {96}
           /\ \/ k[1] = "plain" /\ k[2] \in Plain /\ k[2] \notin Shifts \cup {58}
              \/ k[1] = "plain" /\ k[2] \in ShiftKeys /\ k[2] \in Shifts
              \/ k[1] = "plain" /\ k = CapsKey /\ k[2] = 58
              \/ k[1] = "extended" /\ k[2] \in Extended
<1>1. ShiftKeys \subseteq {42, 54} /\ Plain \subseteq 0 .. 127 \ {96} /\ Extended \subseteq 0 .. 127 \ {96}
  BY TypistAssumption DEF Shifts
<1>2. ASSUME NEW c, NEW S, k \in {c} \X S PROVE k = <<k[1], k[2]>> /\ k[1] = c /\ k[2] \in S
  BY <1>2
<1>3. CASE k \in {"plain"} \X (Plain \cup ShiftKeys \cup {58})
  <2>1. k = <<k[1], k[2]>> /\ k[1] = "plain" /\ k[2] \in Plain \cup ShiftKeys \cup {58} BY <1>2, <1>3
  <2>2. k[2] = 58 => k = CapsKey BY <2>1 DEF CapsKey
  <2> DEFINE c == k[2]
  <2> HIDE DEF c
  <2>3. c \in Plain => c \notin Shifts \cup {58} BY TypistAssumption
  <2>4. c \in ShiftKeys => c \in Shifts BY TypistAssumption
  <2>5. c \in Plain \cup ShiftKeys \cup {58} => c \in 0 .. 127 \ {96} BY <1>1
  <2> QED BY <2>1, <2>2, <2>3, <2>4, <2>5 DEF c
<1>4. CASE k \in {"extended"} \X Extended
  <2>1. k = <<k[1], k[2]>> /\ k[1] = "extended" /\ k[2] \in Extended BY <1>2, <1>4
  <2> QED BY <1>1, <2>1
<1> QED BY <1>3, <1>4 DEF Keys

LEMMA TypesIs ==
    ASSUME NEW k \in Keys
    PROVE  /\ k[1] = "plain" /\ k[2] \in Plain => Types(k) = <<Legend(k)>>
           /\ k[1] = "plain" /\ k[2] \notin Plain => Types(k) = <<>>
           /\ k[1] = "extended" => Types(k) = ArrowKey(k[2])
<1>1. k = <<k[1], k[2]>> BY CodesAre
<1>2. CASE k[1] = "plain" /\ k[2] \in Plain
  <2>1. k \in {"plain"} \X Plain BY <1>1, <1>2
  <2>2. k # <<"extended", 72>> /\ k # <<"extended", 80>> BY <1>2
  <2> QED BY <1>2, <2>1, <2>2 DEF Types
<1>3. CASE k[1] = "plain" /\ k[2] \notin Plain
  <2>1. k \notin {"plain"} \X Plain BY <1>3
  <2>2. k # <<"extended", 72>> /\ k # <<"extended", 80>> BY <1>3
  <2> QED BY <1>3, <2>1, <2>2 DEF Types
<1>4. CASE k[1] = "extended"
  <2>1. k \notin {"plain"} \X Plain BY <1>4
  <2>2. (k = <<"extended", 72>> <=> k[2] = 72) /\ (k = <<"extended", 80>> <=> k[2] = 80) BY <1>1, <1>4
  <2>3. 72 # 80 OBVIOUS
  <2> QED BY <1>4, <2>1, <2>2, <2>3 DEF Types, ArrowKey
<1>5. k[1] \in {"plain", "extended"} BY CodesAre
<1> QED BY <1>2, <1>3, <1>4, <1>5

\* The legend is what the driver makes of the key.
LEMMA LegendIs ==
    ASSUME TInv, NEW k, k[2] \in Plain
    PROVE  Legend(k) = Meaning(HeldShifts # {}, locked, k[2]) /\ Legend(k) # 0 /\ Legend(k) \in KeyCode
<1> DEFINE sh == HeldShifts # {}
           l == map_lower[k[2]]
           u == map_upper[k[2]]
           c == IF sh THEN u ELSE l
<1>1. k[2] \in DOMAIN map_lower /\ k[2] \in DOMAIN map_upper BY TypistAssumption
<1>2. l \in 0 .. 127 /\ u \in 0 .. 127 BY <1>1, LayoutAssumption
<1>3. l # 0 /\ u # 0 /\ (l \in 97 .. 122 \/ u \in 65 .. 90 => l \in 97 .. 122 /\ u = l - 32)
  BY TypistAssumption
<1>4. Char(IF sh THEN map_upper ELSE map_lower, k[2]) = c BY <1>1 DEF Char
<1>5. Meaning(sh, locked, k[2]) = CASE locked /\ ~sh /\ c \in 97 .. 122 -> c - 32
                                    [] locked /\ sh /\ c \in 65 .. 90   -> c + 32
                                    [] OTHER                            -> c
  BY <1>4 DEF Meaning
<1>6. Legend(k) = IF sh # (l \in 97 .. 122 /\ locked) THEN u ELSE l BY DEF Legend
<1>7. sh \in BOOLEAN /\ locked \in BOOLEAN BY DEF TInv
<1> HIDE DEF sh, l, u
<1> SUFFICES Legend(k) = Meaning(sh, locked, k[2]) /\ Legend(k) # 0 /\ Legend(k) \in KeyCode BY DEF sh
<1>8. CASE locked /\ ~sh /\ l \in 97 .. 122
  <2>1. Legend(k) = u BY <1>6, <1>8
  <2>2. Meaning(sh, locked, k[2]) = l - 32 BY <1>5, <1>8
  <2>3. u = l - 32 /\ u # 0 /\ u \in KeyCode BY <1>2, <1>3, <1>8 DEF KeyCode
  <2> QED BY <2>1, <2>2, <2>3, Zenon
<1>9. CASE locked /\ sh /\ l \in 97 .. 122
  <2>1. Legend(k) = l BY <1>6, <1>9
  <2>2. u = l - 32 /\ u \in 65 .. 90 BY <1>3, <1>9
  <2>3. Meaning(sh, locked, k[2]) = u + 32 BY <1>5, <1>9, <2>2
  <2>4. u + 32 = l /\ l # 0 /\ l \in KeyCode BY <1>2, <1>3, <1>9, <2>2 DEF KeyCode
  <2> QED BY <2>1, <2>3, <2>4, Zenon
<1>10. CASE ~(locked /\ l \in 97 .. 122)
  <2>1. Legend(k) = c BY <1>6, <1>7, <1>10
  <2>2. ~(locked /\ ~sh /\ c \in 97 .. 122) /\ ~(locked /\ sh /\ c \in 65 .. 90) BY <1>3, <1>10
  <2>3. Meaning(sh, locked, k[2]) = c BY <1>5, <2>2
  <2> QED BY <1>2, <1>3, <2>1, <2>3 DEF KeyCode
<1> QED BY <1>7, <1>8, <1>9, <1>10

\* The driver's state when key k has gone down and its codes are handled.
Down(k) == [shift |-> IF k[1] = "plain" /\ k[2] \in ShiftKeys THEN TRUE ELSE HeldShifts # {},
            caps |-> (locked # (k = CapsKey)), e0 |-> FALSE, out |-> meant \o Types(k)]

\* A key without a prefix.
LEMMA MakePlain ==
    ASSUME TInv, NEW k \in Keys, k[1] = "plain"
    PROVE  Down(k) \in Driver /\ Handled(Then, k[2], Down(k))
<1> DEFINE sc == k[2]
           sh == HeldShifts # {}
<1>1. sc \in 0 .. 127 \ {96} BY CodesAre
<1>2. Then.shift = sh /\ Then.caps = locked /\ Then.e0 = FALSE /\ Then.out = meant BY DEF Then
<1>3. Down(k).shift = (IF k[1] = "plain" /\ sc \in ShiftKeys THEN TRUE ELSE sh) /\ Down(k).caps = (locked # (k = CapsKey))
      /\ Down(k).e0 = FALSE /\ Down(k).out = meant \o Types(k)
  BY DEF Down
<1>4. sh \in BOOLEAN /\ locked \in BOOLEAN /\ meant \in Seq(KeyCode) BY DEF TInv
<1>5. /\ \/ sc \in Plain /\ sc \notin Shifts \cup {58}
         \/ sc \in ShiftKeys /\ sc \in Shifts
         \/ k = CapsKey /\ sc = 58
  BY CodesAre
<1>6. (sc \in Shifts <=> sc \in ShiftKeys) /\ (sc = 58 <=> k = CapsKey)
  <2>1. ShiftKeys \subseteq Shifts BY TypistAssumption
  <2>2. 58 \notin Shifts BY DEF Shifts
  <2>3. k = CapsKey => sc = 58 BY DEF CapsKey
  <2> QED BY <1>5, <2>1, <2>2, <2>3
<1>7. Types(k) \in Seq(KeyCode) /\ Pushes(Then, sc) = Types(k)
  <2>1. Pushes(Then, sc) = IF sc \in Shifts \cup {58} \/ Meaning(Then.shift, Then.caps, sc) = 0 THEN <<>>
                           ELSE <<Meaning(Then.shift, Then.caps, sc)>>
    <3>1. sc # 224 /\ ~(sc >= 128) BY <1>1
    <3>2. ~Then.e0 BY <1>2
    <3> HIDE DEF sc
    <3> QED BY <3>1, <3>2 DEF Pushes
  <2>2. CASE sc \in Plain /\ sc \notin Shifts \cup {58}
    <3>1. Types(k) = <<Legend(k)>> BY <2>2, TypesIs
    <3>2. Legend(k) = Meaning(sh, locked, sc) /\ Legend(k) # 0 /\ Legend(k) \in KeyCode BY <2>2, LegendIs
    <3>3. Meaning(Then.shift, Then.caps, sc) = Legend(k) BY <1>2, <3>2, Zenon
    <3> QED BY <2>1, <2>2, <3>1, <3>2, <3>3
  <2>3. CASE sc \in Shifts \cup {58}
    <3>1. sc \notin Plain BY <2>3, TypistAssumption
    <3>2. Types(k) = <<>> BY <3>1, TypesIs
    <3> QED BY <2>1, <2>3, <3>2
  <2> QED BY <1>5, <2>2, <2>3
<1>8. Down(k) \in Driver
  <2>1. meant \o Types(k) \in Seq(KeyCode) BY <1>4, <1>7
  <2> QED BY <2>1 DEF Down, Driver
<1>9. sc # 224 /\ ~(sc >= 128) BY <1>1
<1> HIDE DEF sc, sh
<1>10. Down(k).e0 <=> sc = 224 BY <1>3, <1>9
<1>11. Down(k).shift <=> IF sc = 224 \/ Then.e0 THEN Then.shift
                         ELSE IF sc >= 128 THEN Then.shift /\ Released(sc) \notin Shifts
                         ELSE Then.shift \/ sc \in Shifts
  BY <1>2, <1>3, <1>4, <1>6, <1>9
<1>12. Down(k).caps <=> IF sc = 58 /\ ~Then.e0 THEN ~Then.caps ELSE Then.caps
  BY <1>2, <1>3, <1>4, <1>6
<1> QED BY <1>2, <1>3, <1>7, <1>8, <1>10, <1>11, <1>12 DEF Handled, sc

\* The Shift that the device releases or presses around an extended key is
\* not looked at.
LEMMA FakeIs ==
    ASSUME TInv, NEW sign \in {0, 128}, NEW w \in Seq(KeyCode), NEW a, NEW b \in Driver, ~b.e0, Path(w, a, b)
    PROVE  FakeShift(sign) \in Seq(KeyCode) /\ Path(w \o FakeShift(sign), a, b)
<1>1. CASE HeldShifts = {}
  <2>1. FakeShift(sign) = <<>> BY <1>1 DEF FakeShift
  <2>2. w \o <<>> = w OBVIOUS
  <2> QED BY <2>1, <2>2
<1>2. CASE HeldShifts # {}
  <2> DEFINE s == CHOOSE s \in HeldShifts : TRUE
             sc == s + sign
  <2>1. s \in HeldShifts BY <1>2
  <2>2. s \in {42, 54} BY <2>1, TypistAssumption DEF HeldShifts, Shifts
  <2> HIDE DEF s
  <2>3. sc \in KeyCode /\ sc # 224 /\ sc # 72 /\ sc # 80 /\ 224 \in KeyCode BY <2>2 DEF KeyCode
  <2>4. FakeShift(sign) = <<224, sc>> BY <1>2 DEF FakeShift, s
  <2>5. Skipped(b, sc) = b
    <3>1. ArrowKey(sc) = <<>>
      <4> HIDE DEF sc
      <4> QED BY <2>3 DEF ArrowKey
    <3>2. b.out \in Seq(KeyCode) /\ b.e0 \in BOOLEAN BY DEF Driver
    <3>3. b.out \o ArrowKey(sc) = b.out
      <4> DEFINE o == b.out
      <4>1. o \in Seq(KeyCode) BY <3>2
      <4> HIDE DEF o, KeyCode, sc
      <4>2. o \o <<>> = o BY <4>1
      <4> QED BY <3>1, <4>2 DEF o
    <3>4. b.e0 = FALSE BY <3>2
    <3> HIDE DEF sc
    <3> QED BY <3>3, <3>4 DEF Driver, Skipped
  <2> HIDE DEF sc
  <2>6. Path(w \o <<224, sc>>, a, Skipped(b, sc)) BY <2>3, BehindE0
  <2>7. <<224, sc>> \in Seq(KeyCode)
    <3> HIDE DEF KeyCode
    <3> QED BY <2>3
  <2> QED BY <2>4, <2>5, <2>6, <2>7
<1> QED BY <1>1, <1>2

LEMMA MakeHolds ==
    ASSUME TInv, lost = 0, NEW k \in Keys
    PROVE  /\ Make(k) \in Seq(KeyCode) /\ Down(k) \in Driver
           /\ Path(wire \o Make(k), Now, Down(k))
<1>1. wire \in Seq(KeyCode) /\ Path(wire, Now, Then) /\ Then \in Driver BY ThenIs DEF TInv
<1>2. k[2] \in 0 .. 127 \ {96} /\ k[1] \in {"plain", "extended"} BY CodesAre
<1>3. k[2] \in KeyCode /\ k[2] # 224 BY <1>2 DEF KeyCode
<1>4. CASE k[1] = "plain"
  <2>1. Make(k) = <<k[2]>> BY <1>4 DEF Make
  <2>2. Down(k) \in Driver /\ Handled(Then, k[2], Down(k)) BY <1>4, MakePlain
  <2>3. Path(Append(wire, k[2]), Now, Down(k)) BY <1>1, <1>3, <2>2, PathGrows, Zenon
  <2> DEFINE sc == k[2]
  <2> HIDE DEF sc, KeyCode
  <2>4. sc \in KeyCode BY <1>3 DEF sc
  <2>5. Append(wire, sc) = wire \o <<sc>> /\ <<sc>> \in Seq(KeyCode) BY <1>1, <2>4
  <2> QED BY <2>1, <2>2, <2>3, <2>5 DEF sc
<1>5. CASE k[1] = "extended"
  <2> DEFINE sc == k[2]
             f == FakeShift(128)
  <2>1. k[1] # "plain" BY <1>5
  <2>2. Make(k) = f \o <<224, sc>> BY <2>1 DEF Make
  <2>3. ~Then.e0 BY DEF Then
  <2>4. f \in Seq(KeyCode) /\ Path(wire \o f, Now, Then)
    <3>1. 128 \in {0, 128} OBVIOUS
    <3> QED BY <1>1, <2>3, <3>1, FakeIs, Zenon
  <2>5. sc \in KeyCode /\ sc # 224 /\ 224 \in KeyCode BY <1>3 DEF KeyCode
  <2> DEFINE d == Down(k)
  <2>6. d = Skipped(Then, sc)
    <3>1. Types(k) = ArrowKey(sc) BY <1>5, TypesIs
    <3>2. k # CapsKey BY <2>1 DEF CapsKey
    <3>3. locked \in BOOLEAN BY DEF TInv
    <3>4. (locked # (k = CapsKey)) = locked BY <3>2, <3>3
    <3>5. d = [shift |-> HeldShifts # {}, caps |-> locked, e0 |-> FALSE, out |-> meant \o ArrowKey(sc)]
      BY <2>1, <3>1, <3>4 DEF Down
    <3>6. Then.shift = (HeldShifts # {}) /\ Then.caps = locked /\ Then.out = meant BY DEF Then
    <3> QED BY <3>5, <3>6, Zenon DEF Skipped
  <2> HIDE DEF f, d, sc
  <2>7. wire \o f \in Seq(KeyCode) BY <1>1, <2>4
  <2>8. d \in Driver /\ Path((wire \o f) \o <<224, sc>>, Now, d) BY <1>1, <2>3, <2>4, <2>5, <2>6, <2>7, BehindE0
  <2>9. (wire \o f) \o <<224, sc>> = wire \o (f \o <<224, sc>>) /\ f \o <<224, sc>> \in Seq(KeyCode)
    <3>1. <<224, sc>> \in Seq(KeyCode)
      <4> HIDE DEF KeyCode
      <4> QED BY <2>5
    <3> QED BY <1>1, <2>4, <3>1
  <2> QED BY <2>2, <2>8, <2>9 DEF d
<1> QED BY <1>2, <1>4, <1>5

\* The driver's state when key k has come up.
Up(k) == [shift |-> IF k[1] = "plain" /\ k[2] \in ShiftKeys THEN FALSE ELSE HeldShifts # {},
          caps |-> locked, e0 |-> FALSE, out |-> meant]

LEMMA BreakHolds ==
    ASSUME TInv, lost = 0, NEW k \in Keys
    PROVE  Break(k) \in Seq(KeyCode) /\ Path(wire \o Break(k), Now, Up(k))
<1> DEFINE sc == k[2] + 128
<1>1. wire \in Seq(KeyCode) /\ Path(wire, Now, Then) /\ Then \in Driver BY ThenIs DEF TInv
<1>2. k[2] \in 0 .. 127 \ {96} /\ k[1] \in {"plain", "extended"} BY CodesAre
<1>3. sc \in KeyCode /\ sc >= 128 /\ sc # 224 /\ Released(sc) = k[2] /\ 224 \in KeyCode
  BY <1>2 DEF KeyCode, Released
<1>4. locked \in BOOLEAN /\ meant \in Seq(KeyCode) BY DEF TInv
<1>5. Then.shift = (HeldShifts # {}) /\ Then.caps = locked /\ Then.e0 = FALSE /\ Then.out = meant BY DEF Then
<1>6. CASE k[1] = "plain"
  <2>1. Break(k) = <<sc>> BY <1>6 DEF Break
  <2> DEFINE d == Up(k)
  <2>2. d.shift = (IF k[1] = "plain" /\ k[2] \in ShiftKeys THEN FALSE ELSE HeldShifts # {}) /\ d.caps = locked
        /\ d.e0 = FALSE /\ d.out = meant BY DEF Up
  <2>3. d \in Driver BY <1>4 DEF Up, Driver
  <2>4. k[2] \in Shifts <=> k[2] \in ShiftKeys
    <3>1. ShiftKeys \subseteq Shifts BY TypistAssumption
    <3>2. 58 \notin Shifts BY DEF Shifts
    <3>3. "plain" # "extended" OBVIOUS
    <3> QED BY <1>6, <3>1, <3>2, <3>3, CodesAre
  <2> HIDE DEF sc, d
  <2>5. sc # 58 /\ sc # 72 /\ sc # 80 BY <1>3 DEF KeyCode
  <2>6. Pushes(Then, sc) = <<>> BY <1>3, <1>5 DEF Pushes
  <2>7. d.out = Then.out \o Pushes(Then, sc) BY <1>4, <1>5, <2>2, <2>6
  <2>8. Handled(Then, sc, d) BY <1>3, <1>5, <1>6, <2>2, <2>4, <2>5, <2>7 DEF Handled
  <2>9. Path(Append(wire, sc), Now, d)
    <3>1. sc \in KeyCode /\ wire \in Seq(KeyCode) /\ Path(wire, Now, Then) BY <1>1, <1>3
    <3> QED BY <2>3, <2>8, <3>1, PathGrows, Zenon
  <2>10. Append(wire, sc) = wire \o <<sc>> /\ <<sc>> \in Seq(KeyCode)
    <3> HIDE DEF KeyCode
    <3> QED BY <1>1, <1>3
  <2> QED BY <2>1, <2>9, <2>10 DEF d
<1>7. CASE k[1] = "extended"
  <2> DEFINE f == FakeShift(0)
             w == wire \o <<224, sc>>
  <2>1. k[1] # "plain" BY <1>7
  <2>2. Break(k) = <<224, sc>> \o f BY <2>1 DEF Break
  <2>3. ~Then.e0 BY DEF Then
  <2>4. Up(k) = Then
    BY <2>1 DEF Up, Then
  <2> HIDE DEF sc
  <2>5. sc # 72 /\ sc # 80 BY <1>3 DEF KeyCode
  <2>6. ArrowKey(sc) = <<>> BY <2>5 DEF ArrowKey
  <2>7. Then = Skipped(Then, sc)
    <3>1. meant \o ArrowKey(sc) = meant BY <1>4, <2>6
    <3>2. Then = [shift |-> HeldShifts # {}, caps |-> locked, e0 |-> FALSE, out |-> meant \o ArrowKey(sc)]
      BY <3>1, Zenon DEF Then
    <3> QED BY <1>5, <3>2, Zenon DEF Skipped
  <2>8. Path(w, Now, Then) BY <1>1, <1>3, <2>3, <2>7, BehindE0
  <2>9. <<224, sc>> \in Seq(KeyCode) /\ w \in Seq(KeyCode)
    <3> HIDE DEF KeyCode
    <3> QED BY <1>1, <1>3
  <2>10. f \in Seq(KeyCode) /\ Path(w \o f, Now, Then)
    <3>1. 0 \in {0, 128} OBVIOUS
    <3> HIDE DEF w
    <3> QED BY <1>1, <2>3, <2>8, <2>9, <3>1, FakeIs, Zenon
  <2> HIDE DEF f
  <2>11. w \o f = wire \o (<<224, sc>> \o f) /\ <<224, sc>> \o f \in Seq(KeyCode) BY <1>1, <2>9, <2>10
  <2> HIDE DEF w
  <2> QED BY <2>2, <2>4, <2>10, <2>11
<1> QED BY <1>2, <1>6, <1>7

LEMMA DownTypes ==
    ASSUME TInv, NEW k \in Keys
    PROVE  Types(k) \in Seq(KeyCode)
<1>1. KEY_UP \in KeyCode /\ KEY_DOWN \in KeyCode BY DEF KEY_UP, KEY_DOWN, KeyCode
<1> DEFINE l == Legend(k)
<1>2. k[2] \in Plain => l \in KeyCode BY LegendIs
<1> HIDE DEF l, KeyCode
<1>3. <<KEY_UP>> \in Seq(KeyCode) /\ <<KEY_DOWN>> \in Seq(KeyCode) /\ <<>> \in Seq(KeyCode) BY <1>1
<1>4. k[2] \in Plain => <<l>> \in Seq(KeyCode) BY <1>2
<1>5. ArrowKey(k[2]) \in Seq(KeyCode) BY <1>3 DEF ArrowKey
<1>6. k[1] \in {"plain", "extended"} BY CodesAre
<1> QED BY <1>3, <1>4, <1>5, <1>6, TypesIs DEF l

\* What a stroke leaves to show: the codes behind those on the wire lead to
\* where the typist is.
LEMMA StrokeHolds ==
    ASSUME TInv, NEW bytes \in Seq(KeyCode), Stroke(bytes),
           locked' \in BOOLEAN, meant' \in Seq(KeyCode), down' \subseteq Keys,
           latest' = <<>> \/ \E k \in down' : latest' = <<k>>,
           lost = 0 => Path(wire \o bytes, Now, Then')
    PROVE  TInv'
<1>1. wire' = wire \o bytes /\ UNCHANGED <<shift, caps, saw_e0, accepted, lost>> BY DEF Stroke, kvars
<1>2. Now' = Now BY <1>1 DEF Now
<1>3. wire' \in Seq(KeyCode)
  <2>1. wire \in Seq(KeyCode) BY DEF TInv
  <2> QED BY <1>1, <2>1
<1>4. lost' = 0 => Path(wire', Now', Then') BY <1>1, <1>2
<1>5. (shift \in BOOLEAN /\ caps \in BOOLEAN /\ saw_e0 \in BOOLEAN /\ accepted \in Seq(KeyCode) /\ lost \in Nat)'
  <2>1. shift \in BOOLEAN /\ caps \in BOOLEAN /\ saw_e0 \in BOOLEAN /\ accepted \in Seq(KeyCode) /\ lost \in Nat
    BY DEF TInv
  <2> QED BY <1>1, <2>1
<1> QED BY <1>3, <1>4, <1>5 DEF TInv

LEMMA MakeBytes == ASSUME TInv, NEW k \in Keys PROVE Make(k) \in Seq(KeyCode) /\ Break(k) \in Seq(KeyCode)
<1> DEFINE c == k[2]
           s == CHOOSE s \in HeldShifts : TRUE
<1>1. c \in 0 .. 127 BY CodesAre
<1>2. c \in KeyCode /\ c + 128 \in KeyCode /\ 224 \in KeyCode BY <1>1 DEF KeyCode
<1>3. HeldShifts # {} => s \in KeyCode /\ s + 128 \in KeyCode /\ s + 0 \in KeyCode
  <2> SUFFICES ASSUME HeldShifts # {} PROVE s \in KeyCode /\ s + 128 \in KeyCode /\ s + 0 \in KeyCode OBVIOUS
  <2>1. s \in HeldShifts OBVIOUS
  <2>2. s \in {42, 54} BY <2>1, TypistAssumption DEF HeldShifts, Shifts
  <2> HIDE DEF s
  <2> QED BY <2>2 DEF KeyCode
<1>4. FakeShift(128) = IF HeldShifts = {} THEN <<>> ELSE <<224, s + 128>> BY DEF FakeShift
<1>5. FakeShift(0) = IF HeldShifts = {} THEN <<>> ELSE <<224, s + 0>> BY DEF FakeShift
<1>6. Make(k) = IF k[1] = "plain" THEN <<c>> ELSE FakeShift(128) \o <<224, c>> BY DEF Make
<1>7. Break(k) = IF k[1] = "plain" THEN <<c + 128>> ELSE <<224, c + 128>> \o FakeShift(0) BY DEF Break
<1> DEFINE c2 == c + 128
           s2 == s + 128
           s0 == s + 0
<1> HIDE DEF c, s, c2, s2, s0, KeyCode
<1>8. <<c>> \in Seq(KeyCode) /\ <<224, c>> \in Seq(KeyCode) /\ <<>> \in Seq(KeyCode) BY <1>2
<1>9. <<c2>> \in Seq(KeyCode) /\ <<224, c2>> \in Seq(KeyCode) BY <1>2 DEF c2
<1>10. HeldShifts # {} => <<224, s2>> \in Seq(KeyCode) /\ <<224, s0>> \in Seq(KeyCode)
  <2>1. HeldShifts # {} => s2 \in KeyCode /\ s0 \in KeyCode BY <1>3 DEF s2, s0
  <2> QED BY <1>2, <2>1
<1>11. FakeShift(128) \in Seq(KeyCode) /\ FakeShift(0) \in Seq(KeyCode) BY <1>4, <1>5, <1>8, <1>10 DEF s2, s0
<1>12. FakeShift(128) \o <<224, c>> \in Seq(KeyCode) /\ <<224, c2>> \o FakeShift(0) \in Seq(KeyCode)
  BY <1>8, <1>9, <1>11
<1> QED BY <1>6, <1>7, <1>8, <1>9, <1>12 DEF c2

LEMMA ShiftDown ==
    ASSUME NEW k \in Keys, NEW D, D = down \cup {k}
    PROVE  ({s \in ShiftKeys : <<"plain", s>> \in D} # {})
              = (IF k[1] = "plain" /\ k[2] \in ShiftKeys THEN TRUE ELSE HeldShifts # {})
<1>1. k = <<k[1], k[2]>> BY CodesAre
<1>2. CASE k[1] = "plain" /\ k[2] \in ShiftKeys
  <2>1. <<"plain", k[2]>> \in D BY <1>1, <1>2
  <2> QED BY <1>2, <2>1
<1>3. CASE ~(k[1] = "plain" /\ k[2] \in ShiftKeys)
  <2>1. \A s \in ShiftKeys : k # <<"plain", s>> BY <1>3
  <2>2. {s \in ShiftKeys : <<"plain", s>> \in D} = HeldShifts BY <2>1 DEF HeldShifts
  <2> QED BY <1>3, <2>2
<1> QED BY <1>2, <1>3

OneShift == \A a, b \in ShiftKeys : a = b

ShiftsIn(D) == {s \in ShiftKeys : <<"plain", s>> \in D}

AfterUp(D, k) ==
    (ShiftsIn(D) # {}) = (IF k[1] = "plain" /\ k[2] \in ShiftKeys THEN FALSE ELSE HeldShifts # {})

LEMMA ShiftUp ==
    ASSUME OneShift, NEW k \in Keys, NEW D, D = down \ {k}
    PROVE  AfterUp(D, k)
<1>1. k = <<k[1], k[2]>> BY CodesAre
<1>2. CASE k[1] = "plain" /\ k[2] \in ShiftKeys
  <2>1. \A s \in ShiftKeys : <<"plain", s>> = k BY <1>1, <1>2 DEF OneShift
  <2>2. ShiftsIn(D) = {} BY <2>1 DEF ShiftsIn
  <2> QED BY <1>2, <2>2 DEF AfterUp
<1>3. CASE ~(k[1] = "plain" /\ k[2] \in ShiftKeys)
  <2>1. \A s \in ShiftKeys : k # <<"plain", s>> BY <1>3
  <2>2. ShiftsIn(D) = HeldShifts BY <2>1 DEF ShiftsIn, HeldShifts
  <2> QED BY <1>3, <2>2 DEF AfterUp
<1> QED BY <1>2, <1>3

LEMMA TypistStep ==
    ASSUME \A a, b \in ShiftKeys : a = b, TInv, [TypistNext]_tvars
    PROVE  TInv'
<1>1. down \subseteq Keys /\ locked \in BOOLEAN /\ meant \in Seq(KeyCode) BY DEF TInv
<1>2. ASSUME NEW k \in Keys, Press(k) PROVE TInv'
  <2>1. /\ Stroke(Make(k)) /\ down' = down \cup {k} /\ latest' = <<k>>
        /\ locked' = (locked # (k = CapsKey)) /\ meant' = meant \o Types(k)
    BY <1>2 DEF Press
  <2>2. (HeldShifts # {})' = (IF k[1] = "plain" /\ k[2] \in ShiftKeys THEN TRUE ELSE HeldShifts # {})
    BY <2>1, ShiftDown DEF HeldShifts
  <2>3. Then' = Down(k) BY <2>1, <2>2 DEF Then, Down
  <2>4. Make(k) \in Seq(KeyCode) BY MakeBytes
  <2>5. lost = 0 => Path(wire \o Make(k), Now, Then') BY <2>3, MakeHolds
  <2>6. meant' \in Seq(KeyCode)
    <3>1. Types(k) \in Seq(KeyCode) BY DownTypes
    <3> QED BY <1>1, <2>1, <3>1
  <2>7. down' \subseteq Keys /\ k \in down' /\ locked' \in BOOLEAN BY <1>1, <2>1
  <2> QED BY <2>1, <2>4, <2>5, <2>6, <2>7, StrokeHolds
<1>3. CASE Repeat
  <2>1. PICK k \in down : latest = <<k>> BY <1>3 DEF TInv, Repeat
  <2>2. k \in Keys /\ latest[1] = k /\ k # CapsKey BY <1>1, <1>3, <2>1 DEF Repeat
  <2>3. /\ Stroke(Make(k)) /\ meant' = meant \o Types(k) /\ UNCHANGED <<down, latest, locked>>
    BY <1>3, <2>2 DEF Repeat
  <2>4. (HeldShifts # {})' = (IF k[1] = "plain" /\ k[2] \in ShiftKeys THEN TRUE ELSE HeldShifts # {})
    <3>1. down' = down \cup {k} BY <2>1, <2>3
    <3>2. k \in Keys BY <2>2
    <3> DEFINE D == down'
    <3>3. D = down \cup {k} BY <3>1
    <3> HIDE DEF D
    <3>4. ({s \in ShiftKeys : <<"plain", s>> \in D} # {})
              = (IF k[1] = "plain" /\ k[2] \in ShiftKeys THEN TRUE ELSE HeldShifts # {})
      BY <3>2, <3>3, ShiftDown, Zenon
    <3> QED BY <3>4, Zenon DEF HeldShifts, D
  <2>5. locked' = (locked # (k = CapsKey)) BY <1>1, <2>2, <2>3
  <2>6. Then' = Down(k) BY <2>3, <2>4, <2>5 DEF Then, Down
  <2>7. Make(k) \in Seq(KeyCode) BY <2>2, MakeBytes
  <2>8. lost = 0 => Path(wire \o Make(k), Now, Then') BY <2>2, <2>6, MakeHolds
  <2>9. meant' \in Seq(KeyCode)
    <3>1. Types(k) \in Seq(KeyCode) BY <2>2, DownTypes
    <3> QED BY <1>1, <2>3, <3>1
  <2>10. down' \subseteq Keys /\ k \in down' /\ locked' \in BOOLEAN /\ latest' = <<k>> BY <1>1, <2>1, <2>3
  <2> QED BY <2>3, <2>7, <2>8, <2>9, <2>10, StrokeHolds
<1>4. ASSUME NEW k \in Keys, Release(k) PROVE TInv'
  <2>1. /\ Stroke(Break(k)) /\ down' = down \ {k} /\ UNCHANGED <<locked, meant>>
        /\ latest' = IF latest = <<k>> THEN <<>> ELSE latest
    BY <1>4 DEF Release
  <2>2. (HeldShifts # {})' = (IF k[1] = "plain" /\ k[2] \in ShiftKeys THEN FALSE ELSE HeldShifts # {})
    <3> DEFINE D == down'
    <3>1. D = down \ {k} BY <2>1
    <3> HIDE DEF D
    <3>2. OneShift BY DEF OneShift
    <3>3. AfterUp(D, k) BY <3>1, <3>2, ShiftUp, Zenon
    <3> QED BY <3>3, Zenon DEF AfterUp, ShiftsIn, HeldShifts, D
  <2>3. Then' = Up(k) BY <2>1, <2>2 DEF Then, Up
  <2>4. Break(k) \in Seq(KeyCode) BY MakeBytes
  <2>5. lost = 0 => Path(wire \o Break(k), Now, Then') BY <2>3, BreakHolds
  <2>6. latest' = <<>> \/ \E j \in down' : latest' = <<j>>
    <3>1. CASE latest = <<k>> BY <2>1, <3>1
    <3>2. CASE latest = <<>> BY <2>1, <3>2
    <3>3. ASSUME NEW j \in down, latest = <<j>>, latest # <<k>> PROVE latest' = <<j>> /\ j \in down'
      BY <2>1, <3>3
    <3> QED BY <3>1, <3>2, <3>3 DEF TInv
  <2>7. down' \subseteq Keys /\ locked' \in BOOLEAN /\ meant' \in Seq(KeyCode) BY <1>1, <2>1
  <2> QED BY <2>1, <2>4, <2>5, <2>6, <2>7, StrokeHolds
<1>5. CASE Send BY <1>5, SendHolds
<1>6. CASE UNCHANGED tvars
  <2>1. Now' = Now /\ Then' = Then BY <1>6 DEF Now, Then, HeldShifts, tvars, kvars
  <2> QED BY <1>6, <2>1 DEF TInv, tvars, kvars
<1> QED BY <1>2, <1>3, <1>4, <1>5, <1>6 DEF TypistNext, Rest

\* What reaches the ring is what was typed, for every layout that has its
\* letters in both maps, every set of keys and any number of strokes, if the
\* keyboard's Shift keys are used one at a time: keyboard_irq() keeps one
\* flag for the two of them.
THEOREM TypingIsMeant ==
    ASSUME \A a, b \in ShiftKeys : a = b
    PROVE  TypistSpec => []TypedAsMeant
<1>1. TypistInit => TInv BY TypistInitHolds
<1>2. TInv /\ [TypistNext]_tvars => TInv' BY TypistStep
<1>3. TInv => TypedAsMeant
  <2> SUFFICES ASSUME TInv, wire = <<>>, lost = 0 PROVE accepted = meant BY DEF TypedAsMeant
  <2>1. Now = Then BY PathEnds DEF TInv
  <2> QED BY <2>1 DEF Now, Then
<1> QED BY <1>1, <1>2, <1>3, PTL DEF TypistSpec
=============================================================================
