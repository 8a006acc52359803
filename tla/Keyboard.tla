------------------------------ MODULE Keyboard ------------------------------
(***************************************************************************)
(* The PS/2 keyboard driver (drivers/keyboard.c): the interrupt handler     *)
(* that turns scancodes into characters, and the ring buffer between the    *)
(* handler and keyboard_read().                                             *)
(*                                                                         *)
(* The handler runs with interrupts off, so it is one action; the thread    *)
(* that calls keyboard_read() can be interrupted between any two accesses   *)
(* to the ring.  head, tail and buf are plain (not volatile) variables, so  *)
(* the compiler may store the new tail before it loads buf[tail]: the model *)
(* allows both orders.                                                      *)
(***************************************************************************)
EXTENDS Integers, Sequences

CONSTANTS BUF_SIZE,      \* slots of the ring (256 in the code)
          map_lower,     \* the US layout: scancode -> character code,
          map_upper      \* without and with Shift; 0 where there is none

ASSUME RingAssumption == BUF_SIZE \in Nat /\ BUF_SIZE >= 2

\* The maps are ASCII.
ASSUME LayoutAssumption ==
    \A m \in {map_lower, map_upper} : \A sc \in DOMAIN m : m[sc] \in 0 .. 127

KEY_UP   == 128
KEY_DOWN == 129

KeyCode == 0 .. 255                \* what fits an unsigned char

VARIABLES buf, head, tail,         \* the ring
          shift, caps, saw_e0,     \* modifier state
          rd,                      \* where keyboard_read() is, see below
          accepted,                \* auxiliary: every key pushed, oldest first
          lost,                    \* auxiliary: how many keys push() dropped
          kgot                     \* auxiliary: what keyboard_read() returned

ring == <<buf, head, tail>>
mods == <<shift, caps, saw_e0>>
kvars == <<buf, head, tail, shift, caps, saw_e0, rd, accepted, lost, kgot>>

Slots == 0 .. BUF_SIZE - 1

Succ(i) == (i + 1) % BUF_SIZE      \* the code masks: BUF_SIZE is a power of two

\* keyboard_read(): not called, past the test, buf[tail] loaded into the
\* register c, or tail advanced with the load still to come.
Reader == [at : {"out", "take", "loaded", "advanced"}, c : Int]
NotReading == [at |-> "out", c |-> 0]

KbdInit ==
    /\ buf = [i \in Slots |-> 0] /\ head = 0 /\ tail = 0
    /\ shift = FALSE /\ caps = FALSE /\ saw_e0 = FALSE
    /\ rd = NotReading
    /\ accepted = <<>> /\ lost = 0 /\ kgot = <<>>

-----------------------------------------------------------------------------

\* Mutant: a full ring is not noticed.
push_unchecked(c) ==
    /\ buf' = [buf EXCEPT ![head] = c]
    /\ head' = Succ(head)
    /\ accepted' = Append(accepted, c)
    /\ UNCHANGED lost

push(c) ==
    IF Succ(head) # tail
    THEN /\ buf' = [buf EXCEPT ![head] = c]
         /\ head' = Succ(head)
         /\ accepted' = Append(accepted, c)
         /\ UNCHANGED lost
    ELSE /\ lost' = lost + 1
         /\ UNCHANGED <<buf, head, accepted>>

NoPush == UNCHANGED <<buf, head, accepted, lost>>

Char(map, sc) == IF sc \in DOMAIN map THEN map[sc] ELSE 0

\* Caps Lock only affects letters.
Translate(sc) ==
    LET c == Char(IF shift THEN map_upper ELSE map_lower, sc)
    IN  CASE caps /\ ~shift /\ c \in 97 .. 122 -> c - 32
          [] caps /\ shift /\ c \in 65 .. 90   -> c + 32
          [] OTHER                             -> c

Shifts == {42, 54}                 \* 0x2A left, 0x36 right
Released(sc) == sc - 128           \* sc & 0x7f

\* Mutant: the code behind an E0 prefix is not swallowed.
keyboard_irq_forgets_e0(sc) ==
    /\ shift' = (sc \in Shifts \/ (shift /\ Released(sc) \notin Shifts))
    /\ caps' = (caps # (sc = 58))
    /\ IF sc >= 128 \/ sc \in Shifts \cup {58} \/ Translate(sc) = 0 THEN NoPush
       ELSE push(Translate(sc))
    /\ UNCHANGED saw_e0

\* The handler for IRQ1, for the scancode sc read from port 0x60.
keyboard_irq(sc) ==
    \/ /\ sc = 224                             \* 0xE0: extended scancode follows
       /\ saw_e0' = TRUE
       /\ NoPush /\ UNCHANGED <<shift, caps>>
    \/ /\ sc # 224 /\ saw_e0
       /\ saw_e0' = FALSE
       /\ CASE sc = 72 -> push(KEY_UP)
            [] sc = 80 -> push(KEY_DOWN)
            [] OTHER   -> NoPush
       /\ UNCHANGED <<shift, caps>>
    \/ /\ sc # 224 /\ ~saw_e0 /\ sc >= 128     \* key release
       /\ shift' = (shift /\ Released(sc) \notin Shifts)
       /\ NoPush /\ UNCHANGED <<caps, saw_e0>>
    \/ /\ ~saw_e0 /\ sc \in Shifts
       /\ shift' = TRUE
       /\ NoPush /\ UNCHANGED <<caps, saw_e0>>
    \/ /\ ~saw_e0 /\ sc = 58                   \* 0x3A: Caps Lock
       /\ caps' = ~caps
       /\ NoPush /\ UNCHANGED <<shift, saw_e0>>
    \/ /\ ~saw_e0 /\ sc < 128 /\ sc \notin Shifts \cup {58}
       /\ IF Translate(sc) = 0 THEN NoPush ELSE push(Translate(sc))
       /\ UNCHANGED mods

-----------------------------------------------------------------------------
(* keyboard_read(), from the test for an empty ring to the return.           *)

Empty == head = tail

TestRing ==
    /\ ~Empty
    /\ rd' = [at |-> "take", c |-> 0]
    /\ UNCHANGED <<buf, head, tail, accepted, lost, kgot, shift, caps, saw_e0>>

Returned(c) ==
    /\ kgot' = Append(kgot, c)
    /\ rd' = NotReading

LoadChar ==
    /\ rd.at = "take"
    /\ rd' = [at |-> "loaded", c |-> buf[tail]]
    /\ UNCHANGED <<buf, head, tail, accepted, lost, kgot, shift, caps, saw_e0>>

AdvanceTail ==
    /\ rd.at = "loaded"
    /\ tail' = Succ(tail)
    /\ Returned(rd.c)
    /\ UNCHANGED <<buf, head, accepted, lost, shift, caps, saw_e0>>

\* The same two accesses as an optimising compiler may order them.
AdvanceFirst ==
    /\ rd.at = "take"
    /\ tail' = Succ(tail)
    /\ rd' = [at |-> "advanced", c |-> 0]
    /\ UNCHANGED <<buf, head, accepted, lost, kgot, shift, caps, saw_e0>>

LoadLate ==
    /\ rd.at = "advanced"
    /\ Returned(buf[(tail - 1) % BUF_SIZE])
    /\ UNCHANGED <<buf, head, tail, accepted, lost, shift, caps, saw_e0>>

-----------------------------------------------------------------------------
(* Properties.                                                              *)

KbdTypeOK ==
    /\ buf \in [Slots -> KeyCode] /\ head \in Slots /\ tail \in Slots
    /\ shift \in BOOLEAN /\ caps \in BOOLEAN /\ saw_e0 \in BOOLEAN
    /\ rd \in Reader
    /\ lost \in Nat

\* The unread keys in the ring, oldest first.
Unread == [i \in 1 .. (head - tail) % BUF_SIZE |-> buf[(tail + i - 1) % BUF_SIZE]]

\* A key whose slot is already given back but whose load is still to come
\* counts as unread.
Pending == IF rd.at = "advanced" THEN <<buf[(tail - 1) % BUF_SIZE]>> \o Unread
                                 ELSE Unread

\* Keys are delivered once, in order, whatever keys arrive while
\* keyboard_read() is between its load and its store, in either order of the
\* two, and a key is lost only when the ring is full ("drop the key if the
\* buffer is full", keyboard.c:50).
Queue == INSTANCE KeyQueue
    WITH Capacity <- BUF_SIZE - 1, Key <- KeyCode,
         queue <- Pending, out <- kgot, lost <- lost

KeysInOrder == Queue!Spec

=============================================================================
