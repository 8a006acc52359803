------------------------------- MODULE Typist -------------------------------
(***************************************************************************)
(* A PS/2 keyboard and somebody typing on it, in front of keyboard_irq().    *)
(*                                                                         *)
(* The device (not part of the kernel) sends a make code when a key goes     *)
(* down, the same code again while it is held, and the break code (make +    *)
(* 128) when it comes up.  The arrow block's codes come behind an E0 prefix, *)
(* and while a Shift key is held the device brackets them with a fake        *)
(* release and a fake press of that Shift (E0 AA ... E0 2A).                 *)
(***************************************************************************)
EXTENDS Keyboard, FiniteSets

CONSTANTS Plain,        \* scancodes of keys with a character
          Extended,     \* codes sent behind E0
          ShiftKeys,    \* the Shift keys in use, a subset of Shifts
          MaxStrokes,   \* bound: presses, repeats and releases per behaviour
          WIRE_MAX      \* bound: bytes the device holds back

\* No break code is 224, and a key has a character with and without Shift,
\* the capital and the small letter if it is a letter.
ASSUME TypistAssumption ==
    /\ Plain \subseteq DOMAIN map_lower /\ DOMAIN map_upper = DOMAIN map_lower
    /\ Plain \cup Extended \subseteq 0 .. 127 \ {96} /\ ShiftKeys \subseteq Shifts
    /\ Plain \cap (Shifts \cup {58}) = {}
    /\ \A k \in Plain :
         /\ map_lower[k] # 0 /\ map_upper[k] # 0
         /\ map_lower[k] \in 97 .. 122 \/ map_upper[k] \in 65 .. 90
              => map_lower[k] \in 97 .. 122 /\ map_upper[k] = map_lower[k] - 32

VARIABLES down,      \* keys held, as <<"plain" or "extended", code>>
          latest,    \* the key that repeats: a sequence of at most one key
          locked,    \* Caps Lock, as the typist counts it
          wire,      \* bytes the device has yet to send
          meant,     \* what the typist typed
          strokes

tvars == <<kvars, down, latest, locked, wire, meant, strokes>>

CapsKey == <<"plain", 58>>
Keys == ({"plain"} \X (Plain \cup ShiftKeys \cup {58})) \cup ({"extended"} \X Extended)
HeldShifts == {s \in ShiftKeys : <<"plain", s>> \in down}

TypistInit ==
    /\ KbdInit
    /\ down = {} /\ latest = <<>> /\ locked = FALSE
    /\ wire = <<>> /\ meant = <<>> /\ strokes = 0

-----------------------------------------------------------------------------

\* The device's bytes for a key going down or up.
FakeShift(sign) ==
    IF HeldShifts = {} THEN <<>>
    ELSE LET s == CHOOSE s \in HeldShifts : TRUE IN <<224, s + sign>>
Make(k) == IF k[1] = "plain" THEN <<k[2]>> ELSE FakeShift(128) \o <<224, k[2]>>
Break(k) == IF k[1] = "plain" THEN <<k[2] + 128>>
                              ELSE <<224, k[2] + 128>> \o FakeShift(0)

\* The character on the key cap: Shift picks the upper legend, and on a
\* letter Caps Lock swaps the two.
Legend(k) ==
    LET letter == map_lower[k[2]] \in 97 .. 122
        upper  == (HeldShifts # {}) # (letter /\ locked)
    IN  IF upper THEN map_upper[k[2]] ELSE map_lower[k[2]]

Types(k) ==
    CASE k \in {"plain"} \X Plain      -> <<Legend(k)>>
      [] k = <<"extended", 72>>        -> <<KEY_UP>>
      [] k = <<"extended", 80>>        -> <<KEY_DOWN>>
      [] OTHER                         -> <<>>

Stroke(bytes) ==
    /\ strokes < MaxStrokes /\ strokes' = strokes + 1
    /\ Len(wire) + Len(bytes) <= WIRE_MAX
    /\ wire' = wire \o bytes
    /\ UNCHANGED kvars

Press(k) ==
    /\ k \notin down
    /\ Stroke(Make(k))
    /\ down' = down \cup {k} /\ latest' = <<k>>
    /\ locked' = (locked # (k = CapsKey))
    /\ meant' = meant \o Types(k)

\* Typematic repeat of the key pressed last.  Caps Lock is left out: the
\* driver takes each repeat for another press.
Repeat ==
    /\ latest # <<>> /\ latest # <<CapsKey>>
    /\ Stroke(Make(latest[1]))
    /\ meant' = meant \o Types(latest[1])
    /\ UNCHANGED <<down, latest, locked>>

Release(k) ==
    /\ k \in down
    /\ Stroke(Break(k))
    /\ down' = down \ {k}
    /\ latest' = IF latest = <<k>> THEN <<>> ELSE latest
    /\ UNCHANGED <<locked, meant>>

\* The device raises IRQ1 for the next byte.
Send ==
    /\ wire # <<>>
    /\ keyboard_irq(Head(wire))
    /\ wire' = Tail(wire)
    /\ UNCHANGED <<tail, rd, kgot, down, latest, locked, meant, strokes>>

\* The typist may stop at any time.
Rest == wire = <<>> /\ UNCHANGED tvars

TypistNext ==
    \/ \E k \in Keys : Press(k) \/ Release(k)
    \/ Repeat \/ Send \/ Rest

TypistSpec == TypistInit /\ [][TypistNext]_tvars

-----------------------------------------------------------------------------

\* What reaches the ring is what the typist meant, however presses, repeats,
\* releases and E0 sequences overlap: "Shift and Caps Lock are tracked;
\* everything more exotic ... is deliberately ignored" (keyboard.c:8).
TypedAsMeant == wire = <<>> /\ lost = 0 => accepted = meant

=============================================================================
