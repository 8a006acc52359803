------------------------------ MODULE Kprintf ------------------------------
(***************************************************************************)
(* kvprintf() (lib/kprintf.c).  A character is a string of length one, a    *)
(* text a sequence of them; the arguments are a sequence of numbers and     *)
(* texts.  The buffers hold every 32-bit number, so there is no limit.      *)
(***************************************************************************)
EXTENDS Integers, SequencesExt

NUL == "NUL"

\* The argument NULL of a %s.
NullText == <<NUL>>

lower == <<"0", "1", "2", "3", "4", "5", "6", "7", "8", "9", "a", "b", "c", "d", "e", "f">>
upper == <<"0", "1", "2", "3", "4", "5", "6", "7", "8", "9", "A", "B", "C", "D", "E", "F">>

Decimal == {lower[i] : i \in 1 .. 10}
ValueOf(c) == (CHOOSE i \in 1 .. 16 : lower[i] = c) - 1

\* The number that digits stand for.
NumberOf(s, base) == FoldLeft(LAMBDA w, c : w * base + ValueOf(c), 0, s)

pad(c, n) == [i \in 1 .. n |-> c]

\* Mutant: text that is aligned to the left is filled with zeros, too.
emit_zeros_right(s, width, left, fill) ==
    LET gap == IF width > Len(s) THEN width - Len(s) ELSE 0
    IN  IF left THEN s \o pad(fill, gap) ELSE pad(fill, gap) \o s

emit(s, width, left, fill) ==
    LET gap == IF width > Len(s) THEN width - Len(s) ELSE 0
    IN  IF left THEN s \o pad(" ", gap) ELSE pad(fill, gap) \o s

\* The lowest digit is found first and ends up last.
format_num(value, base, digits) ==
    LET f[v \in Nat] ==
            IF v < base THEN <<digits[v + 1]>>
            ELSE Append(f[v \div base], digits[(v % base) + 1])
    IN  f[value]

\* The text of one conversion.  %c and %s are never filled with zeros, %p
\* ignores flags and width, an unknown letter is printed with its '%'.
Converted(conv, arg, width, left, fill) ==
    CASE conv = "c" -> emit(<<arg>>, width, left, " ")
      [] conv = "s" -> emit(IF arg = NullText THEN <<"(", "n", "u", "l", "l", ")">> ELSE arg,
                            width, left, " ")
      [] conv \in {"d", "i"} ->
            IF arg < 0 THEN emit(<<"-">> \o format_num(-arg, 10, lower), width, left, fill)
            ELSE emit(format_num(arg, 10, lower), width, left, fill)
      [] conv = "u" -> emit(format_num(arg, 10, lower), width, left, fill)
      [] conv = "x" -> emit(format_num(arg, 16, lower), width, left, fill)
      [] conv = "X" -> emit(format_num(arg, 16, upper), width, left, fill)
      [] conv = "p" -> <<"0", "x">> \o emit(format_num(arg, 16, lower), 8, FALSE, "0")
      [] conv = "%" -> <<"%">>
      [] conv = NUL -> <<>>
      [] OTHER -> <<"%", conv>>

TakesArgument == {"c", "s", "d", "i", "u", "x", "X", "p"}

\* The first position from i on that holds none of cs.
Past(fmt, i, cs) ==
    CHOOSE j \in i .. Len(fmt) : fmt[j] \notin cs /\ \A k \in i .. j - 1 : fmt[k] \in cs

\* Where the width of the conversion at i begins, and its letter.
WidthAt(fmt, i)  == Past(fmt, i + 1, {"-", "0"})
LetterAt(fmt, i) == Past(fmt, WidthAt(fmt, i), Decimal)

TakesAt(fmt, i) == fmt[i] = "%" /\ fmt[LetterAt(fmt, i)] \in TakesArgument

\* What is printed for the character or the conversion at i, if the next
\* argument is arg.
Printed(fmt, i, arg) ==
    IF fmt[i] # "%" THEN <<fmt[i]>>
    ELSE LET flags == ToSet(SubSeq(fmt, i + 1, WidthAt(fmt, i) - 1))
         IN  Converted(fmt[LetterAt(fmt, i)], arg,
                       NumberOf(SubSeq(fmt, WidthAt(fmt, i), LetterAt(fmt, i) - 1), 10),
                       "-" \in flags, IF "0" \in flags THEN "0" ELSE " ")

\* steps[<<i, a>>] are the rounds of the loop from the i-th character of the
\* format and the a-th argument on.
kvprintf(format, args) ==
    LET fmt == Append(format, NUL)
        After(x) == <<(IF fmt[x[1]] = "%" THEN LetterAt(fmt, x[1]) ELSE x[1]) + 1,
                      x[2] + (IF TakesAt(fmt, x[1]) THEN 1 ELSE 0)>>
        steps[x \in (1 .. Len(fmt) + 1) \X Nat] ==
            IF x[1] >= Len(fmt) THEN <<>> ELSE <<x>> \o steps[After(x)]
        rounds == steps[<<1, 1>>]
    IN  FlattenSeq([n \in DOMAIN rounds |->
            Printed(fmt, rounds[n][1], IF TakesAt(fmt, rounds[n][1]) THEN args[rounds[n][2]] ELSE 0)])

-----------------------------------------------------------------------------
(* What a format means.  A piece is a character, or a conversion with its   *)
(* flags, its width (a text, maybe empty) and its argument.                 *)

\* What can be written in a format, and is read as it was meant.
IsPiece(q) ==
    IF q.conv = "" THEN q.arg \in STRING \ {"%", NUL}
    ELSE /\ q.flags \in Seq({"-", "0"})
         /\ q.width \in Seq(Decimal) /\ (q.width # <<>> => q.width[1] # "0")
         /\ \/ q.conv = "c"
            \/ q.conv = "s" /\ q.arg \in Seq(STRING \ {NUL})
            \/ q.conv = "d" /\ q.arg \in Int
            \/ q.conv \in {"u", "x"} /\ q.arg \in Nat

Written(piece) == IF piece.conv = "" THEN <<piece.arg>>
                  ELSE <<"%">> \o piece.flags \o piece.width \o <<piece.conv>>

\* What is printed for a number: its digits in the base, the first not 0,
\* behind its sign.
IsNumeral(s, v, base) ==
    LET ds == IF v < 0 THEN SubSeq(s, 2, Len(s)) ELSE s
    IN  /\ v < 0 => s # <<>> /\ Head(s) = "-"
        /\ ds # <<>> /\ ToSet(ds) \subseteq {lower[i] : i \in 1 .. base}
        /\ Len(ds) > 1 => Head(ds) # "0"
        /\ NumberOf(ds, base) = IF v < 0 THEN -v ELSE v

IsBody(s, piece) ==
    CASE piece.conv = "c" -> s = <<piece.arg>>
      [] piece.conv = "s" -> s = piece.arg
      [] piece.conv \in {"d", "u"} -> IsNumeral(s, piece.arg, 10)
      [] piece.conv = "x" -> IsNumeral(s, piece.arg, 16)

\* s is the argument, in a column at least as wide as the piece asks for,
\* filled on the proper side with the proper character; nothing is cut off.
IsField(s, piece) ==
    LET width == NumberOf(piece.width, 10)
        left  == "-" \in ToSet(piece.flags)
        fill  == IF ~left /\ "0" \in ToSet(piece.flags) /\ piece.conv \notin {"c", "s"}
                 THEN "0" ELSE " "
    IN  \E i \in 1 .. Len(s) + 1, j \in 0 .. Len(s) :
            /\ IsBody(SubSeq(s, i, j), piece)
            /\ Len(s) = Max({width, j - i + 1})
            /\ left => i = 1
            /\ ~left => j = Len(s)
            /\ \A k \in (1 .. i - 1) \cup (j + 1 .. Len(s)) : s[k] = fill

IsPrinted(s, piece) == IF piece.conv = "" THEN s = <<piece.arg>> ELSE IsField(s, piece)
=============================================================================
