----------------------------- MODULE TextTools -----------------------------
(***************************************************************************)
(* The commands that read a file and print (shell/commands.c): each is a    *)
(* function from its words and the file's contents to what it prints.       *)
(* Where the wording of a message does not matter it is Complaint.          *)
(***************************************************************************)
EXTENDS Kprintf, Shell

CONSTANTS DUMP_ROW,         \* bytes in a row of hexdump, 16 in the code
          Code,             \* the code of a character
          FileNames         \* the words that name the file

ASSUME ToolAssumption ==
    /\ SHELL_LINE_MAX \in Nat \ {0}
    /\ DUMP_ROW \in Nat \ {0} /\ DUMP_ROW % 2 = 0

NL == "\n"
Spaces == {" ", "\t", NL}

Complaint == <<"?", NL>>

\* What the command prints about the file the word names, or a message.
want_file(w, output) == IF w \in FileNames THEN output ELSE w \o Complaint

atoi_simple(w) ==
    LET digits == CHOOSE n \in 0 .. Len(w) :
                     /\ \A i \in 1 .. n : w[i] \in Decimal
                     /\ n < Len(w) => w[n + 1] \notin Decimal
    IN  NumberOf(SubSeq(w, 1, digits), 10)

-----------------------------------------------------------------------------
cmd_echo(argv) ==
    FlattenSeq([i \in 1 .. Len(argv) - 1 |-> (IF i > 1 THEN <<" ">> ELSE <<>>) \o argv[i + 1]])
    \o <<NL>>

\* The loop of cmd_wc(), one character.
CountStep(s, c) ==
    [lines   |-> s.lines + (IF c = NL THEN 1 ELSE 0),
     words   |-> s.words + (IF c \notin Spaces /\ ~s.in_word THEN 1 ELSE 0),
     in_word |-> c \notin Spaces]

Counted(f) == FoldLeft(CountStep, [lines |-> 0, words |-> 0, in_word |-> FALSE], f)

\* "%6u %6u %6u %s\n".
CountsOf(w, g) ==
    LET u(v) == Converted("u", v, 6, FALSE, " ")
    IN  u(Counted(g).lines) \o <<" ">> \o u(Counted(g).words) \o <<" ">> \o u(Len(g))
        \o <<" ">> \o w \o <<NL>>

\* One file after the other, up to the first that is not there.
cmd_wc(argv, f) ==
    LET missing == {i \in 2 .. Len(argv) : argv[i] \notin FileNames}
        upto    == IF missing = {} THEN Len(argv) ELSE Min(missing)
    IN  IF Len(argv) < 2 THEN Complaint
        ELSE FlattenSeq([i \in 1 .. upto - 1 |->
                 want_file(argv[i + 1], CountsOf(argv[i + 1], f))])

strstr(haystack, needle) == needle \in SubSeqs(haystack)

\* One round of cmd_grep()'s loop: the line so far, cut at the buffer's
\* size, and what was printed.
SearchStep(pattern, s, c) ==
    IF c # NL
    THEN [s EXCEPT !.line = IF Len(@) + 1 < SHELL_LINE_MAX THEN Append(@, c) ELSE @]
    ELSE [line |-> <<>>,
          out  |-> IF s.line # <<>> /\ strstr(s.line, pattern)
                   THEN s.out \o s.line \o <<NL>> ELSE s.out]

\* Mutant: the last line is looked at only if the file ends in a newline.
Searched_last_line_lost(pattern, f) ==
    FoldLeft(LAMBDA s, c : SearchStep(pattern, s, c), [line |-> <<>>, out |-> <<>>], f).out

\* The loop takes a newline behind the file's last character.
Searched(pattern, f) ==
    FoldLeft(LAMBDA s, c : SearchStep(pattern, s, c),
             [line |-> <<>>, out |-> <<>>], Append(f, NL)).out

cmd_grep(argv, f) ==
    IF Len(argv) # 3 THEN Complaint
    ELSE want_file(argv[3], Searched(argv[2], f))

\* The options of cmd_head(): the last -n with a word behind it, and the last
\* other word as the path (0: none).
HeadOptions(argv) ==
    LET o[i \in 1 .. Len(argv)] ==
            IF i = 1 THEN [limit |-> 10, path |-> 0, skip |-> FALSE]
            ELSE LET s == o[i - 1]
                 IN  IF s.skip THEN [s EXCEPT !.limit = atoi_simple(argv[i]), !.skip = FALSE]
                     ELSE IF argv[i] = <<"-", "n">> /\ i < Len(argv) THEN [s EXCEPT !.skip = TRUE]
                     ELSE [s EXCEPT !.path = i]
    IN  o[Len(argv)]

\* The loop of cmd_head(), one character.
HeadStep(limit, s, c) ==
    IF s.lines >= limit THEN s
    ELSE [out |-> Append(s.out, c), lines |-> s.lines + (IF c = NL THEN 1 ELSE 0)]

FirstLines(limit, f) ==
    FoldLeft(LAMBDA s, c : HeadStep(limit, s, c), [out |-> <<>>, lines |-> 0], f).out

cmd_head(argv, f) ==
    LET o == HeadOptions(argv)
    IN  IF o.path = 0 THEN Complaint
        ELSE want_file(argv[o.path], FirstLines(o.limit, f))

\* "%02x " and "%08x  ".
Hex(v, width) == Converted("x", v, width, FALSE, "0")

Cell(g, k) ==
    IF k <= Len(g) THEN Hex(Code[g[k]], 2) \o <<" ">> ELSE <<" ", " ", " ">>

Printable(c) == IF Code[c] >= 32 /\ Code[c] < 127 THEN c ELSE "."

\* The row of the bytes behind offset off.
Row(g, off) ==
    Hex(off, 8) \o <<" ", " ">>
    \o FlattenSeq([i \in 1 .. DUMP_ROW |->
                     Cell(g, off + i) \o (IF i = DUMP_ROW \div 2 THEN <<" ">> ELSE <<>>)])
    \o <<" ", "|">>
    \o [i \in 1 .. Min({DUMP_ROW, Len(g) - off}) |-> Printable(g[off + i])]
    \o <<"|", NL>>

Rows(g) == [r \in 1 .. (Len(g) + DUMP_ROW - 1) \div DUMP_ROW |-> Row(g, (r - 1) * DUMP_ROW)]

cmd_hexdump(argv, f) ==
    IF Len(argv) < 2 THEN Complaint
    ELSE want_file(argv[2], FlattenSeq(Rows(f)))

-----------------------------------------------------------------------------
(* What the documents say the commands print, without loops.                *)

Newlines(f) == {i \in DOMAIN f : f[i] = NL}

\* A line ends at a newline, the last one behind the last character.
LineEnds(f) == Newlines(f) \cup {Len(f) + 1}

\* The line that ends at e.
LineTo(f, e) == SubSeq(f, 1 + Max({0} \cup {i \in Newlines(f) : i < e}), e - 1)

WordCount(f) ==
    Cardinality({i \in DOMAIN f : f[i] \notin Spaces /\ (i > 1 => f[i - 1] \in Spaces)})

\* As much of the line as grep's buffer holds.
Held(f, e) == SubSeq(LineTo(f, e), 1, Min({SHELL_LINE_MAX - 1, Len(LineTo(f, e))}))

\* The lines that hold the pattern; empty ones are never printed.
Matching(pattern, f) ==
    FlattenSeq([e \in 1 .. Len(f) + 1 |->
        IF e \in LineEnds(f) /\ Held(f, e) # <<>> /\ pattern \in SubSeqs(Held(f, e))
        THEN Append(Held(f, e), NL) ELSE <<>>])

\* Everything up to and including the n-th newline.
UpToLine(n, f) ==
    SubSeq(f, 1, Max({k \in 0 .. Len(f) :
                        k = 0 \/ Cardinality({i \in Newlines(f) : i < k}) < n}))

\* What a row of a dump says in its i-th cell: a byte, or nothing.
ReadCell(row, i) ==
    LET at == 8 + 3 * i + (IF i > DUMP_ROW \div 2 THEN 1 ELSE 0)
    IN  IF row[at] = " " THEN <<>> ELSE <<16 * ValueOf(row[at]) + ValueOf(row[at + 1])>>

ReadBack(dump) ==
    FlattenSeq([e \in DOMAIN dump |->
        IF dump[e] = NL
        THEN FlattenSeq([i \in 1 .. DUMP_ROW |-> ReadCell(LineTo(dump, e), i)]) ELSE <<>>])
=============================================================================
