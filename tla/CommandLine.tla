---------------------------- MODULE CommandLine ----------------------------
(***************************************************************************)
(* What the shell does with a line (shell/shell.c): tokenize() cuts it into *)
(* words in place, execute() looks for a redirection, finds the command and *)
(* runs it, with its output captured (lib/console.c) if it is redirected.   *)
(* A CPU exception (kernel/idt.c) or a panic() (kernel/panic.c) can end the *)
(* command at any point of its output.                                      *)
(*                                                                         *)
(* The tree of files is the subject of Ramfs; here there is one file that   *)
(* commands read, and the target's contents.                                *)
(***************************************************************************)
EXTENDS TextTools

CONSTANTS Typed,            \* lines made of words: sequences of [word, quoted]
          RawLines,         \* any other lines
          Files,            \* contents of the file
          Calls,            \* what the kernel prints by itself: pieces of formats
          SHELL_ARGV_MAX,
          CAPTURE_MAX

SP == " "
QT == "\""
GT == ">"

ASSUME LineAssumption ==
    /\ SHELL_ARGV_MAX \in Nat \ {0} /\ CAPTURE_MAX \in Nat
    /\ Typed \subseteq Seq([word : Seq(STRING \ {NUL}), quoted : BOOLEAN])
    /\ RawLines \subseteq Seq(STRING \ {NUL})

\* A file is made of bytes.
ASSUME FileAssumption ==
    Files \subseteq Seq(STRING) /\ \A f \in Files : \A i \in DOMAIN f : Code[f[i]] \in 0 .. 255

\* Characters have their ASCII codes, and a file's size is 32 bits wide.
ASSUME SizeAssumption == Code[NL] = 10 /\ \A f \in Files : Len(f) \div 65536 < 65536

\* What can be typed as a word: quoted, anything without a quote; else
\* something without a space that does not begin with a quote.
ASSUME WordAssumption ==
    \A list \in Typed : \A i \in DOMAIN list :
        LET w == list[i].word IN
        IF list[i].quoted THEN \A j \in DOMAIN w : w[j] # QT
        ELSE w # <<>> /\ w[1] # QT /\ \A j \in DOMAIN w : w[j] # SP

\* A call has a format, and the arguments for its conversions.
ASSUME CallAssumption ==
    \A list \in Calls :
        list # <<>> /\ list \in Seq(ToSet(list)) /\ \A i \in DOMAIN list : IsPiece(list[i])

VARIABLES pc,
          text, p,       \* tokenize(): the line and its NUL, the position in it
          argv,          \* where the words begin
          target,        \* where the word behind the operator begins, 0: none
          append,
          con,           \* the console: capturing or not, the buffer, the screen
          stored,        \* what redirect_to_file() wrote: [data, append, done]
          typed,         \* auxiliary: the words of the line, none for a raw one
          ran,           \* auxiliary: the last command, [argv, file, output, done]
          printed        \* auxiliary: the pieces kprintf() printed last

parse == <<text, p, argv, target, append>>
aux   == <<typed, ran, printed>>
cmdvars  == <<pc, parse, con, stored, aux>>

Nothing == [data |-> <<>>, append |-> FALSE, done |-> FALSE]
NotRun  == [argv |-> <<>>, file |-> <<>>, output |-> <<>>, done |-> FALSE]

CmdInit ==
    /\ pc = "prompt"
    /\ text = <<NUL>> /\ p = 1 /\ argv = <<>> /\ target = 0 /\ append = FALSE
    /\ con = [on |-> FALSE, buf |-> <<>>, screen |-> <<>>]
    /\ stored = Nothing /\ typed = <<>> /\ ran = NotRun /\ printed = <<>>

-----------------------------------------------------------------------------
(* The console: functions from its state to its next state.                 *)

\* Mutant: no return behind the captured character.
Put_on_both(c, s) ==
    IF c.on
    THEN [c EXCEPT !.buf = SubSeq(@ \o s, 1, Min({CAPTURE_MAX, Len(@ \o s)})),
                   !.screen = @ \o s]
    ELSE [c EXCEPT !.screen = @ \o s]

\* console_putc() for each character of s.
Put(c, s) ==
    IF c.on
    THEN [c EXCEPT !.buf = SubSeq(@ \o s, 1, Min({CAPTURE_MAX, Len(@ \o s)}))]
    ELSE [c EXCEPT !.screen = @ \o s]

console_capture_begin(c) == [c EXCEPT !.on = TRUE, !.buf = <<>>]

\* Nobody reads the buffer any more, and execute() frees it.
console_capture_end(c) == [c EXCEPT !.on = FALSE, !.buf = <<>>]

\* The format of the pieces, and the arguments behind it.
Format(pieces) == FlattenSeq([i \in DOMAIN pieces |-> Written(pieces[i])])

Arguments(pieces) ==
    FoldLeft(LAMBDA args, q : IF q.conv \in TakesArgument THEN Append(args, q.arg) ELSE args,
             <<>>, pieces)

\* Another part of the kernel prints, before the first line is read.
kprintf(pieces) ==
    /\ pc = "prompt" /\ typed = <<>> /\ con.screen = <<>>
    /\ con' = Put(con, kvprintf(Format(pieces), Arguments(pieces)))
    /\ printed' = pieces
    /\ UNCHANGED <<pc, parse, stored, typed, ran>>

-----------------------------------------------------------------------------
(* A line and its words.                                                    *)

Render(list) ==
    FlattenSeq([i \in DOMAIN list |->
        (IF i > 1 THEN <<SP>> ELSE <<>>)
        \o (IF list[i].quoted THEN <<QT>> \o list[i].word \o <<QT>> ELSE list[i].word)])

\* read_line() returned, execute() is called.
execute(line, list) ==
    /\ pc = "prompt"
    /\ text' = Append(line, NUL) /\ p' = 1 /\ argv' = <<>>
    /\ target' = 0 /\ append' = FALSE
    /\ con' = [con EXCEPT !.screen = <<>>]
    /\ stored' = Nothing /\ typed' = list /\ ran' = NotRun /\ printed' = <<>>
    /\ pc' = "tokenize"

\* The first position from i on with one of the characters.
Find(i, cs) == CHOOSE j \in i .. Len(text) :
                  text[j] \in cs /\ \A k \in i .. j - 1 : text[k] \notin cs

At(i)   == SubSeq(text, i, Find(i, {NUL}) - 1)
Word(i) == At(argv[i])
Words   == [i \in DOMAIN argv |-> Word(i)]

Parsed(next) == pc' = next /\ UNCHANGED <<con, stored, aux>>

NextChar == CHOOSE j \in p .. Len(text) : text[j] # SP /\ \A k \in p .. j - 1 : text[k] = SP

\* Mutant: the character behind a word stays.
Terminate_not(end) == text

Terminate(end) == [text EXCEPT ![end] = NUL]

\* Mutant: one word more than argv has room for.
Room_off_by_one == Len(argv) <= SHELL_ARGV_MAX

Room == Len(argv) < SHELL_ARGV_MAX

\* One round of tokenize()'s loop.
NextWord ==
    LET start  == NextChar
        quoted == text[start] = QT
        begin  == IF quoted THEN start + 1 ELSE start
        end    == Find(begin, {NUL, IF quoted THEN QT ELSE SP})
    IN  /\ pc = "tokenize"
        /\ text[start] # NUL /\ Room
        /\ argv' = Append(argv, begin)
        /\ text' = Terminate(end)
        /\ p' = IF text[end] = NUL THEN end ELSE end + 1
        /\ Parsed("tokenize") /\ UNCHANGED <<target, append>>

NoMoreWords ==
    /\ pc = "tokenize"
    /\ text[NextChar] = NUL \/ ~Room
    /\ Parsed(IF argv = <<>> THEN "prompt" ELSE "operator")
    /\ UNCHANGED parse

IsOperator(w) == w \in {<<GT>>, <<GT, GT>>}

Say(message) ==
    /\ con' = Put(con, message)
    /\ pc' = "prompt"
    /\ UNCHANGED <<parse, stored, aux>>

\* The first word that is an operator, the words in front of it, and the one
\* behind.
Operator ==
    /\ pc = "operator"
    /\ \/ /\ \A i \in DOMAIN argv : ~IsOperator(Word(i))
          /\ Parsed("command") /\ UNCHANGED parse
       \/ \E i \in DOMAIN argv :
            /\ IsOperator(Word(i)) /\ \A k \in 1 .. i - 1 : ~IsOperator(Word(k))
            /\ \/ i >= Len(argv) /\ Say(Complaint)
               \/ /\ i < Len(argv)
                  /\ append' = (Len(Word(i)) = 2)
                  /\ target' = argv[i + 1]
                  /\ argv' = SubSeq(argv, 1, i - 1)
                  /\ Parsed(IF i = 1 THEN "prompt" ELSE "command")
                  /\ UNCHANGED <<text, p>>

-----------------------------------------------------------------------------
(* Running the command.                                                     *)

Builtins == {<<"w", "c">>, <<"g", "r", "e", "p">>, <<"h", "e", "a", "d">>,
             <<"h", "e", "x", "d", "u", "m", "p">>, <<"e", "c", "h", "o">>}

\* What the command prints, given the contents of the file.
Output(f) ==
    CASE Word(1) = <<"w", "c">> -> cmd_wc(Words, f)
      [] Word(1) = <<"g", "r", "e", "p">> -> cmd_grep(Words, f)
      [] Word(1) = <<"h", "e", "a", "d">> -> cmd_head(Words, f)
      [] Word(1) = <<"h", "e", "x", "d", "u", "m", "p">> -> cmd_hexdump(Words, f)
      [] OTHER -> cmd_echo(Words)

NotFound ==
    /\ pc = "command" /\ Word(1) \notin Builtins
    /\ Say(Word(1) \o Complaint)

NoMemory ==
    /\ pc = "command" /\ Word(1) \in Builtins /\ target # 0
    /\ Say(Complaint)

\* With a target, kmalloc() and console_capture_begin().
Begin ==
    /\ pc = "command" /\ Word(1) \in Builtins
    /\ con' = IF target = 0 THEN con ELSE console_capture_begin(con)
    /\ pc' = "run"
    /\ UNCHANGED <<parse, stored, aux>>

Run ==
    /\ pc = "run"
    /\ \E f \in Files :
         /\ con' = Put(con, Output(f))
         /\ ran' = [argv |-> Words, file |-> f, output |-> Output(f), done |-> TRUE]
    /\ pc' = IF target = 0 THEN "prompt" ELSE "captured"
    /\ UNCHANGED <<parse, stored, typed, printed>>

\* The capture ends; then the file is written, or a message says it was not.
redirect_to_file ==
    /\ pc = "captured"
    /\ \/ /\ con' = console_capture_end(con)
          /\ stored' = [data |-> con.buf, append |-> append, done |-> TRUE]
       \/ /\ con' = Put(console_capture_end(con), Complaint)
          /\ UNCHANGED stored
    /\ pc' = "prompt"
    /\ UNCHANGED <<parse, aux>>

-----------------------------------------------------------------------------
(* Dying.  FaultLine and Banner stand for what isr_handler() and the panic   *)
(* functions print.                                                         *)

FaultLine == "page fault"
Banner    == "KERNEL PANIC"

\* Mutant: the capture is not ended.
panic_captured(c) == Put(c, <<Banner>>)

panic(c) == Put(console_capture_end(c), <<Banner>>)

\* Only a page fault is described, before panic_with_regs() is called.
isr_handler(c, fault) == panic(IF fault THEN Put(c, <<FaultLine>>) ELSE c)

\* The command dies, before, between or behind the characters it prints.
Die ==
    /\ pc = "run"
    /\ \E before \in UNION {Prefixes(Output(f)) : f \in Files}, fault \in BOOLEAN :
         /\ con' = isr_handler(Put(con, before), fault)
         /\ pc' = IF fault THEN "faulted" ELSE "halted"
    /\ UNCHANGED <<parse, stored, aux>>

halt_forever == pc \in {"halted", "faulted"} /\ UNCHANGED cmdvars

CmdNext ==
    \/ \E list \in Typed : execute(Render(list), list)
    \/ \E line \in RawLines : execute(line, <<>>)
    \/ \E pieces \in Calls : kprintf(pieces)
    \/ NextWord \/ NoMoreWords \/ Operator
    \/ NotFound \/ NoMemory \/ Begin \/ Run \/ redirect_to_file
    \/ Die \/ halt_forever

CmdSpec == CmdInit /\ [][CmdNext]_cmdvars

-----------------------------------------------------------------------------
(* Properties.                                                              *)

\* tokenize() keeps its pointers inside the line, whatever the line is, and
\* execute()'s argv holds what it finds.
PointersOK ==
    /\ p \in 1 .. Len(text) /\ text[Len(text)] = NUL
    /\ argv \in Seq(1 .. Len(text)) /\ Len(argv) <= SHELL_ARGV_MAX
    /\ target \in 0 .. Len(text) /\ Len(con.buf) <= CAPTURE_MAX

\* The typed words that tokenize() has room for.
Kept == [i \in 1 .. Min({Len(typed), SHELL_ARGV_MAX}) |-> typed[i].word]

\* The words a command gets are the ones that were typed, quotes taken off
\* and spaces inside them kept, and the target is the word behind the first
\* operator, though all of them share one buffer that tokenize() writes to.
WordsAsTyped ==
    typed # <<>> /\ pc \in {"operator", "command", "run", "captured"} =>
        /\ IsPrefix(Words, Kept)
        /\ pc = "operator" => Words = Kept
        /\ target # 0 => /\ IsOperator(Kept[Len(argv) + 1])
                         /\ At(target) = Kept[Len(argv) + 2]
                         /\ append = (Len(Kept[Len(argv) + 1]) = 2)

\* Where the line as it was typed has an operator.
Operators == {i \in DOMAIN typed : IsOperator(typed[i].word)}

\* A command's output, its error messages included, is in the file and not on
\* the screen if one of the first SHELL_ARGV_MAX words of its line is an
\* operator, as far as the buffer goes, and else on the screen; nothing of one
\* command's output shows up with the next.  (COMMANDS.md has it otherwise in
\* two points: a redirection applies to every command, lines 5-8, but here one
\* further back is dropped with the other words and nobody says so; and errors
\* go to the console, line 88.)
OutputPlaced ==
    typed # <<>> /\ pc = "prompt" /\ ran.done =>
        IF \A i \in Operators : i > SHELL_ARGV_MAX
        THEN con.screen = ran.output /\ ~stored.done
        ELSE IF stored.done
             THEN /\ con.screen = <<>>
                  /\ IsPrefix(stored.data, ran.output)
                  /\ Len(stored.data) = Min({CAPTURE_MAX, Len(ran.output)})
             ELSE con.screen = Complaint

\* "never die into a capture buffer" (panic.c): the panic is on the screen
\* wherever the command was; so is the line about a page fault, unless the
\* output is redirected.
PanicSeen ==
    pc \in {"halted", "faulted"} =>
        /\ con.screen # <<>> /\ Last(con.screen) = Banner
        /\ pc = "faulted" /\ target = 0 => Contains(con.screen, FaultLine)

\* The positions of head's option, and of the words that are no part of it.
OptionAt(w) == {i \in 2 .. Len(w) : w[i] = <<"-", "n">>}
PathAt(w)   == {i \in 2 .. Len(w) : w[i] # <<"-", "n">> /\ w[i - 1] # <<"-", "n">>}

\* Digits, few enough for an int.
IsNumber(w) == Len(w) \in 1 .. 9 /\ \A i \in DOMAIN w : w[i] \in Decimal

\* head was called as COMMANDS.md says.
IsHead(w) ==
    /\ w[1] = <<"h", "e", "a", "d">>
    /\ \E i \in PathAt(w) : PathAt(w) = {i} /\ w[i] \in FileNames
    /\ OptionAt(w) = {} \/ \E i \in OptionAt(w) :
            OptionAt(w) = {i} /\ i < Len(w) /\ IsNumber(w[i + 1])

Asked(w) == IF OptionAt(w) = {} THEN 10
            ELSE NumberOf(w[1 + CHOOSE i \in OptionAt(w) : TRUE], 10)

Column(s, v) == IsField(s, [conv |-> "u", flags |-> <<>>, width |-> <<"6">>, arg |-> v])

\* The tools print what COMMANDS.md says they do: o is the output for the words
\* w and the file f.  Three counts and the name:
WcExact(w, f, o) ==
    w[1] = <<"w", "c">> /\ Len(w) = 2 /\ w[2] \in FileNames =>
        \E a \in 1 .. Len(o) :
          /\ Column(SubSeq(o, 1, a), Cardinality(Newlines(f)))
          /\ \E b \in 1 .. Len(o) :
               /\ Column(SubSeq(o, a + 2, b), WordCount(f))
               /\ \E c \in 1 .. Len(o) :
                    /\ Column(SubSeq(o, b + 2, c), Len(f))
                    /\ o = SubSeq(o, 1, a) \o <<" ">> \o SubSeq(o, a + 2, b) \o <<" ">>
                           \o SubSeq(o, b + 2, c) \o <<" ">> \o w[2] \o <<NL>>

\* The lines that match, each as far as grep's buffer goes:
GrepExact(w, f, o) ==
    w[1] = <<"g", "r", "e", "p">> /\ Len(w) = 3 /\ w[3] \in FileNames =>
        o = Matching(w[2], f)

\* The first lines:
HeadExact(w, f, o) == IsHead(w) => o = UpToLine(Asked(w), f)

\* Bytes that can be read back, in aligned rows:
HexdumpExact(w, f, o) ==
    w[1] = <<"h", "e", "x", "d", "u", "m", "p">> /\ Len(w) > 1 /\ w[2] \in FileNames =>
        /\ ReadBack(o) = [i \in DOMAIN f |-> Code[f[i]]]
        /\ \A e \in Newlines(o) : LineTo(o, e)[13 + 3 * DUMP_ROW] = "|"

\* Every tool's output is what its documentation says, for the words it got and
\* the file it read, with one reservation: grep looks no further into a line
\* than its buffer goes, prints no more of it, and misses a match behind that.
ToolsExact ==
    ran.done => /\ WcExact(ran.argv, ran.file, ran.output)
                /\ GrepExact(ran.argv, ran.file, ran.output)
                /\ HeadExact(ran.argv, ran.file, ran.output)
                /\ HexdumpExact(ran.argv, ran.file, ran.output)

\* A call prints its pieces one behind the other, and nothing else: every
\* character as it is, every conversion with its own argument in a column at
\* least as wide as asked for.
FieldsExact ==
    printed # <<>> =>
        LET s == con.screen
            n == Len(printed)
        IN  \E ends \in [1 .. n - 1 -> 0 .. Len(s)] :
              \A k \in 1 .. n :
                LET from == IF k = 1 THEN 0 ELSE ends[k - 1]
                    to   == IF k = n THEN Len(s) ELSE ends[k]
                IN  from <= to /\ IsPrinted(SubSeq(s, from + 1, to), printed[k])
=============================================================================
