----------------------------- MODULE LineEditor -----------------------------
(***************************************************************************)
(* The shell's input line (shell/shell.c): read_line() with its history      *)
(* ring, and what it makes of the screen.  One action is one round of        *)
(* read_line()'s loop, for a character console_getchar() has returned.       *)
(***************************************************************************)
EXTENDS Vga, Shell

CONSTANTS SHELL_HISTORY_MAX,   \* 16 in the code
          Chars,       \* printable characters typed
          Prompt,      \* what print_prompt() writes
          Outputs,     \* what a command may print
          MaxLines     \* bound: non-empty lines per behaviour

ASSUME EditorAssumption ==
    /\ SHELL_LINE_MAX \in Nat /\ SHELL_LINE_MAX >= 2
    /\ SHELL_HISTORY_MAX \in Nat \ {0} /\ MaxLines \in Nat
    /\ Chars \subseteq STRING /\ Prompt \in Seq(STRING) /\ Outputs \subseteq Seq(STRING)

VARIABLES line,            \* buf[0 .. len-1]
          browse,          \* the history entry on show
          history_ring, history_total,
          scr,             \* the screen
          entered          \* auxiliary: every non-empty line entered

vars == <<line, browse, history_ring, history_total, scr, entered>>

shell_history_count ==
    IF history_total < SHELL_HISTORY_MAX THEN history_total ELSE SHELL_HISTORY_MAX

shell_history(index) ==
    history_ring[(history_total - shell_history_count + index) % SHELL_HISTORY_MAX]

Init ==
    /\ line = <<>> /\ browse = 0
    /\ history_ring = [i \in 0 .. SHELL_HISTORY_MAX - 1 |-> <<>>] /\ history_total = 0
    /\ scr = console_write(vga_clear, Prompt)
    /\ entered = <<>>

-----------------------------------------------------------------------------

\* Mutant: the newest entry replaces itself once the ring is full.
history_add_stuck(text) ==
    /\ history_ring' = [history_ring EXCEPT
                          ![IF history_total < SHELL_HISTORY_MAX THEN history_total
                            ELSE SHELL_HISTORY_MAX - 1] = text]
    /\ history_total' = history_total + 1

history_add(text) ==
    /\ history_ring' = [history_ring EXCEPT ![history_total % SHELL_HISTORY_MAX] = text]
    /\ history_total' = history_total + 1

\* Enter: the line goes to the history unless it is empty, the command runs
\* and prints, and read_line() starts again behind a new prompt.
Enter(output) ==
    /\ line # <<>> => Len(entered) < MaxLines
    /\ IF line = <<>>
       THEN UNCHANGED <<history_ring, history_total, entered>>
       ELSE history_add(line) /\ entered' = Append(entered, line)
    /\ line' = <<>>
    /\ browse' = shell_history_count'
    /\ scr' = console_write(scr, <<"\n">> \o (IF line = <<>> THEN <<>> ELSE output) \o Prompt)

Rubout == <<"BS", Blank, "BS">>

Backspace ==
    /\ IF line = <<>> THEN UNCHANGED <<line, scr>>
       ELSE /\ line' = SubSeq(line, 1, Len(line) - 1)
            /\ scr' = console_write(scr, Rubout)
    /\ UNCHANGED <<browse, history_ring, history_total, entered>>

\* One character c of the old line is taken off the screen.
Erase(s, c) == console_write(s, Rubout)

\* Mutant: one character too few is erased.
replace_line_short(text) ==
    /\ line' = text
    /\ scr' = console_write(FoldLeft(Erase, scr, SubSeq(line, 2, Len(line))), text)

\* Every stored line is shorter than SHELL_LINE_MAX, so strlcpy() cuts nothing.
replace_line(text) ==
    /\ line' = text
    /\ scr' = console_write(FoldLeft(Erase, scr, line), text)

KeyUp ==
    /\ IF browse = 0 THEN UNCHANGED <<browse, line, scr>>
       ELSE /\ browse' = browse - 1
            /\ replace_line(shell_history(browse - 1))
    /\ UNCHANGED <<history_ring, history_total, entered>>

KeyDown ==
    /\ IF browse = shell_history_count THEN UNCHANGED <<browse, line, scr>>
       ELSE /\ browse' = browse + 1
            /\ replace_line(IF browse + 1 = shell_history_count THEN <<>>
                            ELSE shell_history(browse + 1))
    /\ UNCHANGED <<history_ring, history_total, entered>>

\* Mutant: the terminating NUL is forgotten.
RoomLeft_off_by_one == Len(line) < SHELL_LINE_MAX

RoomLeft == Len(line) + 1 < SHELL_LINE_MAX

\* A printable character.  Tab counts as a space, and other control
\* characters are ignored.
TypeChar(c) ==
    /\ IF RoomLeft
       THEN line' = Append(line, c) /\ scr' = vga_putc(scr, c)
       ELSE UNCHANGED <<line, scr>>
    /\ UNCHANGED <<browse, history_ring, history_total, entered>>

Next ==
    \/ \E out \in Outputs : Enter(out)
    \/ Backspace \/ KeyUp \/ KeyDown
    \/ \E c \in Chars : TypeChar(c)

Spec == Init /\ [][Next]_vars

-----------------------------------------------------------------------------
(* Properties.                                                              *)

\* The line and its terminating NUL fit the buffer, browse stays within the
\* history, and the cursor stays on the screen.
TypeOK ==
    /\ Len(line) < SHELL_LINE_MAX
    /\ browse \in 0 .. shell_history_count
    /\ history_total = Len(entered)
    /\ scr.row \in 0 .. VGA_ROWS - 1 /\ scr.col \in 0 .. VGA_COLS - 1

\* "the last 16 non-empty lines are kept" (docs/COMMANDS.md:10): the ring
\* yields the last SHELL_HISTORY_MAX lines entered, oldest first, wherever
\* it has wrapped around.
HistoryExact ==
    \A i \in 0 .. shell_history_count - 1 :
        shell_history(i) = entered[Len(entered) - shell_history_count + i + 1]

\* As long as prompt and line fit one row, after any edit the screen ends with
\* both, nothing behind them and the cursor at their end: "\b" does not go
\* back over the end of a row (vga.c:92).
ScreenShowsLine == Shows(scr, Prompt \o line)
=============================================================================
