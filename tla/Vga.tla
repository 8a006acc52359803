-------------------------------- MODULE Vga ---------------------------------
(***************************************************************************)
(* The VGA text screen (drivers/vga.c), as a function from screen to screen: *)
(* a screen is its cells, row by row, and the cursor.  Colours are left out. *)
(***************************************************************************)
EXTENDS Integers, Sequences, SequencesExt

CONSTANTS VGA_ROWS, VGA_COLS      \* 25 and 80 in the code

ASSUME VgaAssumption == VGA_ROWS \in Nat \ {0} /\ VGA_COLS \in Nat \ {0}

Blank == " "
\* The control characters are "\n", "\r", "\t" and "BS".  Any other string is
\* a character that shows.
Cells == 0 .. VGA_ROWS * VGA_COLS - 1

vga_clear == [cells |-> [i \in Cells |-> Blank], row |-> 0, col |-> 0]

Cursor(scr) == scr.row * VGA_COLS + scr.col

\* Move every line up by one and blank the last.
scroll_if_needed(scr) ==
    IF scr.row < VGA_ROWS THEN scr
    ELSE [cells |-> [i \in Cells |-> IF i + VGA_COLS \in Cells THEN scr.cells[i + VGA_COLS]
                                                               ELSE Blank],
          row   |-> VGA_ROWS - 1,
          col   |-> scr.col]

\* The cursor moves to column c, or to the next row when that is off the screen.
Advance(scr, c) ==
    IF c >= VGA_COLS THEN [scr EXCEPT !.row = @ + 1, !.col = 0] ELSE [scr EXCEPT !.col = c]

vga_putc(scr, c) ==
    scroll_if_needed(
      CASE c = "\n" -> [scr EXCEPT !.row = @ + 1, !.col = 0]
        [] c = "\r" -> [scr EXCEPT !.col = 0]
        [] c = "BS" -> IF scr.col = 0 THEN scr
                       ELSE [scr EXCEPT !.col = @ - 1, !.cells[Cursor(scr) - 1] = Blank]
        [] c = "\t" -> Advance(scr, ((scr.col + 8) \div 8) * 8)
        [] OTHER    -> Advance([scr EXCEPT !.cells[Cursor(scr)] = c], scr.col + 1))

\* console_write() with no capture active.
console_write(scr, s) == FoldLeft(vga_putc, scr, s)

\* Where the characters s end up, and nothing behind them, if the cursor is
\* right behind s.
Shows(scr, s) ==
    LET at == Cursor(scr)
    IN  /\ at >= Len(s)
        /\ \A i \in 1 .. Len(s) : scr.cells[at - Len(s) + i - 1] = s[i]
        /\ \A i \in Cells : i >= at => scr.cells[i] = Blank
=============================================================================
