-------------------------- MODULE ShellProofs ------------------------------
(***************************************************************************)
(* The input line: the history ring holds the last lines entered, every line *)
(* fits its buffer, the cursor stays on the screen and the screen shows the   *)
(* line, for every length of line and of history, every size of screen and    *)
(* whatever is typed and printed.  The command line: words are the words      *)
(* typed, output goes to the screen or the file as the line says, and a panic *)
(* is seen, for every line.                                                   *)
(***************************************************************************)
EXTENDS LineEditor, CommandLine, RecursionProofs, SequenceTheorems, TLAPS

\* What fits a buffer of SHELL_LINE_MAX characters with its NUL.
Text == {s \in Seq(Chars) : Len(s) < SHELL_LINE_MAX}

Ring == 0 .. SHELL_HISTORY_MAX - 1

\* Line k (the first one is line 0) is in its slot as long as fewer than
\* SHELL_HISTORY_MAX lines came after it.
SlotsKept ==
    \A k \in 0 .. history_total - 1 :
        history_total - k <= SHELL_HISTORY_MAX =>
            history_ring[k % SHELL_HISTORY_MAX] = entered[k + 1]

\* The line being typed, every stored line and browse are within bounds.
LinesFit ==
    /\ line \in Text
    /\ history_ring \in [Ring -> Text]
    /\ browse \in 0 .. shell_history_count

HInv ==
    /\ LinesFit
    /\ entered \in Seq(Text) /\ history_total = Len(entered)
    /\ SlotsKept

\* A slot of the ring.
LEMMA InRing ==
    ASSUME NEW k \in Nat
    PROVE  k % SHELL_HISTORY_MAX \in Ring
BY EditorAssumption DEF Ring

\* Two lines less than a ring apart are in different slots.
LEMMA SlotsDiffer ==
    ASSUME NEW k \in Nat, NEW m \in Nat, k < m, m - k < SHELL_HISTORY_MAX
    PROVE  k % SHELL_HISTORY_MAX # m % SHELL_HISTORY_MAX
<1> DEFINE h == SHELL_HISTORY_MAX
           q == k \div h
           r == k % h
           w == m \div h
<1>1. h \in Nat \ {0} BY EditorAssumption
<1>2. q \in Int /\ w \in Int /\ r \in Int /\ k = h * q + r BY <1>1
<1>3. m = h * w + (m % h) BY <1>1
<1>4. SUFFICES ASSUME m % h = r PROVE FALSE OBVIOUS
<1>5. m - k = h * (w - q)
  <2> HIDE DEF h, q, r, w
  <2> QED BY <1>1, <1>2, <1>3, <1>4
<1>6. w - q \in Int /\ (w - q <= 0 \/ w - q >= 1) BY <1>2
<1>7. CASE w - q <= 0
  <2> HIDE DEF h, q, r, w
  <2>1. h * (w - q) <= 0 BY <1>1, <1>6, <1>7
  <2> QED BY <1>5, <2>1
<1>8. CASE w - q >= 1
  <2>1. h * (w - q) >= h
    <3> HIDE DEF h, q, r, w
    <3> QED BY <1>1, <1>6, <1>8
  <2>2. m - k >= h BY <1>5, <2>1
  <2>3. m - k < h OBVIOUS
  <2> HIDE DEF h, q, r, w
  <2> QED BY <1>1, <2>2, <2>3
<1> QED BY <1>6, <1>7, <1>8

LEMMA CountIs ==
    ASSUME HInv
    PROVE  /\ history_total \in Nat
           /\ shell_history_count \in 0 .. history_total
           /\ shell_history_count <= SHELL_HISTORY_MAX
BY EditorAssumption, LenProperties DEF HInv, shell_history_count

\* What shell_history() returns for an index within the history.
LEMMA Recalled ==
    ASSUME HInv, NEW i \in 0 .. shell_history_count - 1
    PROVE  /\ shell_history(i) \in Text
           /\ shell_history(i) = entered[Len(entered) - shell_history_count + i + 1]
<1> DEFINE k == history_total - shell_history_count + i
<1>1. k \in 0 .. history_total - 1 /\ history_total - k <= SHELL_HISTORY_MAX
  BY CountIs, EditorAssumption
<1>2. shell_history(i) = history_ring[k % SHELL_HISTORY_MAX] BY DEF shell_history
<1> HIDE DEF k
<1>3. k % SHELL_HISTORY_MAX \in Ring BY <1>1, CountIs, InRing
<1>4. history_ring[k % SHELL_HISTORY_MAX] = entered[k + 1] BY <1>1 DEF HInv, SlotsKept
<1>5. history_ring[k % SHELL_HISTORY_MAX] \in Text BY <1>3 DEF HInv, LinesFit
<1> QED BY <1>2, <1>4, <1>5 DEF k, HInv

LEMMA EmptyText == <<>> \in Text
BY EditorAssumption DEF Text

LEMMA InitHolds == Init => HInv
<1> SUFFICES ASSUME Init PROVE HInv OBVIOUS
<1>1. history_total = 0 /\ entered = <<>> /\ line = <<>> /\ browse = 0
      /\ history_ring = [i \in Ring |-> <<>>]
  BY DEF Init, Ring
<1>2. shell_history_count = 0 BY <1>1, EditorAssumption DEF shell_history_count
<1>3. LinesFit BY <1>1, <1>2, EmptyText DEF LinesFit
<1>4. entered \in Seq(Text) /\ history_total = Len(entered) BY <1>1
<1>5. SlotsKept BY <1>1 DEF SlotsKept
<1> QED BY <1>3, <1>4, <1>5 DEF HInv

\* An edit of the line leaves the history alone.
LEMMA EditKeeps ==
    ASSUME HInv, UNCHANGED <<history_ring, history_total, entered>>,
           line' \in Text, browse' \in 0 .. shell_history_count
    PROVE  HInv'
<1>1. shell_history_count' = shell_history_count BY DEF shell_history_count
<1> QED BY <1>1 DEF HInv, LinesFit, SlotsKept

LEMMA EnterKeeps ==
    ASSUME HInv, NEW output, Enter(output)
    PROVE  HInv'
<1>1. line' = <<>> /\ browse' = shell_history_count' BY DEF Enter
<1>2. CASE line = <<>>
  <2>1. UNCHANGED <<history_ring, history_total, entered>> BY <1>2 DEF Enter
  <2>2. shell_history_count' = shell_history_count BY <2>1 DEF shell_history_count
  <2>3. browse' \in 0 .. shell_history_count BY <1>1, <2>2, CountIs
  <2> QED BY <1>1, <2>1, <2>3, EmptyText, EditKeeps
<1>3. CASE line # <<>>
  <2> DEFINE t == history_total
             h == SHELL_HISTORY_MAX
  <2>1. /\ history_ring' = [history_ring EXCEPT ![t % h] = line]
        /\ history_total' = t + 1 /\ entered' = Append(entered, line)
    BY <1>3 DEF Enter, history_add
  <2>2. /\ t \in Nat /\ t = Len(entered) /\ entered \in Seq(Text) /\ line \in Text
        /\ history_ring \in [Ring -> Text]
    BY CountIs DEF HInv, LinesFit
  <2>3. t % h \in Ring BY <2>2, InRing
  <2>4. h \in Nat \ {0} BY EditorAssumption
  <2>5. /\ entered' \in Seq(Text) /\ Len(entered') = t + 1 /\ entered'[t + 1] = line
        /\ \A k \in 1 .. t : entered'[k] = entered[k]
    BY <2>1, <2>2, AppendProperties
  <2>6. history_ring' \in [Ring -> Text] /\ history_ring'[t % h] = line
        /\ \A s \in Ring \ {t % h} : history_ring'[s] = history_ring[s]
    <3> HIDE DEF t, h
    <3> QED BY <2>1, <2>2, <2>3
  <2>7. browse' \in 0 .. shell_history_count'
    BY <1>1, <2>1, <2>2, EditorAssumption DEF shell_history_count
  <2>8. LinesFit' BY <1>1, <2>6, <2>7, EmptyText DEF LinesFit
  <2>9. ASSUME NEW k \in 0 .. t, t + 1 - k <= h
        PROVE  history_ring'[k % h] = entered'[k + 1]
    <3>1. CASE k = t BY <2>5, <2>6, <3>1
    <3>2. CASE k < t
      <4>1. k % h # t % h BY <2>2, <2>4, <2>9, <3>2, SlotsDiffer
      <4>2. k % h \in Ring BY <2>2, InRing
      <4>3. history_ring'[k % h] = history_ring[k % h] BY <2>6, <4>1, <4>2
      <4>4. history_ring[k % h] = entered[k + 1]
        <5>1. k \in 0 .. t - 1 /\ t - k <= h BY <2>2, <2>4, <2>9, <3>2
        <5> QED BY <5>1 DEF HInv, SlotsKept
      <4>5. entered'[k + 1] = entered[k + 1]
        <5>1. k + 1 \in 1 .. t BY <2>2, <3>2
        <5> QED BY <2>5, <5>1
      <4> QED BY <4>3, <4>4, <4>5
    <3> QED BY <2>2, <3>1, <3>2
  <2>10. SlotsKept'
    <3> SUFFICES ASSUME NEW k \in 0 .. history_total' - 1, history_total' - k <= h
                 PROVE  history_ring'[k % h] = entered'[k + 1]
      BY DEF SlotsKept
    <3>1. k \in 0 .. t /\ t + 1 - k <= h BY <2>1, <2>2
    <3> QED BY <2>9, <3>1
  <2> QED BY <2>1, <2>5, <2>8, <2>10 DEF HInv
<1> QED BY <1>2, <1>3

LEMMA StepHolds == HInv /\ [Next]_vars => HInv'
<1> SUFFICES ASSUME HInv, [Next]_vars PROVE HInv' OBVIOUS
<1>0. line \in Text /\ line \in Seq(Chars) /\ Len(line) \in Nat
      /\ Len(line) < SHELL_LINE_MAX /\ browse \in 0 .. shell_history_count
  BY DEF HInv, LinesFit, Text
<1>1. ASSUME NEW out \in Outputs, Enter(out) PROVE HInv' BY <1>1, EnterKeeps
<1>2. CASE Backspace
  <2>1. line' \in Text
    <3>1. CASE line = <<>> BY <1>0, <1>2, <3>1 DEF Backspace
    <3>2. CASE line # <<>>
      <4>1. line' = SubSeq(line, 1, Len(line) - 1) /\ Len(line) > 0
        BY <1>0, <1>2, <3>2, EmptySeq DEF Backspace
      <4>2. line' \in Seq(Chars) /\ Len(line') = Len(line) - 1
        <5>1. \A i \in 1 .. Len(line) - 1 : line[i] \in Chars BY <1>0, ElementOfSeq
        <5> DEFINE n == Len(line) - 1
        <5>2. n \in Int /\ n >= 0 BY <1>0, <4>1
        <5> HIDE DEF n
        <5>3. SubSeq(line, 1, n) \in Seq(Chars)
              /\ Len(SubSeq(line, 1, n)) = IF 1 <= n THEN n - 1 + 1 ELSE 0
          BY <5>1, <5>2, SubSeqProperties DEF n
        <5>4. Len(SubSeq(line, 1, n)) = n BY <5>2, <5>3
        <5> QED BY <4>1, <5>3, <5>4 DEF n
      <4> QED BY <1>0, <4>2, EditorAssumption DEF Text
    <3> QED BY <3>1, <3>2
  <2> QED BY <1>0, <1>2, <2>1, EditKeeps DEF Backspace
<1>3. CASE KeyUp
  <2>1. line' \in Text /\ browse' \in 0 .. shell_history_count
    <3>1. CASE browse = 0 BY <1>0, <1>3, <3>1 DEF KeyUp
    <3>2. CASE browse # 0
      <4>1. browse - 1 \in 0 .. shell_history_count - 1 BY <1>0, <3>2, CountIs
      <4>2. line' = shell_history(browse - 1) /\ browse' = browse - 1
        BY <1>3, <3>2 DEF KeyUp, replace_line
      <4>3. shell_history(browse - 1) \in Text BY <4>1, Recalled
      <4> QED BY <4>1, <4>2, <4>3, CountIs
    <3> QED BY <3>1, <3>2
  <2> QED BY <1>3, <2>1, EditKeeps DEF KeyUp
<1>4. CASE KeyDown
  <2>1. line' \in Text /\ browse' \in 0 .. shell_history_count
    <3>1. CASE browse = shell_history_count BY <1>0, <1>4, <3>1 DEF KeyDown
    <3>2. CASE browse # shell_history_count
      <4>1. browse + 1 \in 0 .. shell_history_count BY <1>0, <3>2, CountIs
      <4>2. line' = (IF browse + 1 = shell_history_count THEN <<>>
                     ELSE shell_history(browse + 1)) /\ browse' = browse + 1
        BY <1>4, <3>2 DEF KeyDown, replace_line
      <4>3. browse + 1 # shell_history_count => shell_history(browse + 1) \in Text
        <5>1. browse + 1 # shell_history_count => browse + 1 \in 0 .. shell_history_count - 1
          BY <4>1, CountIs
        <5> QED BY <5>1, Recalled
      <4> QED BY <4>1, <4>2, <4>3, EmptyText
    <3> QED BY <3>1, <3>2
  <2> QED BY <1>4, <2>1, EditKeeps DEF KeyDown
<1>5. ASSUME NEW c \in Chars, TypeChar(c) PROVE HInv'
  <2>1. line' \in Text
    <3>1. CASE RoomLeft
      <4>1. line' = Append(line, c) /\ Len(line) + 1 < SHELL_LINE_MAX
        BY <1>5, <3>1 DEF TypeChar, RoomLeft
      <4>2. line' \in Seq(Chars) /\ Len(line') = Len(line) + 1
        BY <1>0, <4>1, AppendProperties
      <4> QED BY <4>1, <4>2 DEF Text
    <3>2. CASE ~RoomLeft BY <1>0, <1>5, <3>2 DEF TypeChar
    <3> QED BY <3>1, <3>2
  <2> QED BY <1>0, <1>5, <2>1, EditKeeps DEF TypeChar
<1>6. CASE UNCHANGED vars BY <1>0, <1>6, EditKeeps DEF vars
<1> QED BY <1>1, <1>2, <1>3, <1>4, <1>5, <1>6 DEF Next

\* "the last 16 non-empty lines are kept", for any number in place of 16: the
\* ring yields the last lines entered, oldest first, wherever it has wrapped.
THEOREM HistoryIsExact == Spec => []HistoryExact
<1>1. HInv => HistoryExact BY Recalled DEF HistoryExact
<1> QED BY <1>1, InitHolds, StepHolds, PTL DEF Spec

\* read_line() leaves room for the NUL, typing and recalling included, and
\* browse never leaves the history.
THEOREM LinesAlwaysFit == Spec => []LinesFit
<1>1. HInv => LinesFit BY DEF HInv
<1> QED BY <1>1, InitHolds, StepHolds, PTL DEF Spec

-----------------------------------------------------------------------------
(* The screen.                                                              *)

\* What may be printed.  All of it is in STRING, which the provers do not see
\* of a literal.
Glyph == STRING \cup {Blank, "BS", "\n"}

\* A screen whose cursor is on it.
Screen == [cells : [Cells -> Glyph], row : 0 .. VGA_ROWS - 1, col : 0 .. VGA_COLS - 1]

\* A screen whose cursor may have left it through the last line.
Full == [cells : [Cells -> Glyph], row : 0 .. VGA_ROWS, col : 0 .. VGA_COLS - 1]

\* Records, field by field.
LEMMA ScreenIs ==
    ASSUME NEW cells \in [Cells -> Glyph], NEW row \in Nat, NEW col \in Nat, col < VGA_COLS
    PROVE  /\ row < VGA_ROWS => [cells |-> cells, row |-> row, col |-> col] \in Screen
           /\ row <= VGA_ROWS => [cells |-> cells, row |-> row, col |-> col] \in Full
BY VgaAssumption DEF Screen, Full

LEMMA FieldsOf ==
    ASSUME NEW s \in Full
    PROVE  /\ s.row \in Nat /\ s.col \in Nat /\ s.row <= VGA_ROWS /\ s.col < VGA_COLS
           /\ s.cells \in [Cells -> Glyph]
           /\ s = [cells |-> s.cells, row |-> s.row, col |-> s.col]
BY VgaAssumption DEF Full

LEMMA ScreenIsFull ==
    ASSUME NEW s \in Screen
    PROVE  s \in Full /\ s.row < VGA_ROWS
BY VgaAssumption DEF Screen, Full

LEMMA ScrollType ==
    ASSUME NEW s \in Full
    PROVE  scroll_if_needed(s) \in Screen
<1>1. CASE s.row < VGA_ROWS BY <1>1, ScreenIs, FieldsOf DEF scroll_if_needed
<1>2. CASE ~(s.row < VGA_ROWS)
  <2> DEFINE cells == [i \in Cells |-> IF i + VGA_COLS \in Cells THEN s.cells[i + VGA_COLS]
                                                                  ELSE Blank]
  <2>1. cells \in [Cells -> Glyph]
    <3>1. Blank \in Glyph /\ s.cells \in [Cells -> Glyph] BY FieldsOf DEF Glyph
    <3>2. ASSUME NEW i \in Cells
          PROVE (IF i + VGA_COLS \in Cells THEN s.cells[i + VGA_COLS] ELSE Blank) \in Glyph
      BY <3>1
    <3> QED BY <3>2
  <2>2. scroll_if_needed(s) = [cells |-> cells, row |-> VGA_ROWS - 1, col |-> s.col]
    BY <1>2 DEF scroll_if_needed
  <2> HIDE DEF cells
  <2>3. VGA_ROWS - 1 \in Nat /\ VGA_ROWS - 1 < VGA_ROWS BY VgaAssumption
  <2> QED BY <2>1, <2>2, <2>3, ScreenIs, FieldsOf
<1> QED BY <1>1, <1>2

\* The line feed that putting a character may end in.
LEMMA NextRow ==
    ASSUME NEW s \in Screen
    PROVE  [s EXCEPT !.row = @ + 1, !.col = 0] \in Full
<1> DEFINE e == [s EXCEPT !.row = @ + 1]
<1>1. e \in Full BY VgaAssumption DEF Screen, Full
<1>2. [s EXCEPT !.row = @ + 1, !.col = 0] = [e EXCEPT !.col = 0] OBVIOUS
<1> HIDE DEF e
<1>3. [e EXCEPT !.col = 0] \in Full BY <1>1, VgaAssumption DEF Full
<1> QED BY <1>2, <1>3

LEMMA AdvanceType ==
    ASSUME NEW s \in Screen, NEW c \in Nat
    PROVE  Advance(s, c) \in Full
<1>1. CASE c >= VGA_COLS BY <1>1, NextRow DEF Advance
<1>2. CASE ~(c >= VGA_COLS)
  <2>1. [s EXCEPT !.col = c] \in Full
    BY <1>2, VgaAssumption DEF Screen, Full
  <2> QED BY <1>2, <2>1 DEF Advance
<1> QED BY <1>1, <1>2

LEMMA PutType ==
    ASSUME NEW s \in Screen, NEW c \in Glyph
    PROVE  vga_putc(s, c) \in Screen
<1>0. VGA_ROWS \in Nat \ {0} /\ VGA_COLS \in Nat \ {0} BY VgaAssumption
<1>1. /\ s.row \in Nat /\ s.col \in Nat /\ s.row < VGA_ROWS /\ s.col < VGA_COLS
      /\ s.cells \in [Cells -> Glyph] /\ s \in Full
  BY <1>0 DEF Screen, Full
<1>2. [s EXCEPT !.row = @ + 1, !.col = 0] \in Full BY NextRow
<1>3. [s EXCEPT !.col = 0] \in Full BY <1>0, <1>1 DEF Full
<1>4. s.col # 0 => [s EXCEPT !.col = @ - 1, !.cells[Cursor(s) - 1] = Blank] \in Full
  <2> DEFINE k == Cursor(s) - 1
             cells == [s.cells EXCEPT ![k] = Blank]
  <2>1. Blank \in Glyph BY DEF Glyph
  <2>2. cells \in [Cells -> Glyph]
    <3> HIDE DEF k
    <3> QED BY <1>1, <2>1
  <2>3. SUFFICES ASSUME s.col # 0
                 PROVE  [s EXCEPT !.col = @ - 1, !.cells[k] = Blank] \in Full
    OBVIOUS
  <2>4. [s EXCEPT !.col = @ - 1] \in Full BY <1>0, <1>1, <2>3 DEF Full
  <2> DEFINE e == [s EXCEPT !.col = @ - 1]
  <2>5. [s EXCEPT !.col = @ - 1, !.cells[k] = Blank] = [e EXCEPT !.cells = cells]
    <3>1. e.cells = s.cells BY <1>1 DEF Full
    <3>2. [s EXCEPT !.col = @ - 1, !.cells[k] = Blank]
             = [e EXCEPT !.cells = [e.cells EXCEPT ![k] = Blank]]
      <4> HIDE DEF k
      <4> QED OBVIOUS
    <3> HIDE DEF e, k
    <3> QED BY <3>1, <3>2
  <2>6. e \in Full BY <2>4
  <2> HIDE DEF k, cells, e
  <2>7. [e EXCEPT !.cells = cells] \in Full BY <2>2, <2>6 DEF Full
  <2> QED BY <2>5, <2>7
<1>5. ((s.col + 8) \div 8) * 8 \in Nat BY <1>1
<1>6. Advance(s, ((s.col + 8) \div 8) * 8) \in Full BY <1>5, AdvanceType
<1>7. [s EXCEPT !.cells[Cursor(s)] = c] \in Screen
  <2> DEFINE k == Cursor(s)
  <2> HIDE DEF k
  <2>1. [s.cells EXCEPT ![k] = c] \in [Cells -> Glyph] BY <1>1
  <2>2. [s EXCEPT !.cells[k] = c] \in Screen BY <2>1 DEF Screen
  <2> QED BY <2>2 DEF k
<1>8. Advance([s EXCEPT !.cells[Cursor(s)] = c], s.col + 1) \in Full
  <2> DEFINE e == [s EXCEPT !.cells[Cursor(s)] = c]
  <2> HIDE DEF e
  <2>1. s.col + 1 \in Nat /\ e \in Screen BY <1>1, <1>7 DEF e
  <2>2. Advance(e, s.col + 1) \in Full BY <2>1, AdvanceType
  <2> QED BY <2>2 DEF e
<1> DEFINE r == CASE c = "\n" -> [s EXCEPT !.row = @ + 1, !.col = 0]
                  [] c = "\r" -> [s EXCEPT !.col = 0]
                  [] c = "BS" -> IF s.col = 0 THEN s
                                 ELSE [s EXCEPT !.col = @ - 1, !.cells[Cursor(s) - 1] = Blank]
                  [] c = "\t" -> Advance(s, ((s.col + 8) \div 8) * 8)
                  [] OTHER    -> Advance([s EXCEPT !.cells[Cursor(s)] = c], s.col + 1)
<1>9. r \in Full
  <2>1. CASE c = "\n" BY <1>2, <2>1
  <2>2. CASE c = "\r" BY <1>3, <2>2
  <2>3. CASE c = "BS" BY <1>1, <1>4, <2>3
  <2>4. CASE c = "\t" BY <1>6, <2>4
  <2>5. CASE c \notin {"\n", "\r", "BS", "\t"} BY <1>8, <2>5
  <2> QED BY <2>1, <2>2, <2>3, <2>4, <2>5
<1>10. vga_putc(s, c) = scroll_if_needed(r) BY DEF vga_putc
<1> HIDE DEF r
<1> QED BY <1>9, <1>10, ScrollType

\* The recursion of console_write().
Puts(start, s, g) ==
    g = [t \in SUBSET DOMAIN s |-> IF t = {} THEN start ELSE vga_putc(g[t \ {Max(t)}], s[Max(t)])]

LEMMA PutsExists ==
    ASSUME NEW start \in Screen, NEW s \in Seq(Glyph)
    PROVE  \E g \in [SUBSET DOMAIN s -> Screen] : Puts(start, s, g)
<1> DEFINE n == Len(s)
           F == [x \in (SUBSET (1 .. n)) \X Screen |->
                   IF x[1] = {} THEN start ELSE vga_putc(x[2], s[Max(x[1])])]
<1>1. n \in Nat /\ DOMAIN s = 1 .. n OBVIOUS
<1>2. ASSUME NEW t \in SUBSET (1 .. n), t # {} PROVE s[Max(t)] \in Glyph
  <2>1. Max(t) \in 1 .. n BY <1>1, <1>2, MaxIs
  <2> QED BY <1>1, <2>1, ElementOfSeq
<1>3. F \in [(SUBSET (1 .. n)) \X Screen -> Screen]
  <2>1. ASSUME NEW t \in SUBSET (1 .. n), NEW v \in Screen
        PROVE  (IF t = {} THEN start ELSE vga_putc(v, s[Max(t)])) \in Screen
    BY <1>2, PutType
  <2> QED BY <2>1
<1>4. PICK g \in [SUBSET (1 .. n) -> Screen] : Folds(g, n, start, F)
  <2> HIDE DEF F, n
  <2> QED BY <1>1, <1>3, FoldWithin
<1>5. ASSUME NEW t \in SUBSET (1 .. n)
      PROVE  g[t] = IF t = {} THEN start ELSE vga_putc(g[t \ {Max(t)}], s[Max(t)])
  <2>1. t \ {Max(t)} \in SUBSET (1 .. n) OBVIOUS
  <2>2. g[t \ {Max(t)}] \in Screen BY <2>1
  <2>3. g[t] = IF t = {} THEN start ELSE F[<<t, g[t \ {Max(t)}]>>]
    <3> HIDE DEF F
    <3> QED BY <1>4 DEF Folds
  <2> QED BY <2>2, <2>3
<1>6. Puts(start, s, g) BY <1>1, <1>5 DEF Puts
<1> QED BY <1>1, <1>6

LEMMA WriteIsPuts ==
    ASSUME NEW start, NEW s
    PROVE  console_write(start, s) = (CHOOSE g : Puts(start, s, g))[DOMAIN s]
BY DEF Puts, console_write, FoldLeft, MapThenFoldSet

\* console_write() keeps the cursor on the screen, whatever it prints.
LEMMA WriteType ==
    ASSUME NEW start \in Screen, NEW s \in Seq(Glyph)
    PROVE  console_write(start, s) \in Screen
<1> DEFINE n == Len(s)
           h == CHOOSE g : Puts(start, s, g)
           P == [t \in SUBSET (1 .. n) |-> Screen]
<1>1. n \in Nat /\ DOMAIN s = 1 .. n OBVIOUS
<1>2. Puts(start, s, h) BY PutsExists
<1>3. console_write(start, s) = h[1 .. n] BY <1>1, WriteIsPuts
<1> HIDE DEF h
<1>4. \A t \in SUBSET (1 .. n) :
         h[t] = IF t = {} THEN start ELSE vga_putc(h[t \ {Max(t)}], s[Max(t)])
  BY <1>1, <1>2 DEF Puts
<1>5. h[{}] \in P[{}] BY <1>4
<1>6. ASSUME NEW t \in SUBSET (1 .. n), t # {}, h[t \ {Max(t)}] \in P[t \ {Max(t)}]
      PROVE  h[t] \in P[t]
  <2>1. t \ {Max(t)} \in SUBSET (1 .. n) OBVIOUS
  <2>2. h[t \ {Max(t)}] \in Screen BY <1>6, <2>1
  <2>3. Max(t) \in 1 .. n BY <1>1, <1>6, MaxIs
  <2>4. s[Max(t)] \in Glyph BY <1>1, <2>3, ElementOfSeq
  <2>5. h[t] \in Screen BY <1>4, <1>6, <2>2, <2>4, PutType
  <2> QED BY <2>5
<1>7. \A t \in SUBSET (1 .. n) : h[t] \in P[t]
  <2> HIDE DEF P
  <2> QED BY <1>1, <1>5, <1>6, FoldStays
<1> QED BY <1>3, <1>7

LEMMA EraseType ==
    ASSUME NEW start \in Screen, NEW c
    PROVE  Erase(start, c) \in Screen
<1>1. "BS" \in Glyph /\ Blank \in Glyph BY DEF Glyph
<1>2. Rubout \in Seq(Glyph)
  <2> DEFINE b == "BS"
  <2> HIDE DEF b
  <2>1. b \in Glyph BY <1>1 DEF b
  <2>2. <<b, Blank, b>> \in Seq(Glyph) BY <1>1, <2>1
  <2> QED BY <2>2 DEF Rubout, b
<1> QED BY <1>2, WriteType DEF Erase

\* The recursion of replace_line()'s loop.
Erases(start, s, g) ==
    g = [t \in SUBSET DOMAIN s |-> IF t = {} THEN start ELSE Erase(g[t \ {Max(t)}], s[Max(t)])]

LEMMA EraseIsFold ==
    ASSUME NEW start, NEW s
    PROVE  FoldLeft(Erase, start, s) = (CHOOSE g : Erases(start, s, g))[DOMAIN s]
BY DEF Erases, FoldLeft, MapThenFoldSet

LEMMA ErasesExists ==
    ASSUME NEW start \in Screen, NEW X, NEW s \in Seq(X)
    PROVE  \E g \in [SUBSET DOMAIN s -> Screen] : Erases(start, s, g)
<1> DEFINE n == Len(s)
           F == [x \in (SUBSET (1 .. n)) \X Screen |-> Erase(x[2], s[Max(x[1])])]
<1>1. n \in Nat /\ DOMAIN s = 1 .. n OBVIOUS
<1>2. F \in [(SUBSET (1 .. n)) \X Screen -> Screen]
  <2>1. ASSUME NEW t \in SUBSET (1 .. n), NEW v \in Screen
        PROVE  Erase(v, s[Max(t)]) \in Screen
    BY EraseType
  <2> QED BY <2>1
<1>3. PICK g \in [SUBSET (1 .. n) -> Screen] : Folds(g, n, start, F)
  <2> HIDE DEF F, n
  <2> QED BY <1>1, <1>2, FoldWithin
<1>4. ASSUME NEW t \in SUBSET (1 .. n)
      PROVE  g[t] = IF t = {} THEN start ELSE Erase(g[t \ {Max(t)}], s[Max(t)])
  <2>1. t \ {Max(t)} \in SUBSET (1 .. n) OBVIOUS
  <2>2. g[t \ {Max(t)}] \in Screen BY <2>1
  <2>3. g[t] = IF t = {} THEN start ELSE F[<<t, g[t \ {Max(t)}]>>]
    <3> HIDE DEF F
    <3> QED BY <1>3 DEF Folds
  <2> QED BY <2>2, <2>3
<1>5. Erases(start, s, g) BY <1>1, <1>4 DEF Erases
<1> QED BY <1>1, <1>5

LEMMA EraseAllType ==
    ASSUME NEW start \in Screen, NEW X, NEW s \in Seq(X)
    PROVE  FoldLeft(Erase, start, s) \in Screen
<1> DEFINE n == Len(s)
           h == CHOOSE g : Erases(start, s, g)
           P == [t \in SUBSET (1 .. n) |-> Screen]
<1>1. n \in Nat /\ DOMAIN s = 1 .. n OBVIOUS
<1>2. Erases(start, s, h) BY ErasesExists
<1>3. FoldLeft(Erase, start, s) = h[1 .. n] BY <1>1, EraseIsFold
<1> HIDE DEF h
<1>4. \A t \in SUBSET (1 .. n) :
         h[t] = IF t = {} THEN start ELSE Erase(h[t \ {Max(t)}], s[Max(t)])
  BY <1>1, <1>2 DEF Erases
<1>5. h[{}] \in P[{}] BY <1>4
<1>6. ASSUME NEW t \in SUBSET (1 .. n), t # {}, h[t \ {Max(t)}] \in P[t \ {Max(t)}]
      PROVE  h[t] \in P[t]
  <2>1. t \ {Max(t)} \in SUBSET (1 .. n) OBVIOUS
  <2>2. h[t \ {Max(t)}] \in Screen BY <1>6, <2>1
  <2>3. h[t] \in Screen BY <1>4, <1>6, <2>2, EraseType
  <2> QED BY <2>3
<1>7. \A t \in SUBSET (1 .. n) : h[t] \in P[t]
  <2> HIDE DEF P
  <2> QED BY <1>1, <1>5, <1>6, FoldStays
<1> QED BY <1>3, <1>7

LEMMA TextPrints ==
    ASSUME NEW s \in Text
    PROVE  s \in Seq(Chars) /\ s \in Seq(Glyph)
<1>1. s \in Seq(Chars) BY DEF Text
<1>2. Chars \subseteq Glyph BY EditorAssumption DEF Glyph
<1> QED BY <1>1, <1>2

LEMMA SeqGrows ==
    ASSUME NEW S, NEW T, S \subseteq T, NEW s \in Seq(S)
    PROVE  s \in Seq(T)
<1>1. \A i \in 1 .. Len(s) : s[i] \in T BY ElementOfSeq
<1> QED BY <1>1

LEMMA PromptPrints == Prompt \in Seq(Glyph) /\ \A out \in Outputs : out \in Seq(Glyph)
<1>1. STRING \subseteq Glyph BY DEF Glyph
<1>2. Prompt \in Seq(STRING) /\ \A out \in Outputs : out \in Seq(STRING) BY EditorAssumption
<1> DEFINE T == STRING
<1>3. Prompt \in Seq(T) /\ \A out \in Outputs : out \in Seq(T) BY <1>2
<1>4. T \subseteq Glyph BY <1>1
<1> HIDE DEF T
<1> QED BY <1>3, <1>4, SeqGrows

LEMMA ScreenInit == Init => scr \in Screen
<1> SUFFICES ASSUME Init PROVE scr \in Screen OBVIOUS
<1>1. vga_clear \in Screen BY VgaAssumption DEF vga_clear, Screen, Glyph
<1> QED BY <1>1, PromptPrints, WriteType DEF Init

\* Recalling a line of the history.
LEMMA ReplaceType ==
    ASSUME scr \in Screen, line \in Text, NEW new \in Text, replace_line(new)
    PROVE  scr' \in Screen
<1>1. FoldLeft(Erase, scr, line) \in Screen BY TextPrints, EraseAllType
<1> DEFINE e == FoldLeft(Erase, scr, line)
<1>2. scr' = console_write(e, new) BY DEF replace_line
<1> HIDE DEF e
<1> QED BY <1>1, <1>2, TextPrints, WriteType DEF e

LEMMA ScreenStep ==
    ASSUME HInv, scr \in Screen, [Next]_vars
    PROVE  scr' \in Screen
<1>0. line \in Text /\ browse \in 0 .. shell_history_count BY DEF HInv, LinesFit
<1>1. ASSUME NEW out \in Outputs, Enter(out) PROVE scr' \in Screen
  <2> DEFINE nl == "\n"
             o == IF line = <<>> THEN <<>> ELSE out
             s == <<nl>> \o o \o Prompt
  <2>1. nl \in Glyph BY DEF Glyph
  <2>2. scr' = console_write(scr, s) BY <1>1 DEF Enter
  <2> HIDE DEF nl
  <2>3. <<nl>> \in Seq(Glyph) BY <2>1
  <2>4. o \in Seq(Glyph)
    <3>1. out \in Seq(Glyph) BY PromptPrints
    <3>2. <<>> \in Seq(Glyph) OBVIOUS
    <3> QED BY <3>1, <3>2
  <2>5. Prompt \in Seq(Glyph) BY PromptPrints
  <2> HIDE DEF o
  <2>6. s \in Seq(Glyph) BY <2>3, <2>4, <2>5, ConcatProperties
  <2> HIDE DEF s
  <2> QED BY <2>2, <2>6, WriteType
<1>2. CASE Backspace
  <2>1. scr' = scr \/ scr' = Erase(scr, 0) BY <1>2 DEF Backspace, Erase
  <2> QED BY <2>1, EraseType
<1>3. CASE KeyUp
  <2>1. CASE browse = 0 BY <1>3, <2>1 DEF KeyUp
  <2>2. CASE browse # 0
    <3>1. browse - 1 \in 0 .. shell_history_count - 1 BY <1>0, <2>2, CountIs
    <3>2. shell_history(browse - 1) \in Text BY <3>1, Recalled
    <3>3. replace_line(shell_history(browse - 1)) BY <1>3, <2>2 DEF KeyUp
    <3> QED BY <1>0, <3>2, <3>3, ReplaceType
  <2> QED BY <2>1, <2>2
<1>4. CASE KeyDown
  <2> DEFINE b == browse + 1
             x == IF b = shell_history_count THEN <<>> ELSE shell_history(b)
  <2>1. CASE browse = shell_history_count BY <1>4, <2>1 DEF KeyDown
  <2>2. CASE browse # shell_history_count
    <3>1. b # shell_history_count => b \in 0 .. shell_history_count - 1 BY <1>0, <2>2, CountIs
    <3>2. replace_line(x) BY <1>4, <2>2 DEF KeyDown
    <3>3. x \in Text
      <4>1. b # shell_history_count => shell_history(b) \in Text
        <5> HIDE DEF b
        <5> QED BY <3>1, Recalled
      <4> HIDE DEF b
      <4> QED BY <4>1, EmptyText
    <3> HIDE DEF x
    <3> QED BY <1>0, <3>2, <3>3, ReplaceType
  <2> QED BY <2>1, <2>2
<1>5. ASSUME NEW c \in Chars, TypeChar(c) PROVE scr' \in Screen
  <2>1. c \in Glyph BY EditorAssumption DEF Glyph
  <2>2. scr' = scr \/ scr' = vga_putc(scr, c) BY <1>5 DEF TypeChar
  <2> QED BY <2>1, <2>2, PutType
<1>6. CASE UNCHANGED vars BY <1>6 DEF vars
<1> QED BY <1>1, <1>2, <1>3, <1>4, <1>5, <1>6 DEF Next

\* The line and its NUL fit the buffer, browse stays within the history and
\* the cursor on the screen, for every size of the screen and whatever is
\* typed, recalled and printed: vga_putc() scrolls in time.
THEOREM TypesHold == Spec => []TypeOK
<1> DEFINE SInv == HInv /\ scr \in Screen
<1>1. Init => SInv BY InitHolds, ScreenInit
<1>2. SInv /\ [Next]_vars => SInv' BY StepHolds, ScreenStep
<1>3. SInv => TypeOK
  <2> SUFFICES ASSUME HInv, scr \in Screen PROVE TypeOK OBVIOUS
  <2>1. scr.row \in 0 .. VGA_ROWS - 1 /\ scr.col \in 0 .. VGA_COLS - 1 BY DEF Screen
  <2> QED BY <2>1 DEF HInv, LinesFit, Text, TypeOK
<1> QED BY <1>1, <1>2, <1>3, PTL DEF Spec

-----------------------------------------------------------------------------
(* What the screen shows.                                                   *)

Controls == {"\n", "\r", "BS", "\t"}

\* Nothing stands below the cursor's row.
Below(x) == \A i \in Cells : i >= x.row * VGA_COLS + VGA_COLS => x.cells[i] = Blank

\* The cursor's row holds z up to its m-th character, the cursor is behind it,
\* and nothing is behind the cursor.
Tidy(x, z, m) ==
    /\ x \in Screen /\ x.col = m
    /\ \A i \in 1 .. m : x.cells[x.row * VGA_COLS + i - 1] = z[i]
    /\ \A i \in Cells : i >= x.row * VGA_COLS + m => x.cells[i] = Blank

\* Every row lies on the screen.
LEMMA RowFits ==
    ASSUME NEW r \in Nat, r < VGA_ROWS
    PROVE  /\ r * VGA_COLS \in Nat /\ (r + 1) * VGA_COLS = r * VGA_COLS + VGA_COLS
           /\ \A i \in 0 .. VGA_COLS - 1 : r * VGA_COLS + i \in Cells
           /\ r + 1 = VGA_ROWS => \A i \in Cells : i < r * VGA_COLS + VGA_COLS
<1> DEFINE R == VGA_ROWS
           C == VGA_COLS
           d == R - r - 1
<1>1. R \in Nat /\ C \in Nat /\ d \in Nat /\ R = r + 1 + d BY VgaAssumption
<1>2. r * C \in Nat /\ (r + 1) * C = r * C + C /\ R * C \in Nat
  <2> HIDE DEF d, R, C
  <2> QED BY <1>1
<1>3. R * C = r * C + C + d * C /\ d * C \in Nat
  <2> HIDE DEF d, R, C
  <2> QED BY <1>1
<1>4. Cells = 0 .. R * C - 1 BY DEF Cells
<1>5. r + 1 = R => R * C = r * C + C
  <2>1. r + 1 = R => d = 0 BY <1>1
  <2> HIDE DEF d, R, C
  <2> QED BY <1>1, <1>2
<1> DEFINE a == r * C
           q == R * C
           e == d * C
<1>6. a \in Nat /\ e \in Nat /\ q = a + C + e /\ Cells = 0 .. q - 1
      /\ (r + 1 = R => q = a + C)
  BY <1>2, <1>3, <1>4, <1>5
<1>7. (\A i \in 0 .. C - 1 : a + i \in Cells) /\ (r + 1 = R => \A i \in Cells : i < a + C)
  <2> HIDE DEF a, q, e, C, R, d
  <2> QED BY <1>1, <1>6
<1> QED BY <1>2, <1>7

\* The fields of a screen.
LEMMA OnScreen ==
    ASSUME NEW x \in Screen
    PROVE  /\ x.row \in Nat /\ x.row < VGA_ROWS /\ x.col \in Nat /\ x.col < VGA_COLS
           /\ x.cells \in [Cells -> Glyph]
           /\ x.row * VGA_COLS \in Nat /\ Cursor(x) = x.row * VGA_COLS + x.col
           /\ Cursor(x) \in Cells
<1>1. /\ x.row \in Nat /\ x.row < VGA_ROWS /\ x.col \in Nat /\ x.col < VGA_COLS
      /\ x.cells \in [Cells -> Glyph]
  BY VgaAssumption DEF Screen
<1>2. x.row * VGA_COLS \in Nat /\ \A i \in 0 .. VGA_COLS - 1 : x.row * VGA_COLS + i \in Cells
  BY <1>1, RowFits
<1>3. x.col \in 0 .. VGA_COLS - 1 BY <1>1, VgaAssumption
<1> QED BY <1>1, <1>2, <1>3 DEF Cursor

\* A character that shows, where the row has room for another one.
LEMMA PutGlyph ==
    ASSUME NEW x \in Screen, NEW c \in Glyph \ Controls, x.col + 1 < VGA_COLS
    PROVE  LET y == vga_putc(x, c)
           IN  /\ y.row = x.row /\ y.col = x.col + 1
               /\ y.cells = [x.cells EXCEPT ![Cursor(x)] = c]
<1> DEFINE e == [x EXCEPT !.cells[Cursor(x)] = c]
           f == [e EXCEPT !.col = x.col + 1]
           k == Cursor(x)
<1>0. x.row < VGA_ROWS /\ x.col \in Nat /\ VGA_COLS \in Nat /\ x.row \in Nat
  BY OnScreen, VgaAssumption
<1>1. vga_putc(x, c) = scroll_if_needed(Advance(e, x.col + 1)) BY DEF vga_putc, Controls
<1>2. x = [cells |-> x.cells, row |-> x.row, col |-> x.col] BY DEF Screen
<1>3. e.cells = [x.cells EXCEPT ![k] = c] /\ e.row = x.row /\ e.col = x.col
      /\ DOMAIN e = {"cells", "row", "col"}
  <2> HIDE DEF k
  <2> QED BY <1>2 DEF k
<1> HIDE DEF e, k
<1>4. Advance(e, x.col + 1) = f BY <1>0 DEF Advance
<1>5. f.cells = e.cells /\ f.row = e.row /\ f.col = x.col + 1 BY <1>3
<1> HIDE DEF f
<1>6. scroll_if_needed(f) = f BY <1>0, <1>3, <1>5 DEF scroll_if_needed
<1> QED BY <1>1, <1>3, <1>4, <1>5, <1>6 DEF k

LEMMA PutBack ==
    ASSUME NEW x \in Screen, x.col # 0
    PROVE  LET y == vga_putc(x, "BS")
           IN  /\ y.row = x.row /\ y.col = x.col - 1
               /\ y.cells = [x.cells EXCEPT ![Cursor(x) - 1] = Blank]
<1> DEFINE k == Cursor(x) - 1
           e == [x EXCEPT !.col = @ - 1, !.cells[k] = Blank]
<1>0. x.row < VGA_ROWS /\ x.col \in Nat /\ VGA_COLS \in Nat /\ x.row \in Nat
  BY OnScreen, VgaAssumption
<1>1. vga_putc(x, "BS") = scroll_if_needed(e) BY DEF vga_putc
<1>2. x = [cells |-> x.cells, row |-> x.row, col |-> x.col] BY DEF Screen
<1>3. e.cells = [x.cells EXCEPT ![k] = Blank] /\ e.row = x.row /\ e.col = x.col - 1
  <2> HIDE DEF k
  <2> QED BY <1>2
<1> HIDE DEF e, k
<1>4. scroll_if_needed(e) = e BY <1>0, <1>3 DEF scroll_if_needed
<1> QED BY <1>1, <1>3, <1>4 DEF k
\* Cells that are written in the cursor's row leave the rows below it blank.
LEMMA BelowFrame ==
    ASSUME NEW x \in Screen, Below(x), NEW y, NEW k \in Cells, k < x.row * VGA_COLS + VGA_COLS,
           NEW v, y.cells = [x.cells EXCEPT ![k] = v],
           y.row = x.row \/ y.row = x.row + 1
    PROVE  Below(y)
<1>1. x.row \in Nat /\ x.row < VGA_ROWS /\ x.row * VGA_COLS \in Nat /\ x.cells \in [Cells -> Glyph]
  BY OnScreen
<1> DEFINE a == x.row * VGA_COLS
           b == y.row * VGA_COLS
<1>2. VGA_COLS \in Nat /\ a \in Nat /\ (b = a \/ b = a + VGA_COLS)
  BY <1>1, RowFits, VgaAssumption
<1> SUFFICES ASSUME NEW i \in Cells, i >= b + VGA_COLS PROVE y.cells[i] = Blank
  BY DEF Below
<1>3. i \in Int BY DEF Cells
<1>4. k \in Int /\ k < a + VGA_COLS BY DEF Cells
<1> HIDE DEF a, b
<1>5. i >= a + VGA_COLS /\ i # k BY <1>2, <1>3, <1>4
<1>6. x.cells[i] = Blank BY <1>5 DEF Below, a
<1> QED BY <1>1, <1>5, <1>6

\* The rows below the cursor stay blank, and scrolling brings in a blank row.
LEMMA BelowScroll ==
    ASSUME NEW x \in Full, x.row < VGA_ROWS => Below(x)
    PROVE  Below(scroll_if_needed(x))
<1>1. CASE x.row < VGA_ROWS BY <1>1 DEF scroll_if_needed
<1>2. CASE ~(x.row < VGA_ROWS)
  <2> DEFINE y == scroll_if_needed(x)
             r == VGA_ROWS - 1
  <2>1. y.row = r BY <1>2 DEF scroll_if_needed
  <2> HIDE DEF y
  <2>2. r \in Nat /\ r < VGA_ROWS /\ r + 1 = VGA_ROWS BY VgaAssumption
  <2>3. r * VGA_COLS \in Nat /\ \A i \in Cells : i < r * VGA_COLS + VGA_COLS
    <3> HIDE DEF r
    <3> QED BY <2>2, RowFits
  <2>4. \A i \in Cells : ~(i >= r * VGA_COLS + VGA_COLS)
    <3> DEFINE a == r * VGA_COLS
    <3>1. a \in Nat /\ \A i \in Cells : i < a + VGA_COLS BY <2>3
    <3> HIDE DEF a
    <3>2. \A i \in Cells : ~(i >= a + VGA_COLS) BY <3>1, VgaAssumption DEF Cells
    <3> QED BY <3>2 DEF a
  <2>5. Below(y) BY <2>1, <2>4 DEF Below
  <2> QED BY <2>5 DEF y
<1> QED BY <1>1, <1>2

LEMMA BelowKept ==
    ASSUME NEW x \in Screen, Below(x), NEW c \in Glyph
    PROVE  Below(vga_putc(x, c))
<1>0. /\ x.row \in Nat /\ x.row < VGA_ROWS /\ x.col \in Nat /\ x.col < VGA_COLS
      /\ x.cells \in [Cells -> Glyph] /\ x.row * VGA_COLS \in Nat
      /\ Cursor(x) = x.row * VGA_COLS + x.col /\ Cursor(x) \in Cells
      /\ x = [cells |-> x.cells, row |-> x.row, col |-> x.col]
  <2>1. x = [cells |-> x.cells, row |-> x.row, col |-> x.col] BY DEF Screen
  <2> QED BY <2>1, OnScreen
<1> DEFINE k == Cursor(x)
<1>1. k \in Cells /\ k < x.row * VGA_COLS + VGA_COLS
  <2> DEFINE a == x.row * VGA_COLS
  <2>1. a \in Nat /\ k = a + x.col /\ k \in Cells BY <1>0
  <2> HIDE DEF a, k
  <2>2. k < a + VGA_COLS BY <1>0, <2>1, VgaAssumption
  <2> QED BY <2>1, <2>2 DEF a
<1>2. x.cells = [x.cells EXCEPT ![k] = x.cells[k]]
  <2> HIDE DEF k
  <2> QED BY <1>0
<1> HIDE DEF k
<1>3. ASSUME NEW y, y.cells = x.cells, y.row = x.row \/ y.row = x.row + 1 PROVE Below(y)
  <2> DEFINE v == x.cells[k]
  <2>1. y.cells = [x.cells EXCEPT ![k] = v] BY <1>2, <1>3
  <2> HIDE DEF v
  <2> QED BY <1>1, <1>3, <2>1, BelowFrame
<1>4. CASE c = "\n"
  <2> DEFINE e == [x EXCEPT !.row = @ + 1, !.col = 0]
  <2>1. vga_putc(x, c) = scroll_if_needed(e) BY <1>4 DEF vga_putc
  <2>2. e.cells = x.cells /\ e.row = x.row + 1 BY <1>0
  <2>3. e \in Full BY NextRow
  <2> HIDE DEF e
  <2> QED BY <1>3, <2>1, <2>2, <2>3, BelowScroll
<1>5. CASE c = "\r"
  <2> DEFINE e == [x EXCEPT !.col = 0]
  <2>1. vga_putc(x, c) = scroll_if_needed(e) BY <1>5 DEF vga_putc
  <2>2. e.cells = x.cells /\ e.row = x.row BY <1>0
  <2>3. scroll_if_needed(e) = e BY <1>0, <2>2 DEF scroll_if_needed
  <2> HIDE DEF e
  <2> QED BY <1>3, <2>1, <2>2, <2>3
<1>6. CASE c = "BS"
  <2>1. CASE x.col = 0
    <3>1. vga_putc(x, c) = scroll_if_needed(x) BY <1>6, <2>1 DEF vga_putc
    <3> QED BY <1>0, <3>1 DEF scroll_if_needed
  <2>2. CASE x.col # 0
    <3> DEFINE y == vga_putc(x, c)
    <3>1. y.row = x.row /\ y.cells = [x.cells EXCEPT ![k - 1] = Blank]
      BY <1>6, <2>2, PutBack DEF k
    <3> HIDE DEF y
    <3>2. k - 1 \in Cells /\ k - 1 < x.row * VGA_COLS + VGA_COLS
      <4> DEFINE a == x.row * VGA_COLS
      <4>0. x.col \in Nat /\ x.col < VGA_COLS /\ VGA_COLS \in Nat BY <1>0, VgaAssumption
      <4>1. a \in Nat /\ k = a + x.col /\ k \in Cells BY <1>0 DEF k
      <4> HIDE DEF a
      <4>2. k - 1 \in Nat /\ k - 1 < k /\ k - 1 < a + VGA_COLS BY <2>2, <4>0, <4>1
      <4>3. k - 1 \in Cells
        <5> DEFINE q == VGA_ROWS * VGA_COLS
        <5>1. q \in Nat /\ Cells = 0 .. q - 1 BY VgaAssumption DEF Cells
        <5> HIDE DEF q
        <5> QED BY <4>1, <4>2, <5>1
      <4> QED BY <4>2, <4>3 DEF a
    <3>3. Below(y) BY <3>1, <3>2, BelowFrame
    <3> QED BY <3>3 DEF y
  <2> QED BY <2>1, <2>2
<1>7. CASE c = "\t"
  <2> DEFINE t == ((x.col + 8) \div 8) * 8
             e == Advance(x, t)
  <2>1. vga_putc(x, c) = scroll_if_needed(e) BY <1>7 DEF vga_putc
  <2>2. t \in Nat BY <1>0
  <2> HIDE DEF t
  <2>3. e \in Full BY <2>2, AdvanceType
  <2>4. e.cells = x.cells /\ (e.row = x.row \/ e.row = x.row + 1)
    <3>1. CASE t >= VGA_COLS BY <1>0, <3>1 DEF Advance
    <3>2. CASE ~(t >= VGA_COLS) BY <1>0, <3>2 DEF Advance
    <3> QED BY <3>1, <3>2
  <2> HIDE DEF e
  <2> QED BY <1>3, <2>1, <2>3, <2>4, BelowScroll
<1>8. CASE c \notin Controls
  <2> DEFINE f == [x EXCEPT !.cells[k] = c]
             t == x.col + 1
             e == Advance(f, t)
  <2>1. vga_putc(x, c) = scroll_if_needed(e) BY <1>8 DEF vga_putc, Controls, k
  <2>2. t \in Nat BY <1>0
  <2>3. [x.cells EXCEPT ![k] = c] \in [Cells -> Glyph] BY <1>0
  <2>4. f \in Screen BY <2>3 DEF Screen
  <2>5. f = [cells |-> [x.cells EXCEPT ![k] = c], row |-> x.row, col |-> x.col] BY <1>0
  <2> HIDE DEF f, t
  <2>6. e \in Full BY <2>2, <2>4, AdvanceType
  <2>7. e.cells = [x.cells EXCEPT ![k] = c] /\ (e.row = x.row \/ e.row = x.row + 1)
    <3> DEFINE w == [x.cells EXCEPT ![k] = c]
    <3>0. f = [cells |-> w, row |-> x.row, col |-> x.col] BY <2>5
    <3> HIDE DEF w
    <3>1. CASE t >= VGA_COLS BY <3>0, <3>1 DEF Advance, w
    <3>2. CASE ~(t >= VGA_COLS) BY <3>0, <3>2 DEF Advance, w
    <3> QED BY <3>1, <3>2
  <2> HIDE DEF e
  <2>8. Below(e) BY <1>1, <2>7, BelowFrame
  <2> QED BY <2>1, <2>6, <2>8, BelowScroll
<1> QED BY <1>4, <1>5, <1>6, <1>7, <1>8 DEF Controls

\* A new line begins in a blank row with nothing below it.
LEMMA NewLine ==
    ASSUME NEW x \in Screen, Below(x), NEW z
    PROVE  Tidy(vga_putc(x, "\n"), z, 0)
<1>0. /\ x.row \in Nat /\ x.row < VGA_ROWS /\ x.cells \in [Cells -> Glyph]
      /\ x = [cells |-> x.cells, row |-> x.row, col |-> x.col]
  <2>1. x = [cells |-> x.cells, row |-> x.row, col |-> x.col] BY DEF Screen
  <2> QED BY <2>1, OnScreen
<1> DEFINE e == [x EXCEPT !.row = @ + 1, !.col = 0]
           y == scroll_if_needed(e)
<1>1. vga_putc(x, "\n") = y BY DEF vga_putc
<1>2. e.cells = x.cells /\ e.row = x.row + 1 /\ e.col = 0 BY <1>0
<1>3. e \in Full BY NextRow
<1> HIDE DEF e
<1>4. y \in Screen BY <1>3, ScrollType
<1>5. y.col = 0 BY <1>2 DEF scroll_if_needed
<1>6. ASSUME NEW i \in Cells, i >= y.row * VGA_COLS PROVE y.cells[i] = Blank
  <2>1. CASE e.row < VGA_ROWS
    <3>1. y = e BY <2>1 DEF scroll_if_needed
    <3>2. (x.row + 1) * VGA_COLS = x.row * VGA_COLS + VGA_COLS BY <1>0, RowFits
    <3>3. i >= x.row * VGA_COLS + VGA_COLS BY <1>2, <1>6, <3>1, <3>2
    <3>4. x.cells[i] = Blank BY <3>3 DEF Below
    <3> QED BY <1>2, <3>1, <3>4
  <2>2. CASE ~(e.row < VGA_ROWS)
    <3>1. y.row = VGA_ROWS - 1
          /\ y.cells[i] = IF i + VGA_COLS \in Cells THEN e.cells[i + VGA_COLS] ELSE Blank
      BY <2>2 DEF scroll_if_needed
    <3> DEFINE r == VGA_ROWS - 1
               a == r * VGA_COLS
               j == i + VGA_COLS
    <3>2. r \in Nat /\ r < VGA_ROWS /\ r + 1 = VGA_ROWS BY VgaAssumption
    <3>3. a \in Nat /\ \A l \in Cells : l < a + VGA_COLS
      <4> HIDE DEF r
      <4> QED BY <3>2, RowFits
    <3>4. i >= a BY <1>6, <3>1
    <3> HIDE DEF y, a
    <3>5. j >= a + VGA_COLS /\ j \in Int BY <3>3, <3>4, VgaAssumption DEF Cells
    <3> HIDE DEF j
    <3>6. j \notin Cells BY <3>3, <3>5, VgaAssumption
    <3> QED BY <3>1, <3>6 DEF j
  <2> QED BY <2>1, <2>2
<1>7. y.row * VGA_COLS + 0 = y.row * VGA_COLS
  <2> HIDE DEF y
  <2> QED BY <1>4, OnScreen
<1> HIDE DEF y
<1>8. Tidy(y, z, 0) BY <1>4, <1>5, <1>6, <1>7 DEF Tidy
<1> QED BY <1>1, <1>8
\* What one character does to a row that is tidy.
LEMMA TidyPut ==
    ASSUME NEW x, NEW z, NEW m \in Nat, Tidy(x, z, m), m + 1 < VGA_COLS,
           NEW c \in Glyph \ Controls, z[m + 1] = c
    PROVE  Tidy(vga_putc(x, c), z, m + 1)
<1> DEFINE a == x.row * VGA_COLS
           y == vga_putc(x, c)
<1>0. /\ x \in Screen /\ x.col = m
      /\ \A i \in 1 .. m : x.cells[a + i - 1] = z[i]
      /\ \A i \in Cells : i >= a + m => x.cells[i] = Blank
  BY DEF Tidy
<1>1. x.cells \in [Cells -> Glyph] /\ a \in Nat /\ Cursor(x) = a + m /\ a + m \in Cells
  BY <1>0, OnScreen
<1>2. y \in Screen BY <1>0, PutType
<1>3. y.row = x.row /\ y.col = m + 1 /\ y.cells = [x.cells EXCEPT ![a + m] = c]
  BY <1>0, <1>1, PutGlyph
<1>4. y.row * VGA_COLS = a BY <1>3
<1> HIDE DEF a, y
<1>5. ASSUME NEW i \in 1 .. m + 1 PROVE y.cells[a + i - 1] = z[i]
  <2>1. CASE i = m + 1
    <3>1. a + i - 1 = a + m BY <1>1, <2>1
    <3>2. y.cells[a + m] = c BY <1>1, <1>3
    <3> QED BY <2>1, <3>1, <3>2
  <2>2. CASE i # m + 1
    <3> DEFINE j == a + i - 1
    <3>1. i \in 1 .. m /\ j # a + m /\ j >= 0 /\ j < a + m /\ j \in Int BY <1>1, <2>2
    <3> HIDE DEF j
    <3>2. j \in Cells
      <4> DEFINE q == VGA_ROWS * VGA_COLS
      <4>1. q \in Nat /\ Cells = 0 .. q - 1 BY VgaAssumption DEF Cells
      <4> HIDE DEF q
      <4> QED BY <1>1, <3>1, <4>1
    <3>3. y.cells[j] = x.cells[j] BY <1>1, <1>3, <3>1, <3>2
    <3>4. x.cells[j] = z[i] BY <1>0, <3>1 DEF j
    <3> QED BY <3>3, <3>4 DEF j
  <2> QED BY <2>1, <2>2
<1>6. ASSUME NEW i \in Cells, i >= a + (m + 1) PROVE y.cells[i] = Blank
  <2>1. i \in Int BY DEF Cells
  <2>2. i >= a + m /\ i # a + m BY <1>1, <1>6, <2>1
  <2>3. x.cells[i] = Blank BY <1>0, <2>2
  <2> QED BY <1>1, <1>3, <2>2, <2>3
<1>7. Tidy(y, z, m + 1) BY <1>2, <1>3, <1>4, <1>5, <1>6 DEF Tidy
<1> QED BY <1>7 DEF y

LEMMA TidyBack ==
    ASSUME NEW x, NEW z, NEW m \in Nat, m # 0, Tidy(x, z, m)
    PROVE  Tidy(vga_putc(x, "BS"), z, m - 1)
<1> DEFINE a == x.row * VGA_COLS
           y == vga_putc(x, "BS")
           k == a + m - 1
<1>0. /\ x \in Screen /\ x.col = m
      /\ \A i \in 1 .. m : x.cells[a + i - 1] = z[i]
      /\ \A i \in Cells : i >= a + m => x.cells[i] = Blank
  BY DEF Tidy
<1>1. x.cells \in [Cells -> Glyph] /\ a \in Nat /\ Cursor(x) = a + m /\ a + m \in Cells
  BY <1>0, OnScreen
<1>2. y \in Screen
  <2>1. "BS" \in Glyph BY DEF Glyph
  <2> QED BY <1>0, <2>1, PutType
<1>3. y.row = x.row /\ y.col = m - 1 /\ y.cells = [x.cells EXCEPT ![k] = Blank]
  <2>1. Cursor(x) - 1 = k BY <1>1
  <2> HIDE DEF a, y, k
  <2> QED BY <1>0, <2>1, PutBack DEF y
<1>4. y.row * VGA_COLS = a BY <1>3
<1> HIDE DEF a, y
<1> DEFINE q == VGA_ROWS * VGA_COLS
<1>5. q \in Nat /\ Cells = 0 .. q - 1 BY VgaAssumption DEF Cells
<1> HIDE DEF q
<1>6. k \in Cells BY <1>1, <1>5
<1>7. ASSUME NEW i \in 1 .. m - 1 PROVE y.cells[a + i - 1] = z[i]
  <2> DEFINE j == a + i - 1
  <2>1. i \in 1 .. m /\ j # k /\ j \in Cells BY <1>1, <1>5
  <2>2. x.cells[j] = z[i] BY <1>0, <2>1
  <2> HIDE DEF j, k
  <2>3. y.cells[j] = x.cells[j] BY <1>1, <1>3, <2>1
  <2> QED BY <2>2, <2>3 DEF j
<1>8. ASSUME NEW i \in Cells, i >= a + (m - 1) PROVE y.cells[i] = Blank
  <2>1. i = k \/ i >= a + m BY <1>1, <1>5, <1>8
  <2>2. i >= a + m => x.cells[i] = Blank BY <1>0
  <2> HIDE DEF k
  <2> QED BY <1>1, <1>3, <1>6, <2>1, <2>2
<1>9. Tidy(y, z, m - 1) BY <1>2, <1>3, <1>4, <1>7, <1>8 DEF Tidy
<1> QED BY <1>9 DEF y

\* Only the characters shown matter.
LEMMA TidySame ==
    ASSUME NEW x, NEW z, NEW y, NEW m \in Nat, Tidy(x, z, m), \A i \in 1 .. m : y[i] = z[i]
    PROVE  Tidy(x, y, m)
BY DEF Tidy

\* console_write() a character at a time.
Runs(r, x, w) ==
    /\ r \in [0 .. Len(w) -> Screen] /\ r[0] = x
    /\ \A k \in 1 .. Len(w) : r[k] = vga_putc(r[k - 1], w[k])

LEMMA WriteRuns ==
    ASSUME NEW x \in Screen, NEW w \in Seq(Glyph)
    PROVE  \E r : Runs(r, x, w) /\ r[Len(w)] = console_write(x, w)
<1> DEFINE n == Len(w)
           h == CHOOSE g : Puts(x, w, g)
<1>1. n \in Nat /\ DOMAIN w = 1 .. n OBVIOUS
<1>2. Puts(x, w, h) BY PutsExists
<1>3. console_write(x, w) = h[1 .. n] BY <1>1, WriteIsPuts
<1> HIDE DEF h
<1>4. \A t \in SUBSET (1 .. n) :
         h[t] = IF t = {} THEN x ELSE vga_putc(h[t \ {Max(t)}], w[Max(t)])
  BY <1>1, <1>2 DEF Puts
<1> DEFINE r == [k \in 0 .. n |-> h[1 .. k]]
<1>5. r[0] = x
  <2>1. 1 .. 0 = {} /\ 0 \in 0 .. n BY <1>1
  <2>2. h[{}] = x BY <1>4
  <2> QED BY <2>1, <2>2
<1>6. ASSUME NEW k \in 1 .. n PROVE r[k] = vga_putc(r[k - 1], w[k])
  <2>1. 1 .. k \in SUBSET (1 .. n) /\ 1 .. k # {} /\ Max(1 .. k) = k /\ (1 .. k) \ {k} = 1 .. k - 1
    BY <1>1, InitialMax
  <2>2. h[1 .. k] = vga_putc(h[(1 .. k) \ {Max(1 .. k)}], w[Max(1 .. k)])
    <3> DEFINE t == 1 .. k
    <3>1. t \in SUBSET (1 .. n) /\ t # {} BY <2>1
    <3> HIDE DEF t
    <3>2. h[t] = vga_putc(h[t \ {Max(t)}], w[Max(t)]) BY <1>4, <3>1
    <3> QED BY <3>2 DEF t
  <2>3. h[1 .. k] = vga_putc(h[1 .. k - 1], w[k]) BY <2>1, <2>2
  <2>4. k \in 0 .. n /\ k - 1 \in 0 .. n BY <1>1
  <2> QED BY <2>3, <2>4
<1>7. \A k \in 0 .. n : k \in {j \in 0 .. n : r[j] \in Screen}
  <2> DEFINE S == {j \in 0 .. n : r[j] \in Screen}
  <2>1. 0 \in S BY <1>1, <1>5
  <2>2. ASSUME NEW i \in 0 .. n - 1, i \in S PROVE i + 1 \in S
    <3>1. i + 1 \in 1 .. n /\ i + 1 \in 0 .. n /\ (i + 1) - 1 = i BY <1>1
    <3>2. r[i] \in Screen /\ w[i + 1] \in Glyph BY <1>1, <2>2, <3>1, ElementOfSeq
    <3>3. r[i + 1] = vga_putc(r[(i + 1) - 1], w[i + 1]) BY <1>6, <3>1
    <3> HIDE DEF r
    <3>4. r[i + 1] \in Screen BY <3>1, <3>2, <3>3, PutType
    <3> QED BY <3>1, <3>4
  <2> HIDE DEF S, r
  <2>3. \A i \in 0 .. n : i \in S BY <1>1, <2>1, <2>2, RangeInduction
  <2> QED BY <2>3 DEF S
<1>8. r \in [0 .. n -> Screen]
  <2>1. \A k \in 0 .. n : r[k] \in Screen
    <3> HIDE DEF r
    <3> QED BY <1>7
  <2>2. \A k \in 0 .. n : h[1 .. k] \in Screen BY <2>1
  <2> QED BY <2>2
<1>9. r[n] = console_write(x, w) BY <1>1, <1>3
<1> HIDE DEF r
<1>10. Runs(r, x, w) BY <1>5, <1>6, <1>8 DEF Runs
<1> QED BY <1>9, <1>10
\* Below the cursor the screen stays blank throughout.
LEMMA RunsBelow ==
    ASSUME NEW r, NEW x, NEW w \in Seq(Glyph), Runs(r, x, w), Below(x)
    PROVE  \A k \in 0 .. Len(w) : Below(r[k])
<1> DEFINE n == Len(w)
           S == {k \in 0 .. n : Below(r[k])}
<1>1. n \in Nat OBVIOUS
<1>2. 0 \in S BY <1>1 DEF Runs
<1>3. ASSUME NEW i \in 0 .. n - 1, i \in S PROVE i + 1 \in S
  <2>1. i + 1 \in 1 .. n /\ i + 1 \in 0 .. n /\ (i + 1) - 1 = i BY <1>1
  <2>2. r[i] \in Screen /\ Below(r[i]) BY <1>3 DEF Runs
  <2>3. w[i + 1] \in Glyph BY <2>1, ElementOfSeq
  <2>4. r[i + 1] = vga_putc(r[i], w[i + 1]) BY <2>1 DEF Runs
  <2>5. Below(r[i + 1]) BY <2>2, <2>3, <2>4, BelowKept
  <2> QED BY <2>1, <2>5
<1> HIDE DEF S
<1>4. \A i \in 0 .. n : i \in S BY <1>1, <1>2, <1>3, RangeInduction
<1> QED BY <1>4 DEF S

\* Writing goes on with z where a tidy row ends.
LEMMA RunsTidy ==
    ASSUME NEW r, NEW x, NEW w \in Seq(Glyph), Runs(r, x, w), NEW z, NEW m \in Nat,
           NEW d \in 0 .. Len(w), Tidy(r[d], z, m), m + Len(w) - d < VGA_COLS,
           \A k \in d + 1 .. Len(w) : w[k] \notin Controls /\ z[m + k - d] = w[k]
    PROVE  Tidy(r[Len(w)], z, m + Len(w) - d)
<1> DEFINE n == Len(w)
           S == {k \in 0 .. n : Tidy(r[k], z, m + k - d)}
<1>1. n \in Nat /\ d \in Nat /\ d <= n /\ VGA_COLS \in Nat BY VgaAssumption
<1>2. d \in S
  <2>1. m + d - d = m BY <1>1
  <2> QED BY <2>1
<1>3. ASSUME NEW i \in d .. n - 1, i \in S PROVE i + 1 \in S
  <2> DEFINE j == m + i - d
  <2>1. /\ i + 1 \in 1 .. n /\ i + 1 \in 0 .. n /\ i + 1 \in d + 1 .. n /\ (i + 1) - 1 = i
        /\ j \in Nat /\ j + 1 < VGA_COLS /\ m + (i + 1) - d = j + 1
    BY <1>1
  <2>2. Tidy(r[i], z, j) BY <1>3
  <2>3. w[i + 1] \in Glyph BY <2>1, ElementOfSeq
  <2>4. r[i + 1] = vga_putc(r[i], w[i + 1]) BY <2>1 DEF Runs
  <2>5. w[i + 1] \notin Controls /\ z[j + 1] = w[i + 1]
    <3>1. w[i + 1] \notin Controls /\ z[m + (i + 1) - d] = w[i + 1]
      <4> DEFINE k == i + 1
      <4>1. k \in d + 1 .. Len(w) BY <2>1
      <4> HIDE DEF k
      <4>2. w[k] \notin Controls /\ z[m + k - d] = w[k] BY <4>1
      <4> QED BY <4>2 DEF k
    <3> QED BY <2>1, <3>1
  <2> HIDE DEF j
  <2>6. Tidy(r[i + 1], z, j + 1) BY <2>1, <2>2, <2>3, <2>4, <2>5, TidyPut
  <2>7. Tidy(r[i + 1], z, m + (i + 1) - d) BY <2>1, <2>6
  <2> QED BY <2>1, <2>7
<1> HIDE DEF S
<1>4. \A i \in d .. n : i \in S BY <1>1, <1>2, <1>3, RangeInduction
<1>5. n \in d .. n BY <1>1
<1> QED BY <1>4, <1>5 DEF S

\* "\b \b" takes one character away.
LEMMA TidyRubout ==
    ASSUME NEW x, NEW z, NEW m \in Nat, m # 0, Tidy(x, z, m), NEW c
    PROVE  Tidy(Erase(x, c), z, m - 1)
<1> DEFINE b == "BS"
           w == <<b, Blank, b>>
           z2 == [i \in 1 .. m |-> IF i = m THEN Blank ELSE z[i]]
<1>0. x \in Screen /\ m < VGA_COLS /\ VGA_COLS \in Nat
  <2>1. x \in Screen /\ x.col = m BY DEF Tidy
  <2> QED BY <2>1, OnScreen, VgaAssumption
<1>1. b \in Glyph /\ Blank \in Glyph /\ Blank \notin Controls BY DEF Glyph, Controls, Blank
<1>2. Erase(x, c) = console_write(x, w) BY DEF Erase, Rubout
<1>3. Tidy(vga_putc(x, b), z, m - 1) BY TidyBack
<1> HIDE DEF b
<1>4. w \in Seq(Glyph) /\ Len(w) = 3 /\ w[1] = b /\ w[2] = Blank /\ w[3] = b BY <1>1
<1> HIDE DEF w
<1>5. PICK r : Runs(r, x, w) /\ r[Len(w)] = console_write(x, w) BY <1>0, <1>4, WriteRuns
<1>6. r[1] = vga_putc(x, b) /\ r[2] = vga_putc(r[1], Blank) /\ r[3] = vga_putc(r[2], b)
  <2>1. 1 \in 1 .. 3 /\ 2 \in 1 .. 3 /\ 3 \in 1 .. 3 /\ 1 - 1 = 0 /\ 2 - 1 = 1 /\ 3 - 1 = 2
    OBVIOUS
  <2>2. \A k \in 1 .. 3 : r[k] = vga_putc(r[k - 1], w[k]) BY <1>4, <1>5 DEF Runs
  <2>3. r[0] = x BY <1>5 DEF Runs
  <2>4. r[1] = vga_putc(r[1 - 1], w[1]) /\ r[2] = vga_putc(r[2 - 1], w[2])
        /\ r[3] = vga_putc(r[3 - 1], w[3])
    BY <2>1, <2>2
  <2> QED BY <1>4, <2>1, <2>3, <2>4
<1>7. Tidy(r[1], z2, m - 1)
  <2>1. m - 1 \in Nat /\ \A i \in 1 .. m - 1 : z2[i] = z[i] OBVIOUS
  <2>2. Tidy(r[1], z, m - 1) BY <1>3, <1>6
  <2> HIDE DEF z2
  <2> QED BY <2>1, <2>2, TidySame
<1>8. Tidy(r[2], z2, m)
  <2>1. m - 1 \in Nat /\ (m - 1) + 1 = m /\ (m - 1) + 1 < VGA_COLS BY <1>0
  <2>2. z2[(m - 1) + 1] = Blank BY <2>1
  <2> HIDE DEF z2
  <2>3. Tidy(vga_putc(r[1], Blank), z2, (m - 1) + 1) BY <1>1, <1>7, <2>1, <2>2, TidyPut
  <2> QED BY <1>6, <2>1, <2>3
<1>9. Tidy(r[3], z2, m - 1)
  <2> HIDE DEF z2
  <2> QED BY <1>6, <1>8, TidyBack DEF b
<1>10. Tidy(r[3], z, m - 1)
  <2>1. m - 1 \in Nat /\ \A i \in 1 .. m - 1 : z[i] = z2[i] OBVIOUS
  <2> HIDE DEF z2
  <2> QED BY <1>9, <2>1, TidySame
<1> QED BY <1>2, <1>4, <1>5, <1>10

\* replace_line()'s loop takes the old line away.
LEMMA TidyErase ==
    ASSUME NEW x, NEW z, NEW X, NEW s \in Seq(X), NEW m \in Nat, Tidy(x, z, m + Len(s))
    PROVE  Tidy(FoldLeft(Erase, x, s), z, m)
<1> DEFINE n == Len(s)
           h == CHOOSE g : Erases(x, s, g)
           S == {k \in 0 .. n : Tidy(h[1 .. k], z, m + n - k)}
<1>0. x \in Screen BY DEF Tidy
<1>1. n \in Nat /\ DOMAIN s = 1 .. n OBVIOUS
<1>2. Erases(x, s, h) BY <1>0, ErasesExists
<1>3. FoldLeft(Erase, x, s) = h[1 .. n] BY <1>1, EraseIsFold
<1> HIDE DEF h
<1>4. \A t \in SUBSET (1 .. n) :
         h[t] = IF t = {} THEN x ELSE Erase(h[t \ {Max(t)}], s[Max(t)])
  BY <1>1, <1>2 DEF Erases
<1>5. 0 \in S
  <2>1. 1 .. 0 = {} /\ 0 \in 0 .. n /\ m + n - 0 = m + n BY <1>1
  <2>2. h[{}] = x BY <1>4
  <2> QED BY <2>1, <2>2
<1>6. ASSUME NEW i \in 0 .. n - 1, i \in S PROVE i + 1 \in S
  <2> DEFINE k == i + 1
             t == 1 .. k
             j == m + n - i
  <2>1. k \in 1 .. n /\ k \in 0 .. n /\ k - 1 = i /\ j \in Nat /\ j # 0 /\ m + n - k = j - 1 BY <1>1
  <2>2. Tidy(h[1 .. i], z, j) BY <1>6
  <2> HIDE DEF k, j
  <2>3. t \in SUBSET (1 .. n) /\ t # {} /\ Max(t) = k /\ t \ {k} = 1 .. i
    BY <1>1, <2>1, InitialMax
  <2>4. h[t] = Erase(h[1 .. i], s[k])
    <3> HIDE DEF t
    <3>1. h[t] = Erase(h[t \ {Max(t)}], s[Max(t)]) BY <1>4, <2>3
    <3> QED BY <2>3, <3>1
  <2>5. Tidy(Erase(h[1 .. i], s[k]), z, j - 1) BY <2>1, <2>2, TidyRubout
  <2>6. Tidy(h[1 .. k], z, m + n - k) BY <2>1, <2>4, <2>5
  <2>7. k \in S BY <2>1, <2>6
  <2> QED BY <2>7 DEF k
<1> HIDE DEF S
<1>7. \A i \in 0 .. n : i \in S BY <1>1, <1>5, <1>6, RangeInduction
<1>8. n \in 0 .. n /\ m + n - n = m BY <1>1
<1>9. Tidy(h[1 .. n], z, m + n - n) BY <1>7, <1>8 DEF S
<1> QED BY <1>3, <1>8, <1>9
\* What is typed and the prompt consist of characters that show, and a command
\* that prints ends its last line, as every command of commands.c does.
PlainText ==
    /\ Chars \cap Controls = {}
    /\ \A i \in DOMAIN Prompt : Prompt[i] \notin Controls
    /\ \A out \in Outputs : out = <<>> \/ out[Len(out)] = "\n"

\* Prompt and line fit one row and leave room for the cursor.
OneRow == Len(Prompt) + Len(line) < VGA_COLS

SInv ==
    /\ HInv
    /\ Tidy(scr, Prompt \o line, Len(Prompt) + Len(line))

\* A sequence and what follows it.
LEMMA ConcatIs ==
    ASSUME NEW X, NEW s \in Seq(X), NEW t \in Seq(X)
    PROVE  /\ s \o t \in Seq(X) /\ Len(s) \in Nat /\ Len(t) \in Nat /\ Len(s \o t) = Len(s) + Len(t)
           /\ \A i \in 1 .. Len(s) : (s \o t)[i] = s[i]
           /\ \A i \in 1 .. Len(t) : (s \o t)[Len(s) + i] = t[i]
<1>1. Len(s) \in Nat /\ Len(t) \in Nat OBVIOUS
<1>2. /\ s \o t \in Seq(X) /\ Len(s \o t) = Len(s) + Len(t)
      /\ \A i \in 1 .. Len(s) + Len(t) : (s \o t)[i] = IF i <= Len(s) THEN s[i] ELSE t[i - Len(s)]
  BY ConcatProperties
<1>3. ASSUME NEW i \in 1 .. Len(s) PROVE (s \o t)[i] = s[i]
  <2>1. i \in 1 .. Len(s) + Len(t) /\ i <= Len(s) BY <1>1
  <2> QED BY <1>2, <2>1
<1>4. ASSUME NEW i \in 1 .. Len(t) PROVE (s \o t)[Len(s) + i] = t[i]
  <2> DEFINE j == Len(s) + i
  <2>1. j \in 1 .. Len(s) + Len(t) /\ ~(j <= Len(s)) /\ j - Len(s) = i BY <1>1
  <2> HIDE DEF j
  <2>2. (s \o t)[j] = t[i] BY <1>2, <2>1
  <2> QED BY <2>2 DEF j
<1> QED BY <1>1, <1>2, <1>3, <1>4

\* What is below the cursor is behind it.
LEMMA TidyBelow ==
    ASSUME NEW x, NEW z, NEW m \in Nat, Tidy(x, z, m)
    PROVE  Below(x)
<1>1. x \in Screen /\ x.col = m /\ \A i \in Cells : i >= x.row * VGA_COLS + m => x.cells[i] = Blank
  BY DEF Tidy
<1> DEFINE a == x.row * VGA_COLS
<1>2. a \in Nat /\ m < VGA_COLS BY <1>1, OnScreen
<1> SUFFICES ASSUME NEW i \in Cells, i >= a + VGA_COLS PROVE x.cells[i] = Blank
  BY DEF Below
<1>3. i \in Int BY DEF Cells
<1>4. \A k \in Cells : k >= a + m => x.cells[k] = Blank BY <1>1
<1> HIDE DEF a
<1>5. i >= a + m BY <1>2, <1>3, VgaAssumption
<1> QED BY <1>4, <1>5

\* Writing a line behind the prompt.
LEMMA WriteLine ==
    ASSUME PlainText, NEW x, NEW s \in Text, Len(Prompt) + Len(s) < VGA_COLS,
           Tidy(x, Prompt, Len(Prompt))
    PROVE  Tidy(console_write(x, s), Prompt \o s, Len(Prompt) + Len(s))
<1> DEFINE z == Prompt \o s
           m == Len(Prompt)
           n == Len(s)
<1>0. s \in Seq(Glyph) /\ s \in Seq(Chars) /\ Prompt \in Seq(Glyph) BY TextPrints, PromptPrints
<1>1. /\ m \in Nat /\ n \in Nat /\ \A i \in 1 .. m : z[i] = Prompt[i]
      /\ \A i \in 1 .. n : z[m + i] = s[i]
  BY <1>0, ConcatIs
<1>2. x \in Screen BY DEF Tidy
<1>3. PICK r : Runs(r, x, s) /\ r[n] = console_write(x, s) BY <1>0, <1>2, WriteRuns
<1>4. r[0] = x BY <1>3 DEF Runs
<1>5. \A i \in 1 .. n : s[i] \notin Controls
  <2>1. \A i \in 1 .. n : s[i] \in Chars BY <1>0, ElementOfSeq
  <2> QED BY <2>1 DEF PlainText
<1> HIDE DEF z
<1>6. Tidy(r[0], z, m)
  <2>1. Tidy(x, Prompt, m) OBVIOUS
  <2> HIDE DEF m
  <2> QED BY <1>1, <1>4, <2>1, TidySame
<1>7. 0 \in 0 .. n /\ m + n - 0 = m + n /\ m + n - 0 < VGA_COLS BY <1>1
<1>8. \A k \in 0 + 1 .. n : s[k] \notin Controls /\ z[m + k - 0] = s[k]
  <2> SUFFICES ASSUME NEW k \in 0 + 1 .. n PROVE s[k] \notin Controls /\ z[m + k - 0] = s[k]
    OBVIOUS
  <2>1. k \in 1 .. n /\ m + k - 0 = m + k BY <1>1
  <2> QED BY <1>1, <1>5, <2>1
<1> HIDE DEF m
<1>9. Tidy(r[n], z, m + n - 0) BY <1>0, <1>1, <1>3, <1>6, <1>7, <1>8, RunsTidy
<1> QED BY <1>3, <1>7, <1>9 DEF z, m

\* A prompt at the beginning of a row.
LEMMA WritePrompt ==
    ASSUME PlainText, NEW r, NEW x, NEW w \in Seq(Glyph), Runs(r, x, w), NEW d \in 0 .. Len(w),
           Len(w) = d + Len(Prompt), \A i \in 1 .. Len(Prompt) : w[d + i] = Prompt[i],
           Tidy(r[d], Prompt, 0), Len(Prompt) < VGA_COLS
    PROVE  Tidy(r[Len(w)], Prompt, Len(Prompt))
<1> DEFINE n == Len(w)
           m == Len(Prompt)
<1>1. n \in Nat /\ m \in Nat /\ d \in Nat /\ n = d + m BY PromptPrints
<1>2. \A i \in 1 .. m : Prompt[i] \notin Controls BY PromptPrints DEF PlainText
<1>3. ASSUME NEW k \in d + 1 .. n PROVE w[k] \notin Controls /\ Prompt[0 + k - d] = w[k]
  <2> DEFINE i == k - d
  <2>1. i \in 1 .. m /\ k = d + i /\ 0 + k - d = i BY <1>1
  <2> HIDE DEF i
  <2> QED BY <1>2, <2>1
<1>4. 0 + n - d = m /\ 0 + n - d < VGA_COLS /\ 0 \in Nat BY <1>1
<1>5. Tidy(r[n], Prompt, 0 + n - d)
  <2> HIDE DEF m
  <2> QED BY <1>3, <1>4, RunsTidy
<1> QED BY <1>4, <1>5

LEMMA ShownInit == ASSUME PlainText PROVE Init /\ OneRow => SInv
<1> SUFFICES ASSUME Init, OneRow PROVE SInv OBVIOUS
<1> DEFINE x == vga_clear
<1>1. line = <<>> /\ scr = console_write(x, Prompt) BY DEF Init
<1>2. Prompt \in Seq(Glyph) /\ Len(Prompt) \in Nat /\ Prompt \o line = Prompt
      /\ Len(Prompt) + Len(line) = Len(Prompt)
  BY <1>1, PromptPrints
<1>3. x \in Screen BY VgaAssumption DEF vga_clear, Screen, Glyph
<1>4. Tidy(x, Prompt, 0)
  <2>1. x.col = 0 /\ \A i \in Cells : x.cells[i] = Blank BY DEF vga_clear
  <2> HIDE DEF x
  <2> QED BY <1>3, <2>1 DEF Tidy
<1> HIDE DEF x
<1>5. PICK r : Runs(r, x, Prompt) /\ r[Len(Prompt)] = console_write(x, Prompt)
  BY <1>2, <1>3, WriteRuns
<1>6. r[0] = x BY <1>5 DEF Runs
<1>7. Len(Prompt) < VGA_COLS BY <1>2 DEF OneRow
<1>8. Tidy(r[Len(Prompt)], Prompt, Len(Prompt))
  <2>1. 0 \in 0 .. Len(Prompt) /\ Len(Prompt) = 0 + Len(Prompt) BY <1>2
  <2>2. \A i \in 1 .. Len(Prompt) : Prompt[0 + i] = Prompt[i] OBVIOUS
  <2> QED BY <1>2, <1>4, <1>5, <1>6, <1>7, <2>1, <2>2, WritePrompt
<1>9. Tidy(scr, Prompt, Len(Prompt)) BY <1>1, <1>5, <1>8
<1> QED BY <1>2, <1>9, InitHolds DEF SInv
\* replace_line(): the old line goes, the new one comes.
LEMMA ShownReplace ==
    ASSUME PlainText, SInv, OneRow', NEW new \in Text, replace_line(new)
    PROVE  Tidy(scr', Prompt \o line', Len(Prompt) + Len(line'))
<1> DEFINE e == FoldLeft(Erase, scr, line)
           m == Len(Prompt)
<1>1. line' = new /\ scr' = console_write(e, new) BY DEF replace_line
<1>2. line \in Seq(Chars) /\ line \in Seq(Glyph) /\ Prompt \in Seq(Glyph) /\ m \in Nat
  BY TextPrints, PromptPrints DEF SInv, HInv, LinesFit
<1>3. Tidy(scr, Prompt \o line, m + Len(line)) BY DEF SInv
<1>4. Tidy(e, Prompt \o line, m) BY <1>2, <1>3, TidyErase
<1>5. Tidy(e, Prompt, m)
  <2>1. \A i \in 1 .. m : Prompt[i] = (Prompt \o line)[i] BY <1>2, ConcatIs
  <2> HIDE DEF e, m
  <2> QED BY <1>2, <1>4, <2>1, TidySame
<1>6. m + Len(new) < VGA_COLS BY <1>1 DEF OneRow
<1> HIDE DEF e
<1>7. Tidy(console_write(e, new), Prompt \o new, m + Len(new)) BY <1>5, <1>6, WriteLine
<1> QED BY <1>1, <1>7

\* A new prompt behind the output.
LEMMA ShownEnter ==
    ASSUME PlainText, SInv, OneRow', NEW out \in Outputs, Enter(out)
    PROVE  Tidy(scr', Prompt \o line', Len(Prompt) + Len(line'))
<1> DEFINE nl == "\n"
           o == IF line = <<>> THEN <<>> ELSE out
           v == <<nl>> \o o
           w == v \o Prompt
           d == Len(v)
<1>1. nl \in Glyph BY DEF Glyph
<1>2. scr' = console_write(scr, w) /\ line' = <<>> BY DEF Enter
<1>3. o \in Seq(Glyph) /\ Prompt \in Seq(Glyph)
  <2>1. out \in Seq(Glyph) BY PromptPrints
  <2>2. <<>> \in Seq(Glyph) OBVIOUS
  <2> QED BY <2>1, <2>2, PromptPrints
<1>4. o = <<>> \/ o[Len(o)] = nl BY DEF PlainText
<1>5. Len(Prompt) \in Nat /\ Prompt \o line' = Prompt /\ Len(Prompt) + Len(line') = Len(Prompt)
  BY <1>2, <1>3
<1> HIDE DEF nl, o
<1>6. <<nl>> \in Seq(Glyph) /\ Len(<<nl>>) = 1 /\ <<nl>>[1] = nl BY <1>1
<1>7. v \in Seq(Glyph) /\ d \in Nat /\ d # 0 /\ v[d] = nl
  <2> DEFINE u == <<nl>>
  <2>0. u \in Seq(Glyph) /\ Len(u) = 1 /\ u[1] = nl BY <1>6
  <2> HIDE DEF u
  <2>1. /\ u \o o \in Seq(Glyph) /\ Len(o) \in Nat /\ Len(u \o o) = 1 + Len(o)
        /\ \A i \in 1 .. 1 : (u \o o)[i] = u[i]
        /\ \A i \in 1 .. Len(o) : (u \o o)[1 + i] = o[i]
    <3>0. o \in Seq(Glyph) /\ u \in Seq(Glyph) BY <1>3, <2>0
    <3>1. u \o o \in Seq(Glyph) /\ Len(o) \in Nat /\ Len(u \o o) = Len(u) + Len(o)
      BY <3>0, ConcatIs
    <3>2. \A i \in 1 .. Len(u) : (u \o o)[i] = u[i] BY <3>0, ConcatIs
    <3>3. \A i \in 1 .. Len(o) : (u \o o)[Len(u) + i] = o[i] BY <3>0, ConcatIs
    <3> QED BY <2>0, <3>1, <3>2, <3>3
  <2>2. CASE o = <<>>
    <3>1. Len(o) = 0 BY <2>2
    <3>2. (u \o o)[1] = nl BY <2>0, <2>1
    <3> QED BY <2>1, <3>1, <3>2 DEF u
  <2>3. CASE o # <<>>
    <3>1. Len(o) \in 1 .. Len(o) BY <1>3, <2>1, <2>3, EmptySeq
    <3>2. (u \o o)[1 + Len(o)] = nl BY <1>4, <2>1, <2>3, <3>1
    <3> QED BY <2>1, <3>2 DEF u
  <2> QED BY <2>2, <2>3
<1> HIDE DEF v
<1>8. /\ w \in Seq(Glyph) /\ Len(w) = d + Len(Prompt)
      /\ \A i \in 1 .. d : w[i] = v[i]
      /\ \A i \in 1 .. Len(Prompt) : w[d + i] = Prompt[i]
  BY <1>3, <1>7, ConcatIs
<1> HIDE DEF w, d
<1>9. scr \in Screen /\ Below(scr)
  <2>1. Tidy(scr, Prompt \o line, Len(Prompt) + Len(line)) BY DEF SInv
  <2>2. Len(Prompt) + Len(line) \in Nat BY <1>5 DEF SInv, HInv, LinesFit, Text
  <2>3. scr \in Screen BY <2>1 DEF Tidy
  <2> QED BY <2>1, <2>2, <2>3, TidyBelow
<1>10. PICK r : Runs(r, scr, w) /\ r[Len(w)] = console_write(scr, w)
  BY <1>8, <1>9, WriteRuns
<1>11. Tidy(r[d], Prompt, 0)
  <2>1. d \in 1 .. Len(w) /\ d \in 1 .. d /\ d - 1 \in 0 .. Len(w) BY <1>5, <1>7, <1>8
  <2>2. r[d] = vga_putc(r[d - 1], w[d]) /\ r[d - 1] \in Screen BY <1>10, <2>1 DEF Runs
  <2>3. w[d] = "\n" BY <1>7, <1>8, <2>1 DEF nl
  <2>4. Below(r[d - 1]) BY <1>8, <1>9, <1>10, <2>1, RunsBelow
  <2> QED BY <2>2, <2>3, <2>4, NewLine
<1>12. Len(Prompt) < VGA_COLS BY <1>5 DEF OneRow
<1>13. Tidy(r[Len(w)], Prompt, Len(Prompt))
  <2>1. d \in 0 .. Len(w) BY <1>5, <1>7, <1>8
  <2> QED BY <1>8, <1>10, <1>11, <1>12, <2>1, WritePrompt
<1> QED BY <1>2, <1>5, <1>10, <1>13

LEMMA ShownStep ==
    ASSUME PlainText, SInv, OneRow', [Next]_vars
    PROVE  SInv'
<1> DEFINE Goal == Tidy(scr', Prompt \o line', Len(Prompt) + Len(line'))
           m == Len(Prompt)
           n == Len(line)
<1>0. /\ HInv /\ line \in Text /\ browse \in 0 .. shell_history_count
      /\ Tidy(scr, Prompt \o line, m + n)
  BY DEF SInv, HInv, LinesFit
<1>1. SUFFICES Goal BY <1>0, StepHolds DEF SInv
<1>2. /\ line \in Seq(Chars) /\ line \in Seq(Glyph) /\ Prompt \in Seq(Glyph)
      /\ m \in Nat /\ n \in Nat
  BY <1>0, TextPrints, PromptPrints
<1>3. ASSUME UNCHANGED <<line, scr>> PROVE Goal BY <1>0, <1>3
<1>4. ASSUME NEW out \in Outputs, Enter(out) PROVE Goal BY <1>4, ShownEnter
<1>5. CASE Backspace
  <2>1. CASE line = <<>> BY <1>3, <1>5, <2>1 DEF Backspace
  <2>2. CASE line # <<>>
    <3> DEFINE l == SubSeq(line, 1, n - 1)
    <3>1. line' = l /\ scr' = Erase(scr, 0) /\ n # 0
      BY <1>2, <1>5, <2>2, EmptySeq DEF Backspace, Erase
    <3>2. l \in Seq(Glyph) /\ Len(l) = n - 1 /\ \A i \in 1 .. n - 1 : l[i] = line[i]
      <4> DEFINE k == n - 1
      <4>1. k \in Nat /\ k <= n BY <1>2, <3>1
      <4>2. \A i \in 1 .. k : line[i] \in Glyph BY <1>2, <4>1, ElementOfSeq
      <4> HIDE DEF k
      <4>3. SubSeq(line, 1, k) \in Seq(Glyph) BY <4>1, <4>2, SubSeqProperties
      <4>4. Len(SubSeq(line, 1, k)) = k BY <4>1, <4>2, SubSeqProperties
      <4>5. \A i \in 1 .. k : SubSeq(line, 1, k)[i] = line[i] BY <4>1
      <4> QED BY <4>3, <4>4, <4>5 DEF k
    <3>3. m + n \in Nat /\ m + n # 0 /\ m + n - 1 \in Nat /\ m + (n - 1) = m + n - 1 BY <1>2, <3>1
    <3>4. Tidy(scr', Prompt \o line, m + n - 1)
      <4> DEFINE k == m + n
      <4>1. k \in Nat /\ k # 0 /\ Tidy(scr, Prompt \o line, k) BY <1>0, <3>3
      <4> HIDE DEF k
      <4>2. Tidy(Erase(scr, 0), Prompt \o line, k - 1) BY <4>1, TidyRubout
      <4> QED BY <3>1, <4>2 DEF k
    <3>5. \A i \in 1 .. m + n - 1 : (Prompt \o l)[i] = (Prompt \o line)[i]
      <4> HIDE DEF l
      <4>1. \A i \in 1 .. m : (Prompt \o l)[i] = Prompt[i] /\ (Prompt \o line)[i] = Prompt[i]
        BY <1>2, <3>2, ConcatIs
      <4>2. ASSUME NEW i \in 1 .. n - 1 PROVE (Prompt \o l)[m + i] = (Prompt \o line)[m + i]
        <5>1. i \in 1 .. Len(l) /\ i \in 1 .. n BY <1>2, <3>2
        <5>2. (Prompt \o l)[m + i] = l[i] BY <1>2, <3>2, <5>1, ConcatIs
        <5>3. (Prompt \o line)[m + i] = line[i] BY <1>2, <5>1, ConcatIs
        <5> QED BY <3>2, <5>2, <5>3
      <4> SUFFICES ASSUME NEW i \in 1 .. m + n - 1, ~(i \in 1 .. m)
                   PROVE  (Prompt \o l)[i] = (Prompt \o line)[i]
        BY <4>1
      <4> DEFINE j == i - m
      <4>3. j \in 1 .. n - 1 /\ i = m + j BY <1>2
      <4> HIDE DEF j, m, n
      <4> QED BY <4>2, <4>3
    <3>6. Tidy(scr', Prompt \o l, m + n - 1)
      <4> HIDE DEF l, m, n
      <4> QED BY <3>3, <3>4, <3>5, TidySame
    <3>7. m + Len(line') = m + n - 1 BY <3>1, <3>2, <3>3
    <3> QED BY <3>1, <3>6, <3>7
  <2> QED BY <2>1, <2>2
<1>6. CASE KeyUp
  <2>1. CASE browse = 0 BY <1>3, <1>6, <2>1 DEF KeyUp
  <2>2. CASE browse # 0
    <3>1. browse - 1 \in 0 .. shell_history_count - 1 BY <1>0, <2>2, CountIs
    <3>2. shell_history(browse - 1) \in Text BY <1>0, <3>1, Recalled
    <3>3. replace_line(shell_history(browse - 1)) BY <1>6, <2>2 DEF KeyUp
    <3> QED BY <3>2, <3>3, ShownReplace
  <2> QED BY <2>1, <2>2
<1>7. CASE KeyDown
  <2> DEFINE b == browse + 1
             x == IF b = shell_history_count THEN <<>> ELSE shell_history(b)
  <2>1. CASE browse = shell_history_count BY <1>3, <1>7, <2>1 DEF KeyDown
  <2>2. CASE browse # shell_history_count
    <3>1. b # shell_history_count => b \in 0 .. shell_history_count - 1 BY <1>0, <2>2, CountIs
    <3>2. replace_line(x) BY <1>7, <2>2 DEF KeyDown
    <3>3. x \in Text
      <4>1. b # shell_history_count => shell_history(b) \in Text
        <5> HIDE DEF b
        <5> QED BY <1>0, <3>1, Recalled
      <4> HIDE DEF b
      <4> QED BY <4>1, EmptyText
    <3> HIDE DEF x
    <3> QED BY <3>2, <3>3, ShownReplace
  <2> QED BY <2>1, <2>2
<1>8. ASSUME NEW c \in Chars, TypeChar(c) PROVE Goal
  <2>1. CASE ~RoomLeft BY <1>3, <1>8, <2>1 DEF TypeChar
  <2>2. CASE RoomLeft
    <3> DEFINE l == Append(line, c)
    <3>1. line' = l /\ scr' = vga_putc(scr, c) BY <1>8, <2>2 DEF TypeChar
    <3>2. l \in Seq(Glyph) /\ Len(l) = n + 1 /\ l[n + 1] = c /\ \A i \in 1 .. n : l[i] = line[i]
      <4>1. c \in Glyph BY EditorAssumption DEF Glyph
      <4> QED BY <1>2, <4>1, AppendProperties
    <3>3. c \in Glyph \ Controls
      <4>1. c \in Glyph BY EditorAssumption DEF Glyph
      <4> QED BY <4>1 DEF PlainText
    <3>4. m + n \in Nat /\ m + n + 1 < VGA_COLS /\ m + Len(line') = m + n + 1
      <4>1. m + Len(line') < VGA_COLS BY DEF OneRow
      <4> QED BY <1>2, <3>1, <3>2, <4>1
    <3> HIDE DEF l
    <3>5. (Prompt \o l)[m + n + 1] = c
      <4>1. n + 1 \in 1 .. Len(l) /\ m + (n + 1) = m + n + 1 BY <1>2, <3>2
      <4>2. (Prompt \o l)[m + (n + 1)] = l[n + 1] BY <1>2, <3>2, <4>1, ConcatIs
      <4> QED BY <3>2, <4>1, <4>2
    <3>6. \A i \in 1 .. m + n : (Prompt \o l)[i] = (Prompt \o line)[i]
      <4>1. \A i \in 1 .. m : (Prompt \o l)[i] = Prompt[i] /\ (Prompt \o line)[i] = Prompt[i]
        BY <1>2, <3>2, ConcatIs
      <4>2. ASSUME NEW i \in 1 .. n PROVE (Prompt \o l)[m + i] = (Prompt \o line)[m + i]
        <5>1. i \in 1 .. Len(l) /\ i \in 1 .. n BY <1>2, <3>2
        <5>2. (Prompt \o l)[m + i] = l[i] BY <1>2, <3>2, <5>1, ConcatIs
        <5>3. (Prompt \o line)[m + i] = line[i] BY <1>2, <5>1, ConcatIs
        <5> QED BY <3>2, <5>2, <5>3
      <4> SUFFICES ASSUME NEW i \in 1 .. m + n, ~(i \in 1 .. m)
                   PROVE  (Prompt \o l)[i] = (Prompt \o line)[i]
        BY <4>1
      <4> DEFINE j == i - m
      <4>3. j \in 1 .. n /\ i = m + j BY <1>2
      <4> HIDE DEF j, m, n
      <4> QED BY <4>2, <4>3
    <3> DEFINE k == m + n
    <3>7. Tidy(scr, Prompt \o l, k)
      <4>1. Tidy(scr, Prompt \o line, k) /\ k \in Nat BY <1>0, <3>4
      <4>2. \A i \in 1 .. k : (Prompt \o l)[i] = (Prompt \o line)[i] BY <3>6
      <4> HIDE DEF k
      <4> QED BY <4>1, <4>2, TidySame
    <3>8. Tidy(scr', Prompt \o l, k + 1)
      <4>1. k \in Nat /\ k + 1 < VGA_COLS /\ (Prompt \o l)[k + 1] = c BY <3>4, <3>5
      <4> HIDE DEF k
      <4> QED BY <3>1, <3>3, <3>7, <4>1, TidyPut
    <3> QED BY <3>1, <3>4, <3>8
  <2> QED BY <2>1, <2>2
<1>9. CASE UNCHANGED vars BY <1>3, <1>9 DEF vars
<1> QED BY <1>4, <1>5, <1>6, <1>7, <1>8, <1>9 DEF Next

LEMMA TidyShows ==
    ASSUME SInv
    PROVE  ScreenShowsLine
<1> DEFINE z == Prompt \o line
           m == Len(Prompt) + Len(line)
           a == scr.row * VGA_COLS
<1>0. line \in Seq(Glyph) /\ Prompt \in Seq(Glyph) BY TextPrints, PromptPrints DEF SInv, HInv, LinesFit
<1>1. Len(z) = m /\ m \in Nat BY <1>0, ConcatIs
<1>2. /\ scr \in Screen /\ scr.col = m /\ \A i \in 1 .. m : scr.cells[a + i - 1] = z[i]
      /\ \A i \in Cells : i >= a + m => scr.cells[i] = Blank
  BY DEF SInv, Tidy
<1>3. a \in Nat /\ Cursor(scr) = a + m BY <1>2, OnScreen
<1> HIDE DEF z, m, a
<1>4. a + m >= m BY <1>1, <1>3
<1>5. ASSUME NEW i \in 1 .. m PROVE scr.cells[a + m - m + i - 1] = z[i]
  <2>1. a + m - m + i - 1 = a + i - 1 BY <1>1, <1>3
  <2> QED BY <1>2, <2>1
<1>6. Shows(scr, z) BY <1>1, <1>2, <1>3, <1>4, <1>5 DEF Shows
<1> QED BY <1>6 DEF ScreenShowsLine, z

\* After every edit the screen ends with the prompt and the line, nothing
\* behind them and the cursor at their end, for every size of the screen and
\* whatever is typed, recalled and printed, as long as prompt and line fit a
\* row: vga_putc() does not go back beyond the beginning of a row.
THEOREM LineIsShown ==
    ASSUME PlainText
    PROVE  Spec /\ []OneRow => []ScreenShowsLine
<1>1. Init /\ OneRow => SInv BY ShownInit
<1>2. SInv /\ OneRow' /\ [Next]_vars => SInv' BY ShownStep
<1>3. SInv => ScreenShowsLine BY TidyShows
<1> QED BY <1>1, <1>2, <1>3, PTL DEF Spec

-----------------------------------------------------------------------------
(* How a line is made of its words.                                         *)

\* What can be typed (that a literal is a string is not known to the provers).
Char == (STRING \cup {SP, QT}) \ {NUL}
Typing == Seq([word : Seq(Char), quoted : BOOLEAN])

Gap(i) == IF i > 1 THEN 1 ELSE 0
Quote(list, i) == IF list[i].quoted THEN 1 ELSE 0

\* The i-th word with what is around it.
Piece(list, i) ==
    (IF i > 1 THEN <<SP>> ELSE <<>>)
    \o (IF list[i].quoted THEN <<QT>> \o list[i].word \o <<QT>> ELSE list[i].word)

LEMMA PieceIs ==
    ASSUME NEW list \in Typing, NEW i \in 1 .. Len(list)
    PROVE  LET w == list[i].word
               q == Piece(list, i)
               b == Gap(i) + Quote(list, i)
           IN  /\ w \in Seq(Char) /\ Len(w) \in Nat /\ list[i].quoted \in BOOLEAN
               /\ q \in Seq(Char) /\ Len(q) = b + Len(w) + Quote(list, i)
               /\ \A j \in 1 .. Len(w) : q[b + j] = w[j]
               /\ i > 1 => q[1] = SP
               /\ list[i].quoted => q[b] = QT /\ q[Len(q)] = QT
<1> DEFINE w == list[i].word
           v == IF list[i].quoted THEN <<QT>> \o w \o <<QT>> ELSE w
           u == IF i > 1 THEN <<SP>> ELSE <<>>
           q == Piece(list, i)
<1>1. w \in Seq(Char) /\ Len(w) \in Nat /\ list[i].quoted \in BOOLEAN
  <2>1. list[i] \in [word : Seq(Char), quoted : BOOLEAN] BY ElementOfSeq DEF Typing
  <2> QED BY <2>1
<1>2. QT \in Char /\ SP \in Char BY DEF QT, SP, NUL, Char
<1>3. u \in Seq(Char) /\ Len(u) = Gap(i) /\ (i > 1 => u[1] = SP) BY <1>2 DEF Gap
<1>4. /\ v \in Seq(Char) /\ Len(v) = Len(w) + 2 * Quote(list, i)
      /\ \A j \in 1 .. Len(w) : v[Quote(list, i) + j] = w[j]
      /\ list[i].quoted => v[1] = QT /\ v[Len(v)] = QT
  <2> HIDE DEF w
  <2>1. CASE list[i].quoted
    <3> DEFINE x == <<QT>> \o w
    <3>1. x \in Seq(Char) /\ Len(x) = Len(w) + 1 /\ x[1] = QT /\ \A j \in 1 .. Len(w) : x[1 + j] = w[j]
      BY <1>1, <1>2
    <3> HIDE DEF x
    <3>2. /\ x \o <<QT>> \in Seq(Char) /\ Len(x \o <<QT>>) = Len(w) + 2 /\ (x \o <<QT>>)[1] = QT
          /\ (x \o <<QT>>)[Len(w) + 2] = QT /\ \A j \in 1 .. Len(w) : (x \o <<QT>>)[1 + j] = x[1 + j]
      BY <1>1, <1>2, <3>1
    <3>3. v = x \o <<QT>> /\ Quote(list, i) = 1 BY <2>1 DEF x, Quote
    <3> HIDE DEF v
    <3> QED BY <1>1, <3>1, <3>2, <3>3
  <2>2. CASE ~list[i].quoted
    <3>1. v = w /\ Quote(list, i) = 0 BY <2>2 DEF Quote
    <3> HIDE DEF v
    <3> QED BY <1>1, <2>2, <3>1
  <2> QED BY <2>1, <2>2
<1>5. q = u \o v BY DEF Piece
<1>6. Gap(i) \in {0, 1} /\ Quote(list, i) \in {0, 1} BY DEF Gap, Quote
<1>7. list[i].quoted => Quote(list, i) = 1 BY DEF Quote
<1>8. i > 1 => Gap(i) = 1 BY DEF Gap
<1> HIDE DEF u, v, w, q
<1>9. /\ q \in Seq(Char) /\ Len(q) = Len(u) + Len(v)
      /\ \A j \in 1 .. Len(u) : q[j] = u[j]
      /\ \A j \in 1 .. Len(v) : q[Len(u) + j] = v[j]
  <2>1. u \in Seq(Char) /\ v \in Seq(Char) BY <1>3, <1>4
  <2>2. u \o v \in Seq(Char) /\ Len(u \o v) = Len(u) + Len(v) BY <2>1
  <2>3. \A j \in 1 .. Len(u) : (u \o v)[j] = u[j] BY <2>1
  <2>4. \A j \in 1 .. Len(v) : (u \o v)[Len(u) + j] = v[j] BY <2>1
  <2> QED BY <1>5, <2>2, <2>3, <2>4
<1>10. Len(q) = Gap(i) + Quote(list, i) + Len(w) + Quote(list, i) BY <1>1, <1>3, <1>4, <1>6, <1>9
<1>11. ASSUME NEW j \in 1 .. Len(w) PROVE q[Gap(i) + Quote(list, i) + j] = w[j]
  <2>1. Quote(list, i) + j \in 1 .. Len(v) BY <1>1, <1>4, <1>6
  <2>2. q[Len(u) + (Quote(list, i) + j)] = v[Quote(list, i) + j] BY <1>9, <2>1
  <2>3. Len(u) + (Quote(list, i) + j) = Gap(i) + Quote(list, i) + j BY <1>3, <1>6
  <2> QED BY <1>4, <2>2, <2>3
<1>12. i > 1 => q[1] = SP
  <2> SUFFICES ASSUME i > 1 PROVE q[1] = SP OBVIOUS
  <2>1. 1 \in 1 .. Len(u) BY <1>3, <1>8
  <2> QED BY <1>3, <1>9, <2>1
<1>13. list[i].quoted => q[Gap(i) + Quote(list, i)] = QT /\ q[Len(q)] = QT
  <2> SUFFICES ASSUME list[i].quoted PROVE q[Gap(i) + 1] = QT /\ q[Len(q)] = QT BY <1>7
  <2>1. 1 \in 1 .. Len(v) /\ Len(v) \in 1 .. Len(v) BY <1>1, <1>4, <1>7
  <2>2. q[Len(u) + 1] = v[1] /\ q[Len(u) + Len(v)] = v[Len(v)] BY <1>9, <2>1
  <2> QED BY <1>3, <1>4, <1>9, <2>2
<1> QED BY <1>1, <1>9, <1>10, <1>11, <1>12, <1>13 DEF w, q

\* e[i] is where the i-th word of the list ends in the line r.
Base(e, list, i) == e[i - 1] + Gap(i) + Quote(list, i)

Layout(e, list, r) ==
    /\ e \in [0 .. Len(list) -> Nat] /\ e[0] = 0
    /\ r \in Seq(Char) /\ Len(r) = e[Len(list)]
    /\ \A i \in 1 .. Len(list) :
          LET b == Base(e, list, i)
              w == list[i].word
          IN  /\ e[i] = b + Len(w) + Quote(list, i)
              /\ \A j \in 1 .. Len(w) : r[b + j] = w[j]
              /\ i > 1 => r[e[i - 1] + 1] = SP
              /\ list[i].quoted => r[b] = QT /\ r[e[i]] = QT

LEMMA RenderIs ==
    ASSUME NEW list \in Typing, list # <<>>
    PROVE  \E e : Layout(e, list, Render(list))
<1> DEFINE n == Len(list)
           ss == [i \in 1 .. n |-> Piece(list, i)]
           r == Render(list)
<1>1. n \in Nat \ {0} /\ DOMAIN list = 1 .. n BY DEF Typing
<1>2. ss \in Seq(Seq(Char)) /\ ss # <<>> /\ Len(ss) = n /\ \A i \in 1 .. n : ss[i] = Piece(list, i)
  <2>1. \A i \in 1 .. n : Piece(list, i) \in Seq(Char) BY PieceIs
  <2> QED BY <1>1, <2>1
<1>3. r = FlattenSeq(ss) BY <1>1 DEF Render, Piece
<1> HIDE DEF ss, r
<1>4. PICK e : r \in Seq(Char) /\ Laid(e, ss, r) BY <1>2, <1>3, FlattenLaid
<1>5. e \in [0 .. n -> Nat] /\ e[0] = 0 /\ Len(r) = e[n]
  BY <1>2, <1>4 DEF Laid
<1>6. \A i \in 1 .. n : e[i] = e[i - 1] + Len(ss[i]) /\ \A x \in 1 .. Len(ss[i]) : r[e[i - 1] + x] = ss[i][x]
  BY <1>2, <1>4 DEF Laid
<1>9. ASSUME NEW i \in 1 .. n
      PROVE  LET b == Base(e, list, i)
                 w == list[i].word
             IN  /\ e[i] = b + Len(w) + Quote(list, i)
                 /\ \A j \in 1 .. Len(w) : r[b + j] = w[j]
                 /\ i > 1 => r[e[i - 1] + 1] = SP
                 /\ list[i].quoted => r[b] = QT /\ r[e[i]] = QT
  <2> DEFINE w == list[i].word
             q == ss[i]
             o == Gap(i) + Quote(list, i)
  <2>1. /\ Len(w) \in Nat /\ q \in Seq(Char) /\ Len(q) = o + Len(w) + Quote(list, i)
        /\ \A j \in 1 .. Len(w) : q[o + j] = w[j]
        /\ i > 1 => q[1] = SP
        /\ list[i].quoted => q[o] = QT /\ q[Len(q)] = QT
    BY <1>2, PieceIs
  <2>2. Gap(i) \in {0, 1} /\ Quote(list, i) \in {0, 1} /\ (list[i].quoted => Quote(list, i) = 1)
        /\ (i > 1 => Gap(i) = 1)
    BY DEF Gap, Quote
  <2> HIDE DEF w, q
  <2>3. i - 1 \in 0 .. n /\ i \in 0 .. n BY <1>1
  <2>4. e[i - 1] \in Nat /\ e[i] \in Nat BY <1>5, <2>3
  <2>5. e[i] = e[i - 1] + Len(q) BY <1>6 DEF q
  <2>6. ASSUME NEW x \in 1 .. Len(q) PROVE r[e[i - 1] + x] = q[x] BY <1>6 DEF q
  <2>7. Base(e, list, i) = e[i - 1] + o BY <2>2, <2>4 DEF Base
  <2>8. e[i] = Base(e, list, i) + Len(w) + Quote(list, i) BY <2>1, <2>2, <2>4, <2>5, <2>7
  <2>9. ASSUME NEW j \in 1 .. Len(w) PROVE r[Base(e, list, i) + j] = w[j]
    <3>1. o + j \in 1 .. Len(q) BY <2>1, <2>2
    <3>2. Base(e, list, i) + j = e[i - 1] + (o + j) BY <2>2, <2>4, <2>7
    <3> QED BY <2>1, <2>6, <3>1, <3>2
  <2>10. ASSUME i > 1 PROVE r[e[i - 1] + 1] = SP
    <3>1. 1 \in 1 .. Len(q) BY <2>1, <2>2, <2>10
    <3> QED BY <2>1, <2>6, <2>10, <3>1
  <2>11. ASSUME list[i].quoted PROVE r[Base(e, list, i)] = QT /\ r[e[i]] = QT
    <3>0. Quote(list, i) = 1 BY <2>2, <2>11
    <3>1. o \in 1 .. Len(q) /\ Len(q) \in 1 .. Len(q) BY <2>1, <2>2, <3>0
    <3> QED BY <2>1, <2>5, <2>6, <2>7, <2>11, <3>1
  <2> QED BY <2>8, <2>9, <2>10, <2>11 DEF w
<1> QED BY <1>4, <1>5, <1>9 DEF Layout, r

\* Words do not overlap.
LEMMA LayoutGrows ==
    ASSUME NEW list \in Typing, NEW e, NEW r, Layout(e, list, r),
           NEW k \in 0 .. Len(list), NEW i \in 0 .. k
    PROVE  e[i] \in Nat /\ e[k] \in Nat /\ e[i] <= e[k]
<1> DEFINE n == Len(list)
<1>1. n \in Nat /\ e \in [0 .. n -> Nat] BY DEF Layout, Typing
<1>2. ASSUME NEW m \in 1 .. n PROVE e[m - 1] <= e[m]
  <2>1. Len(list[m].word) \in Nat BY PieceIs
  <2>2. m - 1 \in 0 .. n /\ m \in 0 .. n BY <1>1
  <2>3. e[m - 1] \in Nat BY <1>1, <2>2
  <2>4. e[m] = e[m - 1] + Gap(m) + Quote(list, m) + Len(list[m].word) + Quote(list, m)
    BY DEF Layout, Base
  <2>5. Gap(m) \in {0, 1} /\ Quote(list, m) \in {0, 1} BY DEF Gap, Quote
  <2> QED BY <2>1, <2>3, <2>4, <2>5
<1> DEFINE P == {m \in i .. k : e[i] <= e[m]}
<1>3. i \in 0 .. n /\ k \in 0 .. n /\ i \in Nat /\ k \in Nat BY <1>1
<1>4. i \in P BY <1>1, <1>3
<1>5. ASSUME NEW m \in i .. k - 1, m \in P PROVE m + 1 \in P
  <2>1. m + 1 \in 1 .. n /\ (m + 1) - 1 = m /\ m + 1 \in i .. k /\ m \in 0 .. n BY <1>3
  <2>2. e[m] <= e[m + 1] BY <1>2, <2>1
  <2>3. e[i] \in Nat /\ e[m] \in Nat /\ e[m + 1] \in Nat BY <1>1, <1>3, <2>1
  <2> QED BY <1>5, <2>1, <2>2, <2>3
<1> HIDE DEF P
<1>6. \A m \in i .. k : m \in P BY <1>3, <1>4, <1>5, RangeInduction
<1>7. k \in i .. k BY <1>3
<1> QED BY <1>1, <1>3, <1>6, <1>7 DEF P

-----------------------------------------------------------------------------
(* Positions in the line.                                                   *)

LEMMA FirstFrom ==
    ASSUME NEW i \in Nat, NEW m \in Nat, i <= m, NEW S, m \in S
    PROVE  \E j \in i .. m : j \in S /\ \A k \in i .. j - 1 : k \notin S
<1> DEFINE D == {k \in i .. m : k \in S}
<1>1. D \in SUBSET Nat /\ D # {} OBVIOUS
<1>2. PICK j \in D : \A k \in D : j <= k
  <2> HIDE DEF D
  <2> QED BY <1>1, LeastExists
<1>3. ASSUME NEW k \in i .. j - 1, k \in S PROVE FALSE
  <2>1. k \in D BY <1>3
  <2>2. j <= k BY <1>2, <2>1
  <2> QED BY <2>2
<1> QED BY <1>3

Terminated == text # <<>> /\ text \in Seq(Char \cup {NUL}) /\ text[Len(text)] = NUL

LEMMA FindIs ==
    ASSUME Terminated, NEW i \in 1 .. Len(text), NEW cs, NUL \in cs
    PROVE  LET j == Find(i, cs) IN
           /\ j \in i .. Len(text) /\ text[j] \in cs /\ \A k \in i .. j - 1 : text[k] \notin cs
<1> DEFINE S == {k \in 1 .. Len(text) : text[k] \in cs}
           n == Len(text)
<1>1. i \in Nat /\ n \in Nat /\ i <= n /\ n \in S BY DEF Terminated
<1>2. \E j \in i .. n : j \in S /\ \A k \in i .. j - 1 : k \notin S
  <2> HIDE DEF S, n
  <2> QED BY <1>1, FirstFrom
<1>3. PICK j \in i .. n : j \in S /\ \A k \in i .. j - 1 : k \notin S BY <1>2
<1>4. \A k \in i .. j - 1 : k \in 1 .. n BY <1>1
<1>5. text[j] \in cs /\ \A k \in i .. j - 1 : text[k] \notin cs BY <1>3, <1>4
<1> HIDE DEF S
<1> QED BY <1>5 DEF Find

LEMMA FindAt ==
    ASSUME Terminated, NEW i \in 1 .. Len(text), NEW cs, NUL \in cs,
           NEW j \in i .. Len(text), text[j] \in cs, \A k \in i .. j - 1 : text[k] \notin cs
    PROVE  Find(i, cs) = j
<1> DEFINE f == Find(i, cs)
<1>1. f \in i .. Len(text) /\ text[f] \in cs /\ \A k \in i .. f - 1 : text[k] \notin cs BY FindIs
<1>2. Len(text) \in Nat BY DEF Terminated
<1> HIDE DEF f
<1>3. ~(f < j) BY <1>1, <1>2
<1>4. ~(j < f) BY <1>1, <1>2
<1>5. f = j BY <1>1, <1>2, <1>3, <1>4
<1> QED BY <1>5 DEF f

LEMMA NextCharIs ==
    ASSUME Terminated, p \in 1 .. Len(text)
    PROVE  /\ NextChar \in p .. Len(text) /\ text[NextChar] # SP
           /\ \A k \in p .. NextChar - 1 : text[k] = SP
<1> DEFINE S == {k \in 1 .. Len(text) : text[k] # SP}
           n == Len(text)
<1>0. NUL # SP BY DEF NUL, SP
<1>1. p \in Nat /\ n \in Nat /\ p <= n /\ n \in S BY <1>0 DEF Terminated
<1>2. \E j \in p .. n : j \in S /\ \A k \in p .. j - 1 : k \notin S
  <2> HIDE DEF S, n
  <2> QED BY <1>1, FirstFrom
<1>3. PICK j \in p .. n : j \in S /\ \A k \in p .. j - 1 : k \notin S BY <1>2
<1>4. \A k \in p .. j - 1 : k \in 1 .. n BY <1>1
<1>5. text[j] # SP /\ \A k \in p .. j - 1 : text[k] = SP BY <1>3, <1>4
<1> HIDE DEF S
<1> QED BY <1>5 DEF NextChar

LEMMA NextCharAt ==
    ASSUME Terminated, p \in 1 .. Len(text), NEW j \in p .. Len(text), text[j] # SP,
           \A k \in p .. j - 1 : text[k] = SP
    PROVE  NextChar = j
<1> DEFINE f == NextChar
<1>1. f \in p .. Len(text) /\ text[f] # SP /\ \A k \in p .. f - 1 : text[k] = SP BY NextCharIs
<1>2. Len(text) \in Nat BY DEF Terminated
<1> HIDE DEF f
<1>3. ~(f < j) BY <1>1, <1>2
<1>4. ~(j < f) BY <1>1, <1>2
<1>5. f = j BY <1>1, <1>2, <1>3, <1>4
<1> QED BY <1>5 DEF f

-----------------------------------------------------------------------------
(* tokenize() on a line of words.                                           *)

\* A word that can be typed.
Typeable(w, quoted) ==
    IF quoted THEN \A j \in 1 .. Len(w) : w[j] # QT
    ELSE w # <<>> /\ w[1] # QT /\ \A j \in 1 .. Len(w) : w[j] # SP

LEMMA TypedIs ==
    ASSUME NEW list \in Typed
    PROVE  list \in Typing /\ \A i \in 1 .. Len(list) : Typeable(list[i].word, list[i].quoted)
<1> DEFINE A == STRING \ {NUL}
           R == [word : Seq(A), quoted : BOOLEAN]
           Q == [word : Seq(Char), quoted : BOOLEAN]
<1>1. list \in Seq(R) BY LineAssumption
<1>2. A \subseteq Char BY DEF Char
<1>3. R \subseteq Q
  <2> SUFFICES ASSUME NEW x \in R PROVE x \in Q OBVIOUS
  <2>1. x.word \in Seq(A) OBVIOUS
  <2> HIDE DEF A
  <2>2. x.word \in Seq(Char) BY <1>2, <2>1, SeqGrows
  <2> QED BY <2>2
<1> HIDE DEF R
<1>4. list \in Seq(Q)
  <2> HIDE DEF Q
  <2> QED BY <1>1, <1>3, SeqGrows
<1>5. list \in Typing BY <1>4 DEF Typing
<1>6. ASSUME NEW i \in 1 .. Len(list) PROVE Typeable(list[i].word, list[i].quoted)
  <2>1. i \in DOMAIN list BY <1>1
  <2>2. list[i].word \in Seq(Char) BY <1>5, PieceIs
  <2>3. DOMAIN list[i].word = 1 .. Len(list[i].word) BY <2>2
  <2> QED BY <2>1, <2>3, WordAssumption DEF Typeable
<1> QED BY <1>5, <1>6

\* The i-th word was found and ends in a NUL.
Cut(e, i) ==
    LET b == Base(e, typed, i)
        w == typed[i].word
    IN  /\ argv[i] = b + 1
        /\ \A j \in 1 .. Len(w) : text[b + j] = w[j]
        /\ text[b + Len(w) + 1] = NUL

\* tokenize() has found the first words and the rest of the line is as it was.
Scanned(e) ==
    LET n == Len(typed)
        k == Len(argv)
        r == Render(typed)
    IN  /\ Layout(e, typed, r)
        /\ k <= n /\ Len(text) = e[n] + 1
        /\ p = e[k] + 1 \/ (k \in 1 .. n - 1 /\ p = e[k] + 2)
        /\ \A j \in p .. e[n] : text[j] = r[j]
        /\ \A i \in 1 .. k : Cut(e, i)

\* What holds of the word that is next.
LEMMA WordAhead ==
    ASSUME typed \in Typed, Terminated, argv \in Seq(1 .. Len(text)),
           NEW e, Scanned(e), Len(argv) < Len(typed)
    PROVE  LET i == Len(argv) + 1
               w == typed[i].word
               q == typed[i].quoted
               b == Base(e, typed, i)
               s == e[i - 1] + Gap(i) + 1
           IN  /\ i \in 1 .. Len(typed) /\ i - 1 = Len(argv)
               /\ w \in Seq(Char) /\ Len(w) \in Nat /\ q \in BOOLEAN /\ Typeable(w, q)
               /\ e[i - 1] \in Nat /\ e[i] \in Nat /\ e[Len(typed)] \in Nat /\ e[i] <= e[Len(typed)]
               /\ Gap(i) \in {0, 1} /\ (i > 1 <=> Gap(i) = 1)
               /\ b \in Nat /\ p \in {s - 1, s} /\ (i = 1 => p = s) /\ p \in Nat
               /\ q => b = s /\ e[i] = b + Len(w) + 1
               /\ ~q => b + 1 = s /\ e[i] = b + Len(w) /\ Len(w) > 0
               /\ \A j \in 1 .. Len(w) : text[b + j] = w[j] /\ w[j] # NUL
               /\ q => text[b] = QT /\ text[e[i]] = QT
               /\ p < s => text[p] = SP
<1> DEFINE i == Len(argv) + 1
           n == Len(typed)
           w == typed[i].word
           q == typed[i].quoted
           b == Base(e, typed, i)
           s == e[i - 1] + Gap(i) + 1
           r == Render(typed)
<1>1. typed \in Typing /\ \A m \in 1 .. n : Typeable(typed[m].word, typed[m].quoted) BY TypedIs
<1>2. n \in Nat /\ Len(argv) \in Nat BY <1>1 DEF Typing
<1>3. i \in 1 .. n /\ i - 1 = Len(argv) /\ i - 1 \in 0 .. n /\ i \in 0 .. n /\ n \in 0 .. n BY <1>2
<1>4. Layout(e, typed, r) BY DEF Scanned
<1>5. w \in Seq(Char) /\ Len(w) \in Nat /\ q \in BOOLEAN /\ Typeable(w, q) BY <1>1, <1>3, PieceIs
<1>6. e \in [0 .. n -> Nat] BY <1>4 DEF Layout
<1>7. e[i - 1] \in Nat /\ e[i] \in Nat /\ e[n] \in Nat BY <1>3, <1>6
<1>8. e[i] <= e[n] BY <1>1, <1>3, <1>4, LayoutGrows
<1>9. Gap(i) \in {0, 1} /\ (i > 1 <=> Gap(i) = 1) BY DEF Gap
<1>10. Quote(typed, i) = IF q THEN 1 ELSE 0 BY DEF Quote
<1>11. b = e[i - 1] + Gap(i) + Quote(typed, i) BY DEF Base
<1>12. /\ e[i] = b + Len(w) + Quote(typed, i)
       /\ \A j \in 1 .. Len(w) : r[b + j] = w[j]
       /\ i > 1 => r[e[i - 1] + 1] = SP
       /\ q => r[b] = QT /\ r[e[i]] = QT
  BY <1>3, <1>4 DEF Layout
<1>13. p = e[i - 1] + 1 \/ (i - 1 \in 1 .. n - 1 /\ p = e[i - 1] + 2) BY <1>3 DEF Scanned
<1>14. \A j \in p .. e[n] : text[j] = r[j] BY DEF Scanned
<1>15. \A j \in 1 .. Len(w) : w[j] # NUL BY <1>5 DEF Char
<1>16. ~q => Len(w) > 0 BY <1>5 DEF Typeable
<1> HIDE DEF i, n, w, q, b, s, r
<1>17. b \in Nat /\ p \in Nat BY <1>7, <1>9, <1>10, <1>11, <1>13
<1>18. p \in {s - 1, s} /\ (i = 1 => p = s) BY <1>3, <1>7, <1>9, <1>13 DEF s
<1>19. q => b = s /\ e[i] = b + Len(w) + 1 BY <1>5, <1>7, <1>9, <1>10, <1>11, <1>12 DEF s
<1>20. ~q => b + 1 = s /\ e[i] = b + Len(w) BY <1>5, <1>7, <1>9, <1>10, <1>11, <1>12 DEF s
<1>21. s \in Nat BY <1>7, <1>9 DEF s
<1>22. ASSUME NEW j \in 1 .. Len(w) PROVE text[b + j] = w[j]
  <2>1. b + j \in p .. e[n]
    <3>1. CASE q BY <1>5, <1>7, <1>8, <1>17, <1>18, <1>19, <1>21, <3>1
    <3>2. CASE ~q BY <1>5, <1>7, <1>8, <1>17, <1>18, <1>20, <1>21, <3>2
    <3> QED BY <3>1, <3>2
  <2> QED BY <1>12, <1>14, <2>1
<1>23. ASSUME q PROVE text[b] = QT /\ text[e[i]] = QT
  <2>1. b \in p .. e[n] /\ e[i] \in p .. e[n]
    BY <1>5, <1>7, <1>8, <1>17, <1>18, <1>19, <1>21, <1>23
  <2> QED BY <1>12, <1>14, <1>23, <2>1
<1>24. ASSUME p < s PROVE text[p] = SP
  <2>1. p = s - 1 /\ i > 1 BY <1>3, <1>18, <1>21, <1>24
  <2>2. p = e[i - 1] + 1 BY <1>7, <1>9, <2>1 DEF s
  <2>3. p \in p .. e[n]
    <3>1. CASE q BY <1>5, <1>7, <1>8, <1>17, <1>19, <1>21, <1>24, <3>1
    <3>2. CASE ~q BY <1>5, <1>7, <1>8, <1>16, <1>17, <1>20, <1>21, <1>24, <3>2
    <3> QED BY <3>1, <3>2
  <2> QED BY <1>12, <1>14, <2>1, <2>2, <2>3
<1> QED BY <1>3, <1>5, <1>7, <1>8, <1>9, <1>15, <1>16, <1>17, <1>18, <1>19, <1>20, <1>22, <1>23, <1>24
    DEF i, n, w, q, b, s, r

LEMMA Marks == NUL # SP /\ NUL # QT /\ SP # QT
  BY DEF NUL, SP, QT

\* tokenize() finds the word that is next, and that it is quoted.
LEMMA WordStarts ==
    ASSUME typed \in Typed, Terminated, p \in 1 .. Len(text), argv \in Seq(1 .. Len(text)),
           NEW e, Scanned(e), Len(argv) < Len(typed)
    PROVE  LET i == Len(argv) + 1
               q == typed[i].quoted
               b == Base(e, typed, i)
           IN  /\ NextChar = (IF q THEN b ELSE b + 1)
               /\ text[NextChar] # NUL /\ (text[NextChar] = QT <=> q)
<1> DEFINE i == Len(argv) + 1
           n == Len(typed)
           w == typed[i].word
           q == typed[i].quoted
           b == Base(e, typed, i)
           s == e[i - 1] + Gap(i) + 1
<1>1. /\ w \in Seq(Char) /\ Len(w) \in Nat /\ q \in BOOLEAN /\ Typeable(w, q)
      /\ e[i] \in Nat /\ e[n] \in Nat /\ e[i] <= e[n]
      /\ b \in Nat /\ p \in {s - 1, s} /\ p \in Nat
      /\ q => b = s /\ e[i] = b + Len(w) + 1
      /\ ~q => b + 1 = s /\ e[i] = b + Len(w) /\ Len(w) > 0
      /\ \A j \in 1 .. Len(w) : text[b + j] = w[j] /\ w[j] # NUL
      /\ q => text[b] = QT
      /\ p < s => text[p] = SP
  BY WordAhead
<1>2. Len(text) = e[n] + 1 BY DEF Scanned
<1> HIDE DEF i, n, w, q, b, s
<1>3. s = (IF q THEN b ELSE b + 1) /\ s \in Nat BY <1>1
<1>4. s \in p .. Len(text)
  <2>1. CASE q BY <1>1, <1>2, <2>1
  <2>2. CASE ~q BY <1>1, <1>2, <2>2
  <2> QED BY <2>1, <2>2
<1>5. text[s] # SP /\ text[s] # NUL /\ (text[s] = QT <=> q)
  <2>1. CASE q BY <1>1, <2>1, Marks
  <2>2. CASE ~q
    <3>1. 1 \in 1 .. Len(w) BY <1>1, <2>2
    <3>2. text[s] = w[1] /\ w[1] # NUL BY <1>1, <2>2, <3>1
    <3>3. w[1] # QT /\ w[1] # SP BY <1>1, <2>2, <3>1 DEF Typeable
    <3> QED BY <2>2, <3>2, <3>3
  <2> QED BY <2>1, <2>2
<1>6. ASSUME NEW k \in p .. s - 1 PROVE text[k] = SP
  <2>1. k = p /\ p < s BY <1>1, <1>3
  <2> QED BY <1>1, <2>1
<1>7. NextChar = s BY <1>4, <1>5, <1>6, NextCharAt
<1> QED BY <1>3, <1>5, <1>7 DEF i, q, b

\* ... and where it ends.
LEMMA WordEnds ==
    ASSUME typed \in Typed, Terminated, p \in 1 .. Len(text), argv \in Seq(1 .. Len(text)),
           NEW e, Scanned(e), Len(argv) < Len(typed)
    PROVE  LET i == Len(argv) + 1
               q == typed[i].quoted
               b == Base(e, typed, i)
               end == b + Len(typed[i].word) + 1
           IN  /\ Find(b + 1, {NUL, IF q THEN QT ELSE SP}) = end
               /\ end \in 1 .. Len(text) /\ end = (IF q THEN e[i] ELSE e[i] + 1)
               /\ text[end] = NUL <=> (~q /\ i = Len(typed))
<1> DEFINE i == Len(argv) + 1
           n == Len(typed)
           w == typed[i].word
           q == typed[i].quoted
           b == Base(e, typed, i)
           cs == {NUL, IF q THEN QT ELSE SP}
           end == b + Len(w) + 1
           r == Render(typed)
<1>1. /\ i \in 1 .. n
      /\ w \in Seq(Char) /\ Len(w) \in Nat /\ q \in BOOLEAN /\ Typeable(w, q)
      /\ e[i] \in Nat /\ e[n] \in Nat /\ e[i] <= e[n]
      /\ b \in Nat /\ p \in Nat
      /\ q => e[i] = b + Len(w) + 1
      /\ ~q => e[i] = b + Len(w)
      /\ \A j \in 1 .. Len(w) : text[b + j] = w[j] /\ w[j] # NUL
      /\ q => text[e[i]] = QT
  BY WordAhead
<1>2. Len(text) = e[n] + 1 /\ text[Len(text)] = NUL BY DEF Scanned, Terminated
<1>3. typed \in Typing BY TypedIs
<1>4. Layout(e, typed, r) /\ \A j \in p .. e[n] : text[j] = r[j] BY DEF Scanned
<1>5. p <= e[i] + 1
  <2>1. p \in {e[i - 1] + Gap(i), e[i - 1] + Gap(i) + 1} /\ e[i - 1] \in Nat /\ Gap(i) \in {0, 1}
        /\ (q => b = e[i - 1] + Gap(i) + 1) /\ (~q => b + 1 = e[i - 1] + Gap(i) + 1)
    BY WordAhead, SMTT(60)
  <2> HIDE DEF i, n, w, q, b
  <2> QED BY <1>1, <2>1, SMTT(60)
<1>6. n \in Nat BY <1>3 DEF Typing
<1>7. ASSUME ~q, i # n PROVE text[e[i] + 1] = SP /\ e[i] + 1 <= e[n]
  <2>1. i + 1 \in 1 .. n /\ (i + 1) - 1 = i /\ i + 1 > 1 BY <1>1, <1>6, <1>7
  <2>2. r[e[i] + 1] = SP BY <1>4, <2>1 DEF Layout
  <2>3. e[i + 1] <= e[n] /\ e[i + 1] \in Nat
    <3>1. n \in 0 .. n /\ i + 1 \in 0 .. n BY <1>6, <2>1
    <3> QED BY <1>3, <1>4, <3>1, LayoutGrows
  <2>4. e[i + 1] = e[i] + Gap(i + 1) + Quote(typed, i + 1) + Len(typed[i + 1].word) + Quote(typed, i + 1)
    BY <1>4, <2>1 DEF Layout, Base
  <2>5. Gap(i + 1) = 1 /\ Quote(typed, i + 1) \in {0, 1} BY <2>1 DEF Gap, Quote
  <2>6. Len(typed[i + 1].word) \in Nat BY <1>3, <2>1, PieceIs
  <2> HIDE DEF i, n, w, q, b, r
  <2> DEFINE x == e[i + 1]
             u == Quote(typed, i + 1)
             l == Len(typed[i + 1].word)
  <2>7. x = e[i] + 1 + u + l + u /\ x <= e[n] /\ x \in Nat /\ u \in {0, 1} /\ l \in Nat
    BY <2>3, <2>4, <2>5, <2>6
  <2>8. e[i] \in Nat /\ e[n] \in Nat BY <1>1
  <2> HIDE DEF x, u, l
  <2>9. e[i] + 1 <= e[n] BY <2>7, <2>8
  <2>10. e[i] + 1 \in p .. e[n] BY <1>1, <1>5, <2>9
  <2> QED BY <1>4, <2>2, <2>9, <2>10
<1> HIDE DEF i, n, w, q, b, r
<1>8. end = (IF q THEN e[i] ELSE e[i] + 1) /\ end \in b + 1 .. Len(text) /\ b + 1 \in 1 .. Len(text)
  <2>1. CASE q BY <1>1, <1>2, <2>1
  <2>2. CASE ~q BY <1>1, <1>2, <2>2
  <2> QED BY <2>1, <2>2
<1>9. text[end] \in cs /\ (text[end] = NUL <=> (~q /\ i = n))
  <2> HIDE DEF end
  <2>1. CASE q BY <1>1, <1>8, <2>1, Marks
  <2>2. CASE ~q /\ i # n BY <1>7, <1>8, <2>2, Marks
  <2>3. CASE ~q /\ i = n BY <1>2, <1>8, <2>3
  <2> QED BY <2>1, <2>2, <2>3
<1>10. ASSUME NEW k \in b + 1 .. end - 1 PROVE text[k] \notin cs
  <2> DEFINE j == k - b
  <2>1. j \in 1 .. Len(w) /\ b + j = k BY <1>1
  <2> HIDE DEF j
  <2>2. text[k] = w[j] /\ w[j] # NUL BY <1>1, <2>1
  <2>3. w[j] # (IF q THEN QT ELSE SP) BY <1>1, <2>1 DEF Typeable
  <2> QED BY <2>2, <2>3
<1>11. Find(b + 1, cs) = end
  <2>1. NUL \in cs OBVIOUS
  <2> HIDE DEF cs, end
  <2> QED BY <1>8, <1>9, <1>10, <2>1, FindAt
<1>12. end \in 1 .. Len(text) BY <1>1, <1>8
<1> QED BY <1>8, <1>9, <1>11, <1>12 DEF i, n, w, q, b

\* The pointers into the line, whatever the line is.
Pointers ==
    /\ Terminated /\ p \in 1 .. Len(text)
    /\ argv \in Seq(1 .. Len(text)) /\ Len(argv) <= SHELL_ARGV_MAX
    /\ target \in 0 .. Len(text) /\ append \in BOOLEAN

LEMMA NextWordPointers ==
    ASSUME Pointers, NextWord
    PROVE  Pointers'
<1> DEFINE start == NextChar
           quoted == text[start] = QT
           begin == IF quoted THEN start + 1 ELSE start
           cs == {NUL, IF quoted THEN QT ELSE SP}
           end == Find(begin, cs)
           n == Len(text)
           C == Char \cup {NUL}
<1>1. /\ text[start] # NUL /\ Len(argv) < SHELL_ARGV_MAX
      /\ argv' = Append(argv, begin) /\ text' = [text EXCEPT ![end] = NUL]
      /\ p' = (IF text[end] = NUL THEN end ELSE end + 1) /\ target' = target /\ append' = append
  BY DEF NextWord, Room, Terminate
<1>2. n \in Nat /\ n > 0 /\ text[n] = NUL /\ text \in Seq(C) BY DEF Pointers, Terminated
<1>3. start \in p .. n BY NextCharIs DEF Pointers
<1>4. begin \in 1 .. n
  <2>1. p \in 1 .. n BY DEF Pointers
  <2>2. start # n BY <1>1, <1>2
  <2> HIDE DEF start
  <2> QED BY <1>2, <1>3, <2>1, <2>2
<1>5. end \in begin .. n
  <2>1. NUL \in cs OBVIOUS
  <2> HIDE DEF begin, cs
  <2> QED BY <1>4, <2>1, FindIs DEF Pointers
<1> HIDE DEF start, begin, cs, end
<1>6. end \in 1 .. n BY <1>2, <1>4, <1>5
<1>7. text' \in Seq(C) /\ Len(text') = n /\ text'[n] = NUL
  <2>1. NUL \in C OBVIOUS
  <2> HIDE DEF C
  <2> QED BY <1>1, <1>2, <1>6, <2>1
<1>8. p' \in 1 .. n
  <2>1. text[end] # NUL => end # n BY <1>2
  <2> QED BY <1>1, <1>2, <1>6, <2>1
<1>9. argv \in Seq(1 .. n) /\ target \in 0 .. n /\ append \in BOOLEAN BY DEF Pointers
<1>10. argv' \in Seq(1 .. n) /\ Len(argv') = Len(argv) + 1 BY <1>1, <1>4, <1>9
<1>11. Len(argv') <= SHELL_ARGV_MAX
  <2>1. SHELL_ARGV_MAX \in Nat BY LineAssumption
  <2> QED BY <1>1, <1>9, <1>10, <2>1
<1>12. text' # <<>> BY <1>2, <1>7
<1> QED BY <1>1, <1>7, <1>8, <1>9, <1>10, <1>11, <1>12 DEF Pointers, Terminated

\* A round of tokenize() cuts the next word out and leaves the others alone.
LEMMA NextWordCuts ==
    ASSUME Pointers, typed \in Typed, NEW e, Scanned(e), NextWord
    PROVE  Scanned(e)'
<1> DEFINE n == Len(typed)
           k == Len(argv)
           i == k + 1
           w == typed[i].word
           q == typed[i].quoted
           b == Base(e, typed, i)
           end == b + Len(w) + 1
           r == Render(typed)
<1>1. typed \in Typing /\ n \in Nat /\ k \in Nat
  <2>1. typed \in Typing BY TypedIs
  <2>2. n \in Nat BY <2>1 DEF Typing
  <2>3. k \in Nat BY DEF Pointers
  <2> QED BY <2>1, <2>2, <2>3
<1>2. /\ Layout(e, typed, r) /\ k <= n /\ Len(text) = e[n] + 1
      /\ p = e[k] + 1 \/ (k \in 1 .. n - 1 /\ p = e[k] + 2)
      /\ \A j \in p .. e[n] : text[j] = r[j]
      /\ \A m \in 1 .. k : Cut(e, m)
  BY DEF Scanned
<1>3. e \in [0 .. n -> Nat] BY <1>2 DEF Layout
<1>4. k < n
  <2> SUFFICES ASSUME k = n PROVE FALSE BY <1>1, <1>2
  <2>1. p = Len(text) BY <1>1, <1>2
  <2>2. Terminated /\ p \in 1 .. Len(text) BY DEF Pointers
  <2>3. NextChar \in p .. Len(text) BY <2>2, NextCharIs
  <2>4. NextChar = Len(text) BY <2>1, <2>2, <2>3
  <2>5. text[NextChar] = NUL BY <2>2, <2>4 DEF Terminated
  <2> QED BY <2>5 DEF NextWord
<1>5. /\ i \in 1 .. n /\ w \in Seq(Char) /\ Len(w) \in Nat /\ q \in BOOLEAN
      /\ e[i - 1] \in Nat /\ e[i] \in Nat /\ e[n] \in Nat /\ e[i] <= e[n]
      /\ b \in Nat /\ i - 1 = k
      /\ Gap(i) \in {0, 1} /\ (i > 1 <=> Gap(i) = 1)
      /\ q => b = e[i - 1] + Gap(i) + 1
      /\ ~q => b + 1 = e[i - 1] + Gap(i) + 1
      /\ \A j \in 1 .. Len(w) : text[b + j] = w[j]
      /\ p \in {e[i - 1] + Gap(i), e[i - 1] + Gap(i) + 1}
  BY <1>4, WordAhead, SMTT(60) DEF Pointers
<1>6. /\ NextChar = (IF q THEN b ELSE b + 1)
      /\ text[NextChar] = QT <=> q
  BY <1>4, WordStarts DEF Pointers
<1>7. /\ Find(b + 1, {NUL, IF q THEN QT ELSE SP}) = end
      /\ end \in 1 .. Len(text) /\ end = (IF q THEN e[i] ELSE e[i] + 1)
      /\ text[end] = NUL <=> (~q /\ i = n)
  BY <1>4, WordEnds DEF Pointers
<1>8. /\ argv' = Append(argv, b + 1) /\ text' = [text EXCEPT ![end] = NUL]
      /\ p' = (IF text[end] = NUL THEN end ELSE end + 1) /\ typed' = typed
  <2> DEFINE begin == IF text[NextChar] = QT THEN NextChar + 1 ELSE NextChar
             cs == {NUL, IF text[NextChar] = QT THEN QT ELSE SP}
             fin == Find(begin, cs)
  <2>1. /\ argv' = Append(argv, begin) /\ text' = [text EXCEPT ![fin] = NUL]
        /\ p' = (IF text[fin] = NUL THEN fin ELSE fin + 1)
    BY DEF NextWord, Terminate
  <2>2. typed' = typed BY DEF NextWord, Parsed, aux
  <2>3. begin = b + 1 BY <1>5, <1>6
  <2>4. cs = {NUL, IF q THEN QT ELSE SP} BY <1>6
  <2>5. fin = end
    <3> HIDE DEF begin, cs, b, q, end
    <3> QED BY <1>7, <2>3, <2>4 DEF fin
  <2> HIDE DEF begin, cs, fin, b, q, end
  <2> QED BY <2>1, <2>2, <2>3, <2>5
<1>9. argv \in Seq(1 .. Len(text)) /\ text \in Seq(Char \cup {NUL}) BY DEF Pointers, Terminated
<1> HIDE DEF n, k, i, w, q, b, end, r
<1>10. Len(argv') = i /\ argv'[i] = b + 1 /\ \A m \in 1 .. k : argv'[m] = argv[m]
  BY <1>8, <1>9 DEF i, k
<1>11. Len(text') = Len(text) /\ text'[end] = NUL /\ \A x \in 1 .. Len(text) : x # end => text'[x] = text[x]
  BY <1>7, <1>8, <1>9
<1>12. p' = e[i] + 1 \/ (i \in 1 .. n - 1 /\ p' = e[i] + 2)
  <2>1. CASE q BY <1>5, <1>7, <1>8, <2>1
  <2>2. CASE ~q BY <1>1, <1>5, <1>7, <1>8, <2>2
  <2> QED BY <1>5, <2>1, <2>2
<1>13. ASSUME NEW j \in p' .. e[n] PROVE text'[j] = r[j]
  <2>1. p \in Nat /\ p <= e[i] + 1
    <3>1. CASE q BY <1>5, <1>7, <3>1, SMTT(60) DEF end
    <3>2. CASE ~q BY <1>5, <1>7, <3>2 DEF end
    <3> QED BY <1>5, <3>1, <3>2
  <2>2. p' \in Nat /\ p' >= e[i] + 1 BY <1>5, <1>12
  <2>3. j \in p .. e[n] /\ j \in 1 .. Len(text) BY <1>2, <1>5, <2>1, <2>2, SMTT(60)
  <2>4. j # end
    <3>1. CASE q BY <1>5, <1>7, <2>2, <3>1
    <3>2. CASE ~q /\ i = n BY <1>5, <2>2, <3>2
    <3>3. CASE ~q /\ i # n BY <1>5, <1>7, <1>8, <3>3
    <3> QED BY <3>1, <3>2, <3>3
  <2> QED BY <1>2, <1>11, <2>3, <2>4
<1>14. ASSUME NEW m \in 1 .. k PROVE Cut(e, m)'
  <2> DEFINE v == typed[m].word
             a == Base(e, typed, m)
  <2>1. m \in 1 .. n /\ m - 1 \in 0 .. n /\ m \in 0 .. n /\ m \in 0 .. k /\ k \in 0 .. n BY <1>1, <1>4
  <2>2. v \in Seq(Char) /\ Len(v) \in Nat BY <1>1, <2>1, PieceIs DEF n
  <2>3. e[m - 1] \in Nat /\ e[m] \in Nat /\ e[m] <= e[k] /\ e[k] \in Nat
    <3>1. e[m] <= e[k] BY <1>1, <1>2, <2>1, LayoutGrows DEF n
    <3> QED BY <1>3, <2>1, <3>1
  <2>4. a = e[m - 1] + Gap(m) + Quote(typed, m) /\ e[m] = a + Len(v) + Quote(typed, m)
    BY <1>2, <2>1 DEF Layout, Base, n
  <2>5. Gap(m) \in {0, 1} /\ Quote(typed, m) \in {0, 1} BY DEF Gap, Quote
  <2>6. argv[m] = a + 1 /\ (\A j \in 1 .. Len(v) : text[a + j] = v[j]) /\ text[a + Len(v) + 1] = NUL
    BY <1>2 DEF Cut
  <2> HIDE DEF v, a
  <2>7. a \in Nat /\ a + Len(v) + 1 <= e[k] + 1 BY <2>2, <2>3, <2>4, <2>5, SMTT(60)
  <2>8. end > e[k] + 1
    <3>1. Gap(i) = 1 BY <1>1, <1>5
    <3>2. b >= e[k] + 1
      <4>1. CASE q BY <1>5, <3>1, <4>1
      <4>2. CASE ~q BY <1>5, <3>1, <4>2
      <4> QED BY <4>1, <4>2
    <3> QED BY <1>5, <2>3, <3>2 DEF end
  <2>9. ASSUME NEW x \in 1 .. a + Len(v) + 1 PROVE text'[x] = text[x]
    <3>1. x # end /\ x \in 1 .. Len(text)
      <4>1. end \in Nat /\ Len(text) \in Nat /\ end <= Len(text) BY <1>7, <1>9
      <4> QED BY <2>2, <2>3, <2>7, <2>8, <4>1
    <3> QED BY <1>11, <3>1
  <2>10. \A j \in 1 .. Len(v) : text'[a + j] = v[j]
    <3>1. \A j \in 1 .. Len(v) : a + j \in 1 .. a + Len(v) + 1 BY <2>2, <2>7
    <3> QED BY <2>6, <2>9, <3>1
  <2>11. text'[a + Len(v) + 1] = NUL
    <3>1. a + Len(v) + 1 \in 1 .. a + Len(v) + 1 BY <2>2, <2>7
    <3> QED BY <2>6, <2>9, <3>1
  <2>12. argv'[m] = a + 1 BY <1>10, <2>6
  <2> QED BY <1>8, <2>10, <2>11, <2>12 DEF Cut, v, a
<1>15. ASSUME NEW m \in 1 .. Len(argv'), m = i PROVE Cut(e, m)'
  <2>1. ASSUME NEW j \in 1 .. Len(w) PROVE text'[b + j] = w[j]
    <3>1. b + j # end /\ b + j \in 1 .. Len(text)
      <4>1. end \in Nat /\ Len(text) \in Nat /\ end <= Len(text) BY <1>7, <1>9
      <4> QED BY <1>5, <4>1 DEF end
    <3> QED BY <1>5, <1>11, <3>1
  <2>2. text'[b + Len(w) + 1] = NUL BY <1>11 DEF end
  <2>3. w = typed'[m].word /\ b = Base(e, typed', m) /\ argv'[m] = b + 1 BY <1>8, <1>10, <1>15 DEF w, b
  <2> QED BY <2>1, <2>2, <2>3 DEF Cut
<1>16. ASSUME NEW m \in 1 .. Len(argv') PROVE Cut(e, m)'
  <2>1. m \in 1 .. k \/ m = i BY <1>1, <1>10 DEF i
  <2> QED BY <1>14, <1>15, <2>1
<1>17. Layout(e, typed', Render(typed')) BY <1>2, <1>8 DEF r
<1>18. Len(argv') <= n /\ Len(text') = e[n] + 1 BY <1>2, <1>5, <1>10, <1>11
<1> QED BY <1>8, <1>10, <1>12, <1>13, <1>16, <1>17, <1>18 DEF Scanned, n, r

\* A word that was cut out is the one that was typed.
LEMMA CutIsWord ==
    ASSUME Pointers, typed \in Typed, NEW e, Scanned(e), NEW i \in 1 .. Len(argv)
    PROVE  Word(i) = typed[i].word
<1> DEFINE w == typed[i].word
           b == Base(e, typed, i)
           n == Len(typed)
           end == b + Len(w) + 1
           C == Char \cup {NUL}
<1>1. typed \in Typing BY TypedIs
<1>2. n \in Nat BY <1>1 DEF Typing
<1>3. Len(argv) \in Nat /\ Len(argv) <= n /\ Len(text) = e[n] + 1 /\ Layout(e, typed, Render(typed))
  BY DEF Pointers, Scanned
<1>4. i \in 1 .. n /\ i \in 0 .. n /\ i - 1 \in 0 .. n /\ n \in 0 .. n BY <1>2, <1>3
<1>5. w \in Seq(Char) /\ Len(w) \in Nat BY <1>1, <1>4, PieceIs
<1>6. argv[i] = b + 1 /\ (\A j \in 1 .. Len(w) : text[b + j] = w[j]) /\ text[end] = NUL
  BY DEF Scanned, Cut
<1>7. e[i] <= e[n] /\ e[i] \in Nat /\ e[n] \in Nat /\ e[i - 1] \in Nat
  <2>1. e \in [0 .. n -> Nat] BY <1>3 DEF Layout
  <2>2. e[i] <= e[n] BY <1>1, <1>3, <1>4, LayoutGrows
  <2> QED BY <1>4, <2>1, <2>2
<1>8. b = e[i - 1] + Gap(i) + Quote(typed, i) /\ e[i] = b + Len(w) + Quote(typed, i)
  BY <1>3, <1>4 DEF Layout, Base
<1>9. Gap(i) \in {0, 1} /\ Quote(typed, i) \in {0, 1} BY DEF Gap, Quote
<1>10. text \in Seq(C) BY DEF Pointers, Terminated
<1> HIDE DEF w, b, n
<1>11. b \in Nat /\ end \in b + 1 .. Len(text) /\ b + 1 \in 1 .. Len(text)
  <2>1. b \in Nat /\ e[i] >= b + Len(w) BY <1>5, <1>7, <1>8, <1>9
  <2> QED BY <1>3, <1>5, <1>7, <2>1
<1>12. ASSUME NEW k \in b + 1 .. end - 1 PROVE text[k] \notin {NUL}
  <2> DEFINE j == k - b
  <2>1. j \in 1 .. Len(w) /\ b + j = k BY <1>5, <1>11
  <2> HIDE DEF j
  <2>2. w[j] # NUL BY <1>5, <2>1 DEF Char
  <2> QED BY <1>6, <2>1, <2>2
<1>13. Find(b + 1, {NUL}) = end
  <2>1. text[end] \in {NUL} BY <1>6
  <2> HIDE DEF end
  <2> QED BY <1>11, <1>12, <2>1, FindAt DEF Pointers
<1>14. Word(i) = SubSeq(text, b + 1, b + Len(w))
  <2>1. end - 1 = b + Len(w) BY <1>5, <1>11
  <2> HIDE DEF end
  <2> QED BY <1>6, <1>13, <2>1 DEF Word, At
<1> DEFINE s == SubSeq(text, b + 1, b + Len(w))
<1>15. s \in Seq(C) /\ Len(s) = Len(w) /\ \A j \in 1 .. Len(w) : s[j] = text[b + j]
  <2> HIDE DEF C
  <2>1. b + Len(w) <= Len(text) /\ Len(text) \in Nat BY <1>5, <1>10, <1>11
  <2>2. Len(s) = Len(w) BY <1>5, <1>10, <1>11, <2>1
  <2>3. \A j \in 1 .. Len(w) : s[j] = text[b + j] BY <1>5, <1>10, <1>11, <2>1
  <2>4. s \in Seq(C) BY <1>5, <1>10, <1>11, <2>1
  <2> QED BY <2>2, <2>3, <2>4
<1> HIDE DEF s, C
<1>16. s = w
  <2>1. \A j \in 1 .. Len(w) : s[j] = w[j] BY <1>6, <1>15
  <2> QED BY <1>5, <1>15, <2>1
<1> QED BY <1>14, <1>16 DEF s, w

LEMMA MinIs ==
    ASSUME NEW a \in Int, NEW b \in Int
    PROVE  Min({a, b}) = IF a <= b THEN a ELSE b
<1> DEFINE m == IF a <= b THEN a ELSE b
<1>1. m \in {a, b} /\ \A y \in {a, b} : m <= y OBVIOUS
<1>2. \A x \in {a, b} : (\A y \in {a, b} : x <= y) => x = m OBVIOUS
<1> HIDE DEF m
<1>3. Min({a, b}) = m BY <1>1, <1>2 DEF Min
<1> QED BY <1>3 DEF m

\* tokenize() ends with all the words there is room for.
LEMMA AllFound ==
    ASSUME Pointers, typed \in Typed, NEW e, Scanned(e), NoMoreWords
    PROVE  Words = Kept
<1> DEFINE n == Len(typed)
           k == Len(argv)
<1>1. typed \in Typing BY TypedIs
<1>2. n \in Nat /\ SHELL_ARGV_MAX \in Nat BY <1>1, LineAssumption DEF Typing
<1>3. k \in Nat /\ k <= n /\ k <= SHELL_ARGV_MAX BY DEF Pointers, Scanned
<1>4. k = n \/ k = SHELL_ARGV_MAX
  <2> SUFFICES ASSUME k < n PROVE k = SHELL_ARGV_MAX BY <1>2, <1>3
  <2>1. text[NextChar] # NUL BY WordStarts DEF Pointers
  <2>2. ~(k < SHELL_ARGV_MAX) BY <2>1 DEF NoMoreWords, Room
  <2> QED BY <1>2, <1>3, <2>2
<1>5. Min({n, SHELL_ARGV_MAX}) = k
  <2> HIDE DEF n, k
  <2> QED BY <1>2, <1>3, <1>4, MinIs
<1>6. DOMAIN argv = 1 .. k BY DEF Pointers
<1>7. \A i \in 1 .. k : Word(i) = typed[i].word BY CutIsWord
<1>8. Words = [i \in 1 .. k |-> Word(i)] BY <1>6 DEF Words
<1>9. Kept = [i \in 1 .. k |-> typed[i].word] BY <1>5 DEF Kept
<1> HIDE DEF n, k
<1> QED BY <1>7, <1>8, <1>9

-----------------------------------------------------------------------------
(* The words, from the line to the command.                                 *)

CInv ==
    /\ Pointers
    /\ typed # <<>> => typed \in Typed
    /\ pc \in {"tokenize", "operator"} => target = 0
    /\ pc = "tokenize" /\ typed # <<>> => \E e : Scanned(e)
    /\ WordsAsTyped

LEMMA LineStarts ==
    ASSUME NEW given \in Seq(Char), NEW list, execute(given, list),
           list # <<>> => list \in Typed /\ given = Render(list)
    PROVE  CInv'
<1>1. /\ text' = Append(given, NUL) /\ p' = 1 /\ argv' = <<>> /\ target' = 0 /\ append' = FALSE
      /\ typed' = list /\ pc' = "tokenize"
  BY DEF execute
<1> DEFINE C == Char \cup {NUL}
<1>2. text' \in Seq(C) /\ Len(text') = Len(given) + 1 /\ text'[Len(text')] = NUL /\ Len(given) \in Nat
      /\ \A j \in 1 .. Len(given) : text'[j] = given[j]
  <2>1. given \in Seq(C)
    <3>1. Char \subseteq C OBVIOUS
    <3> HIDE DEF C
    <3> QED BY <3>1, SeqGrows
  <2>2. NUL \in C OBVIOUS
  <2> HIDE DEF C
  <2> QED BY <1>1, <2>1, <2>2
<1>3. text' # <<>> BY <1>2
<1>4. Terminated' BY <1>2, <1>3 DEF Terminated
<1>5. Pointers'
  <2>1. argv' \in Seq(1 .. Len(text')) /\ Len(argv') = 0 BY <1>1
  <2>2. SHELL_ARGV_MAX \in Nat BY LineAssumption
  <2>3. p' \in 1 .. Len(text') /\ target' \in 0 .. Len(text') BY <1>1, <1>2
  <2>4. append' \in BOOLEAN BY <1>1
  <2>5. Len(argv') <= SHELL_ARGV_MAX BY <2>1, <2>2
  <2> QED BY <1>4, <2>1, <2>3, <2>4, <2>5 DEF Pointers
<1>6. ASSUME list # <<>> PROVE \E e : Scanned(e)'
  <2>1. list \in Typing BY <1>6, TypedIs
  <2>2. PICK e : Layout(e, list, given) BY <1>6, <2>1, RenderIs
  <2>3. Len(given) = e[Len(list)] /\ e[0] = 0 /\ Len(list) \in Nat BY <2>1, <2>2 DEF Layout, Typing
  <2>4. Scanned(e)'
    <3>1. Len(argv') = 0 BY <1>1
    <3>2. p' = e[Len(argv')] + 1 BY <1>1, <2>3, <3>1
    <3>3. \A j \in p' .. e[Len(list)] : text'[j] = given[j] BY <1>1, <1>2, <2>3
    <3>4. \A i \in 1 .. Len(argv') : Cut(e, i)' BY <3>1
    <3> QED BY <1>1, <1>2, <1>6, <2>2, <2>3, <3>1, <3>2, <3>3, <3>4 DEF Scanned
  <2> QED BY <2>4
<1> QED BY <1>1, <1>5, <1>6 DEF CInv, WordsAsTyped

LEMMA WordsStay ==
    ASSUME CInv, UNCHANGED <<text, p, argv, target, append, typed>>, pc' \notin {"tokenize", "operator"},
           pc' \in {"command", "run", "captured"} => pc \in {"operator", "command", "run", "captured"}
    PROVE  CInv'
<1>1. Words' = Words /\ Kept' = Kept BY DEF Words, Word, At, Find, Kept
<1>2. At(target)' = At(target) BY DEF At, Find
<1>3. Pointers' BY DEF CInv, Pointers, Terminated
<1>4. WordsAsTyped' BY <1>1, <1>2 DEF CInv, WordsAsTyped
<1> QED BY <1>3, <1>4 DEF CInv

LEMMA PrefixIs ==
    ASSUME NEW S, NEW t \in Seq(S), NEW i \in 0 .. Len(t), NEW s \in Seq(S), Len(s) = i,
           \A m \in 1 .. i : s[m] = t[m]
    PROVE  IsPrefix(s, t)
<1> DEFINE a == SubSeq(s, 1, i)
           b == SubSeq(t, 1, i)
<1>1. i \in Nat /\ Len(t) \in Nat /\ i <= Len(t) OBVIOUS
<1>2. a \in Seq(S) /\ Len(a) = i /\ \A m \in 1 .. i : a[m] = s[m] BY <1>1
<1>3. b \in Seq(S) /\ Len(b) = i /\ \A m \in 1 .. i : b[m] = t[m] BY <1>1
<1> HIDE DEF a, b
<1>4. a = b
  <2>1. \A m \in 1 .. i : a[m] = b[m] BY <1>2, <1>3
  <2> QED BY <1>1, <1>2, <1>3, <2>1
<1> QED BY <1>1, <1>4 DEF IsPrefix, a, b

\* The words in front of the operator are kept, the one behind is the target.
LEMMA OperatorSplits ==
    ASSUME CInv, pc = "operator", NEW i \in DOMAIN argv, IsOperator(Word(i)), i < Len(argv),
           append' = (Len(Word(i)) = 2), target' = argv[i + 1], argv' = SubSeq(argv, 1, i - 1),
           UNCHANGED <<text, p, typed>>, pc' \in {"prompt", "command"}
    PROVE  CInv'
<1> DEFINE n == Len(text)
           N == 1 .. n
<1>1. argv \in Seq(N) /\ i \in 1 .. Len(argv) /\ Len(argv) \in Nat /\ n \in Nat /\ Len(argv) <= SHELL_ARGV_MAX
  BY DEF CInv, Pointers, Terminated
<1>2. argv' \in Seq(N) /\ Len(argv') = i - 1 /\ \A m \in 1 .. i - 1 : argv'[m] = argv[m]
  <2> HIDE DEF N
  <2> QED BY <1>1
<1>3. argv[i + 1] \in 1 .. n BY <1>1, ElementOfSeq
<1>4. Pointers'
  <2>1. target' \in 0 .. n BY <1>1, <1>3
  <2>2. append' \in BOOLEAN OBVIOUS
  <2>3. Len(argv') <= SHELL_ARGV_MAX
    <3>1. SHELL_ARGV_MAX \in Nat BY LineAssumption
    <3> QED BY <1>1, <1>2, <3>1
  <2>4. Terminated' /\ p' \in 1 .. n BY DEF CInv, Pointers, Terminated
  <2> QED BY <1>2, <2>1, <2>2, <2>3, <2>4 DEF Pointers
<1>5. ASSUME typed # <<>> PROVE WordsAsTyped'
  <2> DEFINE k == Len(argv)
             W == [m \in 1 .. k |-> Word(m)]
  <2>1. Words = Kept /\ typed \in Typed BY <1>5 DEF CInv, WordsAsTyped
  <2>2. DOMAIN argv = 1 .. k BY <1>1
  <2>3. Kept = W BY <2>1, <2>2 DEF Words
  <2>4. Kept' = W BY <2>3 DEF Kept
  <2>5. ASSUME NEW x PROVE At(x)' = At(x) BY DEF At, Find
  <2>6. \A m \in 1 .. i - 1 : m \in 1 .. k /\ Word(m)' = W[m]
    <3> SUFFICES ASSUME NEW m \in 1 .. i - 1 PROVE m \in 1 .. k /\ Word(m)' = W[m] OBVIOUS
    <3>1. m \in 1 .. k BY <1>1
    <3>2. Word(m)' = At(argv[m])
      <4> DEFINE x == argv[m]
      <4>1. argv'[m] = x BY <1>2
      <4> HIDE DEF x
      <4>2. ASSUME NEW y, y = x PROVE Word(m)' = At(x)
        <5>1. Word(m)' = At(y)' BY <4>1, <4>2 DEF Word, At, Find
        <5> QED BY <2>5, <4>2, <5>1
      <4> QED BY <4>2 DEF x
    <3> QED BY <3>1, <3>2 DEF Word
  <2>7. DOMAIN argv' = 1 .. i - 1 BY <1>2
  <2> DEFINE V == [m \in 1 .. i - 1 |-> W[m]]
             S == {W[m] : m \in 1 .. k}
  <2>8. Words' = V BY <2>6, <2>7 DEF Words
  <2>9. V \in Seq(S) /\ W \in Seq(S) /\ Len(V) = i - 1 /\ Len(W) = k
    <3>1. \A m \in 1 .. k : W[m] \in S OBVIOUS
    <3>2. \A m \in 1 .. i - 1 : W[m] \in S BY <2>6
    <3> HIDE DEF S, W
    <3>3. W \in Seq(S) /\ Len(W) = k BY <1>1, <3>1 DEF W
    <3> DEFINE j == i - 1
    <3>4. j \in Nat /\ \A m \in 1 .. j : W[m] \in S BY <1>1, <3>2
    <3> HIDE DEF j
    <3>5. [m \in 1 .. j |-> W[m]] \in Seq(S) /\ Len([m \in 1 .. j |-> W[m]]) = j BY <3>4
    <3> QED BY <3>3, <3>5 DEF j
  <2>10. IsPrefix(V, W)
    <3>1. \A m \in 1 .. i - 1 : V[m] = W[m] OBVIOUS
    <3>2. i - 1 \in 0 .. Len(W) BY <1>1, <2>9
    <3> HIDE DEF V, W, S
    <3> QED BY <2>9, <3>1, <3>2, PrefixIs
  <2>11. /\ i \in 1 .. k /\ i + 1 \in 1 .. k /\ (i - 1) + 1 = i /\ (i - 1) + 2 = i + 1
    BY <1>1
  <2>12. W[i] = Word(i) /\ W[i + 1] = Word(i + 1) BY <2>11
  <2> HIDE DEF W, V
  <2>13. IsOperator(Kept'[Len(argv') + 1]) /\ append' = (Len(Kept'[Len(argv') + 1]) = 2)
    BY <1>2, <2>4, <2>11, <2>12
  <2>14. At(target)' = Kept'[Len(argv') + 2]
    <3>1. At(target)' = At(argv[i + 1])
      <4> DEFINE x == argv[i + 1]
      <4>1. target' = x OBVIOUS
      <4> HIDE DEF x
      <4>2. ASSUME NEW y, y = x PROVE At(target)' = At(x)
        <5>1. At(target)' = At(y)' BY <4>1, <4>2 DEF At, Find
        <5> QED BY <2>5, <4>2, <5>1
      <4> QED BY <4>2 DEF x
    <3> QED BY <1>2, <2>4, <2>11, <2>12, <3>1 DEF Word
  <2> QED BY <2>4, <2>8, <2>10, <2>13, <2>14 DEF WordsAsTyped
<1>6. typed = <<>> => WordsAsTyped' BY DEF WordsAsTyped
<1> QED BY <1>4, <1>5, <1>6 DEF CInv

LEMMA CmdInitHolds == CmdInit => CInv
<1> SUFFICES ASSUME CmdInit PROVE CInv OBVIOUS
<1>1. text = <<NUL>> /\ p = 1 /\ argv = <<>> /\ target = 0 /\ append = FALSE /\ typed = <<>> /\ pc = "prompt"
  BY DEF CmdInit
<1>2. text \in Seq(Char \cup {NUL}) /\ Len(text) = 1 /\ text[1] = NUL /\ text # <<>> BY <1>1
<1>3. Terminated BY <1>2 DEF Terminated
<1>4. argv \in Seq(1 .. Len(text)) /\ Len(argv) = 0 BY <1>1
<1>5. Len(argv) <= SHELL_ARGV_MAX BY <1>4, LineAssumption
<1>6. p \in 1 .. Len(text) /\ target \in 0 .. Len(text) BY <1>1, <1>2
<1>7. append \in BOOLEAN BY <1>1
<1>8. Pointers BY <1>3, <1>4, <1>5, <1>6, <1>7 DEF Pointers
<1> QED BY <1>1, <1>8 DEF CInv, WordsAsTyped

LEMMA CmdStepHolds == CInv /\ [CmdNext]_cmdvars => CInv'
<1> SUFFICES ASSUME CInv, [CmdNext]_cmdvars PROVE CInv' OBVIOUS
<1> DEFINE A == STRING \ {NUL}
<1>1. A \subseteq Char BY DEF Char
<1>2. ASSUME NEW list \in Typed, execute(Render(list), list) PROVE CInv'
  <2>1. Render(list) \in Seq(Char)
    <3>1. CASE list = <<>>
      <4>1. Render(list) = <<>> BY <3>1 DEF Render, FlattenSeq
      <4> QED BY <4>1
    <3>2. CASE list # <<>>
      <4>1. list \in Typing BY TypedIs
      <4>2. PICK e : Layout(e, list, Render(list)) BY <3>2, <4>1, RenderIs
      <4> QED BY <4>2 DEF Layout
    <3> QED BY <3>1, <3>2
  <2> QED BY <1>2, <2>1, LineStarts
<1>3. ASSUME NEW given \in RawLines, execute(given, <<>>) PROVE CInv'
  <2>1. given \in Seq(A) BY LineAssumption
  <2>2. given \in Seq(Char)
    <3> HIDE DEF A
    <3> QED BY <1>1, <2>1, SeqGrows
  <2> DEFINE list == <<>>
  <2>3. execute(given, list) BY <1>3
  <2>4. list # <<>> => list \in Typed /\ given = Render(list) OBVIOUS
  <2> HIDE DEF list
  <2> QED BY <2>2, <2>3, <2>4, LineStarts
<1>4. ASSUME NEW pieces \in Calls, kprintf(pieces) PROVE CInv'
  <2>1. UNCHANGED <<text, p, argv, target, append, typed>> /\ pc' = "prompt" BY <1>4 DEF kprintf, parse
  <2> QED BY <2>1, WordsStay
<1>5. CASE NextWord
  <2>1. Pointers' BY <1>5, NextWordPointers DEF CInv
  <2>2. pc = "tokenize" /\ pc' = "tokenize" /\ typed' = typed /\ target' = target
    BY <1>5 DEF NextWord, Parsed, aux
  <2>3. ASSUME typed # <<>> PROVE \E e : Scanned(e)'
    <3>1. typed \in Typed /\ \E e : Scanned(e) BY <2>2, <2>3 DEF CInv
    <3>2. PICK e : Scanned(e) BY <3>1
    <3>3. Scanned(e)' BY <1>5, <3>1, <3>2, NextWordCuts DEF CInv
    <3> QED BY <3>3
  <2> QED BY <2>1, <2>2, <2>3 DEF CInv, WordsAsTyped
<1>6. CASE NoMoreWords
  <2>1. /\ UNCHANGED <<text, p, argv, target, append, typed>> /\ pc = "tokenize"
        /\ pc' \in {"prompt", "operator"}
    BY <1>6 DEF NoMoreWords, Parsed, parse, aux
  <2>2. CASE pc' = "prompt" BY <2>1, <2>2, WordsStay
  <2>3. CASE pc' = "operator"
    <3>1. Pointers' BY <2>1 DEF CInv, Pointers, Terminated
    <3>2. Words' = Words /\ Kept' = Kept BY <2>1 DEF Words, Word, At, Find, Kept
    <3>3. target = 0 BY <2>1 DEF CInv
    <3>4. ASSUME typed # <<>> PROVE WordsAsTyped'
      <4>1. typed \in Typed /\ \E e : Scanned(e) BY <2>1, <3>4 DEF CInv
      <4>2. Words = Kept BY <1>6, <4>1, AllFound DEF CInv
      <4>3. IsPrefix(Words, Words)
        <5>1. DOMAIN argv = 1 .. Len(argv) /\ Len(argv) \in Nat BY DEF CInv, Pointers
        <5>2. Len(Words) = Len(argv) BY <5>1 DEF Words
        <5> QED BY <5>1, <5>2 DEF IsPrefix
      <4> QED BY <2>1, <2>3, <3>2, <3>3, <4>2, <4>3 DEF WordsAsTyped
    <3>5. typed = <<>> => WordsAsTyped' BY <2>1 DEF WordsAsTyped
    <3> QED BY <2>1, <2>3, <3>1, <3>3, <3>4, <3>5 DEF CInv
  <2> QED BY <2>1, <2>2, <2>3
<1>7. CASE Operator
  <2>1. pc = "operator" BY <1>7 DEF Operator
  <2>2. CASE Parsed("command") /\ UNCHANGED parse
    <3>1. UNCHANGED <<text, p, argv, target, append, typed>> /\ pc' = "command" BY <2>2 DEF Parsed, parse, aux
    <3> QED BY <2>1, <3>1, WordsStay
  <2>3. CASE Say(Complaint)
    <3>1. UNCHANGED <<text, p, argv, target, append, typed>> /\ pc' = "prompt" BY <2>3 DEF Say, parse, aux
    <3> QED BY <3>1, WordsStay
  <2>4. ASSUME NEW i \in DOMAIN argv, IsOperator(Word(i)), i < Len(argv),
               append' = (Len(Word(i)) = 2), target' = argv[i + 1], argv' = SubSeq(argv, 1, i - 1),
               Parsed(IF i = 1 THEN "prompt" ELSE "command"), UNCHANGED <<text, p>>
        PROVE  CInv'
    <3>1. UNCHANGED <<text, p, typed>> /\ pc' \in {"prompt", "command"} BY <2>4 DEF Parsed, aux
    <3> QED BY <2>1, <2>4, <3>1, OperatorSplits
  <2> QED BY <1>7, <2>2, <2>3, <2>4 DEF Operator
<1>8. CASE NotFound \/ NoMemory \/ Begin \/ Run \/ redirect_to_file \/ Die
  <2>1. UNCHANGED <<text, p, argv, target, append, typed>>
    BY <1>8 DEF NotFound, NoMemory, Begin, Run, redirect_to_file, Die, Say, parse, aux
  <2>2. pc' \notin {"tokenize", "operator"} /\ pc \in {"command", "run", "captured"}
    BY <1>8 DEF NotFound, NoMemory, Begin, Run, redirect_to_file, Die, Say
  <2> QED BY <2>1, <2>2, WordsStay
<1>9. CASE UNCHANGED cmdvars
  <2>1. UNCHANGED <<pc, text, p, argv, target, append, typed>> BY <1>9 DEF cmdvars, parse, aux
  <2>2. CASE pc \notin {"tokenize", "operator"} BY <2>1, <2>2, WordsStay
  <2>3. CASE pc \in {"tokenize", "operator"}
    <3>1. Words' = Words /\ Kept' = Kept BY <2>1 DEF Words, Word, At, Find, Kept
    <3>2. At(target)' = At(target) BY <2>1 DEF At, Find
    <3>3. Pointers' BY <2>1 DEF CInv, Pointers, Terminated
    <3>4. WordsAsTyped' BY <2>1, <3>1, <3>2 DEF CInv, WordsAsTyped
    <3>5. \A e : Scanned(e) => Scanned(e)' BY <2>1 DEF Scanned, Cut
    <3> QED BY <2>1, <3>3, <3>4, <3>5 DEF CInv
  <2> QED BY <2>2, <2>3
<1> QED BY <1>2, <1>3, <1>4, <1>5, <1>6, <1>7, <1>8, <1>9 DEF CmdNext, halt_forever

\* A command gets the words that were typed, without their quotes, and the
\* redirection goes to the word behind the first operator, for every line of
\* words and any number of them: tokenize() writes NULs into the line it is
\* reading and never into a word.
THEOREM WordsAreTheTyped == CmdSpec => []WordsAsTyped
<1>1. CInv => WordsAsTyped BY DEF CInv
<1> QED BY <1>1, CmdInitHolds, CmdStepHolds, PTL DEF CmdSpec

-----------------------------------------------------------------------------
(* The console while a command runs.                                        *)

\* A sequence, of whatever characters.
IsText(s) == \E T : s \in Seq(T)

Quiet == [on |-> FALSE, buf |-> <<>>, screen |-> <<>>]

\* What a command of n characters leaves in the buffer.
Captured(s) == SubSeq(s, 1, Min({CAPTURE_MAX, Len(s)}))

LEMMA CapturedIs ==
    ASSUME NEW s, IsText(s)
    PROVE  /\ IsText(Captured(s)) /\ IsPrefix(Captured(s), s)
           /\ Len(Captured(s)) = Min({CAPTURE_MAX, Len(s)}) /\ Len(Captured(s)) \in 0 .. CAPTURE_MAX
<1> DEFINE m == Min({CAPTURE_MAX, Len(s)})
           c == SubSeq(s, 1, m)
<1>1. PICK T : s \in Seq(T) BY DEF IsText
<1>2. CAPTURE_MAX \in Nat /\ Len(s) \in Nat BY <1>1, LineAssumption
<1>3. m \in Nat /\ m <= CAPTURE_MAX /\ m <= Len(s)
  <2>1. m = IF CAPTURE_MAX <= Len(s) THEN CAPTURE_MAX ELSE Len(s) BY <1>2, MinIs
  <2> HIDE DEF m
  <2> QED BY <1>2, <2>1
<1> HIDE DEF m
<1>4. c \in Seq(T) /\ Len(c) = m /\ \A i \in 1 .. m : c[i] = s[i] BY <1>1, <1>2, <1>3
<1> HIDE DEF c
<1>5. IsPrefix(c, s)
  <2>1. m \in 0 .. Len(s) BY <1>2, <1>3
  <2> QED BY <1>1, <1>4, <2>1, PrefixIs
<1>6. IsText(c) BY <1>4 DEF IsText
<1>7. Len(c) = m /\ m \in 0 .. CAPTURE_MAX BY <1>2, <1>3, <1>4
<1>8. c = Captured(s) BY DEF Captured, c, m
<1> QED BY <1>5, <1>6, <1>7, <1>8 DEF m

LEMMA PutQuiet ==
    ASSUME NEW s, IsText(s)
    PROVE  /\ Put(Quiet, s) = [on |-> FALSE, buf |-> <<>>, screen |-> s]
           /\ Put([on |-> TRUE, buf |-> <<>>, screen |-> <<>>], s)
              = [on |-> TRUE, buf |-> Captured(s), screen |-> <<>>]
<1>1. PICK T : s \in Seq(T) BY DEF IsText
<1>2. <<>> \o s = s BY <1>1
<1>3. Put(Quiet, s) = [on |-> FALSE, buf |-> <<>>, screen |-> <<>> \o s] BY DEF Put, Quiet
<1>4. Put([on |-> TRUE, buf |-> <<>>, screen |-> <<>>], s)
      = [on |-> TRUE, buf |-> Captured(<<>> \o s), screen |-> <<>>]
  BY DEF Put, Captured
<1> QED BY <1>2, <1>3, <1>4

\* A console, field by field.
LEMMA ConsoleIs ==
    ASSUME NEW c, NEW on, NEW buf, NEW screen, DOMAIN c = {"on", "buf", "screen"},
           c.on = on, c.buf = buf, c.screen = screen, c = [k \in DOMAIN c |-> c[k]]
    PROVE  c = [on |-> on, buf |-> buf, screen |-> screen]
OBVIOUS

LEMMA Consoles ==
    ASSUME NEW b, NEW x, NEW s
    PROVE  /\ [[on |-> FALSE, buf |-> b, screen |-> x] EXCEPT !.screen = s]
              = [on |-> FALSE, buf |-> b, screen |-> s]
           /\ console_capture_end([on |-> TRUE, buf |-> b, screen |-> x])
              = [on |-> FALSE, buf |-> <<>>, screen |-> x]
           /\ Put([on |-> FALSE, buf |-> b, screen |-> x], s)
              = [on |-> FALSE, buf |-> b, screen |-> x \o s]
<1> DEFINE c == [on |-> FALSE, buf |-> b, screen |-> x]
           d == [on |-> TRUE, buf |-> b, screen |-> x]
           K == {"on", "buf", "screen"}
<1>1. ASSUME NEW y PROVE [c EXCEPT !.screen = y] = [on |-> FALSE, buf |-> b, screen |-> y]
  <2> DEFINE e == [c EXCEPT !.screen = y]
  <2>1. DOMAIN e = K /\ e.on = FALSE /\ e.buf = b /\ e.screen = y OBVIOUS
  <2>2. e = [k \in DOMAIN e |-> e[k]] OBVIOUS
  <2> HIDE DEF e, c
  <2>3. e = [on |-> FALSE, buf |-> b, screen |-> y] BY <2>1, <2>2, ConsoleIs
  <2> QED BY <2>3 DEF e
<1>2. [d EXCEPT !.on = FALSE, !.buf = <<>>] = [on |-> FALSE, buf |-> <<>>, screen |-> x]
  <2> DEFINE e == [d EXCEPT !.on = FALSE, !.buf = <<>>]
  <2>1. DOMAIN e = K /\ e.on = FALSE /\ e.buf = <<>> /\ e.screen = x OBVIOUS
  <2>2. e = [k \in DOMAIN e |-> e[k]] OBVIOUS
  <2> HIDE DEF e, d
  <2>3. e = [on |-> FALSE, buf |-> <<>>, screen |-> x] BY <2>1, <2>2, ConsoleIs
  <2> QED BY <2>3 DEF e
<1>3. Put(c, s) = [c EXCEPT !.screen = x \o s]
  <2>1. ~c.on /\ c.screen = x OBVIOUS
  <2> HIDE DEF c
  <2> QED BY <2>1 DEF Put
<1>4. console_capture_end(d) = [d EXCEPT !.on = FALSE, !.buf = <<>>] BY DEF console_capture_end
<1> DEFINE y == x \o s
<1>5. [c EXCEPT !.screen = y] = [on |-> FALSE, buf |-> b, screen |-> y]
  <2> HIDE DEF y, c
  <2> QED BY <1>1
<1> QED BY <1>1, <1>2, <1>3, <1>4, <1>5

\* Where the output of the last command is.
Placed ==
    IF target = 0
    THEN con.screen = ran.output /\ ~stored.done
    ELSE IF stored.done
         THEN con.screen = <<>> /\ IsPrefix(stored.data, ran.output)
              /\ Len(stored.data) = Min({CAPTURE_MAX, Len(ran.output)})
         ELSE con.screen = Complaint

\* The operators among the words that fit argv.
KeptOperators == {i \in DOMAIN Kept : IsOperator(Kept[i])}

KInv ==
    /\ pc \in {"tokenize", "operator", "command"} => con = Quiet /\ ran = NotRun /\ stored = Nothing
    /\ pc = "run" => /\ con = [on |-> target # 0, buf |-> <<>>, screen |-> <<>>]
                     /\ ran = NotRun /\ stored = Nothing
    /\ pc = "captured" => /\ con = [on |-> TRUE, buf |-> Captured(ran.output), screen |-> <<>>]
                          /\ IsText(ran.output) /\ stored = Nothing /\ target # 0
    /\ pc = "prompt" => /\ con = [on |-> FALSE, buf |-> <<>>, screen |-> con.screen]
                        /\ typed # <<>> /\ ran.done => Placed
    /\ pc \in {"halted", "faulted"} => PanicSeen /\ con = [on |-> FALSE, buf |-> <<>>, screen |-> con.screen]
    /\ pc \in {"prompt", "tokenize", "operator", "command", "run", "captured", "halted", "faulted"}
    \* A line is redirected if an operator is among the words that fit argv.
    /\ typed # <<>> /\ (pc \in {"command", "run", "captured"} \/ ran.done)
          => (target # 0 <=> KeptOperators # {})

\* A command prints text.
TextOutput == pc = "run" => \A f \in Files : IsText(Output(f))

LEMMA PanicShows ==
    ASSUME NEW on \in BOOLEAN, NEW s, IsText(s), NEW fault \in BOOLEAN
    PROVE  LET c == isr_handler(Put([on |-> on, buf |-> <<>>, screen |-> <<>>], s), fault) IN
           /\ c = [on |-> FALSE, buf |-> <<>>, screen |-> c.screen]
           /\ c.screen # <<>> /\ Last(c.screen) = Banner
           /\ fault /\ ~on => Contains(c.screen, FaultLine)
<1> DEFINE q == [on |-> on, buf |-> <<>>, screen |-> <<>>]
           d == Put(q, s)
           e == IF fault THEN Put(d, <<FaultLine>>) ELSE d
           c == panic(e)
<1>1. PICK T : s \in Seq(T) BY DEF IsText
<1> DEFINE U == T \cup {FaultLine, Banner}
<1>2. s \in Seq(U) /\ <<FaultLine>> \in Seq(U) /\ <<Banner>> \in Seq(U)
  <2>1. T \subseteq U /\ FaultLine \in U /\ Banner \in U OBVIOUS
  <2> HIDE DEF U
  <2> QED BY <1>1, <2>1, SeqGrows
<1> HIDE DEF U
<1>3. d.screen = (IF on THEN <<>> ELSE s) /\ d.on = on /\ d = [on |-> d.on, buf |-> d.buf, screen |-> d.screen]
  <2>1. CASE on BY <2>1 DEF Put
  <2>2. CASE ~on
    <3>1. <<>> \o s = s BY <1>1
    <3> QED BY <2>2, <3>1 DEF Put
  <2> QED BY <2>1, <2>2
<1> HIDE DEF d
<1>4. /\ e.screen = (IF fault /\ ~on THEN s \o <<FaultLine>> ELSE IF on THEN <<>> ELSE s)
      /\ e = [on |-> e.on, buf |-> e.buf, screen |-> e.screen]
  <2>1. CASE fault /\ on BY <1>3, <2>1 DEF Put
  <2>2. CASE fault /\ ~on BY <1>3, <2>2 DEF Put
  <2>3. CASE ~fault BY <1>3, <2>3
  <2> QED BY <2>1, <2>2, <2>3
<1> HIDE DEF e
<1>5. c = [on |-> FALSE, buf |-> <<>>, screen |-> e.screen \o <<Banner>>]
  BY <1>4 DEF panic, Put, console_capture_end
<1> HIDE DEF c
<1>6. e.screen \in Seq(U) BY <1>2, <1>4
<1> DEFINE x == e.screen
<1> HIDE DEF x
<1>7. x \o <<Banner>> # <<>> /\ Last(x \o <<Banner>>) = Banner
  <2>1. x \in Seq(U) BY <1>6 DEF x
  <2> QED BY <1>2, <2>1 DEF Last
<1>8. ASSUME fault, ~on PROVE Contains(x \o <<Banner>>, FaultLine)
  <2>1. x = s \o <<FaultLine>> /\ x \in Seq(U) BY <1>4, <1>6, <1>8 DEF x
  <2>2. Len(x) = Len(s) + 1 /\ x[Len(s) + 1] = FaultLine /\ Len(s) \in Nat BY <1>2, <2>1
  <2>3. (x \o <<Banner>>)[Len(s) + 1] = FaultLine /\ Len(x \o <<Banner>>) = Len(s) + 2 BY <1>2, <2>1, <2>2
  <2>4. Len(s) + 1 \in 1 .. Len(x \o <<Banner>>) BY <2>2, <2>3
  <2> QED BY <2>3, <2>4 DEF Contains
<1>9. c.screen = x \o <<Banner>> BY <1>5 DEF x
<1>10. c = [on |-> FALSE, buf |-> <<>>, screen |-> c.screen] BY <1>5
<1>11. c = isr_handler(Put([on |-> on, buf |-> <<>>, screen |-> <<>>], s), fault)
  BY DEF c, e, d, isr_handler
<1> QED BY <1>7, <1>8, <1>9, <1>10, <1>11

\* The output of the last command stays where it is, and so does the line.
LEMMA PlacedStays ==
    ASSUME UNCHANGED <<con, stored, ran, target, typed>>
    PROVE  (Placed' <=> Placed) /\ KeptOperators' = KeptOperators
<1>1. Kept' = Kept BY DEF Kept
<1> QED BY <1>1 DEF Placed, KeptOperators

LEMMA KStepHolds ==
    ASSUME CInv, KInv, TextOutput, [CmdNext]_cmdvars
    PROVE  KInv'
<1>1. ASSUME NEW given, NEW list, execute(given, list) PROVE KInv'
  <2>1. con = [on |-> FALSE, buf |-> <<>>, screen |-> con.screen] BY <1>1 DEF KInv, execute
  <2>2. con' = [con EXCEPT !.screen = <<>>] /\ ran' = NotRun /\ stored' = Nothing /\ pc' = "tokenize"
    BY <1>1 DEF execute
  <2>3. con' = Quiet
    <3> DEFINE x == con.screen
    <3> HIDE DEF x
    <3>1. con = [on |-> FALSE, buf |-> <<>>, screen |-> x] BY <2>1 DEF x
    <3> QED BY <2>2, <3>1, Consoles DEF Quiet
  <2>4. ~NotRun.done BY DEF NotRun
  <2> QED BY <2>2, <2>3, <2>4 DEF KInv
<1>2. ASSUME NEW pieces \in Calls, kprintf(pieces) PROVE KInv'
  <2>1. pc = "prompt" /\ typed = <<>> /\ pc' = pc /\ typed' = typed BY <1>2 DEF kprintf
  <2>2. con = [on |-> FALSE, buf |-> <<>>, screen |-> con.screen] BY <2>1 DEF KInv
  <2>3. \E s : con' = Put(con, s) BY <1>2 DEF kprintf
  <2>4. PICK s : con' = Put(con, s) BY <2>3
  <2>5. con' = [on |-> FALSE, buf |-> <<>>, screen |-> con'.screen]
    <3> DEFINE x == con.screen
    <3> HIDE DEF x
    <3>1. con = [on |-> FALSE, buf |-> <<>>, screen |-> x] BY <2>2 DEF x
    <3>2. con' = [on |-> FALSE, buf |-> <<>>, screen |-> x \o s] BY <2>4, <3>1, Consoles, ZenonT(60)
    <3> QED BY <3>2
  <2> QED BY <2>1, <2>5 DEF KInv
<1>3. CASE NextWord
  <2>1. pc = "tokenize" /\ pc' = "tokenize" /\ UNCHANGED <<con, stored, ran>>
    BY <1>3 DEF NextWord, Parsed, aux
  <2>2. con = Quiet /\ ran = NotRun /\ stored = Nothing /\ ~NotRun.done BY <2>1 DEF KInv, NotRun
  <2> QED BY <2>1, <2>2 DEF KInv
<1>4. CASE NoMoreWords
  <2>1. pc = "tokenize" /\ pc' \in {"prompt", "operator"} /\ UNCHANGED <<con, stored, ran>>
    BY <1>4 DEF NoMoreWords, Parsed, aux
  <2>2. con = Quiet /\ ran = NotRun /\ stored = Nothing /\ ~NotRun.done BY <2>1 DEF KInv, NotRun
  <2>3. con = [on |-> FALSE, buf |-> <<>>, screen |-> con.screen] BY <2>2 DEF Quiet
  <2> QED BY <2>1, <2>2, <2>3 DEF KInv
<1>5. CASE Operator
  <2>1. pc = "operator" BY <1>5 DEF Operator
  <2>2. con = Quiet /\ ran = NotRun /\ stored = Nothing /\ ~NotRun.done BY <2>1 DEF KInv, NotRun
  <2>3. con = [on |-> FALSE, buf |-> <<>>, screen |-> con.screen] BY <2>2 DEF Quiet
  <2>4. typed # <<>> => Words = Kept BY <2>1 DEF CInv, WordsAsTyped
  <2>5. typed # <<>> => KeptOperators = {i \in DOMAIN argv : IsOperator(Word(i))}
    <3> SUFFICES ASSUME typed # <<>> PROVE KeptOperators = {i \in DOMAIN argv : IsOperator(Word(i))} OBVIOUS
    <3>1. DOMAIN Kept = DOMAIN argv /\ \A i \in DOMAIN argv : Kept[i] = Word(i) BY <2>4 DEF Words
    <3> QED BY <3>1 DEF KeptOperators
  <2>6. CASE Parsed("command") /\ UNCHANGED parse /\ \A i \in DOMAIN argv : ~IsOperator(Word(i))
    <3>1. pc' = "command" /\ UNCHANGED <<con, stored, ran, target, typed>> BY <2>6 DEF Parsed, aux, parse
    <3>2. target = 0 BY <2>1 DEF CInv
    <3>3. typed # <<>> => KeptOperators' = {} BY <2>5, <2>6, <3>1, PlacedStays
    <3> QED BY <2>2, <3>1, <3>2, <3>3 DEF KInv
  <2>7. CASE Say(Complaint)
    <3>1. pc' = "prompt" /\ con' = Put(con, Complaint) /\ ran' = ran BY <2>7 DEF Say, aux
    <3>2. con' = [on |-> FALSE, buf |-> <<>>, screen |-> con'.screen]
      <4>1. con' = [on |-> FALSE, buf |-> <<>>, screen |-> <<>> \o Complaint]
        BY <2>2, <3>1, Consoles, ZenonT(60) DEF Quiet
      <4> QED BY <4>1
    <3> QED BY <2>2, <3>1, <3>2 DEF KInv
  <2>8. ASSUME NEW i \in DOMAIN argv, IsOperator(Word(i)), i < Len(argv), target' = argv[i + 1],
               Parsed(IF i = 1 THEN "prompt" ELSE "command")
        PROVE  KInv'
    <3>1. pc' \in {"prompt", "command"} /\ UNCHANGED <<con, stored, ran, typed>> BY <2>8 DEF Parsed, aux
    <3>2. target' # 0
      <4>1. argv \in Seq(1 .. Len(text)) BY DEF CInv, Pointers
      <4>2. i \in 1 .. Len(argv) /\ Len(argv) \in Nat BY <4>1
      <4>3. i + 1 \in 1 .. Len(argv) BY <2>8, <4>2
      <4>4. argv[i + 1] \in 1 .. Len(text) BY <4>1, <4>3, ElementOfSeq
      <4> QED BY <2>8, <4>4
    <3>3. Kept' = Kept BY <3>1 DEF Kept
    <3>4. typed # <<>> => KeptOperators' # {} BY <2>5, <2>8, <3>3 DEF KeptOperators
    <3> QED BY <2>2, <2>3, <3>1, <3>2, <3>4 DEF KInv
  <2> QED BY <1>5, <2>6, <2>7, <2>8 DEF Operator
<1>6. CASE NotFound \/ NoMemory
  <2>1. pc = "command" /\ pc' = "prompt" /\ UNCHANGED ran /\ \E s : con' = Put(con, s)
    BY <1>6 DEF NotFound, NoMemory, Say, aux
  <2>2. con = Quiet /\ ran = NotRun /\ ~NotRun.done BY <2>1 DEF KInv, NotRun
  <2>3. con' = [on |-> FALSE, buf |-> <<>>, screen |-> con'.screen] BY <2>1, <2>2 DEF Put, Quiet
  <2> QED BY <2>1, <2>2, <2>3 DEF KInv
<1>7. CASE Begin
  <2>1. /\ pc = "command" /\ pc' = "run" /\ UNCHANGED <<stored, ran, target, typed>>
        /\ con' = IF target = 0 THEN con ELSE console_capture_begin(con)
    BY <1>7 DEF Begin, parse, aux
  <2>2. con = Quiet /\ ran = NotRun /\ stored = Nothing BY <2>1 DEF KInv
  <2>3. con' = [on |-> target # 0, buf |-> <<>>, screen |-> <<>>]
    <3>1. CASE target = 0 BY <2>1, <2>2, <3>1 DEF Quiet
    <3>2. CASE target # 0 BY <2>1, <2>2, <3>2 DEF Quiet, console_capture_begin
    <3> QED BY <3>1, <3>2
  <2>4. Kept' = Kept BY <2>1 DEF Kept
  <2>5. KeptOperators' = KeptOperators BY <2>4 DEF KeptOperators
  <2> QED BY <2>1, <2>2, <2>3, <2>5 DEF KInv
<1>8. CASE Run
  <2>1. PICK f \in Files : con' = Put(con, Output(f)) /\ ran'.output = Output(f) /\ ran'.done
    BY <1>8 DEF Run
  <2>2. pc = "run" /\ pc' = (IF target = 0 THEN "prompt" ELSE "captured") /\ UNCHANGED <<target, stored, typed>>
    BY <1>8 DEF Run, parse
  <2>3. con = [on |-> target # 0, buf |-> <<>>, screen |-> <<>>] /\ stored = Nothing BY <2>2 DEF KInv
  <2>4. IsText(Output(f)) BY <2>2 DEF TextOutput
  <2>5. Kept' = Kept BY <2>2 DEF Kept
  <2>6. KeptOperators' = KeptOperators BY <2>5 DEF KeptOperators
  <2> DEFINE s == Output(f)
  <2> HIDE DEF s
  <2>7. CASE target = 0
    <3>1. con = Quiet BY <2>3, <2>7 DEF Quiet
    <3>2. con' = [on |-> FALSE, buf |-> <<>>, screen |-> s] BY <2>1, <2>4, <3>1, PutQuiet DEF s
    <3>3. Placed' BY <2>1, <2>2, <2>3, <2>7, <3>2 DEF Placed, Nothing, s
    <3> QED BY <2>1, <2>2, <2>6, <2>7, <3>2, <3>3 DEF KInv
  <2>8. CASE target # 0
    <3>1. con = [on |-> TRUE, buf |-> <<>>, screen |-> <<>>] BY <2>3, <2>8
    <3>2. con' = [on |-> TRUE, buf |-> Captured(s), screen |-> <<>>] BY <2>1, <2>4, <3>1, PutQuiet DEF s
    <3>3. ran'.output = s /\ IsText(s) BY <2>1, <2>4 DEF s
    <3> QED BY <2>2, <2>3, <2>6, <2>8, <3>2, <3>3 DEF KInv
  <2> QED BY <2>7, <2>8
<1>9. CASE redirect_to_file
  <2>1. pc = "captured" /\ pc' = "prompt" /\ UNCHANGED <<target, ran, typed>> BY <1>9 DEF redirect_to_file, parse, aux
  <2>2. /\ con = [on |-> TRUE, buf |-> Captured(ran.output), screen |-> <<>>]
        /\ IsText(ran.output) /\ stored = Nothing /\ target # 0
    BY <2>1 DEF KInv
  <2>3. Kept' = Kept BY <2>1 DEF Kept
  <2>4. KeptOperators' = KeptOperators BY <2>3 DEF KeptOperators
  <2>5. console_capture_end(con) = Quiet BY <2>2, Consoles DEF Quiet
  <2>6. CASE /\ con' = console_capture_end(con)
             /\ stored' = [data |-> con.buf, append |-> append, done |-> TRUE]
    <3>1. con' = Quiet /\ stored'.done /\ stored'.data = Captured(ran.output) BY <2>2, <2>5, <2>6
    <3>2. Placed' BY <2>1, <2>2, <3>1, CapturedIs DEF Placed, Quiet
    <3>3. con' = [on |-> FALSE, buf |-> <<>>, screen |-> con'.screen] BY <3>1 DEF Quiet
    <3> QED BY <2>1, <2>2, <2>4, <3>2, <3>3 DEF KInv
  <2>7. CASE con' = Put(console_capture_end(con), Complaint) /\ stored' = stored
    <3>1. IsText(Complaint)
      <4>1. Complaint \in Seq({"?", NL}) BY DEF Complaint
      <4> QED BY <4>1 DEF IsText
    <3>2. con' = [on |-> FALSE, buf |-> <<>>, screen |-> Complaint] BY <2>5, <2>7, <3>1, PutQuiet
    <3>3. Placed' BY <2>1, <2>2, <2>7, <3>2 DEF Placed, Nothing
    <3>4. con' = [on |-> FALSE, buf |-> <<>>, screen |-> con'.screen] BY <3>2
    <3> QED BY <2>1, <2>2, <2>4, <3>3, <3>4 DEF KInv
  <2> QED BY <1>9, <2>6, <2>7 DEF redirect_to_file
<1>10. CASE Die
  <2>0. PICK before \in UNION {Prefixes(Output(g)) : g \in Files}, fault \in BOOLEAN :
           /\ con' = isr_handler(Put(con, before), fault)
           /\ pc' = IF fault THEN "faulted" ELSE "halted"
    BY <1>10 DEF Die
  <2>1. PICK f \in Files : before \in Prefixes(Output(f)) OBVIOUS
  <2>2. pc = "run" /\ UNCHANGED <<target, ran, typed>> BY <1>10 DEF Die, parse, aux
  <2>3. con = [on |-> target # 0, buf |-> <<>>, screen |-> <<>>] /\ ran = NotRun BY <2>2 DEF KInv
  <2>4. IsText(before)
    <3>1. PICK T : Output(f) \in Seq(T) BY <2>2 DEF TextOutput, IsText
    <3>2. PICK l \in 0 .. Len(Output(f)) : before = SubSeq(Output(f), 1, l) BY <2>1 DEF Prefixes
    <3> DEFINE o == Output(f)
    <3> HIDE DEF o
    <3>3. o \in Seq(T) /\ l \in 0 .. Len(o) BY <3>1, <3>2 DEF o
    <3>4. SubSeq(o, 1, l) \in Seq(T) BY <3>3
    <3> QED BY <3>2, <3>4 DEF IsText, o
  <2> DEFINE on == target # 0
  <2>5. /\ con' = [on |-> FALSE, buf |-> <<>>, screen |-> con'.screen]
        /\ con'.screen # <<>> /\ Last(con'.screen) = Banner
        /\ fault /\ ~on => Contains(con'.screen, FaultLine)
    <3>1. on \in BOOLEAN /\ con = [on |-> on, buf |-> <<>>, screen |-> <<>>] BY <2>3
    <3> HIDE DEF on
    <3> QED BY <2>0, <2>4, <3>1, PanicShows
  <2>6. pc' \in {"halted", "faulted"} /\ (pc' = "faulted" => fault) BY <2>0
  <2>7. PanicSeen' BY <2>2, <2>5, <2>6 DEF PanicSeen
  <2>8. ~ran'.done BY <2>2, <2>3 DEF NotRun
  <2> QED BY <2>5, <2>6, <2>7, <2>8 DEF KInv
<1>11. CASE UNCHANGED cmdvars
  <2>1. UNCHANGED <<pc, con, stored, ran, target, typed>> BY <1>11 DEF cmdvars, parse, aux
  <2>2. (Placed' <=> Placed) /\ KeptOperators' = KeptOperators BY <2>1, PlacedStays
  <2>3. PanicSeen' <=> PanicSeen BY <2>1 DEF PanicSeen
  <2> QED BY <2>1, <2>2, <2>3 DEF KInv
<1> QED BY <1>1, <1>2, <1>3, <1>4, <1>5, <1>6, <1>7, <1>8, <1>9, <1>10, <1>11 DEF CmdNext, halt_forever

-----------------------------------------------------------------------------
(* What the commands print is text.                                         *)

Counts == [lines : Nat, words : Nat, in_word : BOOLEAN]

LEMMA CountedIs ==
    ASSUME NEW C, NEW f \in Seq(C)
    PROVE  Counted(f) \in Counts
<1> DEFINE base == [lines |-> 0, words |-> 0, in_word |-> FALSE]
           F == [x \in Counts \X C |-> CountStep(x[1], x[2])]
           Body(g) == [t \in SUBSET DOMAIN f |-> IF t = {} THEN base ELSE CountStep(g[t \ {Max(t)}], f[Max(t)])]
           h == CHOOSE g : g = Body(g)
<1>1. base \in Counts BY DEF Counts
<1>2. ASSUME NEW s \in Counts, NEW c PROVE CountStep(s, c) \in Counts
  <2>1. s.lines \in Nat /\ s.words \in Nat BY DEF Counts
  <2>2. s.lines + (IF c = NL THEN 1 ELSE 0) \in Nat /\ s.words + (IF c \notin Spaces /\ ~s.in_word THEN 1 ELSE 0) \in Nat
    BY <2>1
  <2>3. (c \notin Spaces) \in BOOLEAN OBVIOUS
  <2> QED BY <2>2, <2>3 DEF CountStep, Counts
<1>3. F \in [Counts \X C -> Counts] BY <1>2
<1>4. \E g : g = Body(g)
  <2>1. PICK g : FoldsOver(g, Counts, C, base, f, F)
    <3> HIDE DEF F, base
    <3> QED BY <1>1, <1>3, FoldOver
  <2>2. \A t \in SUBSET DOMAIN f : g[t] = IF t = {} THEN base ELSE CountStep(g[t \ {Max(t)}], f[Max(t)])
    BY <2>1 DEF FoldsOver
  <2>3. g = [t \in SUBSET DOMAIN f |-> g[t]] BY <2>1 DEF FoldsOver
  <2>4. g = Body(g) BY <2>2, <2>3
  <2> HIDE DEF Body
  <2> QED BY <2>4
<1>5. h = Body(h)
  <2> HIDE DEF Body
  <2> QED BY <1>4
<1>6. Counted(f) = h[DOMAIN f] BY DEF Counted, FoldLeft, MapThenFoldSet
<1> HIDE DEF h
<1>7. \A t \in SUBSET DOMAIN f : h[t] = IF t = {} THEN base ELSE CountStep(h[t \ {Max(t)}], f[Max(t)])
  BY <1>5
<1>8. h[DOMAIN f] \in Counts
  <2>1. h[{}] \in Counts BY <1>1, <1>7
  <2>2. \A t \in SUBSET DOMAIN f : t # {} /\ h[t \ {Max(t)}] \in Counts /\ f[Max(t)] \in C => h[t] \in Counts
    BY <1>2, <1>7
  <2> QED BY <2>1, <2>2, FoldResult
<1> QED BY <1>6, <1>8

Search(T) == [line : Seq(T), out : Seq(T)]

\* cmd_grep()'s loop, character by character; s is the file with a newline behind it.
Searching(r, pattern, T, s) ==
    /\ r \in [0 .. Len(s) -> Search(T)] /\ r[0] = [line |-> <<>>, out |-> <<>>]
    /\ \A k \in 1 .. Len(s) : r[k] = SearchStep(pattern, r[k - 1], s[k])

LEMMA SearchRuns ==
    ASSUME NEW T, NL \in T, NEW pattern, NEW f \in Seq(T)
    PROVE  \E r : Searching(r, pattern, T, Append(f, NL)) /\ r[Len(f) + 1].out = Searched(pattern, f)
<1> DEFINE D == Search(T)
           base == [line |-> <<>>, out |-> <<>>]
           s == Append(f, NL)
           F == [x \in D \X T |-> SearchStep(pattern, x[1], x[2])]
           Body(g) == [t \in SUBSET DOMAIN s |-> IF t = {} THEN base
                                                 ELSE SearchStep(pattern, g[t \ {Max(t)}], s[Max(t)])]
           h == CHOOSE g : g = Body(g)
<1>1. base \in D BY DEF Search
<1>2. ASSUME NEW v \in D, NEW c \in T PROVE SearchStep(pattern, v, c) \in D
  <2> DEFINE l == v.line
             o == v.out
  <2>1. l \in Seq(T) /\ o \in Seq(T) BY DEF Search
  <2>2. CASE c # NL
    <3>1. SearchStep(pattern, v, c) = [v EXCEPT !.line = IF Len(l) + 1 < SHELL_LINE_MAX THEN Append(l, c) ELSE l]
      BY <2>2 DEF SearchStep
    <3>2. Append(l, c) \in Seq(T) BY <2>1
    <3> HIDE DEF l
    <3>3. (IF Len(l) + 1 < SHELL_LINE_MAX THEN Append(l, c) ELSE l) \in Seq(T) BY <2>1, <3>2
    <3> QED BY <3>1, <3>3 DEF Search
  <2>3. CASE c = NL
    <3>1. SearchStep(pattern, v, c)
          = [line |-> <<>>, out |-> IF l # <<>> /\ strstr(l, pattern) THEN o \o l \o <<NL>> ELSE o]
      BY <2>3 DEF SearchStep
    <3> HIDE DEF l, o
    <3>2. o \o l \o <<NL>> \in Seq(T) BY <2>1
    <3>3. (IF l # <<>> /\ strstr(l, pattern) THEN o \o l \o <<NL>> ELSE o) \in Seq(T) BY <2>1, <3>2
    <3> QED BY <3>1, <3>3 DEF Search
  <2> QED BY <2>2, <2>3
<1>3. F \in [D \X T -> D] BY <1>2
<1>4. s \in Seq(T) OBVIOUS
<1> HIDE DEF s, D
<1>5. \E g : g = Body(g)
  <2>1. PICK g : FoldsOver(g, D, T, base, s, F)
    <3> HIDE DEF F, base
    <3> QED BY <1>1, <1>3, <1>4, FoldOver
  <2>2. \A t \in SUBSET DOMAIN s : g[t] = IF t = {} THEN base ELSE SearchStep(pattern, g[t \ {Max(t)}], s[Max(t)])
    BY <2>1 DEF FoldsOver
  <2>3. g = [t \in SUBSET DOMAIN s |-> g[t]] BY <2>1 DEF FoldsOver
  <2>4. g = Body(g) BY <2>2, <2>3
  <2> HIDE DEF Body
  <2> QED BY <2>4
<1>6. h = Body(h)
  <2> HIDE DEF Body
  <2> QED BY <1>5
<1>7. Searched(pattern, f) = h[DOMAIN s].out BY DEF Searched, FoldLeft, MapThenFoldSet, s
<1> HIDE DEF h
<1>8. \A t \in SUBSET DOMAIN s : h[t] = IF t = {} THEN base ELSE SearchStep(pattern, h[t \ {Max(t)}], s[Max(t)])
  BY <1>6
<1>9. \A v \in D, c \in T : F[<<v, c>>] = SearchStep(pattern, v, c) OBVIOUS
<1>10. PICK r : FoldRun(r, D, base, s, F) /\ r[Len(s)] = h[DOMAIN s]
  <2>1. h[{}] = base BY <1>8
  <2>2. \A t \in SUBSET DOMAIN s :
           t # {} /\ h[t \ {Max(t)}] \in D /\ s[Max(t)] \in T =>
              h[t] = F[<<h[t \ {Max(t)}], s[Max(t)]>>]
    <3> HIDE DEF F
    <3> QED BY <1>8, <1>9
  <2> HIDE DEF F, base
  <2>3. base \in D /\ F \in [D \X T -> D] /\ s \in Seq(T) BY <1>1, <1>3, <1>4
  <2>4. FoldLeads(D, base, s, F, h) BY <2>1, <2>2, <2>3, FoldRuns
  <2> QED BY <2>4 DEF FoldLeads
<1>11. \A k \in 1 .. Len(s) : r[k] = SearchStep(pattern, r[k - 1], s[k])
  <2> SUFFICES ASSUME NEW k \in 1 .. Len(s) PROVE r[k] = SearchStep(pattern, r[k - 1], s[k]) OBVIOUS
  <2> HIDE DEF F
  <2>0. Len(s) \in Nat BY <1>4
  <2>1. r[k] = F[<<r[k - 1], s[k]>>] /\ r[k - 1] \in D
    <3>1. k - 1 \in 0 .. Len(s) BY <2>0
    <3> QED BY <1>10, <3>1 DEF FoldRun
  <2>2. s[k] \in T BY <1>4, ElementOfSeq
  <2> QED BY <1>9, <2>1, <2>2
<1>12. Searching(r, pattern, T, s) BY <1>10, <1>11 DEF FoldRun, Searching, D
<1>13. Len(s) = Len(f) + 1 BY DEF s
<1> QED BY <1>7, <1>10, <1>12, <1>13 DEF s

LEMMA SearchedIs ==
    ASSUME NEW T, NL \in T, NEW pattern, NEW f \in Seq(T)
    PROVE  Searched(pattern, f) \in Seq(T)
<1> DEFINE s == Append(f, NL)
<1>1. PICK r : Searching(r, pattern, T, s) /\ r[Len(f) + 1].out = Searched(pattern, f) BY SearchRuns
<1>2. Len(f) + 1 \in 0 .. Len(s) OBVIOUS
<1> HIDE DEF s
<1>3. r[Len(f) + 1] \in Search(T) BY <1>1, <1>2 DEF Searching
<1> QED BY <1>1, <1>3 DEF Search

First(T) == [out : Seq(T), lines : Nat]

LEMMA FirstLinesIs ==
    ASSUME NEW T, NEW limit, NEW f \in Seq(T)
    PROVE  FirstLines(limit, f) \in Seq(T)
<1> DEFINE D == First(T)
           base == [out |-> <<>>, lines |-> 0]
           F == [x \in D \X T |-> HeadStep(limit, x[1], x[2])]
           Body(g) == [t \in SUBSET DOMAIN f |-> IF t = {} THEN base
                                                 ELSE HeadStep(limit, g[t \ {Max(t)}], f[Max(t)])]
           h == CHOOSE g : g = Body(g)
<1>1. base \in D BY DEF First
<1>2. ASSUME NEW v \in D, NEW c \in T PROVE HeadStep(limit, v, c) \in D
  <2>1. Append(v.out, c) \in Seq(T) /\ v.lines + (IF c = NL THEN 1 ELSE 0) \in Nat BY DEF First
  <2>2. [out |-> Append(v.out, c), lines |-> v.lines + (IF c = NL THEN 1 ELSE 0)] \in D BY <2>1 DEF First
  <2> HIDE DEF D
  <2> QED BY <2>2 DEF HeadStep
<1>3. F \in [D \X T -> D] BY <1>2
<1> HIDE DEF D
<1>4. \E g : g = Body(g)
  <2>1. PICK g : FoldsOver(g, D, T, base, f, F)
    <3> HIDE DEF F, base
    <3> QED BY <1>1, <1>3, FoldOver
  <2>2. \A t \in SUBSET DOMAIN f : g[t] = IF t = {} THEN base ELSE HeadStep(limit, g[t \ {Max(t)}], f[Max(t)])
    BY <2>1 DEF FoldsOver
  <2>3. g = [t \in SUBSET DOMAIN f |-> g[t]] BY <2>1 DEF FoldsOver
  <2>4. g = Body(g) BY <2>2, <2>3
  <2> HIDE DEF Body
  <2> QED BY <2>4
<1>5. h = Body(h)
  <2> HIDE DEF Body
  <2> QED BY <1>4
<1>6. FirstLines(limit, f) = h[DOMAIN f].out BY DEF FirstLines, FoldLeft, MapThenFoldSet
<1> HIDE DEF h
<1>7. \A t \in SUBSET DOMAIN f : h[t] = IF t = {} THEN base ELSE HeadStep(limit, h[t \ {Max(t)}], f[Max(t)])
  BY <1>5
<1>8. h[DOMAIN f] \in D
  <2>1. h[{}] \in D BY <1>1, <1>7
  <2>2. \A t \in SUBSET DOMAIN f : t # {} /\ h[t \ {Max(t)}] \in D /\ f[Max(t)] \in T => h[t] \in D
    BY <1>2, <1>7
  <2> QED BY <2>1, <2>2, FoldResult
<1> QED BY <1>6, <1>8 DEF D, First

\* format_num() writes the lowest digit behind the digits of the quotient.
LEMMA FormatIs ==
    ASSUME NEW base \in {10, 16}, NEW digits
    PROVE  \A v \in Nat : format_num(v, base, digits) =
              IF v < base THEN <<digits[v + 1]>>
              ELSE Append(format_num(v \div base, base, digits), digits[(v % base) + 1])
<1> DEFINE T == {digits[i + 1] : i \in Nat}
           V == Seq(T)
           Stop == {v \in Nat : v < base}
           rank == [v \in Nat |-> v]
           N == [v \in Nat |-> v \div base]
           B == [v \in Nat |-> <<digits[v + 1]>>]
           F == [x \in Nat \X V |-> Append(x[2], digits[(x[1] % base) + 1])]
           Body(g) == [v \in Nat |-> IF v < base THEN <<digits[v + 1]>>
                                     ELSE Append(g[v \div base], digits[(v % base) + 1])]
           h == CHOOSE g : g = Body(g)
<1>1. \A v \in Nat : v \div base \in Nat /\ v % base \in Nat /\ (v >= base => v \div base < v)
  <2>1. CASE base = 10 BY <2>1
  <2>2. CASE base = 16 BY <2>2
  <2> QED BY <2>1, <2>2
<1>2. rank \in [Nat -> Nat] /\ N \in [Nat -> Nat] BY <1>1
<1>3. B \in [Nat -> V]
  <2>1. ASSUME NEW d \in T PROVE <<d>> \in Seq(T)
    <3> HIDE DEF T
    <3> QED OBVIOUS
  <2>2. \A v \in Nat : digits[v + 1] \in T OBVIOUS
  <2> HIDE DEF T
  <2> QED BY <2>1, <2>2
<1>4. F \in [Nat \X V -> V]
  <2>1. ASSUME NEW v \in Nat, NEW s \in V PROVE Append(s, digits[(v % base) + 1]) \in V
    <3>1. digits[(v % base) + 1] \in T BY <1>1
    <3> HIDE DEF T
    <3> QED BY <3>1
  <2> HIDE DEF V
  <2> QED BY <2>1
<1>5. \A v \in Nat \ Stop : rank[N[v]] < rank[v] BY <1>1
<1>6. PICK f \in [Nat -> V] : Unfolds(f, Nat, Stop, B, F, N)
  <2> HIDE DEF rank, N, B, F, V, Stop
  <2> QED BY <1>2, <1>3, <1>4, <1>5, RankedRecursion
<1>7. \A v \in Nat : f[v] = IF v < base THEN <<digits[v + 1]>> ELSE Append(f[v \div base], digits[(v % base) + 1])
  <2> SUFFICES ASSUME NEW v \in Nat
               PROVE  f[v] = IF v < base THEN <<digits[v + 1]>> ELSE Append(f[v \div base], digits[(v % base) + 1])
    OBVIOUS
  <2>1. f[v] = IF v \in Stop THEN B[v] ELSE F[<<v, f[N[v]]>>] BY <1>6 DEF Unfolds
  <2>2. N[v] = v \div base /\ v \div base \in Nat BY <1>1
  <2>3. f[v \div base] \in V BY <2>2
  <2> HIDE DEF V, N
  <2> QED BY <2>1, <2>2, <2>3
<1>8. \E g : g = Body(g)
  <2>1. f = [v \in Nat |-> f[v]] OBVIOUS
  <2>2. f = Body(f) BY <1>7, <2>1
  <2> HIDE DEF Body
  <2> QED BY <2>2
<1>9. h = Body(h)
  <2> HIDE DEF Body
  <2> QED BY <1>8
<1>10. \A v : format_num(v, base, digits) = h[v] BY DEF format_num
<1> HIDE DEF h
<1>11. \A v \in Nat : h[v] = IF v < base THEN <<digits[v + 1]>> ELSE Append(h[v \div base], digits[(v % base) + 1])
  BY <1>9
<1> QED BY <1>10, <1>11

\* Quotient and remainder.
LEMMA Tens ==
    ASSUME NEW v \in Nat
    PROVE  \E q \in Nat, r \in 0 .. 9 : v = 10 * q + r /\ q = v \div 10 /\ r = v % 10
<1>1. PICK q \in Nat : q = v \div 10 OBVIOUS
<1>2. v >= 10 * q /\ v < 10 * q + 10 BY <1>1
<1>3. PICK r \in 0 .. 9 : v = 10 * q + r
  <2>1. v - 10 * q \in 0 .. 9 /\ v = 10 * q + (v - 10 * q) BY <1>2
  <2> QED BY <2>1
<1>4. r = v % 10 BY <1>3
<1> QED BY <1>1, <1>3, <1>4

LEMMA Sixteens ==
    ASSUME NEW v \in Nat
    PROVE  \E q \in Nat, r \in 0 .. 15 : v = 16 * q + r /\ q = v \div 16 /\ r = v % 16
<1>1. PICK q \in Nat : q = v \div 16 OBVIOUS
<1>2. v >= 16 * q /\ v < 16 * q + 16 BY <1>1
<1>3. PICK r \in 0 .. 15 : v = 16 * q + r
  <2>1. v - 16 * q \in 0 .. 15 /\ v = 16 * q + (v - 16 * q) BY <1>2
  <2> QED BY <2>1
<1>4. r = v % 16 BY <1>3
<1> QED BY <1>1, <1>3, <1>4

LEMMA DivisionIs ==
    ASSUME NEW base \in {10, 16}, NEW v \in Nat
    PROVE  \E q \in Nat, r \in 0 .. base - 1 :
              /\ q = v \div base /\ r = v % base /\ v = q * base + r
              /\ v >= base => q < v /\ q > 0
<1>1. CASE base = 10
  <2>1. PICK q \in Nat, r \in 0 .. 9 : v = 10 * q + r /\ q = v \div 10 /\ r = v % 10 BY Tens
  <2>2. v = q * 10 + r /\ (v >= 10 => q < v /\ q > 0) BY <2>1
  <2> QED BY <1>1, <2>1, <2>2
<1>2. CASE base = 16
  <2>1. PICK q \in Nat, r \in 0 .. 15 : v = 16 * q + r /\ q = v \div 16 /\ r = v % 16 BY Sixteens
  <2>2. v = q * 16 + r /\ (v >= 16 => q < v /\ q > 0) BY <2>1
  <2> QED BY <1>2, <2>1, <2>2
<1> QED BY <1>1, <1>2

LEMMA NumberIs ==
    ASSUME NEW base \in {10, 16}, NEW digits, NEW value \in Nat
    PROVE  IsText(format_num(value, base, digits))
<1> DEFINE T == {digits[i + 1] : i \in Nat}
           V == Seq(T)
           h == [v \in Nat |-> format_num(v, base, digits)]
<1>1. \A v \in Nat : v \div base \in Nat /\ v % base \in Nat /\ (v >= base => v \div base < v)
  BY DivisionIs
<1>2. \A v \in Nat : h[v] = IF v < base THEN <<digits[v + 1]>> ELSE Append(h[v \div base], digits[(v % base) + 1])
  BY <1>1, FormatIs
<1>3. format_num(value, base, digits) = h[value] OBVIOUS
<1> HIDE DEF h
<1> DEFINE R == {v \in Nat : h[v] \notin V}
<1>4. R = {}
  <2> SUFFICES ASSUME R # {} PROVE FALSE OBVIOUS
  <2>1. PICK v \in R : \A w \in R : v <= w
    <3>1. R \in SUBSET Nat OBVIOUS
    <3> HIDE DEF R
    <3> QED BY <3>1, LeastExists
  <2>2. v \in Nat /\ h[v] \notin V OBVIOUS
  <2>3. CASE v < base
    <3>1. h[v] = <<digits[v + 1]>> BY <1>2, <2>2, <2>3
    <3>2. digits[v + 1] \in T BY <2>2
    <3> DEFINE d == digits[v + 1]
    <3> HIDE DEF d, T
    <3>3. <<d>> \in Seq(T) BY <3>2 DEF d
    <3> QED BY <2>2, <3>1, <3>3 DEF d
  <2>4. CASE ~(v < base)
    <3> DEFINE u == v \div base
               d == digits[(v % base) + 1]
    <3>1. u \in Nat /\ u < v BY <1>1, <2>2, <2>4
    <3>2. u \notin R
      <4> HIDE DEF R, u
      <4> QED BY <2>1, <2>2, <3>1
    <3>3. h[u] \in Seq(T) BY <3>1, <3>2
    <3>4. d \in T BY <1>1, <2>2
    <3>5. h[v] = Append(h[u], d) BY <1>2, <2>2, <2>4
    <3> HIDE DEF u, d, T
    <3>6. Append(h[u], d) \in Seq(T) BY <3>3, <3>4
    <3> QED BY <2>2, <3>5, <3>6
  <2> QED BY <2>3, <2>4
<1>5. h[value] \in Seq(T) BY <1>4
<1> QED BY <1>3, <1>5 DEF IsText

LEMMA TextJoins ==
    ASSUME NEW a, IsText(a), NEW b, IsText(b)
    PROVE  IsText(a \o b)
<1>1. PICK S : a \in Seq(S) BY DEF IsText
<1>2. PICK T : b \in Seq(T) BY DEF IsText
<1> DEFINE U == S \cup T
<1>3. a \in Seq(U) /\ b \in Seq(U)
  <2>1. S \subseteq U /\ T \subseteq U OBVIOUS
  <2> HIDE DEF U
  <2> QED BY <1>1, <1>2, <2>1, SeqGrows
<1> HIDE DEF U
<1>4. a \o b \in Seq(U) BY <1>3
<1> QED BY <1>4 DEF IsText

LEMMA TextFlattens ==
    ASSUME NEW n \in Nat, NEW ss, ss = [i \in 1 .. n |-> ss[i]], \A i \in 1 .. n : IsText(ss[i])
    PROVE  IsText(FlattenSeq(ss))
<1> DEFINE T == UNION {{ss[i][j] : j \in 1 .. Len(ss[i])} : i \in 1 .. n}
<1>1. ASSUME NEW i \in 1 .. n PROVE ss[i] \in Seq(T)
  <2>1. PICK S : ss[i] \in Seq(S) BY DEF IsText
  <2>2. \A j \in 1 .. Len(ss[i]) : ss[i][j] \in T OBVIOUS
  <2> HIDE DEF T
  <2> QED BY <2>1, <2>2
<1> HIDE DEF T
<1>2. ss \in Seq(Seq(T)) /\ Len(ss) = n BY <1>1
<1>3. CASE n = 0
  <2>1. FlattenSeq(ss) = ss BY <1>2, <1>3 DEF FlattenSeq
  <2> QED BY <1>2, <2>1 DEF IsText
<1>4. CASE n # 0
  <2>1. ss # <<>> BY <1>2, <1>4
  <2>2. PICK g \in [1 .. n -> Seq(T)] : FlattenSeq(ss) = g[n] BY <1>2, <2>1, FlattenIs
  <2>3. g[n] \in Seq(T) BY <1>4
  <2> QED BY <2>2, <2>3 DEF IsText
<1> QED BY <1>3, <1>4

LEMMA EmitIs ==
    ASSUME NEW s, IsText(s), NEW width \in Nat, NEW left, NEW fill
    PROVE  IsText(emit(s, width, left, fill))
<1> DEFINE gap == IF width > Len(s) THEN width - Len(s) ELSE 0
<1>1. Len(s) \in Nat BY DEF IsText
<1>2. gap \in Nat BY <1>1
<1> HIDE DEF gap
<1>3. ASSUME NEW c PROVE IsText(pad(c, gap))
  <2>1. pad(c, gap) \in Seq({c}) BY <1>2 DEF pad
  <2> QED BY <2>1 DEF IsText
<1>4. IsText(s \o pad(" ", gap)) /\ IsText(pad(fill, gap) \o s)
  <2>1. IsText(pad(" ", gap)) /\ IsText(pad(fill, gap)) BY <1>3
  <2> QED BY <2>1, TextJoins
<1>5. emit(s, width, left, fill) = IF left THEN s \o pad(" ", gap) ELSE pad(fill, gap) \o s BY DEF emit, gap
<1> QED BY <1>4, <1>5

LEMMA ComplaintIs == IsText(Complaint)
<1>1. Complaint \in Seq({"?", NL}) BY DEF Complaint
<1> QED BY <1>1 DEF IsText

LEMMA CharIs == ASSUME NEW c PROVE IsText(<<c>>)
<1>1. <<c>> \in Seq({c}) OBVIOUS
<1> QED BY <1>1 DEF IsText

LEMMA WantFileIs ==
    ASSUME NEW w, IsText(w), NEW output, IsText(output)
    PROVE  IsText(want_file(w, output))
BY ComplaintIs, TextJoins DEF want_file

\* cmd_head() goes through the words.
OptionStep(ws, s, i) ==
    IF s.skip THEN [s EXCEPT !.limit = atoi_simple(ws[i]), !.skip = FALSE]
    ELSE IF ws[i] = <<"-", "n">> /\ i < Len(ws) THEN [s EXCEPT !.skip = TRUE]
    ELSE [s EXCEPT !.path = i]

Options(ws) == [limit : {10} \cup {atoi_simple(ws[i]) : i \in 1 .. Len(ws)}, path : 0 .. Len(ws), skip : BOOLEAN]

OptionsRun(h, ws) ==
    /\ h[1] = [limit |-> 10, path |-> 0, skip |-> FALSE]
    /\ \A i \in 1 .. Len(ws) : h[i] \in Options(ws)
    /\ \A i \in 2 .. Len(ws) : h[i] = OptionStep(ws, h[i - 1], i)

LEMMA OptionsAre ==
    ASSUME NEW ws, Len(ws) \in Nat \ {0}
    PROVE  \E h : OptionsRun(h, ws) /\ HeadOptions(ws) = h[Len(ws)]
<1> DEFINE n == Len(ws)
           S == 1 .. n
           L == {10} \cup {atoi_simple(ws[i]) : i \in 1 .. Len(ws)}
           V == Options(ws)
           base == [limit |-> 10, path |-> 0, skip |-> FALSE]
           Step(s, i) == OptionStep(ws, s, i)
           rank == [i \in S |-> i]
           N == [i \in S |-> IF i = 1 THEN 1 ELSE i - 1]
           B == [i \in S |-> base]
           F == [x \in S \X V |-> Step(x[2], x[1])]
           Body(g) == [i \in 1 .. Len(ws) |-> IF i = 1 THEN base ELSE Step(g[i - 1], i)]
           h == CHOOSE g : g = Body(g)
<1>0. n \in Nat \ {0} OBVIOUS
<1>1. rank \in [S -> Nat] /\ N \in [S -> S]
  <2> HIDE DEF n
  <2> QED BY <1>0
<1>2. base \in V BY DEF Options
<1>3. B \in [S -> V]
  <2> HIDE DEF V, base
  <2> QED BY <1>2
<1>4. ASSUME NEW s \in V, NEW i \in S PROVE Step(s, i) \in V
  <2>1. atoi_simple(ws[i]) \in L OBVIOUS
  <2>2. V = [limit : L, path : 0 .. n, skip : BOOLEAN] BY DEF Options
  <2> HIDE DEF L, V
  <2>3. [s EXCEPT !.limit = atoi_simple(ws[i]), !.skip = FALSE] \in V BY <2>1, <2>2
  <2>4. [s EXCEPT !.skip = TRUE] \in V BY <2>2
  <2>5. [s EXCEPT !.path = i] \in V BY <1>0, <2>2
  <2> QED BY <2>3, <2>4, <2>5 DEF OptionStep
<1> HIDE DEF Step, V, base
<1>5. F \in [S \X V -> V] BY <1>4
<1>6. \A i \in S \ {1} : rank[N[i]] < rank[i]
  <2> HIDE DEF n
  <2> QED BY <1>0
<1>7. PICK f \in [S -> V] : Unfolds(f, S, {1}, B, F, N)
  <2> HIDE DEF rank, N, B, F, S
  <2> QED BY <1>1, <1>3, <1>5, <1>6, RankedRecursion
<1>8. \A i \in S : f[i] = IF i = 1 THEN base ELSE Step(f[i - 1], i)
  <2> SUFFICES ASSUME NEW i \in S PROVE f[i] = IF i = 1 THEN base ELSE Step(f[i - 1], i) OBVIOUS
  <2> HIDE DEF n
  <2>1. f[i] = IF i \in {1} THEN B[i] ELSE F[<<i, f[N[i]]>>] BY <1>7 DEF Unfolds
  <2>2. CASE i = 1 BY <2>1, <2>2
  <2>3. CASE i # 1
    <3>1. N[i] = i - 1 /\ i - 1 \in S BY <1>0, <2>3
    <3>2. f[i - 1] \in V BY <3>1
    <3> QED BY <2>1, <2>3, <3>1, <3>2
  <2> QED BY <2>2, <2>3
<1>9. \E g : g = Body(g)
  <2>1. f = [i \in S |-> f[i]] OBVIOUS
  <2>2. f = Body(f) BY <1>8, <2>1
  <2> HIDE DEF Body
  <2> QED BY <2>2
<1>10. h = Body(h)
  <2> HIDE DEF Body
  <2> QED BY <1>9
<1>11. HeadOptions(ws) = h[n] BY DEF HeadOptions, Step, base, OptionStep
<1> HIDE DEF h
<1>12. \A i \in S : h[i] = IF i = 1 THEN base ELSE Step(h[i - 1], i) BY <1>10
<1> HIDE DEF n
<1>13. \A i \in S : h[i] \in V
  <2> DEFINE P == {i \in S : h[i] \in V}
  <2>1. 1 \in P BY <1>0, <1>2, <1>12
  <2>2. ASSUME NEW i \in 1 .. n - 1, i \in P PROVE i + 1 \in P
    <3>1. i + 1 \in S /\ i + 1 # 1 /\ (i + 1) - 1 = i BY <1>0
    <3>2. h[i + 1] = Step(h[i], i + 1) BY <1>12, <3>1
    <3>3. Step(h[i], i + 1) \in V BY <1>4, <2>2, <3>1
    <3> QED BY <3>1, <3>2, <3>3
  <2> HIDE DEF P
  <2>3. \A i \in 1 .. n : i \in P BY <1>0, <2>1, <2>2, RangeInduction
  <2> QED BY <2>3 DEF P
<1>14. h[1] = base BY <1>0, <1>12
<1>15. \A i \in 2 .. n : h[i] = Step(h[i - 1], i)
  <2>1. \A i \in 2 .. n : i \in S /\ i # 1 BY <1>0
  <2> QED BY <1>12, <2>1
<1>16. OptionsRun(h, ws)
  <2>1. h[1] = [limit |-> 10, path |-> 0, skip |-> FALSE] BY <1>14 DEF base
  <2>2. \A i \in 1 .. Len(ws) : h[i] \in Options(ws) BY <1>13 DEF V, n
  <2>3. \A i \in 2 .. Len(ws) : h[i] = OptionStep(ws, h[i - 1], i) BY <1>15 DEF n, Step
  <2> QED BY <2>1, <2>2, <2>3 DEF OptionsRun
<1> QED BY <1>11, <1>16 DEF n

\* It finds its path among them.
LEMMA PathIs ==
    ASSUME NEW n \in Nat \ {0}, NEW argv0, Len(argv0) = n
    PROVE  HeadOptions(argv0).path \in 0 .. n
<1>1. PICK h : OptionsRun(h, argv0) /\ HeadOptions(argv0) = h[n] BY OptionsAre
<1>2. h[n] \in Options(argv0) BY <1>1 DEF OptionsRun
<1> QED BY <1>1, <1>2 DEF Options

\* The words a command gets.
AreWords(ws) == Len(ws) \in Nat \ {0} /\ \A i \in 1 .. Len(ws) : IsText(ws[i])

LEMMA EchoIs == ASSUME NEW ws, AreWords(ws) PROVE IsText(cmd_echo(ws))
<1> DEFINE n == Len(ws) - 1
           ss == [i \in 1 .. n |-> (IF i > 1 THEN <<" ">> ELSE <<>>) \o ws[i + 1]]
<1>1. n \in Nat BY DEF AreWords
<1>2. ASSUME NEW i \in 1 .. n PROVE IsText(ss[i])
  <2>1. i + 1 \in 1 .. Len(ws) BY DEF AreWords
  <2>2. IsText(ws[i + 1]) BY <2>1 DEF AreWords
  <2>3. IsText(IF i > 1 THEN <<" ">> ELSE <<>>)
    <3>1. IsText(<<" ">>) BY CharIs
    <3>2. <<>> \in Seq({" "}) OBVIOUS
    <3>3. IsText(<<>>) BY <3>2 DEF IsText
    <3> QED BY <3>1, <3>3
  <2>4. IsText((IF i > 1 THEN <<" ">> ELSE <<>>) \o ws[i + 1]) BY <2>2, <2>3, TextJoins
  <2> QED BY <2>4
<1>3. ss = [i \in 1 .. n |-> ss[i]] OBVIOUS
<1>4. cmd_echo(ws) = FlattenSeq(ss) \o <<NL>> BY DEF cmd_echo
<1> HIDE DEF n, ss
<1>5. IsText(FlattenSeq(ss)) BY <1>1, <1>2, <1>3, TextFlattens
<1>6. IsText(<<NL>>) BY CharIs
<1> QED BY <1>4, <1>5, <1>6, TextJoins

LEMMA ConvertedIs ==
    ASSUME NEW v \in Nat, NEW width \in Nat, NEW fill
    PROVE  IsText(Converted("u", v, width, FALSE, fill)) /\ IsText(Converted("x", v, width, FALSE, fill))
<1>1. IsText(format_num(v, 10, lower)) /\ IsText(format_num(v, 16, lower)) BY NumberIs
<1>2. IsText(emit(format_num(v, 10, lower), width, FALSE, fill)) /\ IsText(emit(format_num(v, 16, lower), width, FALSE, fill))
  BY <1>1, EmitIs
<1>3. Converted("u", v, width, FALSE, fill) = emit(format_num(v, 10, lower), width, FALSE, fill) BY DEF Converted, NUL
<1>4. Converted("x", v, width, FALSE, fill) = emit(format_num(v, 16, lower), width, FALSE, fill) BY DEF Converted, NUL
<1> QED BY <1>2, <1>3, <1>4

LEMMA WcIs ==
    ASSUME NEW ws, AreWords(ws), NEW C, NEW f \in Seq(C)
    PROVE  IsText(cmd_wc(ws, f))
<1> DEFINE missing == {i \in 2 .. Len(ws) : ws[i] \notin FileNames}
           upto == IF missing = {} THEN Len(ws) ELSE Min(missing)
           n == upto - 1
           ss == [i \in 1 .. n |-> want_file(ws[i + 1], CountsOf(ws[i + 1], f))]
<1>1. upto \in 1 .. Len(ws)
  <2>1. CASE missing = {} BY <2>1 DEF AreWords
  <2>2. CASE missing # {}
    <3>1. missing \in SUBSET Nat BY DEF AreWords
    <3>2. \E m \in missing : \A k \in missing : m <= k
      <4> HIDE DEF missing
      <4> QED BY <2>2, <3>1, LeastExists
    <3>3. Min(missing) \in missing
      <4> HIDE DEF missing
      <4> QED BY <3>2 DEF Min
    <3>4. upto = Min(missing) BY <2>2
    <3>5. upto \in missing BY <3>3, <3>4
    <3> HIDE DEF upto
    <3> QED BY <3>5 DEF AreWords
  <2> QED BY <2>1, <2>2
<1> HIDE DEF upto, missing
<1>2. n \in Nat /\ n < Len(ws) /\ Len(ws) \in Nat BY <1>1 DEF AreWords
<1>3. ASSUME NEW w, IsText(w) PROVE IsText(CountsOf(w, f))
  <2> DEFINE a == Converted("u", Counted(f).lines, 6, FALSE, " ")
             b == Converted("u", Counted(f).words, 6, FALSE, " ")
             c == Converted("u", Len(f), 6, FALSE, " ")
  <2>1. Counted(f).lines \in Nat /\ Counted(f).words \in Nat BY CountedIs DEF Counts
  <2>2. Len(f) \in Nat OBVIOUS
  <2>3. IsText(a) /\ IsText(b) /\ IsText(c)
    <3>1. 6 \in Nat OBVIOUS
    <3> QED BY <2>1, <2>2, <3>1, ConvertedIs
  <2>4. IsText(<<" ">>) /\ IsText(<<NL>>) BY CharIs
  <2>5. CountsOf(w, f) = a \o <<" ">> \o b \o <<" ">> \o c \o <<" ">> \o w \o <<NL>> BY DEF CountsOf
  <2> HIDE DEF a, b, c
  <2>6. IsText(a \o <<" ">> \o b \o <<" ">>) BY <2>3, <2>4, TextJoins
  <2>7. IsText(a \o <<" ">> \o b \o <<" ">> \o c \o <<" ">>) BY <2>3, <2>4, <2>6, TextJoins
  <2>8. IsText(a \o <<" ">> \o b \o <<" ">> \o c \o <<" ">> \o w \o <<NL>>) BY <1>3, <2>4, <2>7, TextJoins
  <2> QED BY <2>5, <2>8
<1>4. ASSUME NEW i \in 1 .. n PROVE IsText(ss[i])
  <2>1. i + 1 \in 1 .. Len(ws) BY <1>2
  <2>2. IsText(ws[i + 1]) BY <2>1 DEF AreWords
  <2>3. IsText(want_file(ws[i + 1], CountsOf(ws[i + 1], f))) BY <1>3, <2>2, WantFileIs
  <2> QED BY <2>3
<1>5. ss = [i \in 1 .. n |-> ss[i]] OBVIOUS
<1>6. cmd_wc(ws, f) = IF Len(ws) < 2 THEN Complaint ELSE FlattenSeq(ss) BY DEF cmd_wc, upto, missing
<1> HIDE DEF n, ss
<1>7. IsText(FlattenSeq(ss)) BY <1>2, <1>4, <1>5, TextFlattens
<1> QED BY <1>6, <1>7, ComplaintIs

LEMMA GrepIs ==
    ASSUME NEW ws, AreWords(ws), NEW C, NEW f \in Seq(C)
    PROVE  IsText(cmd_grep(ws, f))
<1> DEFINE T == C \cup {NL}
<1>1. CASE Len(ws) # 3 BY <1>1, ComplaintIs DEF cmd_grep
<1>2. CASE Len(ws) = 3
  <2>1. C \subseteq T /\ NL \in T OBVIOUS
  <2> HIDE DEF T
  <2>2. f \in Seq(T) BY <2>1, SeqGrows
  <2>3. IsText(Searched(ws[2], f)) BY <2>1, <2>2, SearchedIs DEF IsText
  <2>4. IsText(ws[3]) BY <1>2 DEF AreWords
  <2> QED BY <1>2, <2>3, <2>4, WantFileIs DEF cmd_grep
<1> QED BY <1>1, <1>2

LEMMA HeadIs ==
    ASSUME NEW ws, AreWords(ws), NEW C, NEW f \in Seq(C)
    PROVE  IsText(cmd_head(ws, f))
<1> DEFINE o == HeadOptions(ws)
<1>1. o.path \in 0 .. Len(ws) BY PathIs DEF AreWords
<1>2. cmd_head(ws, f) = IF o.path = 0 THEN Complaint ELSE want_file(ws[o.path], FirstLines(o.limit, f))
  BY DEF cmd_head
<1> HIDE DEF o
<1>3. IsText(FirstLines(o.limit, f)) BY FirstLinesIs DEF IsText
<1>4. CASE o.path = 0 BY <1>2, <1>4, ComplaintIs
<1>5. CASE o.path # 0
  <2>1. o.path \in 1 .. Len(ws) BY <1>1, <1>5 DEF AreWords
  <2>2. IsText(ws[o.path]) BY <2>1 DEF AreWords
  <2> QED BY <1>2, <1>3, <1>5, <2>2, WantFileIs
<1> QED BY <1>4, <1>5

LEMMA RowIs ==
    ASSUME NEW C, NEW f \in Seq(C), \A i \in DOMAIN f : Code[f[i]] \in 0 .. 255, NEW off \in Nat
    PROVE  IsText(Row(f, off))
<1> DEFINE cells == [i \in 1 .. DUMP_ROW |->
                       Cell(f, off + i) \o (IF i = DUMP_ROW \div 2 THEN <<" ">> ELSE <<>>)]
           m == Min({DUMP_ROW, Len(f) - off})
           chars == [i \in 1 .. m |-> Printable(f[off + i])]
<1>1. DUMP_ROW \in Nat /\ Len(f) \in Nat BY ToolAssumption
<1>2. IsText(<<" ">>) /\ IsText(<<>>) /\ IsText(<<" ", " ">>) /\ IsText(<<" ", " ", " ">>)
      /\ IsText(<<" ", "|">>) /\ IsText(<<"|", NL>>)
  <2>1. <<" ">> \in Seq({" "}) /\ <<>> \in Seq({" "}) /\ <<" ", " ">> \in Seq({" "}) /\ <<" ", " ", " ">> \in Seq({" "})
    OBVIOUS
  <2>2. <<" ", "|">> \in Seq({" ", "|"}) /\ <<"|", NL>> \in Seq({"|", NL}) OBVIOUS
  <2> QED BY <2>1, <2>2 DEF IsText
<1>3. ASSUME NEW v \in Nat, NEW width \in Nat PROVE IsText(Hex(v, width)) BY ConvertedIs DEF Hex
<1>4. ASSUME NEW k \in Nat \ {0} PROVE IsText(Cell(f, k))
  <2>1. CASE k <= Len(f)
    <3>1. k \in DOMAIN f BY <1>1, <2>1
    <3>2. Code[f[k]] \in Nat
      <4>1. Code[f[k]] \in 0 .. 255 BY <3>1, Zenon
      <4> DEFINE c == Code[f[k]]
      <4>2. c \in 0 .. 255 BY <4>1
      <4> HIDE DEF c
      <4>3. c \in Nat BY <4>2
      <4> QED BY <4>3 DEF c
    <3>3. IsText(Hex(Code[f[k]], 2)) BY <1>3, <3>2
    <3>4. IsText(Hex(Code[f[k]], 2) \o <<" ">>) BY <1>2, <3>3, TextJoins
    <3> QED BY <2>1, <3>4 DEF Cell
  <2>2. CASE ~(k <= Len(f)) BY <1>2, <2>2 DEF Cell
  <2> QED BY <2>1, <2>2
<1>5. ASSUME NEW i \in 1 .. DUMP_ROW PROVE IsText(cells[i])
  <2>1. off + i \in Nat \ {0} BY <1>1
  <2>2. IsText(Cell(f, off + i)) BY <1>4, <2>1
  <2>3. IsText(IF i = DUMP_ROW \div 2 THEN <<" ">> ELSE <<>>) BY <1>2
  <2>4. IsText(Cell(f, off + i) \o (IF i = DUMP_ROW \div 2 THEN <<" ">> ELSE <<>>)) BY <2>2, <2>3, TextJoins
  <2> QED BY <2>4
<1>6. cells = [i \in 1 .. DUMP_ROW |-> cells[i]] OBVIOUS
<1>7. IsText(FlattenSeq(cells))
  <2> HIDE DEF cells
  <2> QED BY <1>1, <1>5, <1>6, TextFlattens
<1>8. m \in Int
  <2>1. Len(f) - off \in Int /\ DUMP_ROW \in Int BY <1>1
  <2>2. m = IF DUMP_ROW <= Len(f) - off THEN DUMP_ROW ELSE Len(f) - off BY <2>1, MinIs
  <2> HIDE DEF m
  <2> QED BY <2>1, <2>2
<1>9. IsText(chars)
  <2> HIDE DEF m
  <2> DEFINE T == {chars[i] : i \in 1 .. m}
  <2>1. \A i \in 1 .. m : chars[i] \in T OBVIOUS
  <2>2. chars = [i \in 1 .. m |-> chars[i]] OBVIOUS
  <2> HIDE DEF chars, T
  <2>3. CASE m \in Nat
    <3>1. chars \in Seq(T) BY <2>1, <2>2, <2>3
    <3> QED BY <3>1 DEF IsText
  <2>4. CASE m \notin Nat
    <3>1. 1 .. m = {} BY <1>8, <2>4
    <3>2. chars = <<>> BY <2>2, <3>1
    <3> QED BY <1>2, <3>2
  <2> QED BY <2>3, <2>4
<1>10. Row(f, off) = Hex(off, 8) \o <<" ", " ">> \o FlattenSeq(cells) \o <<" ", "|">> \o chars \o <<"|", NL>>
  BY DEF Row
<1>11. IsText(Hex(off, 8)) BY <1>3
<1> HIDE DEF cells, chars
<1>12. IsText(Hex(off, 8) \o <<" ", " ">>) BY <1>2, <1>11, TextJoins
<1>13. IsText(Hex(off, 8) \o <<" ", " ">> \o FlattenSeq(cells)) BY <1>7, <1>12, TextJoins
<1>14. IsText(Hex(off, 8) \o <<" ", " ">> \o FlattenSeq(cells) \o <<" ", "|">>) BY <1>2, <1>13, TextJoins
<1>15. IsText(Hex(off, 8) \o <<" ", " ">> \o FlattenSeq(cells) \o <<" ", "|">> \o chars) BY <1>9, <1>14, TextJoins
<1>16. IsText(Hex(off, 8) \o <<" ", " ">> \o FlattenSeq(cells) \o <<" ", "|">> \o chars \o <<"|", NL>>)
  BY <1>2, <1>15, TextJoins
<1> QED BY <1>10, <1>16

LEMMA HexdumpIs ==
    ASSUME NEW ws, AreWords(ws), NEW C, NEW f \in Seq(C), \A i \in DOMAIN f : Code[f[i]] \in 0 .. 255
    PROVE  IsText(cmd_hexdump(ws, f))
<1> DEFINE n == (Len(f) + DUMP_ROW - 1) \div DUMP_ROW
           ss == Rows(f)
<1>1. DUMP_ROW \in Nat \ {0} /\ Len(f) \in Nat BY ToolAssumption
<1>2. Len(f) + DUMP_ROW - 1 \in Nat BY <1>1
<1>3. n \in Nat
  <2> DEFINE a == Len(f) + DUMP_ROW - 1
  <2>1. a \in Nat BY <1>2
  <2> HIDE DEF a
  <2> QED BY <1>1, <2>1 DEF a
<1>4. ASSUME NEW r \in 1 .. n PROVE IsText(Row(f, (r - 1) * DUMP_ROW))
  <2>1. r - 1 \in Nat BY <1>3
  <2> DEFINE a == r - 1
             off == a * DUMP_ROW
  <2>2. off \in Nat
    <3> HIDE DEF a
    <3> QED BY <1>1, <2>1 DEF a
  <2> HIDE DEF off
  <2>3. IsText(Row(f, off)) BY <2>2, RowIs
  <2> QED BY <2>3 DEF off
<1>5. ss = [r \in 1 .. n |-> Row(f, (r - 1) * DUMP_ROW)] BY DEF Rows
<1>6. (\A r \in 1 .. n : IsText(ss[r])) /\ ss = [r \in 1 .. n |-> ss[r]]
  <2> HIDE DEF n, ss
  <2> QED BY <1>4, <1>5
<1>7. IsText(FlattenSeq(ss))
  <2> HIDE DEF n, ss
  <2> QED BY <1>3, <1>6, TextFlattens
<1>8. CASE Len(ws) < 2 BY <1>8, ComplaintIs DEF cmd_hexdump
<1>9. CASE ~(Len(ws) < 2)
  <2>1. 2 \in 1 .. Len(ws) BY <1>9 DEF AreWords
  <2>2. IsText(ws[2]) BY <2>1 DEF AreWords
  <2> QED BY <1>7, <1>9, <2>2, WantFileIs DEF cmd_hexdump
<1> QED BY <1>8, <1>9

\* The words that a command gets are texts.
LEMMA WordsAre ==
    ASSUME CInv, argv # <<>>
    PROVE  AreWords(Words) /\ Words[1] = Word(1)
<1> DEFINE n == Len(argv)
           C == Char \cup {NUL}
<1>1. argv \in Seq(1 .. Len(text)) /\ text \in Seq(C) BY DEF CInv, Pointers, Terminated
<1>2. DOMAIN argv = 1 .. n /\ n \in Nat \ {0} BY <1>1
<1>3. ASSUME NEW i \in 1 .. n PROVE IsText(Word(i))
  <2> DEFINE a == argv[i]
             e == Find(a, {NUL})
  <2>1. a \in 1 .. Len(text) BY <1>1, <1>2, ElementOfSeq
  <2>2. e \in a .. Len(text)
    <3>1. NUL \in {NUL} OBVIOUS
    <3> HIDE DEF a
    <3> QED BY <2>1, <3>1, FindIs DEF CInv, Pointers
  <2>3. Word(i) = SubSeq(text, a, e - 1) BY DEF Word, At
  <2> HIDE DEF a, e, C
  <2>4. Len(text) \in Nat BY <1>1
  <2>5. SubSeq(text, a, e - 1) \in Seq(C) BY <1>1, <2>1, <2>2, <2>4
  <2> QED BY <2>3, <2>5 DEF IsText
<1>4. Words = [i \in 1 .. n |-> Word(i)] BY <1>2 DEF Words
<1>5. AreWords(Words)
  <2> HIDE DEF n
  <2>1. Len(Words) = n /\ \A i \in 1 .. n : Words[i] = Word(i) BY <1>2, <1>4
  <2> QED BY <1>2, <1>3, <2>1 DEF AreWords
<1>6. 1 \in DOMAIN argv BY <1>2
<1> QED BY <1>5, <1>6 DEF Words

\* Every command prints text, whatever its words and the file are.
LEMMA OutputIsText ==
    ASSUME CInv, argv # <<>>, NEW f \in Files
    PROVE  IsText(Output(f))
<1>5. AreWords(Words) BY WordsAre
<1> DEFINE T == STRING
<1>6. f \in Seq(T) /\ \A i \in DOMAIN f : Code[f[i]] \in 0 .. 255 BY FileAssumption
<1> HIDE DEF T
<1>7. IsText(cmd_wc(Words, f)) BY <1>5, <1>6, WcIs
<1>8. IsText(cmd_grep(Words, f)) BY <1>5, <1>6, GrepIs
<1>9. IsText(cmd_head(Words, f)) BY <1>5, <1>6, HeadIs
<1>10. IsText(cmd_hexdump(Words, f)) BY <1>5, <1>6, HexdumpIs
<1>11. IsText(cmd_echo(Words)) BY <1>5, EchoIs
<1> QED BY <1>7, <1>8, <1>9, <1>10, <1>11 DEF Output

\* execute() runs a command only if the line names one.
Named == pc \in {"operator", "command", "run"} => argv # <<>>

LEMMA NamedStep == ASSUME CInv, Named, [CmdNext]_cmdvars PROVE Named'
<1>1. ASSUME NEW given, NEW list, execute(given, list) PROVE Named' BY <1>1 DEF execute, Named
<1>2. ASSUME NEW pieces, kprintf(pieces) PROVE Named' BY <1>2 DEF kprintf, Named
<1>3. CASE NextWord BY <1>3 DEF NextWord, Parsed, Named
<1>4. CASE NoMoreWords BY <1>4 DEF NoMoreWords, Parsed, parse, Named
<1>5. CASE Operator
  <2>1. CASE Parsed("command") /\ UNCHANGED parse BY <1>5, <2>1 DEF Operator, Parsed, parse, Named
  <2>2. CASE Say(Complaint) BY <2>2 DEF Say, Named
  <2>3. ASSUME NEW i \in DOMAIN argv, argv' = SubSeq(argv, 1, i - 1), i < Len(argv),
               Parsed(IF i = 1 THEN "prompt" ELSE "command")
        PROVE  Named'
    <3>1. argv \in Seq(1 .. Len(text)) BY DEF CInv, Pointers
    <3>2. i \in 1 .. Len(argv) /\ Len(argv) \in Nat BY <3>1
    <3>3. CASE i = 1 BY <2>3, <3>3 DEF Parsed, Named
    <3>4. CASE i # 1
      <4>1. Len(SubSeq(argv, 1, i - 1)) = i - 1 BY <3>1, <3>2
      <4>2. argv' # <<>> BY <2>3, <3>2, <3>4, <4>1
      <4> QED BY <4>2 DEF Named
    <3> QED BY <3>3, <3>4
  <2> QED BY <1>5, <2>1, <2>2, <2>3 DEF Operator
<1>6. CASE NotFound BY <1>6 DEF NotFound, Say, Named
<1>7. CASE NoMemory BY <1>7 DEF NoMemory, Say, Named
<1>8. CASE Begin BY <1>8 DEF Begin, parse, Named
<1>9. CASE Run BY <1>9 DEF Run, Named
<1>10. CASE redirect_to_file BY <1>10 DEF redirect_to_file, Named
<1>11. CASE Die BY <1>11 DEF Die, Named
<1>12. CASE halt_forever BY <1>12 DEF halt_forever, cmdvars, parse, Named
<1>13. CASE UNCHANGED cmdvars BY <1>13 DEF cmdvars, parse, Named
<1> QED BY <1>1, <1>2, <1>3, <1>4, <1>5, <1>6, <1>7, <1>8, <1>9, <1>10, <1>11, <1>12, <1>13 DEF CmdNext

LEMMA CommandStep == ASSUME CInv, KInv, Named, [CmdNext]_cmdvars PROVE (CInv /\ KInv /\ Named)'
<1>1. TextOutput BY OutputIsText DEF Named, TextOutput
<1>2. CInv' BY CmdStepHolds
<1>3. KInv' BY <1>1, KStepHolds
<1>4. Named' BY NamedStep
<1> QED BY <1>2, <1>3, <1>4

LEMMA KInitHolds == CmdInit => KInv
<1> SUFFICES ASSUME CmdInit PROVE KInv OBVIOUS
<1>1. pc = "prompt" /\ con = Quiet /\ typed = <<>> BY DEF CmdInit, Quiet
<1>2. con = [on |-> FALSE, buf |-> <<>>, screen |-> con.screen] BY <1>1 DEF Quiet
<1> QED BY <1>1, <1>2 DEF KInv

LEMMA BufferFits == ASSUME KInv PROVE Len(con.buf) <= CAPTURE_MAX
<1>1. CAPTURE_MAX \in Nat BY LineAssumption
<1>2. CASE pc = "captured"
  <2>1. con.buf = Captured(ran.output) /\ IsText(ran.output) BY <1>2 DEF KInv
  <2>2. Len(Captured(ran.output)) \in 0 .. CAPTURE_MAX BY <2>1, CapturedIs
  <2> QED BY <1>1, <2>1, <2>2
<1>3. CASE pc # "captured"
  <2>1. con.buf = <<>> BY <1>3 DEF KInv, Quiet
  <2> QED BY <1>1, <2>1
<1> QED BY <1>2, <1>3

\* tokenize() never leaves the line, argv and the capture buffer never hold
\* more than they have room for, whatever the line is and however much a
\* command prints.
THEOREM PointersHold == CmdSpec => []PointersOK
<1> DEFINE Inv == CInv /\ KInv /\ Named
<1>1. CmdInit => Inv BY CmdInitHolds, KInitHolds DEF Named, CmdInit
<1>2. Inv /\ [CmdNext]_cmdvars => Inv' BY CommandStep
<1>3. Inv => PointersOK BY BufferFits DEF CInv, Pointers, Terminated, PointersOK
<1> QED BY <1>1, <1>2, <1>3, PTL DEF CmdSpec

\* The panic is on the screen wherever the command dies, redirected or not,
\* and the line about a page fault is in front of it unless it was captured.
THEOREM PanicIsSeen == CmdSpec => []PanicSeen
<1> DEFINE Inv == CInv /\ KInv /\ Named
<1>1. CmdInit => Inv BY CmdInitHolds, KInitHolds DEF Named, CmdInit
<1>2. Inv /\ [CmdNext]_cmdvars => Inv' BY CommandStep
<1>3. Inv => PanicSeen BY DEF KInv, PanicSeen
<1> QED BY <1>1, <1>2, <1>3, PTL DEF CmdSpec

\* The words that fit argv are the first ones of the line.
LEMMA OperatorsKept ==
    ASSUME typed \in Typed
    PROVE  KeptOperators = {} <=> \A i \in Operators : i > SHELL_ARGV_MAX
<1> DEFINE R == [word : Seq(STRING \ {NUL}), quoted : BOOLEAN]
           n == Len(typed)
           m == Min({n, SHELL_ARGV_MAX})
<1>1. typed \in Seq(R) BY LineAssumption
<1> HIDE DEF R
<1>2. n \in Nat /\ DOMAIN typed = 1 .. n /\ SHELL_ARGV_MAX \in Nat BY <1>1, LineAssumption
<1>3. m = IF n <= SHELL_ARGV_MAX THEN n ELSE SHELL_ARGV_MAX
  <2>1. n \in Int /\ SHELL_ARGV_MAX \in Int BY <1>2
  <2> HIDE DEF n
  <2> QED BY <2>1, MinIs
<1>4. DOMAIN Kept = 1 .. m /\ \A i \in 1 .. m : Kept[i] = typed[i].word BY DEF Kept
<1> HIDE DEF n, m
<1>5. \A i : i \in 1 .. m <=> i \in DOMAIN typed /\ ~(i > SHELL_ARGV_MAX) BY <1>2, <1>3
<1>6. \A i : i \in KeptOperators <=> i \in Operators /\ ~(i > SHELL_ARGV_MAX)
  BY <1>4, <1>5 DEF KeptOperators, Operators
<1> QED BY <1>6

\* A command's output, its errors too, is in the file if one of the first
\* SHELL_ARGV_MAX words of its line is an operator, and else on the screen
\* (shell_execute, cut off where argv and the capture buffer end).
THEOREM OutputIsPlaced == CmdSpec => []OutputPlaced
<1> DEFINE Inv == CInv /\ KInv /\ Named
<1>1. CmdInit => Inv BY CmdInitHolds, KInitHolds DEF Named, CmdInit
<1>2. Inv /\ [CmdNext]_cmdvars => Inv' BY CommandStep
<1>3. Inv => OutputPlaced
  <2> SUFFICES ASSUME CInv, KInv, typed # <<>>, pc = "prompt", ran.done
               PROVE  IF \A i \in Operators : i > SHELL_ARGV_MAX
                      THEN con.screen = ran.output /\ ~stored.done
                      ELSE IF stored.done
                           THEN /\ con.screen = <<>>
                                /\ IsPrefix(stored.data, ran.output)
                                /\ Len(stored.data) = Min({CAPTURE_MAX, Len(ran.output)})
                           ELSE con.screen = Complaint
    BY DEF OutputPlaced
  <2>1. Placed /\ (target # 0 <=> KeptOperators # {}) BY DEF KInv
  <2>2. typed \in Typed BY DEF CInv
  <2>3. target = 0 <=> \A i \in Operators : i > SHELL_ARGV_MAX BY <2>1, <2>2, OperatorsKept
  <2> QED BY <2>1, <2>3 DEF Placed
<1> QED BY <1>1, <1>2, <1>3, PTL DEF CmdSpec

\* cmd_wc()'s loop, character by character.
Counting(r, f) ==
    /\ r \in [0 .. Len(f) -> Counts]
    /\ r[0] = [lines |-> 0, words |-> 0, in_word |-> FALSE]
    /\ \A k \in 1 .. Len(f) : r[k] = CountStep(r[k - 1], f[k])

LEMMA CountedRuns ==
    ASSUME NEW C, NEW f \in Seq(C)
    PROVE  \E r : Counting(r, f) /\ r[Len(f)] = Counted(f)
<1> DEFINE base == [lines |-> 0, words |-> 0, in_word |-> FALSE]
           F == [x \in Counts \X C |-> CountStep(x[1], x[2])]
           Body(g) == [t \in SUBSET DOMAIN f |-> IF t = {} THEN base ELSE CountStep(g[t \ {Max(t)}], f[Max(t)])]
           h == CHOOSE g : g = Body(g)
<1>1. base \in Counts BY DEF Counts
<1>2. ASSUME NEW s \in Counts, NEW c PROVE CountStep(s, c) \in Counts
  <2>1. s.lines \in Nat /\ s.words \in Nat BY DEF Counts
  <2>2. s.lines + (IF c = NL THEN 1 ELSE 0) \in Nat /\ s.words + (IF c \notin Spaces /\ ~s.in_word THEN 1 ELSE 0) \in Nat
    BY <2>1
  <2>3. (c \notin Spaces) \in BOOLEAN OBVIOUS
  <2> QED BY <2>2, <2>3 DEF CountStep, Counts
<1>3. F \in [Counts \X C -> Counts] BY <1>2
<1>4. \E g : g = Body(g)
  <2>1. PICK g : FoldsOver(g, Counts, C, base, f, F)
    <3> HIDE DEF F, base
    <3> QED BY <1>1, <1>3, FoldOver
  <2>2. \A t \in SUBSET DOMAIN f : g[t] = IF t = {} THEN base ELSE CountStep(g[t \ {Max(t)}], f[Max(t)])
    BY <2>1 DEF FoldsOver
  <2>3. g = [t \in SUBSET DOMAIN f |-> g[t]] BY <2>1 DEF FoldsOver
  <2>4. g = Body(g) BY <2>2, <2>3
  <2> HIDE DEF Body
  <2> QED BY <2>4
<1>5. h = Body(h)
  <2> HIDE DEF Body
  <2> QED BY <1>4
<1>6. Counted(f) = h[DOMAIN f] BY DEF Counted, FoldLeft, MapThenFoldSet
<1> HIDE DEF h
<1>7. \A t \in SUBSET DOMAIN f : h[t] = IF t = {} THEN base ELSE CountStep(h[t \ {Max(t)}], f[Max(t)])
  BY <1>5
<1>8. \A v \in Counts, c \in C : F[<<v, c>>] = CountStep(v, c) OBVIOUS
<1>9. PICK r : FoldRun(r, Counts, base, f, F) /\ r[Len(f)] = h[DOMAIN f]
  <2>1. h[{}] = base BY <1>7
  <2>2. \A t \in SUBSET DOMAIN f :
           t # {} /\ h[t \ {Max(t)}] \in Counts /\ f[Max(t)] \in C =>
              h[t] = F[<<h[t \ {Max(t)}], f[Max(t)]>>]
    <3> HIDE DEF F
    <3> QED BY <1>7, <1>8
  <2> HIDE DEF F, base
  <2>3. base \in Counts /\ F \in [Counts \X C -> Counts] /\ f \in Seq(C) BY <1>1, <1>3
  <2>4. FoldLeads(Counts, base, f, F, h) BY <2>1, <2>2, <2>3, FoldRuns
  <2> QED BY <2>4 DEF FoldLeads
<1>10. \A k \in 1 .. Len(f) : r[k] = CountStep(r[k - 1], f[k])
  <2> SUFFICES ASSUME NEW k \in 1 .. Len(f) PROVE r[k] = CountStep(r[k - 1], f[k]) OBVIOUS
  <2> HIDE DEF F
  <2>1. r[k] = F[<<r[k - 1], f[k]>>] /\ r[k - 1] \in Counts
    <3>1. k - 1 \in 0 .. Len(f) OBVIOUS
    <3> QED BY <1>9, <3>1 DEF FoldRun
  <2>2. f[k] \in C BY ElementOfSeq
  <2> QED BY <1>8, <2>1, <2>2
<1>11. Counting(r, f) BY <1>9, <1>10 DEF FoldRun, Counting
<1> QED BY <1>6, <1>9, <1>11

\* What wc is to count among the first k characters.
NewlinesTo(f, k) == {i \in 1 .. k : f[i] = NL}
WordsTo(f, k) == {i \in 1 .. k : f[i] \notin Spaces /\ (i > 1 => f[i - 1] \in Spaces)}

LEMMA SetGrows ==
    ASSUME NEW k \in Nat, NEW A \in SUBSET (1 .. k), NEW B, B = A \/ B = A \cup {k + 1}
    PROVE  /\ IsFiniteSet(A) /\ Cardinality(A) \in Nat
           /\ Cardinality(B) = Cardinality(A) + (IF k + 1 \in B THEN 1 ELSE 0)
<1>1. IsFiniteSet(A) /\ Cardinality(A) \in Nat
  <2>1. IsFiniteSet(1 .. k) BY FS_Interval
  <2> QED BY <2>1, FS_Subset, FS_CardinalityType
<1>2. k + 1 \notin A OBVIOUS
<1>3. CASE B = A BY <1>1, <1>2, <1>3
<1>4. CASE B = A \cup {k + 1}
  <2>1. Cardinality(B) = Cardinality(A) + 1 BY <1>1, <1>2, <1>4, FS_AddElement
  <2> QED BY <1>1, <1>4, <2>1
<1> QED BY <1>3, <1>4

LEMMA NewlinesGrow ==
    ASSUME NEW f, NEW k \in Nat
    PROVE  /\ Cardinality(NewlinesTo(f, k)) \in Nat
           /\ Cardinality(NewlinesTo(f, k + 1))
                = Cardinality(NewlinesTo(f, k)) + (IF f[k + 1] = NL THEN 1 ELSE 0)
<1> DEFINE A == NewlinesTo(f, k)
           B == NewlinesTo(f, k + 1)
<1>1. A \in SUBSET (1 .. k) BY DEF NewlinesTo
<1>2. (B = A \/ B = A \cup {k + 1}) /\ (k + 1 \in B <=> f[k + 1] = NL)
  <2>1. 1 .. k + 1 = (1 .. k) \cup {k + 1} OBVIOUS
  <2> QED BY <2>1 DEF NewlinesTo
<1> HIDE DEF A, B
<1>3. Cardinality(A) \in Nat /\ Cardinality(B) = Cardinality(A) + (IF k + 1 \in B THEN 1 ELSE 0)
  BY <1>1, <1>2, SetGrows
<1> QED BY <1>2, <1>3 DEF A, B

\* wc counts the newlines and the words of a file, for every file.
THEOREM CountsAreExact ==
    ASSUME NEW C, NEW f \in Seq(C)
    PROVE  /\ Counted(f).lines = Cardinality(Newlines(f))
           /\ Counted(f).words = WordCount(f)
<1> DEFINE n == Len(f)
<1>1. n \in Nat /\ DOMAIN f = 1 .. n OBVIOUS
<1>2. PICK r : Counting(r, f) /\ r[n] = Counted(f) BY CountedRuns
<1> DEFINE S == {k \in 0 .. n : /\ r[k].lines = Cardinality(NewlinesTo(f, k))
                                /\ r[k].words = Cardinality(WordsTo(f, k))
                                /\ r[k].in_word <=> k > 0 /\ f[k] \notin Spaces}
<1>3. 0 \in S
  <2>1. NewlinesTo(f, 0) = {} /\ WordsTo(f, 0) = {} BY DEF NewlinesTo, WordsTo
  <2>2. r[0].lines = 0 /\ r[0].words = 0 /\ ~r[0].in_word BY <1>2 DEF Counting
  <2>3. r[0].lines = Cardinality(NewlinesTo(f, 0)) /\ r[0].words = Cardinality(WordsTo(f, 0))
    BY <2>1, <2>2, FS_EmptySet
  <2>4. r[0].in_word <=> 0 > 0 /\ f[0] \notin Spaces BY <2>2
  <2>5. 0 \in 0 .. n BY <1>1
  <2> QED BY <2>3, <2>4, <2>5
<1>4. ASSUME NEW i \in 0 .. n - 1, i \in S PROVE i + 1 \in S
  <2> DEFINE k == i + 1
             c == f[k]
  <2>1. i \in Nat /\ k \in 1 .. n /\ k \in 0 .. n /\ k - 1 = i /\ k > 0 /\ i \in 0 .. n BY <1>1
  <2>2. r[k] = CountStep(r[i], c) /\ r[i] \in Counts
    <3>1. r[k] = CountStep(r[k - 1], f[k]) BY <1>2, <2>1 DEF Counting
    <3>2. r[i] \in Counts BY <1>2, <2>1 DEF Counting
    <3> QED BY <2>1, <3>1, <3>2
  <2>3. /\ r[k].lines = r[i].lines + (IF c = NL THEN 1 ELSE 0)
        /\ r[k].words = r[i].words + (IF c \notin Spaces /\ ~r[i].in_word THEN 1 ELSE 0)
        /\ r[k].in_word <=> c \notin Spaces
    <3>1. r[k] = [lines   |-> r[i].lines + (IF c = NL THEN 1 ELSE 0),
                  words   |-> r[i].words + (IF c \notin Spaces /\ ~r[i].in_word THEN 1 ELSE 0),
                  in_word |-> c \notin Spaces]
      BY <2>2 DEF CountStep
    <3> HIDE DEF k, c
    <3>2. r[k].lines = r[i].lines + (IF c = NL THEN 1 ELSE 0) BY <3>1
    <3>3. r[k].words = r[i].words + (IF c \notin Spaces /\ ~r[i].in_word THEN 1 ELSE 0) BY <3>1
    <3>4. r[k].in_word <=> c \notin Spaces
      <4> DEFINE b == c \notin Spaces
      <4>1. r[k].in_word = b
        <5> HIDE DEF b
        <5> QED BY <3>1 DEF b
      <4> QED BY <4>1
    <3> QED BY <3>2, <3>3, <3>4
  <2>4. /\ r[i].lines = Cardinality(NewlinesTo(f, i)) /\ r[i].words = Cardinality(WordsTo(f, i))
        /\ r[i].in_word <=> i > 0 /\ f[i] \notin Spaces
    BY <1>4
  <2>5. Cardinality(NewlinesTo(f, k)) = Cardinality(NewlinesTo(f, i)) + (IF c = NL THEN 1 ELSE 0)
    BY <2>1, NewlinesGrow
  <2> DEFINE A == WordsTo(f, i)
             B == WordsTo(f, i + 1)
  <2>6. /\ A \in SUBSET (1 .. i) /\ (B = A \/ B = A \cup {i + 1})
        /\ i + 1 \in B <=> (f[i + 1] \notin Spaces /\ (i + 1 > 1 => f[i + 1 - 1] \in Spaces))
    <3>1. 1 .. i + 1 = (1 .. i) \cup {i + 1} BY <2>1
    <3> QED BY <3>1 DEF WordsTo
  <2>7. i + 1 \in B <=> (c \notin Spaces /\ ~r[i].in_word)
    <3>1. i + 1 > 1 <=> i > 0 BY <2>1
    <3>2. i + 1 - 1 = i BY <2>1
    <3> QED BY <2>4, <2>6, <3>1, <3>2
  <2>8. Cardinality(B) = Cardinality(A) + (IF i + 1 \in B THEN 1 ELSE 0)
    <3> HIDE DEF A, B
    <3> QED BY <2>1, <2>6, SetGrows
  <2>9. r[k].words = Cardinality(WordsTo(f, k)) BY <2>3, <2>4, <2>7, <2>8
  <2>10. r[k].lines = Cardinality(NewlinesTo(f, k)) BY <2>3, <2>4, <2>5
  <2> QED BY <2>1, <2>3, <2>9, <2>10
<1>5. n \in S
  <2> HIDE DEF S
  <2>1. \A i \in 0 .. n : i \in S BY <1>1, <1>3, <1>4, RangeInduction
  <2> QED BY <1>1, <2>1
<1>6. Newlines(f) = NewlinesTo(f, n) BY <1>1 DEF Newlines, NewlinesTo
<1>7. WordCount(f) = Cardinality(WordsTo(f, n)) BY <1>1 DEF WordCount, WordsTo
<1> QED BY <1>2, <1>5, <1>6, <1>7
\* cmd_head()'s loop, character by character.
Heading(r, limit, T, f) ==
    /\ r \in [0 .. Len(f) -> First(T)]
    /\ r[0] = [out |-> <<>>, lines |-> 0]
    /\ \A k \in 1 .. Len(f) : r[k] = HeadStep(limit, r[k - 1], f[k])

LEMMA HeadRuns ==
    ASSUME NEW T, NEW limit, NEW f \in Seq(T)
    PROVE  \E r : Heading(r, limit, T, f) /\ r[Len(f)].out = FirstLines(limit, f)
<1> DEFINE D == First(T)
           base == [out |-> <<>>, lines |-> 0]
           F == [x \in D \X T |-> HeadStep(limit, x[1], x[2])]
           Body(g) == [t \in SUBSET DOMAIN f |-> IF t = {} THEN base
                                                 ELSE HeadStep(limit, g[t \ {Max(t)}], f[Max(t)])]
           h == CHOOSE g : g = Body(g)
<1>1. base \in D BY DEF First
<1>2. ASSUME NEW v \in D, NEW c \in T PROVE HeadStep(limit, v, c) \in D
  <2>1. Append(v.out, c) \in Seq(T) /\ v.lines + (IF c = NL THEN 1 ELSE 0) \in Nat BY DEF First
  <2>2. [out |-> Append(v.out, c), lines |-> v.lines + (IF c = NL THEN 1 ELSE 0)] \in D BY <2>1 DEF First
  <2> HIDE DEF D
  <2> QED BY <2>2 DEF HeadStep
<1>3. F \in [D \X T -> D] BY <1>2
<1> HIDE DEF D
<1>4. \E g : g = Body(g)
  <2>1. PICK g : FoldsOver(g, D, T, base, f, F)
    <3> HIDE DEF F, base
    <3> QED BY <1>1, <1>3, FoldOver
  <2>2. \A t \in SUBSET DOMAIN f : g[t] = IF t = {} THEN base ELSE HeadStep(limit, g[t \ {Max(t)}], f[Max(t)])
    BY <2>1 DEF FoldsOver
  <2>3. g = [t \in SUBSET DOMAIN f |-> g[t]] BY <2>1 DEF FoldsOver
  <2>4. g = Body(g) BY <2>2, <2>3
  <2> HIDE DEF Body
  <2> QED BY <2>4
<1>5. h = Body(h)
  <2> HIDE DEF Body
  <2> QED BY <1>4
<1>6. FirstLines(limit, f) = h[DOMAIN f].out BY DEF FirstLines, FoldLeft, MapThenFoldSet
<1> HIDE DEF h
<1>7. \A t \in SUBSET DOMAIN f : h[t] = IF t = {} THEN base ELSE HeadStep(limit, h[t \ {Max(t)}], f[Max(t)])
  BY <1>5
<1>8. \A v \in D, c \in T : F[<<v, c>>] = HeadStep(limit, v, c) OBVIOUS
<1>9. PICK r : FoldRun(r, D, base, f, F) /\ r[Len(f)] = h[DOMAIN f]
  <2>1. h[{}] = base BY <1>7
  <2>2. \A t \in SUBSET DOMAIN f :
           t # {} /\ h[t \ {Max(t)}] \in D /\ f[Max(t)] \in T =>
              h[t] = F[<<h[t \ {Max(t)}], f[Max(t)]>>]
    <3> HIDE DEF F
    <3> QED BY <1>7, <1>8
  <2> HIDE DEF F, base
  <2>3. base \in D /\ F \in [D \X T -> D] /\ f \in Seq(T) BY <1>1, <1>3
  <2>4. FoldLeads(D, base, f, F, h) BY <2>1, <2>2, <2>3, FoldRuns
  <2> QED BY <2>4 DEF FoldLeads
<1>10. \A k \in 1 .. Len(f) : r[k] = HeadStep(limit, r[k - 1], f[k])
  <2> SUFFICES ASSUME NEW k \in 1 .. Len(f) PROVE r[k] = HeadStep(limit, r[k - 1], f[k]) OBVIOUS
  <2> HIDE DEF F
  <2>1. r[k] = F[<<r[k - 1], f[k]>>] /\ r[k - 1] \in D
    <3>1. k - 1 \in 0 .. Len(f) OBVIOUS
    <3> QED BY <1>9, <3>1 DEF FoldRun
  <2>2. f[k] \in T BY ElementOfSeq
  <2> QED BY <1>8, <2>1, <2>2
<1>11. Heading(r, limit, T, f) BY <1>9, <1>10 DEF FoldRun, Heading, D
<1> QED BY <1>6, <1>9, <1>11

\* A prefix and one more character.
LEMMA PrefixGrows ==
    ASSUME NEW T, NEW f \in Seq(T), NEW m \in 0 .. Len(f) - 1
    PROVE  Append(SubSeq(f, 1, m), f[m + 1]) = SubSeq(f, 1, m + 1)
<1>1. Len(f) \in Nat /\ m \in Nat /\ m + 1 <= Len(f) OBVIOUS
<1> DEFINE a == SubSeq(f, 1, m)
           b == SubSeq(f, 1, m + 1)
<1>2. \A i \in 1 .. m + 1 : f[i] \in T BY <1>1, ElementOfSeq
<1>3. a \in Seq(T) /\ Len(a) = m /\ \A i \in 1 .. m : a[i] = f[i]
  <2>1. \A i \in 1 .. m : f[i] \in T BY <1>1, <1>2
  <2>2. a \in Seq(T) BY <1>1, <2>1, SubSeqProperties
  <2>3. Len(a) = m BY <1>1, <2>1, SubSeqProperties
  <2>4. \A i \in 1 .. m : a[i] = f[i] BY <1>1
  <2> QED BY <2>2, <2>3, <2>4
<1>4. b \in Seq(T) /\ Len(b) = m + 1 /\ \A i \in 1 .. m + 1 : b[i] = f[i]
  <2> DEFINE l == m + 1
  <2>1. l \in Nat /\ l # 0 /\ \A i \in 1 .. l : f[i] \in T BY <1>1, <1>2
  <2> HIDE DEF l
  <2>2. SubSeq(f, 1, l) \in Seq(T) BY <2>1, SubSeqProperties
  <2>3. Len(SubSeq(f, 1, l)) = l BY <2>1, SubSeqProperties
  <2>4. \A i \in 1 .. l : SubSeq(f, 1, l)[i] = f[i] BY <2>1
  <2> QED BY <2>2, <2>3, <2>4 DEF l
<1> HIDE DEF a, b
<1> DEFINE x == f[m + 1]
<1>5. x \in T BY <1>1, <1>2
<1>6. b[m + 1] = x BY <1>1, <1>4
<1> HIDE DEF x
<1>7. /\ Append(a, x) \in Seq(T) /\ Len(Append(a, x)) = m + 1 /\ Append(a, x)[m + 1] = x
      /\ \A i \in 1 .. m : Append(a, x)[i] = a[i]
  BY <1>1, <1>3, <1>5, AppendProperties
<1>8. ASSUME NEW i \in 1 .. m + 1 PROVE Append(a, x)[i] = b[i]
  <2>1. CASE i = m + 1 BY <1>6, <1>7, <2>1
  <2>2. CASE i # m + 1
    <3>1. i \in 1 .. m BY <1>1, <2>2
    <3> QED BY <1>3, <1>4, <1>7, <3>1
  <2> QED BY <2>1, <2>2
<1>9. Append(a, x) = b
  <2> DEFINE u == Append(a, x)
  <2>1. u \in Seq(T) /\ Len(u) = Len(b) /\ \A i \in 1 .. Len(u) : u[i] = b[i] BY <1>4, <1>7, <1>8
  <2> HIDE DEF u
  <2>2. u = b BY <1>4, <2>1, SeqEqual
  <2> QED BY <2>2 DEF u
<1> QED BY <1>9 DEF a, b, x

\* head prints everything up to and including the n-th newline, or the whole
\* file, for every file and every n.
THEOREM HeadIsExact ==
    ASSUME NEW T, NEW f \in Seq(T), NEW n \in Nat
    PROVE  FirstLines(n, f) = UpToLine(n, f)
<1> DEFINE e == Len(f)
           c(k) == Cardinality(NewlinesTo(f, k))
<1>1. e \in Nat /\ DOMAIN f = 1 .. e OBVIOUS
<1>2. \A k \in Nat : c(k) \in Nat /\ c(k + 1) = c(k) + (IF f[k + 1] = NL THEN 1 ELSE 0)
  BY NewlinesGrow
<1>3. c(0) = 0
  <2>1. NewlinesTo(f, 0) = {} BY DEF NewlinesTo
  <2> QED BY <2>1, FS_EmptySet
<1> HIDE DEF c
<1>4. PICK r : Heading(r, n, T, f) /\ r[e].out = FirstLines(n, f) BY HeadRuns
<1> DEFINE Had(k, m) == /\ r[k] = [out |-> SubSeq(f, 1, m), lines |-> c(m)]
                        /\ m > 0 => c(m - 1) < n
                        /\ m < k => c(m) >= n
           S == {k \in 0 .. e : \E m \in 0 .. k : Had(k, m)}
<1>5. 0 \in S
  <2>1. SubSeq(f, 1, 0) = <<>> BY SubSeqEmpty
  <2>2. r[0] = [out |-> <<>>, lines |-> 0] BY <1>4 DEF Heading
  <2>3. Had(0, 0) BY <1>3, <2>1, <2>2
  <2> HIDE DEF Had
  <2> QED BY <1>1, <2>3
<1>6. ASSUME NEW i \in 0 .. e - 1, i \in S PROVE i + 1 \in S
  <2> DEFINE k == i + 1
  <2>1. i \in Nat /\ k \in 1 .. e /\ k \in 0 .. e /\ k - 1 = i BY <1>1
  <2>2. PICK m \in 0 .. i : Had(i, m) BY <1>6
  <2>3. m \in Nat /\ m <= i /\ c(m) \in Nat
    <3>1. m \in Nat /\ m <= i BY <2>1
    <3> QED BY <1>2, <3>1
  <2>4. r[k] = HeadStep(n, r[i], f[k])
    <3>1. r[k] = HeadStep(n, r[k - 1], f[k]) BY <1>4, <2>1 DEF Heading
    <3> QED BY <2>1, <3>1
  <2>5. r[i].lines = c(m) /\ r[i].out = SubSeq(f, 1, m) BY <2>2
  <2>6. CASE c(m) >= n
    <3>1. r[k] = r[i] BY <2>4, <2>5, <2>6 DEF HeadStep
    <3>2. Had(k, m) BY <2>2, <2>6, <3>1
    <3>3. m \in 0 .. k BY <2>1
    <3> HIDE DEF Had
    <3>4. k \in S BY <2>1, <3>2, <3>3
    <3> QED BY <3>4
  <2>7. CASE ~(c(m) >= n)
    <3>1. m = i BY <2>1, <2>2, <2>3, <2>7
    <3>2. r[k] = [out |-> Append(r[i].out, f[k]), lines |-> r[i].lines + (IF f[k] = NL THEN 1 ELSE 0)]
      BY <2>4, <2>5, <2>7 DEF HeadStep
    <3>3. Append(SubSeq(f, 1, i), f[k]) = SubSeq(f, 1, k) BY PrefixGrows
    <3>4. c(k) = c(i) + (IF f[k] = NL THEN 1 ELSE 0) BY <1>2, <2>1
    <3>5. r[k] = [out |-> SubSeq(f, 1, k), lines |-> c(k)] BY <2>5, <3>1, <3>2, <3>3, <3>4
    <3>6. c(k - 1) < n BY <2>1, <2>3, <2>7, <3>1
    <3> HIDE DEF k
    <3>7. Had(k, k) BY <2>1, <3>5, <3>6
    <3>8. k \in 0 .. k BY <2>1
    <3> HIDE DEF Had
    <3>9. k \in S BY <2>1, <3>7, <3>8
    <3> QED BY <3>9 DEF k
  <2> QED BY <2>6, <2>7
<1>7. e \in S
  <2> HIDE DEF S
  <2>1. \A i \in 0 .. e : i \in S BY <1>1, <1>5, <1>6, RangeInduction
  <2> QED BY <1>1, <2>1
<1>8. PICK m \in 0 .. e : Had(e, m) BY <1>7
<1>9. FirstLines(n, f) = SubSeq(f, 1, m) BY <1>4, <1>8
<1> DEFINE K == {k \in 0 .. e : k = 0 \/ Cardinality({i \in Newlines(f) : i < k}) < n}
<1>10. ASSUME NEW k \in 1 .. e PROVE Cardinality({i \in Newlines(f) : i < k}) = c(k - 1)
  <2>1. {i \in Newlines(f) : i < k} = NewlinesTo(f, k - 1) BY <1>1 DEF Newlines, NewlinesTo
  <2> QED BY <2>1 DEF c
<1>11. m \in K
  <2>1. CASE m = 0 BY <1>1, <2>1
  <2>2. CASE m # 0
    <3>1. m \in 1 .. e /\ c(m - 1) < n BY <1>1, <1>8, <2>2
    <3> QED BY <1>10, <3>1
  <2> QED BY <2>1, <2>2
<1>12. ASSUME NEW j \in m .. e PROVE c(m) <= c(j)
  <2> DEFINE U == {x \in m .. e : c(m) <= c(x)}
  <2>1. m \in Nat /\ m \in U BY <1>1, <1>2
  <2>2. ASSUME NEW x \in m .. e - 1, x \in U PROVE x + 1 \in U
    <3>1. x \in Nat /\ x + 1 \in m .. e BY <1>1, <2>1
    <3>2. c(m) <= c(x) BY <2>2
    <3>3. c(x) \in Nat /\ c(m) \in Nat /\ c(x + 1) = c(x) + (IF f[x + 1] = NL THEN 1 ELSE 0)
      BY <1>2, <2>1, <3>1
    <3>4. c(x) <= c(x + 1) BY <3>3
    <3>5. c(m) <= c(x + 1) BY <3>2, <3>3, <3>4
    <3> QED BY <3>1, <3>5
  <2> HIDE DEF U
  <2>3. \A x \in m .. e : x \in U BY <1>1, <2>1, <2>2, RangeInduction
  <2> QED BY <2>3 DEF U
<1>13. ASSUME NEW k \in K PROVE k <= m
  <2>1. k \in 0 .. e OBVIOUS
  <2> SUFFICES ASSUME k > m PROVE FALSE BY <1>1, <2>1
  <2>2. k \in 1 .. e /\ k - 1 \in m .. e /\ m < e BY <1>1, <2>1
  <2>3. c(k - 1) < n BY <1>10, <2>2
  <2>4. c(m) >= n BY <1>8, <2>2
  <2>5. c(m) <= c(k - 1) BY <1>12, <2>2
  <2>6. c(m) \in Nat /\ c(k - 1) \in Nat
    <3>1. m \in Nat /\ k - 1 \in Nat BY <1>1, <2>2
    <3> QED BY <1>2, <3>1
  <2> QED BY <2>3, <2>4, <2>5, <2>6
<1>14. Max(K) = m
  <2>1. \A x \in K : x \in Nat BY <1>1
  <2> HIDE DEF K
  <2>2. \A y \in K : m >= y BY <1>11, <1>13, <2>1
  <2>3. \A x \in K : (\A y \in K : x >= y) => x = m BY <1>11, <2>1, <2>2
  <2> QED BY <1>11, <2>2, <2>3 DEF Max
<1>15. UpToLine(n, f) = SubSeq(f, 1, Max(K)) BY DEF UpToLine
<1> QED BY <1>9, <1>14, <1>15

-----------------------------------------------------------------------------
(* Numbers and their digits.                                                *)

Digit == {lower[i] : i \in 1 .. 16}

\* A digit stands for its place in the table.
LEMMA DigitIs ==
    /\ \A i \in 1 .. 16 : ValueOf(lower[i]) = i - 1
    /\ \A d \in Digit : ValueOf(d) \in 0 .. 15 /\ d = lower[ValueOf(d) + 1]
<1> DEFINE Place(c) == CASE c = "0" -> 1 [] c = "1" -> 2 [] c = "2" -> 3 [] c = "3" -> 4
                            [] c = "4" -> 5 [] c = "5" -> 6 [] c = "6" -> 7 [] c = "7" -> 8
                            [] c = "8" -> 9 [] c = "9" -> 10 [] c = "a" -> 11 [] c = "b" -> 12
                            [] c = "c" -> 13 [] c = "d" -> 14 [] c = "e" -> 15 [] c = "f" -> 16
<1>1. ASSUME NEW i \in 1 .. 16, NEW j \in 1 .. 16, lower[i] = lower[j] PROVE i = j
  <2>1. ASSUME NEW k \in 1 .. 16 PROVE Place(lower[k]) = k BY DEF lower
  <2> HIDE DEF Place
  <2>2. Place(lower[i]) = i /\ Place(lower[j]) = j BY <2>1
  <2> QED BY <1>1, <2>2
<1>2. ASSUME NEW i \in 1 .. 16 PROVE ValueOf(lower[i]) = i - 1
  <2> DEFINE j == CHOOSE j \in 1 .. 16 : lower[j] = lower[i]
  <2>1. j \in 1 .. 16 /\ lower[j] = lower[i] OBVIOUS
  <2>2. ValueOf(lower[i]) = j - 1 BY DEF ValueOf
  <2> HIDE DEF j
  <2> QED BY <1>1, <2>1, <2>2
<1>3. ASSUME NEW d \in Digit PROVE ValueOf(d) \in 0 .. 15 /\ d = lower[ValueOf(d) + 1]
  <2>1. PICK i \in 1 .. 16 : d = lower[i] BY DEF Digit
  <2>2. ValueOf(d) = i - 1 BY <1>2, <2>1
  <2> QED BY <2>1, <2>2
<1> QED BY <1>2, <1>3

\* The loops that read a number, digit by digit.
Numbering(r, s, base) ==
    /\ r \in [0 .. Len(s) -> Nat] /\ r[0] = 0
    /\ \A k \in 1 .. Len(s) : r[k] = r[k - 1] * base + ValueOf(s[k])

LEMMA NumberRuns ==
    ASSUME NEW base \in Nat, NEW s \in Seq(Digit)
    PROVE  \E r : Numbering(r, s, base) /\ r[Len(s)] = NumberOf(s, base)
<1> DEFINE Step(w, c) == w * base + ValueOf(c)
           F == [x \in Nat \X Digit |-> Step(x[1], x[2])]
           Body(g) == [t \in SUBSET DOMAIN s |-> IF t = {} THEN 0 ELSE Step(g[t \ {Max(t)}], s[Max(t)])]
           h == CHOOSE g : g = Body(g)
<1>1. ASSUME NEW w \in Nat, NEW c \in Digit PROVE Step(w, c) \in Nat
  <2>1. ValueOf(c) \in Nat BY DigitIs
  <2>2. w * base \in Nat OBVIOUS
  <2> QED BY <2>1, <2>2
<1>2. NumberOf(s, base) = h[DOMAIN s] BY DEF NumberOf, FoldLeft, MapThenFoldSet
<1> HIDE DEF Step
<1>3. F \in [Nat \X Digit -> Nat] BY <1>1
<1>4. \E g : g = Body(g)
  <2>1. PICK g : FoldsOver(g, Nat, Digit, 0, s, F)
    <3> HIDE DEF F
    <3> QED BY <1>3, FoldOver
  <2>2. \A t \in SUBSET DOMAIN s : g[t] = IF t = {} THEN 0 ELSE Step(g[t \ {Max(t)}], s[Max(t)])
    BY <2>1 DEF FoldsOver
  <2>3. g = [t \in SUBSET DOMAIN s |-> g[t]] BY <2>1 DEF FoldsOver
  <2>4. g = Body(g) BY <2>2, <2>3
  <2> HIDE DEF Body
  <2> QED BY <2>4
<1>5. h = Body(h)
  <2> HIDE DEF Body
  <2> QED BY <1>4
<1> HIDE DEF h
<1>7. \A t \in SUBSET DOMAIN s : h[t] = IF t = {} THEN 0 ELSE Step(h[t \ {Max(t)}], s[Max(t)])
  BY <1>5
<1>8. ASSUME NEW v \in Nat, NEW c \in Digit PROVE F[<<v, c>>] = Step(v, c) OBVIOUS
<1>9. PICK r : FoldRun(r, Nat, 0, s, F) /\ r[Len(s)] = h[DOMAIN s]
  <2>1. h[{}] = 0 BY <1>7
  <2>2. \A t \in SUBSET DOMAIN s :
           t # {} /\ h[t \ {Max(t)}] \in Nat /\ s[Max(t)] \in Digit =>
              h[t] = F[<<h[t \ {Max(t)}], s[Max(t)]>>]
    <3> HIDE DEF F
    <3> QED BY <1>7, <1>8
  <2> DEFINE D == Nat
             z == 0
  <2>3. z \in D /\ s \in Seq(Digit) /\ F \in [D \X Digit -> D] /\ h[{}] = z BY <1>3, <2>1
  <2>4. FoldLeads(D, z, s, F, h)
    <3>1. \A t \in SUBSET DOMAIN s :
             t # {} /\ h[t \ {Max(t)}] \in D /\ s[Max(t)] \in Digit =>
                h[t] = F[<<h[t \ {Max(t)}], s[Max(t)]>>]
      BY <2>2
    <3> HIDE DEF F, D, z
    <3> QED BY <2>3, <3>1, FoldRuns
  <2> QED BY <2>4 DEF FoldLeads
<1>10. \A k \in 1 .. Len(s) : r[k] = Step(r[k - 1], s[k])
  <2> SUFFICES ASSUME NEW k \in 1 .. Len(s) PROVE r[k] = Step(r[k - 1], s[k]) OBVIOUS
  <2> HIDE DEF F
  <2>1. r[k] = F[<<r[k - 1], s[k]>>] /\ r[k - 1] \in Nat
    <3>1. k - 1 \in 0 .. Len(s) OBVIOUS
    <3> QED BY <1>9, <3>1 DEF FoldRun
  <2>2. s[k] \in Digit BY ElementOfSeq
  <2> QED BY <1>8, <2>1, <2>2
<1>11. Numbering(r, s, base) BY <1>9, <1>10 DEF FoldRun, Numbering, Step
<1> QED BY <1>2, <1>9, <1>11

\* A digit more.
LEMMA NumberAppends ==
    ASSUME NEW base \in Nat, NEW s \in Seq(Digit)
    PROVE  /\ NumberOf(s, base) \in Nat
           /\ s = <<>> => NumberOf(s, base) = 0
           /\ \A d \in Digit : NumberOf(Append(s, d), base) = NumberOf(s, base) * base + ValueOf(d)
<1>1. PICK r : Numbering(r, s, base) /\ r[Len(s)] = NumberOf(s, base) BY NumberRuns
<1>2. Len(s) \in Nat OBVIOUS
<1>3. NumberOf(s, base) \in Nat BY <1>1, <1>2 DEF Numbering
<1>4. s = <<>> => NumberOf(s, base) = 0 BY <1>1 DEF Numbering
<1>5. ASSUME NEW d \in Digit PROVE NumberOf(Append(s, d), base) = NumberOf(s, base) * base + ValueOf(d)
  <2> DEFINE t == Append(s, d)
             n == Len(s)
  <2>1. t \in Seq(Digit) /\ Len(t) = n + 1 /\ t[n + 1] = d /\ \A k \in 1 .. n : t[k] = s[k] OBVIOUS
  <2> HIDE DEF t
  <2>2. PICK q : Numbering(q, t, base) /\ q[n + 1] = NumberOf(t, base) BY <2>1, NumberRuns
  <2> DEFINE S == {k \in 0 .. n : q[k] = r[k]}
  <2>3. 0 \in S BY <1>1, <2>2 DEF Numbering
  <2>4. ASSUME NEW k \in 0 .. n - 1, k \in S PROVE k + 1 \in S
    <3> DEFINE j == k + 1
    <3>1. j \in 1 .. n /\ j \in 1 .. Len(t) /\ j - 1 = k /\ j \in 0 .. n BY <2>1
    <3>2. q[k] = r[k] BY <2>4
    <3> HIDE DEF j
    <3>3. r[j] = r[k] * base + ValueOf(s[j]) BY <1>1, <3>1 DEF Numbering
    <3>4. q[j] = q[k] * base + ValueOf(t[j]) BY <2>2, <3>1 DEF Numbering
    <3>5. q[j] = r[j] BY <2>1, <3>1, <3>2, <3>3, <3>4
    <3>6. j \in S BY <3>1, <3>5
    <3> QED BY <3>6 DEF j
  <2>5. q[n] = r[n]
    <3> HIDE DEF S
    <3>1. \A k \in 0 .. n : k \in S BY <1>2, <2>3, <2>4, RangeInduction
    <3> QED BY <1>2, <3>1 DEF S
  <2> DEFINE m == n + 1
  <2>6. m \in 1 .. Len(t) /\ m - 1 = n BY <1>2, <2>1
  <2>7. q[m] = q[m - 1] * base + ValueOf(t[m]) BY <2>2, <2>6 DEF Numbering
  <2>8. q[m] = q[n] * base + ValueOf(d) BY <2>1, <2>6, <2>7
  <2> HIDE DEF n
  <2> QED BY <1>1, <2>2, <2>5, <2>8 DEF t, n
<1> QED BY <1>3, <1>4, <1>5

Digits(base) == {lower[i] : i \in 1 .. base}

\* A numeral of v, as a sequence: what format_num() builds.
Reads(s, v, base) ==
    /\ s \in Seq(Digits(base)) /\ Len(s) > 0 /\ NumberOf(s, base) = v
    /\ v > 0 => s[1] # "0"
    /\ v = 0 => Len(s) = 1

LEMMA DigitsAre ==
    ASSUME NEW base \in {10, 16}
    PROVE  /\ \A d \in Digits(base) : d \in Digit
           /\ \A k \in 0 .. base - 1 : lower[k + 1] \in Digits(base) /\ ValueOf(lower[k + 1]) = k
           /\ \A k \in 1 .. base - 1 : lower[k + 1] # "0"
<1>1. base \in Nat /\ base <= 16 OBVIOUS
<1>2. \A d \in Digits(base) : d \in Digit BY <1>1 DEF Digits, Digit
<1>3. ASSUME NEW k \in 0 .. base - 1 PROVE lower[k + 1] \in Digits(base) /\ ValueOf(lower[k + 1]) = k
  <2>1. k + 1 \in 1 .. base /\ k + 1 \in 1 .. 16 BY <1>1
  <2> DEFINE j == k + 1
  <2>2. ValueOf(lower[j]) = j - 1 BY <2>1, DigitIs
  <2>3. j - 1 = k BY <1>1
  <2> QED BY <2>1, <2>2, <2>3 DEF Digits
<1>4. ValueOf("0") = 0
  <2>1. lower[1] = "0" BY DEF lower
  <2>2. ValueOf(lower[1]) = 1 - 1 BY DigitIs
  <2> QED BY <2>1, <2>2
<1>5. ASSUME NEW k \in 1 .. base - 1 PROVE lower[k + 1] # "0"
  <2>1. k \in 0 .. base - 1 /\ k # 0 BY <1>1
  <2> QED BY <1>3, <1>4, <2>1
<1> QED BY <1>2, <1>3, <1>5

\* The first digit alone.
LEMMA ReadsOne ==
    ASSUME NEW base \in {10, 16}, NEW v \in 0 .. base - 1
    PROVE  Reads(<<lower[v + 1]>>, v, base)
<1> DEFINE d == lower[v + 1]
<1>1. d \in Digits(base) /\ d \in Digit /\ ValueOf(d) = v /\ (v > 0 => d # "0")
  <2>1. d \in Digits(base) /\ ValueOf(d) = v BY DigitsAre
  <2>2. d \in Digit BY <2>1, DigitsAre
  <2>3. v > 0 => d # "0"
    <3>1. v > 0 => v \in 1 .. base - 1 OBVIOUS
    <3> QED BY <3>1, DigitsAre
  <2> QED BY <2>1, <2>2, <2>3
<1>2. base \in Nat OBVIOUS
<1> HIDE DEF d
<1>3. NumberOf(Append(<<>>, d), base) = v
  <2> DEFINE e == <<>>
  <2>1. e \in Seq(Digit) OBVIOUS
  <2> HIDE DEF e
  <2>2. NumberOf(Append(e, d), base) = NumberOf(e, base) * base + ValueOf(d) BY <1>1, <1>2, <2>1, NumberAppends
  <2>3. NumberOf(e, base) = 0 BY <1>2, <2>1, NumberAppends DEF e
  <2> QED BY <1>1, <1>2, <2>2, <2>3 DEF e
<1>4. Append(<<>>, d) = <<d>> OBVIOUS
<1>5. <<d>> \in Seq(Digits(base)) /\ Len(<<d>>) = 1 /\ <<d>>[1] = d BY <1>1
<1> QED BY <1>1, <1>3, <1>4, <1>5 DEF Reads, d

\* One digit more.
LEMMA ReadsMore ==
    ASSUME NEW base \in {10, 16}, NEW q \in Nat \ {0}, NEW k \in 0 .. base - 1,
           NEW s, Reads(s, q, base)
    PROVE  Reads(Append(s, lower[k + 1]), q * base + k, base)
<1> DEFINE d == lower[k + 1]
           t == Append(s, d)
<1>1. d \in Digits(base) /\ ValueOf(d) = k BY DigitsAre
<1>2. d \in Digit BY <1>1, DigitsAre
<1>3. s \in Seq(Digits(base)) /\ Len(s) > 0 /\ NumberOf(s, base) = q /\ s[1] # "0" BY DEF Reads
<1>4. s \in Seq(Digit)
  <2>1. Digits(base) \subseteq Digit BY DigitsAre
  <2> QED BY <1>3, <2>1
<1> HIDE DEF d
<1>5. NumberOf(t, base) = q * base + k
  <2>1. base \in Nat OBVIOUS
  <2> QED BY <1>1, <1>2, <1>3, <1>4, <2>1, NumberAppends
<1>6. t \in Seq(Digits(base)) /\ Len(t) > 0 /\ t[1] = s[1] BY <1>1, <1>3
<1>7. q * base + k > 0
  <2>1. CASE base = 10 BY <2>1
  <2>2. CASE base = 16 BY <2>2
  <2> QED BY <2>1, <2>2
<1> HIDE DEF t
<1>8. Reads(t, q * base + k, base) BY <1>3, <1>5, <1>6, <1>7 DEF Reads
<1> QED BY <1>8 DEF t, d

LEMMA FormatReads ==
    ASSUME NEW base \in {10, 16}
    PROVE  \A v \in Nat : Reads(format_num(v, base, lower), v, base)
<1> DEFINE R == {v \in Nat : ~Reads(format_num(v, base, lower), v, base)}
<1> SUFFICES ASSUME R # {} PROVE FALSE OBVIOUS
<1>1. PICK v \in R : \A w \in R : v <= w
  <2>1. R \in SUBSET Nat OBVIOUS
  <2> HIDE DEF R
  <2> QED BY <2>1, LeastExists
<1>2. v \in Nat /\ ~Reads(format_num(v, base, lower), v, base) OBVIOUS
<1>3. CASE v < base
  <2>1. format_num(v, base, lower) = <<lower[v + 1]>> BY <1>2, <1>3, FormatIs
  <2>2. v \in 0 .. base - 1 BY <1>2, <1>3
  <2>3. Reads(<<lower[v + 1]>>, v, base) BY <2>2, ReadsOne
  <2> QED BY <1>2, <2>1, <2>3
<1>4. CASE ~(v < base)
  <2>1. PICK q \in Nat, k \in 0 .. base - 1 :
           q = v \div base /\ k = v % base /\ v = q * base + k /\ (v >= base => q < v /\ q > 0)
    BY <1>2, DivisionIs
  <2>2. q < v /\ q \in Nat \ {0} BY <1>2, <1>4, <2>1
  <2>3. q \notin R
    <3> HIDE DEF R
    <3> QED BY <1>1, <1>2, <2>2
  <2>4. Reads(format_num(q, base, lower), q, base) BY <2>2, <2>3
  <2>5. format_num(v, base, lower) = Append(format_num(q, base, lower), lower[k + 1])
    BY <1>2, <1>4, <2>1, FormatIs
  <2> DEFINE s == format_num(q, base, lower)
  <2> HIDE DEF s, R
  <2>6. Reads(Append(s, lower[k + 1]), q * base + k, base) BY <2>2, <2>4, ReadsMore DEF s
  <2> QED BY <1>2, <2>1, <2>5, <2>6 DEF s
<1> QED BY <1>3, <1>4

\* The text of a number reads as that number, without leading zeros.
LEMMA NumeralIs ==
    ASSUME NEW base \in {10, 16}, NEW v \in Nat
    PROVE  IsNumeral(format_num(v, base, lower), v, base)
<1> DEFINE s == format_num(v, base, lower)
<1>1. Reads(s, v, base) BY FormatReads
<1> HIDE DEF s
<1>2. s \in Seq(Digits(base)) /\ Len(s) > 0 /\ NumberOf(s, base) = v BY <1>1 DEF Reads
<1>3. s # <<>> /\ Head(s) = s[1] BY <1>2
<1>4. ToSet(s) \subseteq {lower[i] : i \in 1 .. base}
  <2>1. ToSet(s) \subseteq Digits(base) BY <1>2 DEF ToSet
  <2> QED BY <2>1 DEF Digits
<1>5. Len(s) > 1 => Head(s) # "0"
  <2>1. Len(s) > 1 => v > 0 BY <1>1 DEF Reads
  <2>2. v > 0 => s[1] # "0" BY <1>1 DEF Reads
  <2> QED BY <1>3, <2>1, <2>2
<1>6. ~(v < 0) OBVIOUS
<1> QED BY <1>2, <1>3, <1>4, <1>5, <1>6 DEF IsNumeral, s

LEMMA SignedIs ==
    ASSUME NEW v \in Int, v < 0
    PROVE  IsNumeral(<<"-">> \o format_num(-v, 10, lower), v, 10)
<1> DEFINE s == format_num(-v, 10, lower)
           m == <<"-">>
           t == m \o s
<1>1. IsNumeral(s, -v, 10) BY NumeralIs
<1>2. Reads(s, -v, 10) BY FormatReads
<1> HIDE DEF s
<1>3. s \in Seq(Digits(10)) BY <1>2 DEF Reads
<1> DEFINE C == Digits(10) \cup {"-"}
<1>4. s \in Seq(C) /\ m \in Seq(C) /\ Len(m) = 1 /\ m[1] = "-" /\ Len(s) \in Nat BY <1>3
<1> HIDE DEF m, C
<1>5. t \in Seq(C) /\ Len(t) = 1 + Len(s) /\ t[1] = "-" /\ \A i \in 1 .. Len(s) : t[1 + i] = s[i]
  <2>0. m \in Seq(C) /\ s \in Seq(C) BY <1>4
  <2>1. m \o s \in Seq(C) /\ Len(m \o s) = Len(m) + Len(s) BY <2>0
  <2>2. \A i \in 1 .. Len(m) : (m \o s)[i] = m[i] BY <2>0
  <2>3. \A i \in 1 .. Len(s) : (m \o s)[Len(m) + i] = s[i] BY <2>0
  <2>4. 1 \in 1 .. Len(m) BY <1>4
  <2> QED BY <1>4, <2>1, <2>2, <2>3, <2>4
<1> HIDE DEF t
<1>6. SubSeq(t, 2, Len(t)) = s
  <2> DEFINE u == SubSeq(t, 2, Len(t))
  <2>1. u \in Seq(C) /\ Len(u) = Len(s) /\ \A i \in 1 .. Len(s) : u[i] = t[1 + i] BY <1>4, <1>5
  <2> HIDE DEF u
  <2>2. u = s BY <1>4, <1>5, <2>1, SeqEqual
  <2> QED BY <2>2 DEF u
<1>7. t # <<>> /\ Head(t) = "-" BY <1>4, <1>5
<1>8. -v \in Nat /\ ~(-v < 0) OBVIOUS
<1>9. /\ s # <<>> /\ ToSet(s) \subseteq {lower[i] : i \in 1 .. 10} /\ (Len(s) > 1 => Head(s) # "0")
      /\ NumberOf(s, 10) = -v
  BY <1>1, <1>8 DEF IsNumeral
<1>10. IsNumeral(t, v, 10) BY <1>6, <1>7, <1>9 DEF IsNumeral
<1> QED BY <1>10 DEF t, m, s

-----------------------------------------------------------------------------
(* Columns.                                                                 *)

\* s is b, filled up to the width with c on the side that left says.
FramedAt(s, i, j, b, width, left, c) ==
    /\ SubSeq(s, i, j) = b /\ Len(s) = Max({width, j - i + 1})
    /\ left => i = 1
    /\ ~left => j = Len(s)
    /\ \A k \in (1 .. i - 1) \cup (j + 1 .. Len(s)) : s[k] = c

Framed(s, b, width, left, c) ==
    \E i \in 1 .. Len(s) + 1, j \in 0 .. Len(s) : FramedAt(s, i, j, b, width, left, c)

LEMMA LargerOf ==
    ASSUME NEW a \in Nat, NEW b \in Nat
    PROVE  Max({a, b}) = IF a > b THEN a ELSE b
<1>1. {a, b} \in SUBSET Int /\ {a, b} # {} OBVIOUS
<1> DEFINE m == IF a > b THEN a ELSE b
<1>2. m \in {a, b} /\ \A x \in {a, b} : m >= x OBVIOUS
<1>3. \A x \in {a, b} : (\A y \in {a, b} : x >= y) => x = m OBVIOUS
<1> HIDE DEF m
<1>4. Max({a, b}) = m BY <1>2, <1>3 DEF Max
<1> QED BY <1>4 DEF m

LEMMA PadIs ==
    ASSUME NEW C, NEW c \in C, NEW n \in Nat
    PROVE  pad(c, n) \in Seq(C) /\ Len(pad(c, n)) = n /\ \A i \in 1 .. n : pad(c, n)[i] = c
BY DEF pad

\* What is put before or behind a text leaves it whole.
LEMMA FrameLeft ==
    ASSUME NEW C, NEW b \in Seq(C), NEW c \in C, NEW n \in Nat, NEW width \in Nat,
           n = IF width > Len(b) THEN width - Len(b) ELSE 0
    PROVE  Framed(b \o pad(c, n), b, width, TRUE, c)
<1> DEFINE q == pad(c, n)
           s == b \o q
<1>1. q \in Seq(C) /\ Len(q) = n /\ \A i \in 1 .. n : q[i] = c BY PadIs
<1> HIDE DEF q
<1>2. s \in Seq(C) /\ Len(s) = Len(b) + n /\ Len(b) \in Nat BY <1>1
<1>3. \A i \in 1 .. Len(b) : s[i] = b[i] BY <1>1
<1>4. \A i \in 1 .. n : s[Len(b) + i] = c
  <2>1. \A i \in 1 .. Len(q) : (b \o q)[Len(b) + i] = q[i] BY <1>1
  <2> QED BY <1>1, <2>1
<1> HIDE DEF s
<1>5. SubSeq(s, 1, Len(b)) = b
  <2> DEFINE u == SubSeq(s, 1, Len(b))
  <2>1. u \in Seq(C) /\ Len(u) = Len(b) /\ \A i \in 1 .. Len(b) : u[i] = s[i] BY <1>2
  <2> HIDE DEF u
  <2>2. u = b BY <1>3, <2>1, SeqEqual
  <2> QED BY <2>2 DEF u
<1>6. Len(s) = Max({width, Len(b) - 1 + 1})
  <2>1. Len(b) - 1 + 1 = Len(b) /\ Len(b) \in Nat BY <1>2
  <2>2. Max({width, Len(b)}) = IF width > Len(b) THEN width ELSE Len(b) BY <2>1, LargerOf
  <2> QED BY <1>2, <2>1, <2>2
<1>7. ASSUME NEW k \in (1 .. 0) \cup (Len(b) + 1 .. Len(s)) PROVE s[k] = c
  <2> DEFINE i == k - Len(b)
  <2>1. i \in 1 .. n /\ Len(b) + i = k BY <1>2
  <2> HIDE DEF i
  <2> QED BY <1>4, <2>1
<1>8. 1 \in 1 .. Len(s) + 1 /\ Len(b) \in 0 .. Len(s) /\ 1 - 1 = 0 BY <1>2
<1>9. FramedAt(s, 1, Len(b), b, width, TRUE, c) BY <1>5, <1>6, <1>7, <1>8 DEF FramedAt
<1>10. Framed(s, b, width, TRUE, c) BY <1>8, <1>9 DEF Framed
<1> QED BY <1>10 DEF s, q

LEMMA FrameRight ==
    ASSUME NEW C, NEW b \in Seq(C), NEW c \in C, NEW n \in Nat, NEW width \in Nat,
           n = IF width > Len(b) THEN width - Len(b) ELSE 0
    PROVE  Framed(pad(c, n) \o b, b, width, FALSE, c)
<1> DEFINE q == pad(c, n)
           s == q \o b
<1>1. q \in Seq(C) /\ Len(q) = n /\ \A i \in 1 .. n : q[i] = c BY PadIs
<1> HIDE DEF q
<1>2. s \in Seq(C) /\ Len(s) = n + Len(b) /\ Len(b) \in Nat BY <1>1
<1>3. \A i \in 1 .. Len(b) : s[n + i] = b[i]
  <2>1. \A i \in 1 .. Len(b) : (q \o b)[Len(q) + i] = b[i] BY <1>1
  <2> QED BY <1>1, <2>1
<1>4. \A i \in 1 .. n : s[i] = c
  <2>1. \A i \in 1 .. Len(q) : (q \o b)[i] = q[i] BY <1>1
  <2> QED BY <1>1, <2>1
<1> HIDE DEF s
<1>5. SubSeq(s, n + 1, Len(s)) = b
  <2> DEFINE u == SubSeq(s, n + 1, Len(s))
  <2>1. u \in Seq(C) /\ Len(u) = Len(b) /\ \A i \in 1 .. Len(b) : u[i] = s[n + i] BY <1>2
  <2> HIDE DEF u
  <2>2. u = b BY <1>3, <2>1, SeqEqual
  <2> QED BY <2>2 DEF u
<1>6. Len(s) = Max({width, Len(s) - (n + 1) + 1})
  <2>1. Len(s) - (n + 1) + 1 = Len(b) BY <1>2
  <2>2. Max({width, Len(b)}) = IF width > Len(b) THEN width ELSE Len(b) BY <1>2, LargerOf
  <2> QED BY <1>2, <2>1, <2>2
<1>8. n + 1 \in 1 .. Len(s) + 1 /\ Len(s) \in 0 .. Len(s) BY <1>2
<1>9. FramedAt(s, n + 1, Len(s), b, width, FALSE, c)
  <2> DEFINE i == n + 1
             j == Len(s)
  <2>1. SubSeq(s, i, j) = b BY <1>5
  <2>2. j = Max({width, j - i + 1}) BY <1>6
  <2>3. ASSUME NEW k \in (1 .. i - 1) \cup (j + 1 .. j) PROVE s[k] = c
    <3>1. k \in 1 .. n BY <1>2
    <3> QED BY <1>4, <3>1
  <2> HIDE DEF i
  <2> QED BY <2>1, <2>2, <2>3 DEF FramedAt, i
<1>10. Framed(s, b, width, FALSE, c) BY <1>8, <1>9 DEF Framed
<1> QED BY <1>10 DEF s, q

LEMMA EmitFrames ==
    ASSUME NEW b, IsText(b), NEW width \in Nat, NEW left \in BOOLEAN, NEW fill
    PROVE  Framed(emit(b, width, left, fill), b, width, left, IF left THEN " " ELSE fill)
<1>1. PICK T : b \in Seq(T) BY DEF IsText
<1> DEFINE C == T \cup {" ", fill}
           n == IF width > Len(b) THEN width - Len(b) ELSE 0
<1>2. b \in Seq(C) /\ " " \in C /\ fill \in C
  <2>1. T \subseteq C OBVIOUS
  <2> HIDE DEF C
  <2>2. b \in Seq(C) BY <1>1, <2>1
  <2> QED BY <2>2 DEF C
<1>3. n \in Nat
  <2>1. Len(b) \in Nat BY <1>1
  <2> QED BY <2>1
<1>4. CASE left
  <2>1. emit(b, width, left, fill) = b \o pad(" ", n) BY <1>4 DEF emit
  <2>2. Framed(b \o pad(" ", n), b, width, TRUE, " ")
    <3> HIDE DEF C
    <3> QED BY <1>2, <1>3, FrameLeft
  <2>3. left = TRUE BY <1>4
  <2> HIDE DEF n
  <2> QED BY <2>1, <2>2, <2>3
<1>5. CASE ~left
  <2>1. emit(b, width, left, fill) = pad(fill, n) \o b BY <1>5 DEF emit
  <2>2. Framed(pad(fill, n) \o b, b, width, FALSE, fill)
    <3> HIDE DEF C
    <3> QED BY <1>2, <1>3, FrameRight
  <2>3. left = FALSE BY <1>5
  <2> HIDE DEF n
  <2> QED BY <2>1, <2>2, <2>3
<1> QED BY <1>4, <1>5

-----------------------------------------------------------------------------
(* One conversion.                                                          *)

IsConversion(q) == IsPiece(q) /\ q.conv # ""

\* A conversion's width, side and fill.
Wide(q) == NumberOf(q.width, 10)
Leftward(q) == "-" \in ToSet(q.flags)
Zeros(q) == "0" \in ToSet(q.flags)
Fill(q) == IF Zeros(q) /\ q.conv \notin {"c", "s"} THEN "0" ELSE " "

\* What kvprintf() prints for a piece.
Shown(q) ==
    IF q.conv = "" THEN <<q.arg>>
    ELSE Converted(q.conv, q.arg, Wide(q), Leftward(q), IF Zeros(q) THEN "0" ELSE " ")

LEMMA WidthIs == ASSUME NEW w \in Seq(Decimal) PROVE NumberOf(w, 10) \in Nat
<1>1. Decimal \subseteq Digit
  <2>1. \A i \in 1 .. 10 : i \in 1 .. 16 OBVIOUS
  <2> QED BY <2>1 DEF Decimal, Digit
<1>2. w \in Seq(Digit) BY <1>1
<1> QED BY <1>2, NumberAppends

\* A column around a body is a field.
LEMMA FramedField ==
    ASSUME NEW s, NEW b, NEW q, IsBody(b, q),
           Framed(s, b, Wide(q), Leftward(q), IF Leftward(q) THEN " " ELSE Fill(q))
    PROVE  IsField(s, q)
<1> DEFINE c == IF Leftward(q) THEN " " ELSE Fill(q)
           g == IF ~Leftward(q) /\ Zeros(q) /\ q.conv \notin {"c", "s"} THEN "0" ELSE " "
<1>1. PICK i \in 1 .. Len(s) + 1, j \in 0 .. Len(s) : FramedAt(s, i, j, b, Wide(q), Leftward(q), c) BY DEF Framed
<1>2. c = g
  <2>1. CASE Leftward(q) BY <2>1
  <2>2. CASE ~Leftward(q) BY <2>2 DEF Fill
  <2> QED BY <2>1, <2>2
<1> HIDE DEF c
<1>3. /\ IsBody(SubSeq(s, i, j), q) /\ Len(s) = Max({Wide(q), j - i + 1})
      /\ Leftward(q) => i = 1
      /\ ~Leftward(q) => j = Len(s)
      /\ \A k \in (1 .. i - 1) \cup (j + 1 .. Len(s)) : s[k] = g
  <2> HIDE DEF g
  <2> QED BY <1>1, <1>2 DEF FramedAt
<1> QED BY <1>3, Zenon DEF IsField, Wide, Leftward, Zeros

Signed(v) == IF v < 0 THEN <<"-">> \o format_num(-v, 10, lower) ELSE format_num(v, 10, lower)

\* What the body of a conversion is, before it is put into its column.
BodyOf(q) ==
    CASE q.conv = "c" -> <<q.arg>>
      [] q.conv = "s" -> q.arg
      [] q.conv = "d" -> Signed(q.arg)
      [] q.conv = "u" -> format_num(q.arg, 10, lower)
      [] q.conv = "x" -> format_num(q.arg, 16, lower)

LEMMA BodyIs ==
    ASSUME NEW q, IsConversion(q)
    PROVE  IsText(BodyOf(q)) /\ IsBody(BodyOf(q), q)
<1>1. CASE q.conv = "c"
  <2>1. BodyOf(q) = <<q.arg>> BY <1>1 DEF BodyOf
  <2>2. IsBody(<<q.arg>>, q) BY <1>1 DEF IsBody
  <2> QED BY <2>1, <2>2, CharIs
<1>2. CASE q.conv = "s"
  <2>1. BodyOf(q) = q.arg BY <1>2 DEF BodyOf
  <2>2. IsBody(q.arg, q) BY <1>2 DEF IsBody
  <2>3. q.arg \in Seq(STRING \ {NUL}) BY <1>2 DEF IsConversion, IsPiece
  <2>4. IsText(q.arg) BY <2>3 DEF IsText
  <2> QED BY <2>1, <2>2, <2>4
<1>3. CASE q.conv = "d"
  <2> DEFINE v == q.arg
  <2>1. v \in Int BY <1>3 DEF IsConversion, IsPiece
  <2>2. ASSUME NEW b, IsNumeral(b, v, 10) PROVE IsBody(b, q) BY <1>3, <2>2 DEF IsBody
  <2>3. CASE v < 0
    <3>1. BodyOf(q) = <<"-">> \o format_num(-v, 10, lower) BY <1>3, <2>3 DEF BodyOf, Signed
    <3> HIDE DEF v
    <3>2. -v \in Nat BY <2>1, <2>3
    <3>3. IsNumeral(<<"-">> \o format_num(-v, 10, lower), v, 10) BY <2>1, <2>3, SignedIs DEF v
    <3>4. IsText(format_num(-v, 10, lower)) BY <3>2, NumberIs
    <3>5. IsText(<<"-">> \o format_num(-v, 10, lower)) BY <3>4, CharIs, TextJoins
    <3> QED BY <2>2, <3>1, <3>3, <3>5
  <2>4. CASE ~(v < 0)
    <3>1. BodyOf(q) = format_num(v, 10, lower) BY <1>3, <2>4 DEF BodyOf, Signed
    <3> HIDE DEF v
    <3>2. v \in Nat BY <2>1, <2>4
    <3>3. IsNumeral(format_num(v, 10, lower), v, 10) /\ IsText(format_num(v, 10, lower)) BY <3>2, NumeralIs, NumberIs
    <3> QED BY <2>2, <3>1, <3>3
  <2> QED BY <2>3, <2>4
<1>4. CASE q.conv = "u"
  <2>1. BodyOf(q) = format_num(q.arg, 10, lower) /\ q.arg \in Nat BY <1>4 DEF BodyOf, IsConversion, IsPiece
  <2>2. IsNumeral(BodyOf(q), q.arg, 10) /\ IsText(BodyOf(q)) BY <2>1, NumeralIs, NumberIs
  <2> QED BY <1>4, <2>2 DEF IsBody
<1>5. CASE q.conv = "x"
  <2>1. BodyOf(q) = format_num(q.arg, 16, lower) /\ q.arg \in Nat BY <1>5 DEF BodyOf, IsConversion, IsPiece
  <2>2. IsNumeral(BodyOf(q), q.arg, 16) /\ IsText(BodyOf(q)) BY <2>1, NumeralIs, NumberIs
  <2> QED BY <1>5, <2>2 DEF IsBody
<1>6. q.conv \in {"c", "s", "d", "u", "x"} BY DEF IsConversion, IsPiece
<1> QED BY <1>1, <1>2, <1>3, <1>4, <1>5, <1>6

\* The cases of kvprintf()'s switch that a piece can have.
LEMMA CaseC ==
    ASSUME NEW a, NEW w, NEW l, NEW f
    PROVE  Converted("c", a, w, l, f) = emit(<<a>>, w, l, " ")
BY DEF Converted, NUL

LEMMA CaseS ==
    ASSUME NEW a, NEW w, NEW l, NEW f, a # NullText
    PROVE  Converted("s", a, w, l, f) = emit(a, w, l, " ")
BY DEF Converted, NUL

LEMMA CaseD ==
    ASSUME NEW a, NEW w, NEW l, NEW f
    PROVE  Converted("d", a, w, l, f) = emit(Signed(a), w, l, f)
BY DEF Converted, NUL, Signed

LEMMA CaseU ==
    ASSUME NEW a, NEW w, NEW l, NEW f
    PROVE  Converted("u", a, w, l, f) = emit(format_num(a, 10, lower), w, l, f)
BY DEF Converted, NUL

LEMMA CaseX ==
    ASSUME NEW a, NEW w, NEW l, NEW f
    PROVE  Converted("x", a, w, l, f) = emit(format_num(a, 16, lower), w, l, f)
BY DEF Converted, NUL

LEMMA ShownIs ==
    ASSUME NEW q, IsConversion(q)
    PROVE  Shown(q) = emit(BodyOf(q), Wide(q), Leftward(q), Fill(q))
<1> DEFINE f == IF Zeros(q) THEN "0" ELSE " "
           a == q.arg
           w == Wide(q)
           l == Leftward(q)
           b == BodyOf(q)
           g == Fill(q)
<1>1. Shown(q) = Converted(q.conv, a, w, l, f) BY DEF Shown, IsConversion
<1>2. q.conv \in {"c", "s"} => g = " " BY DEF Fill
<1>3. q.conv \notin {"c", "s"} => g = f BY DEF Fill
<1>4. ASSUME q.conv = "c" PROVE Converted(q.conv, a, w, l, f) = emit(b, w, l, g)
  <2>1. b = <<a>> /\ g = " " BY <1>2, <1>4 DEF BodyOf
  <2> HIDE DEF f, a, w, l, b, g
  <2>2. Converted("c", a, w, l, f) = emit(<<a>>, w, l, " ") BY CaseC
  <2> QED BY <1>4, <2>1, <2>2
<1>5. ASSUME q.conv = "s" PROVE Converted(q.conv, a, w, l, f) = emit(b, w, l, g)
  <2>1. b = a /\ g = " " /\ a \in Seq(STRING \ {NUL}) BY <1>2, <1>5 DEF BodyOf, IsConversion, IsPiece
  <2> HIDE DEF f, a, w, l, b, g
  <2>2. a # NullText
    <3> DEFINE n == <<NUL>>
    <3> SUFFICES ASSUME a = n PROVE FALSE BY DEF NullText
    <3>1. n \in Seq(STRING \ {NUL}) /\ Len(n) = 1 /\ n[1] = NUL BY <2>1
    <3> HIDE DEF n
    <3>2. n[1] \in STRING \ {NUL} BY <3>1, ElementOfSeq
    <3> QED BY <3>1, <3>2
  <2>3. Converted("s", a, w, l, f) = emit(a, w, l, " ") BY <2>2, CaseS
  <2> QED BY <1>5, <2>1, <2>3
<1>6. ASSUME q.conv = "d" PROVE Converted(q.conv, a, w, l, f) = emit(b, w, l, g)
  <2>1. b = Signed(a) BY <1>6 DEF BodyOf
  <2>2. g = f BY <1>3, <1>6
  <2> HIDE DEF f, a, w, l, b, g
  <2>3. Converted("d", a, w, l, f) = emit(Signed(a), w, l, f) BY CaseD
  <2> QED BY <1>6, <2>1, <2>2, <2>3
<1>7. ASSUME q.conv = "u" PROVE Converted(q.conv, a, w, l, f) = emit(b, w, l, g)
  <2>1. b = format_num(a, 10, lower) /\ g = f BY <1>3, <1>7 DEF BodyOf
  <2> HIDE DEF f, a, w, l, b, g
  <2>2. Converted("u", a, w, l, f) = emit(format_num(a, 10, lower), w, l, f) BY CaseU
  <2> QED BY <1>7, <2>1, <2>2
<1>8. ASSUME q.conv = "x" PROVE Converted(q.conv, a, w, l, f) = emit(b, w, l, g)
  <2>1. b = format_num(a, 16, lower) /\ g = f BY <1>3, <1>8 DEF BodyOf
  <2> HIDE DEF f, a, w, l, b, g
  <2>2. Converted("x", a, w, l, f) = emit(format_num(a, 16, lower), w, l, f) BY CaseX
  <2> QED BY <1>8, <2>1, <2>2
<1>9. q.conv \in {"c", "s", "d", "u", "x"} BY DEF IsConversion, IsPiece
<1>10. Converted(q.conv, a, w, l, f) = emit(b, w, l, g) BY <1>4, <1>5, <1>6, <1>7, <1>8, <1>9
<1>11. Shown(q) = emit(b, w, l, g)
  <2> HIDE DEF f, a, w, l, b, g
  <2> QED BY <1>1, <1>10
<1> QED BY <1>11

\* A conversion prints its argument in a column at least as wide as asked for,
\* filled on the proper side with the proper character, for every number, text,
\* flag and width.
THEOREM FieldIsExact ==
    ASSUME NEW q, IsConversion(q)
    PROVE  IsText(Shown(q)) /\ IsField(Shown(q), q)
<1>1. IsText(BodyOf(q)) /\ IsBody(BodyOf(q), q) BY BodyIs
<1>2. Shown(q) = emit(BodyOf(q), Wide(q), Leftward(q), Fill(q)) BY ShownIs
<1>3. Wide(q) \in Nat
  <2>1. q.width \in Seq(Decimal) BY DEF IsConversion, IsPiece
  <2> QED BY <2>1, WidthIs DEF Wide
<1>4. Leftward(q) \in BOOLEAN BY DEF Leftward
<1>5. Framed(Shown(q), BodyOf(q), Wide(q), Leftward(q), IF Leftward(q) THEN " " ELSE Fill(q))
  BY <1>1, <1>2, <1>3, <1>4, EmitFrames
<1>6. IsField(Shown(q), q) BY <1>1, <1>5, FramedField
<1>7. IsText(Shown(q)) BY <1>1, <1>2, <1>3, EmitIs
<1> QED BY <1>6, <1>7

-----------------------------------------------------------------------------
(* A format.                                                                *)

LEMMA PastIs ==
    ASSUME NEW T, NEW fmt \in Seq(T), NEW i \in 1 .. Len(fmt), NEW cs, fmt[Len(fmt)] \notin cs
    PROVE  /\ Past(fmt, i, cs) \in i .. Len(fmt) /\ fmt[Past(fmt, i, cs)] \notin cs
           /\ \A k \in i .. Past(fmt, i, cs) - 1 : fmt[k] \in cs
<1> DEFINE S == {k \in 1 .. Len(fmt) : fmt[k] \notin cs}
           n == Len(fmt)
<1>1. i \in Nat /\ n \in Nat /\ i <= n /\ n \in S OBVIOUS
<1>2. PICK j \in i .. n : j \in S /\ \A k \in i .. j - 1 : k \notin S
  <2> HIDE DEF S, n
  <2> QED BY <1>1, FirstFrom
<1>3. \A k \in i .. j - 1 : k \in 1 .. n BY <1>1
<1>4. fmt[j] \notin cs /\ \A k \in i .. j - 1 : fmt[k] \in cs BY <1>2, <1>3
<1> HIDE DEF S
<1> QED BY <1>4 DEF Past

\* An element of a part that SubSeq cuts out.
LEMMA CutAt ==
    ASSUME NEW S, NEW s \in Seq(S), NEW lo \in 1 .. Len(s), NEW hi \in lo - 1 .. Len(s),
           NEW x \in 1 .. hi - lo + 1
    PROVE  SubSeq(s, lo, hi)[x] = s[lo + x - 1]
OBVIOUS

\* Where it stops, when the place is known.
LEMMA PastAt ==
    ASSUME NEW T, NEW fmt \in Seq(T), NEW i \in 1 .. Len(fmt), NEW cs,
           NEW j \in i .. Len(fmt), fmt[j] \notin cs, \A k \in i .. j - 1 : fmt[k] \in cs
    PROVE  Past(fmt, i, cs) = j
<1> DEFINE n == Len(fmt)
           Is(m) == m \in i .. n /\ fmt[m] \notin cs /\ \A k \in i .. m - 1 : fmt[k] \in cs
<1>1. n \in Nat OBVIOUS
<1>2. Is(j) OBVIOUS
<1>3. ASSUME NEW m \in i .. n, Is(m) PROVE m = j
  <2>1. ~(m < j) BY <1>1, <1>3
  <2>2. ~(j < m) BY <1>1, <1>3
  <2> QED BY <1>1, <2>1, <2>2
<1>4. Past(fmt, i, cs) = CHOOSE m \in i .. n : Is(m) BY DEF Past
<1> HIDE DEF Is
<1> QED BY <1>2, <1>3, <1>4

\* How a conversion is written.
LEMMA WrittenIs ==
    ASSUME NEW q, IsConversion(q)
    PROVE  LET w == Written(q)
               a == Len(q.flags)
               b == Len(q.width)
           IN  /\ IsText(w) /\ a \in Nat /\ b \in Nat /\ Len(w) = 2 + a + b
               /\ w[1] = "%" /\ w[2 + a + b] = q.conv
               /\ \A x \in 1 .. a : w[1 + x] = q.flags[x]
               /\ \A x \in 1 .. b : w[1 + a + x] = q.width[x]
<1> DEFINE u == q.flags
           v == q.width
           c == q.conv
           C == {"%", "-", "0", c} \cup Decimal
           w == <<"%">> \o u \o v \o <<c>>
<1>1. u \in Seq({"-", "0"}) /\ v \in Seq(Decimal) BY DEF IsConversion, IsPiece
<1>2. "%" \in C /\ c \in C /\ {"-", "0"} \subseteq C /\ Decimal \subseteq C OBVIOUS
<1>3. Written(q) = w BY DEF Written, IsConversion
<1> HIDE DEF u, v, c, C
<1>4. u \in Seq(C) /\ v \in Seq(C) BY <1>1, <1>2, SeqGrows
<1> DEFINE s == <<"%">> \o u
           t == s \o v
<1>5. s \in Seq(C) /\ Len(s) = 1 + Len(u) /\ s[1] = "%" /\ \A x \in 1 .. Len(u) : s[1 + x] = u[x] BY <1>2, <1>4
<1> HIDE DEF s
<1>6. /\ t \in Seq(C) /\ Len(t) = Len(s) + Len(v)
      /\ \A x \in 1 .. Len(s) : t[x] = s[x]
      /\ \A x \in 1 .. Len(v) : t[Len(s) + x] = v[x]
  <2>1. s \in Seq(C) /\ v \in Seq(C) BY <1>4, <1>5
  <2>2. /\ s \o v \in Seq(C) /\ Len(s \o v) = Len(s) + Len(v)
        /\ \A x \in 1 .. Len(s) : (s \o v)[x] = s[x]
    BY <2>1, ConcatIs
  <2>3. \A x \in 1 .. Len(v) : (s \o v)[Len(s) + x] = v[x] BY <2>1, ConcatIs
  <2> QED BY <2>2, <2>3
<1> HIDE DEF t
<1>7. w = t \o <<c>> BY DEF s, t
<1>8. Len(u) \in Nat /\ Len(v) \in Nat BY <1>4
<1>9. /\ w \in Seq(C) /\ Len(w) = Len(t) + 1 /\ w[Len(t) + 1] = c
      /\ \A x \in 1 .. Len(t) : w[x] = t[x]
  <2> DEFINE z == <<c>>
  <2>1. z \in Seq(C) /\ Len(z) = 1 /\ z[1] = c /\ 1 \in 1 .. Len(z) BY <1>2
  <2> HIDE DEF z, w
  <2>2. t \in Seq(C) BY <1>6
  <2>3. /\ t \o z \in Seq(C) /\ Len(t \o z) = Len(t) + Len(z)
        /\ \A x \in 1 .. Len(t) : (t \o z)[x] = t[x]
    BY <2>1, <2>2, ConcatIs
  <2>4. \A x \in 1 .. Len(z) : (t \o z)[Len(t) + x] = z[x]
    <3>1. z \in Seq(C) BY <2>1
    <3> QED BY <2>2, <3>1, ConcatIs
  <2>5. w = t \o z BY <1>7 DEF z
  <2> QED BY <2>1, <2>3, <2>4, <2>5
<1> HIDE DEF w
<1>10. IsText(w) BY <1>9 DEF IsText
<1>11. Len(w) = 2 + Len(u) + Len(v) /\ w[2 + Len(u) + Len(v)] = c BY <1>5, <1>6, <1>8, <1>9
<1>12. w[1] = "%" BY <1>5, <1>6, <1>8, <1>9
<1>13. ASSUME NEW x \in 1 .. Len(u) PROVE w[1 + x] = u[x]
  <2>1. 1 + x \in 1 .. Len(s) /\ 1 + x \in 1 .. Len(t) BY <1>5, <1>6, <1>8
  <2> QED BY <1>5, <1>6, <1>9, <2>1
<1>14. ASSUME NEW x \in 1 .. Len(v) PROVE w[1 + Len(u) + x] = v[x]
  <2>1. Len(s) + x \in 1 .. Len(t) /\ 1 + Len(u) + x = Len(s) + x BY <1>5, <1>6, <1>8
  <2> QED BY <1>6, <1>9, <2>1
<1> QED BY <1>3, <1>8, <1>10, <1>11, <1>12, <1>13, <1>14 DEF u, v, c

\* A conversion that is written from position i on.
Stands(fmt, i, w) ==
    /\ i \in 1 .. Len(fmt) /\ i + Len(w) - 1 <= Len(fmt)
    /\ \A x \in 1 .. Len(w) : fmt[i + x - 1] = w[x]

LEMMA Letters ==
    /\ "%" \notin Decimal /\ "-" \notin Decimal
    /\ \A c \in {"c", "s", "d", "u", "x"} : c \notin Decimal /\ c \notin {"-", "0"} /\ c \in TakesArgument
<1>1. \A d \in Decimal : d \in {"0", "1", "2", "3", "4", "5", "6", "7", "8", "9"}
  <2> SUFFICES ASSUME NEW i \in 1 .. 10 PROVE lower[i] \in {"0", "1", "2", "3", "4", "5", "6", "7", "8", "9"}
    BY DEF Decimal
  <2> QED BY DEF lower
<1> QED BY <1>1 DEF TakesArgument

LEMMA ConversionAt ==
    ASSUME NEW T, NEW fmt \in Seq(T), NEW i, NEW q, IsConversion(q), Stands(fmt, i, Written(q))
    PROVE  /\ fmt[i] = "%" /\ LetterAt(fmt, i) = i + Len(Written(q)) - 1 /\ TakesAt(fmt, i)
           /\ Printed(fmt, i, q.arg) = Shown(q)
<1> DEFINE w == Written(q)
           u == q.flags
           v == q.width
           a == Len(u)
           b == Len(v)
           j == i + 1 + a
           l == j + b
           c == q.conv
<1>1. /\ a \in Nat /\ b \in Nat /\ Len(w) = 2 + a + b /\ w[1] = "%" /\ w[2 + a + b] = c
      /\ \A x \in 1 .. a : w[1 + x] = u[x]
      /\ \A x \in 1 .. b : w[1 + a + x] = v[x]
  BY WrittenIs
<1>2. u \in Seq({"-", "0"}) /\ v \in Seq(Decimal) /\ (v # <<>> => v[1] # "0") BY DEF IsConversion, IsPiece
<1>3. c \in {"c", "s", "d", "u", "x"} BY DEF IsConversion, IsPiece
<1>4. Shown(q) = Converted(c, q.arg, NumberOf(v, 10), "-" \in ToSet(u), IF "0" \in ToSet(u) THEN "0" ELSE " ")
  BY DEF Shown, Wide, Leftward, Zeros, IsConversion
<1>5. i \in 1 .. Len(fmt) /\ i + Len(w) - 1 <= Len(fmt) /\ \A x \in 1 .. Len(w) : fmt[i + x - 1] = w[x]
  BY DEF Stands
<1> DEFINE n == Len(fmt)
<1>6. n \in Nat OBVIOUS
<1> HIDE DEF w, u, v, c, n
<1>7. i + 1 \in 1 .. n /\ j \in i + 1 .. n /\ j \in 1 .. n /\ l \in j .. n /\ l = i + Len(w) - 1 /\ i \in Nat
  BY <1>1, <1>5, <1>6 DEF n
<1>8. fmt[i] = "%"
  <2>1. 1 \in 1 .. Len(w) /\ i + 1 - 1 = i BY <1>1, <1>7
  <2> QED BY <1>1, <1>5, <2>1
<1>9. fmt[l] = c
  <2>1. 2 + a + b \in 1 .. Len(w) /\ i + (2 + a + b) - 1 = l BY <1>1, <1>7
  <2> QED BY <1>1, <1>5, <2>1
<1>10. ASSUME NEW x \in 1 .. a PROVE fmt[i + x] = u[x]
  <2>1. 1 + x \in 1 .. Len(w) /\ i + (1 + x) - 1 = i + x BY <1>1, <1>7
  <2> QED BY <1>1, <1>5, <2>1
<1>11. ASSUME NEW x \in 1 .. b PROVE fmt[j + x - 1] = v[x]
  <2>1. 1 + a + x \in 1 .. Len(w) /\ i + (1 + a + x) - 1 = j + x - 1 BY <1>1, <1>7
  <2> QED BY <1>1, <1>5, <2>1
<1>12. WidthAt(fmt, i) = j
  <2>1. ASSUME NEW k \in i + 1 .. j - 1 PROVE fmt[k] \in {"-", "0"}
    <3> DEFINE x == k - i
    <3>1. x \in 1 .. a /\ i + x = k BY <1>1, <1>7
    <3> HIDE DEF x
    <3>2. u[x] \in {"-", "0"} BY <1>2, <3>1, ElementOfSeq DEF a
    <3> QED BY <1>10, <3>1, <3>2
  <2>2. fmt[j] \notin {"-", "0"}
    <3>1. CASE b = 0
      <4>1. fmt[j] = c BY <1>7, <1>9, <3>1
      <4> QED BY <1>3, <4>1
    <3>2. CASE b # 0
      <4>1. 1 \in 1 .. b /\ j + 1 - 1 = j BY <1>1, <1>7, <3>2
      <4>2. fmt[j] = v[1] BY <1>11, <4>1
      <4>3. v[1] \in Decimal BY <1>2, <4>1, ElementOfSeq DEF b
      <4>4. v # <<>> BY <3>2 DEF b
      <4> QED BY <1>2, <4>2, <4>3, <4>4, Letters
    <3> QED BY <3>1, <3>2
  <2>3. Past(fmt, i + 1, {"-", "0"}) = j
    <3> HIDE DEF j, l
    <3> QED BY <1>7, <2>1, <2>2, PastAt DEF n
  <2> QED BY <2>3 DEF WidthAt
<1>13. LetterAt(fmt, i) = l
  <2>1. ASSUME NEW k \in j .. l - 1 PROVE fmt[k] \in Decimal
    <3> DEFINE x == k - j + 1
    <3>1. x \in 1 .. b /\ j + x - 1 = k BY <1>1, <1>7
    <3> HIDE DEF x
    <3>2. v[x] \in Decimal BY <1>2, <3>1, ElementOfSeq DEF b
    <3> QED BY <1>11, <3>1, <3>2
  <2>2. fmt[l] \notin Decimal BY <1>3, <1>9, Letters
  <2>3. Past(fmt, j, Decimal) = l
    <3> HIDE DEF j, l
    <3> QED BY <1>7, <2>1, <2>2, PastAt DEF n
  <2> QED BY <1>12, <2>3 DEF LetterAt
<1>14. TakesAt(fmt, i) BY <1>3, <1>8, <1>9, <1>13, Letters DEF TakesAt
<1>15. SubSeq(fmt, i + 1, j - 1) = u
  <2> DEFINE s == SubSeq(fmt, i + 1, j - 1)
  <2>1. fmt \in Seq(T) /\ i + 1 \in 1 .. Len(fmt) /\ j - 1 \in i .. Len(fmt) /\ i \in Nat BY <1>1, <1>7 DEF n
  <2>2. s \in Seq(T) /\ Len(s) = a /\ \A x \in 1 .. a : s[x] = fmt[i + x]
    <3>1. j - 1 - (i + 1) + 1 = a BY <1>1, <1>7
    <3>2. s \in Seq(T) BY <2>1
    <3>3. Len(s) = a BY <2>1, <3>1
    <3>4. ASSUME NEW x \in 1 .. a PROVE s[x] = fmt[i + x]
      <4> DEFINE lo == i + 1
                 hi == j - 1
      <4>1. lo \in 1 .. Len(fmt) /\ hi \in lo - 1 .. Len(fmt) /\ x \in 1 .. hi - lo + 1
        BY <1>1, <1>7, <2>1, <3>1
      <4>2. lo + x - 1 = i + x BY <1>1, <1>7
      <4>3. s = SubSeq(fmt, lo, hi) OBVIOUS
      <4> HIDE DEF lo, hi, s
      <4>4. SubSeq(fmt, lo, hi)[x] = fmt[lo + x - 1] BY <2>1, <4>1, CutAt, Zenon
      <4> QED BY <4>2, <4>3, <4>4, Zenon
    <3> QED BY <3>2, <3>3, <3>4
  <2> HIDE DEF s
  <2>3. s = u BY <1>2, <1>10, <2>2, SeqEqual DEF a
  <2> QED BY <2>3 DEF s
<1>16. SubSeq(fmt, j, l - 1) = v
  <2> DEFINE s == SubSeq(fmt, j, l - 1)
  <2>1. fmt \in Seq(T) /\ j \in 1 .. Len(fmt) /\ l - 1 \in j - 1 .. Len(fmt) BY <1>1, <1>7 DEF n
  <2>2. s \in Seq(T) /\ Len(s) = b /\ \A x \in 1 .. b : s[x] = fmt[j + x - 1] BY <1>1, <1>7, <2>1
  <2> HIDE DEF s
  <2>3. s = v BY <1>2, <1>11, <2>2, SeqEqual DEF b
  <2> QED BY <2>3 DEF s
<1> HIDE DEF j, l, a, b
<1>17. Printed(fmt, i, q.arg)
       = Converted(c, q.arg, NumberOf(v, 10), "-" \in ToSet(u), IF "0" \in ToSet(u) THEN "0" ELSE " ")
  BY <1>8, <1>9, <1>12, <1>13, <1>15, <1>16 DEF Printed
<1>18. Printed(fmt, i, q.arg) = Shown(q) BY <1>4, <1>17
<1>19. LetterAt(fmt, i) = i + Len(w) - 1 BY <1>7, <1>13
<1> QED BY <1>8, <1>14, <1>18, <1>19 DEF w

StandsAlone(fmt, i, q) ==
    fmt[i] # "%" /\ ~TakesAt(fmt, i) /\ \A arg : Printed(fmt, i, arg) = Shown(q)

LEMMA CharacterAt ==
    ASSUME NEW fmt, NEW i, NEW q, IsPiece(q), q.conv = "", fmt[i] = q.arg
    PROVE  StandsAlone(fmt, i, q)
<1>1. q.arg # "%" BY DEF IsPiece
<1>2. Shown(q) = <<q.arg>> BY DEF Shown
<1> QED BY <1>1, <1>2 DEF TakesAt, Printed, StandsAlone

-----------------------------------------------------------------------------
(* The arguments behind a format.                                           *)

Taken(args, q) == IF q.conv \in TakesArgument THEN Append(args, q.arg) ELSE args

\* Collecting them, piece by piece.
Taking(r, ps) ==
    /\ \E A : r \in [0 .. Len(ps) -> Seq(A)]
    /\ r[0] = <<>> /\ \A k \in 1 .. Len(ps) : r[k] = Taken(r[k - 1], ps[k])

LEMMA ArgumentsRun ==
    ASSUME NEW Q, NEW ps \in Seq(Q)
    PROVE  \E r : Taking(r, ps) /\ r[Len(ps)] = Arguments(ps)
<1> DEFINE A == {q.arg : q \in Q}
           D == Seq(A)
           z == <<>>
           F == [x \in D \X Q |-> Taken(x[1], x[2])]
           Body(g) == [t \in SUBSET DOMAIN ps |-> IF t = {} THEN z ELSE Taken(g[t \ {Max(t)}], ps[Max(t)])]
           h == CHOOSE g : g = Body(g)
<1>1. ASSUME NEW w \in D, NEW q \in Q PROVE Taken(w, q) \in D
  <2>1. q.arg \in A OBVIOUS
  <2> HIDE DEF A
  <2>2. Append(w, q.arg) \in D BY <2>1
  <2> QED BY <2>2 DEF Taken
<1>2. Arguments(ps) = h[DOMAIN ps] BY DEF Arguments, FoldLeft, MapThenFoldSet, Taken
<1>3. z \in D OBVIOUS
<1> HIDE DEF D, z
<1>4. F \in [D \X Q -> D] BY <1>1
<1>5. \A w \in D, q \in Q : F[<<w, q>>] = Taken(w, q) OBVIOUS
<1> HIDE DEF F
<1>6. \E g : g = Body(g)
  <2>1. PICK g : FoldsOver(g, D, Q, z, ps, F) BY <1>3, <1>4, FoldOver
  <2>2. \A t \in SUBSET DOMAIN ps : g[t] = IF t = {} THEN z ELSE Taken(g[t \ {Max(t)}], ps[Max(t)])
    BY <1>5, <2>1 DEF FoldsOver
  <2>3. g = [t \in SUBSET DOMAIN ps |-> g[t]] BY <2>1 DEF FoldsOver
  <2>4. g = Body(g) BY <2>2, <2>3
  <2> HIDE DEF Body
  <2> QED BY <2>4
<1>7. h = Body(h)
  <2> HIDE DEF Body
  <2> QED BY <1>6
<1> HIDE DEF h
<1>8. \A t \in SUBSET DOMAIN ps : h[t] = IF t = {} THEN z ELSE Taken(h[t \ {Max(t)}], ps[Max(t)])
  BY <1>7, Zenon
<1>9. PICK r : FoldRun(r, D, z, ps, F) /\ r[Len(ps)] = h[DOMAIN ps]
  <2>1. h[{}] = z BY <1>8
  <2>2. \A t \in SUBSET DOMAIN ps :
           t # {} /\ h[t \ {Max(t)}] \in D /\ ps[Max(t)] \in Q =>
              h[t] = F[<<h[t \ {Max(t)}], ps[Max(t)]>>]
    BY <1>5, <1>8
  <2>3. FoldLeads(D, z, ps, F, h) BY <1>3, <1>4, <2>1, <2>2, FoldRuns
  <2> QED BY <2>3 DEF FoldLeads
<1>10. r \in [0 .. Len(ps) -> D] /\ r[0] = z BY <1>9 DEF FoldRun
<1>11. ASSUME NEW k \in 1 .. Len(ps) PROVE r[k] = Taken(r[k - 1], ps[k])
  <2>1. k - 1 \in 0 .. Len(ps) OBVIOUS
  <2>2. r[k] = F[<<r[k - 1], ps[k]>>] /\ r[k - 1] \in D BY <1>9, <1>10, <2>1 DEF FoldRun
  <2>3. ps[k] \in Q BY ElementOfSeq
  <2> QED BY <1>5, <2>2, <2>3
<1>12. Taking(r, ps) BY <1>10, <1>11 DEF Taking, D, z
<1> QED BY <1>2, <1>9, <1>12

\* Where the argument of a piece is: a[k] of them belong to the first k pieces.
Handed(a, ps, args) ==
    /\ a \in [0 .. Len(ps) -> Nat] /\ a[0] = 0
    /\ \A k \in 1 .. Len(ps) :
          IF ps[k].conv \in TakesArgument THEN a[k] = a[k - 1] + 1 /\ args[a[k]] = ps[k].arg
          ELSE a[k] = a[k - 1]

LEMMA ArgumentsAre ==
    ASSUME NEW Q, NEW ps \in Seq(Q)
    PROVE  \E a : Handed(a, ps, Arguments(ps))
<1> DEFINE n == Len(ps)
           args == Arguments(ps)
<1>1. PICK r : Taking(r, ps) /\ r[n] = args BY ArgumentsRun
<1>2. PICK A : r \in [0 .. n -> Seq(A)] BY <1>1 DEF Taking
<1>3. r[0] = <<>> /\ \A k \in 1 .. n : r[k] = Taken(r[k - 1], ps[k]) BY <1>1 DEF Taking
<1>4. n \in Nat OBVIOUS
<1> DEFINE a == [k \in 0 .. n |-> Len(r[k])]
<1> HIDE DEF n, args
<1>5. \A k \in 0 .. n : r[k] \in Seq(A) /\ Len(r[k]) \in Nat BY <1>2
<1>6. ASSUME NEW k \in 1 .. n
      PROVE  /\ k \in 0 .. n /\ k - 1 \in 0 .. n
             /\ ps[k].conv \in TakesArgument => Len(r[k]) = Len(r[k - 1]) + 1 /\ r[k][Len(r[k])] = ps[k].arg
             /\ ps[k].conv \notin TakesArgument => Len(r[k]) = Len(r[k - 1])
             /\ Len(r[k]) >= Len(r[k - 1]) /\ \A x \in 1 .. Len(r[k - 1]) : r[k][x] = r[k - 1][x]
  <2>1. k \in 0 .. n /\ k - 1 \in 0 .. n BY <1>4
  <2>2. r[k] = Taken(r[k - 1], ps[k]) /\ r[k] \in Seq(A) /\ r[k - 1] \in Seq(A) BY <1>3, <1>5, <2>1
  <2> DEFINE u == r[k - 1]
             v == r[k]
             y == ps[k].arg
             T == A \cup {y}
  <2>3. CASE ps[k].conv \in TakesArgument
    <3>1. v = Append(u, y) BY <2>2, <2>3 DEF Taken
    <3>2. u \in Seq(T) /\ y \in T
      <4>1. A \subseteq T /\ y \in T OBVIOUS
      <4> HIDE DEF T, u
      <4> QED BY <2>2, <4>1, SeqGrows DEF u
    <3> HIDE DEF u, v, y, T
    <3>3. Len(v) = Len(u) + 1 /\ v[Len(u) + 1] = y /\ \A x \in 1 .. Len(u) : v[x] = u[x] /\ Len(u) \in Nat
      BY <3>1, <3>2
    <3>4. Len(u) \in Nat BY <3>2
    <3>5. v[Len(v)] = y /\ Len(v) >= Len(u) BY <3>3, <3>4
    <3> QED BY <2>1, <2>3, <3>3, <3>5 DEF u, v, y
  <2>4. CASE ps[k].conv \notin TakesArgument
    <3>1. v = u BY <2>2, <2>4 DEF Taken
    <3> HIDE DEF u, v
    <3>2. Len(v) >= Len(u) BY <2>2, <3>1 DEF u
    <3> QED BY <2>1, <2>4, <3>1, <3>2 DEF u, v
  <2> QED BY <2>3, <2>4
<1>7. ASSUME NEW k \in 0 .. n, NEW x \in 1 .. Len(r[k]) PROVE args[x] = r[k][x]
  <2> DEFINE P == {m \in k .. n : Len(r[k]) <= Len(r[m]) /\ r[m][x] = r[k][x]}
  <2>1. k \in P BY <1>4, <1>5
  <2>2. ASSUME NEW m \in k .. n - 1, m \in P PROVE m + 1 \in P
    <3> DEFINE j == m + 1
    <3>1. j \in 1 .. n /\ j - 1 = m /\ j \in k .. n /\ m \in 0 .. n /\ j \in 0 .. n BY <1>4
    <3> HIDE DEF j
    <3>2. Len(r[j]) >= Len(r[m]) /\ \A y \in 1 .. Len(r[m]) : r[j][y] = r[m][y] BY <1>6, <3>1
    <3>3. Len(r[k]) <= Len(r[m]) /\ r[m][x] = r[k][x] BY <2>2
    <3>4. Len(r[k]) \in Nat /\ Len(r[m]) \in Nat /\ Len(r[j]) \in Nat BY <1>5, <3>1
    <3>5. x \in 1 .. Len(r[m]) BY <3>3, <3>4
    <3>6. r[j][x] = r[k][x] BY <3>2, <3>3, <3>5
    <3>7. Len(r[k]) <= Len(r[j]) BY <3>2, <3>3, <3>4
    <3>8. j \in P BY <3>1, <3>6, <3>7
    <3> QED BY <3>8 DEF j
  <2> HIDE DEF P
  <2>3. k \in Nat BY <1>4
  <2>4. \A m \in k .. n : m \in P BY <1>4, <2>1, <2>2, <2>3, RangeInduction
  <2>5. n \in P BY <1>4, <2>4
  <2> QED BY <1>1, <2>5 DEF P
<1>8. a \in [0 .. n -> Nat] BY <1>5
<1>9. a[0] = 0 BY <1>3, <1>4
<1>10. ASSUME NEW k \in 1 .. n
       PROVE  IF ps[k].conv \in TakesArgument THEN a[k] = a[k - 1] + 1 /\ args[a[k]] = ps[k].arg
              ELSE a[k] = a[k - 1]
  <2>1. k \in 0 .. n /\ k - 1 \in 0 .. n BY <1>6
  <2>2. a[k] = Len(r[k]) /\ a[k - 1] = Len(r[k - 1]) BY <2>1
  <2> HIDE DEF a
  <2>3. CASE ps[k].conv \in TakesArgument
    <3>1. Len(r[k]) = Len(r[k - 1]) + 1 /\ r[k][Len(r[k])] = ps[k].arg BY <1>6, <2>3
    <3>2. Len(r[k - 1]) \in Nat BY <1>5, <2>1
    <3>3. Len(r[k]) \in 1 .. Len(r[k]) BY <3>1, <3>2
    <3>4. args[Len(r[k])] = ps[k].arg BY <1>7, <2>1, <3>1, <3>3
    <3> QED BY <2>2, <2>3, <3>1, <3>4
  <2>4. CASE ps[k].conv \notin TakesArgument BY <1>6, <2>2, <2>4
  <2> QED BY <2>3, <2>4
<1> HIDE DEF a
<1>11. Handed(a, ps, args) BY <1>8, <1>9, <1>10 DEF Handed, n
<1> QED BY <1>11 DEF args

-----------------------------------------------------------------------------
(* The walk over a format.                                                  *)

\* A position in the format and a number of an argument, and the next ones.
Places(fmt) == (1 .. Len(fmt) + 1) \X Nat
After(fmt, x) ==
    <<(IF fmt[x[1]] = "%" THEN LetterAt(fmt, x[1]) ELSE x[1]) + 1,
      x[2] + (IF TakesAt(fmt, x[1]) THEN 1 ELSE 0)>>

LEMMA AfterIs ==
    ASSUME NEW T, NEW fmt \in Seq(T), fmt # <<>>, fmt[Len(fmt)] = NUL,
           NEW x \in Places(fmt), x[1] < Len(fmt)
    PROVE  After(fmt, x) \in Places(fmt) /\ After(fmt, x)[1] > x[1]
<1> DEFINE n == Len(fmt)
           i == x[1]
<1>1. n \in Nat \ {0} /\ i \in 1 .. n - 1 /\ x[2] \in Nat BY DEF Places
<1>2. LetterAt(fmt, i) \in i .. n
  <2> DEFINE j == WidthAt(fmt, i)
             m == i + 1
             F == {"-", "0"}
  <2>1. NUL \notin F /\ NUL \notin Decimal
    <3>1. NUL \notin F BY DEF NUL
    <3>2. ASSUME NEW k \in 1 .. 10 PROVE lower[k] # NUL BY DEF lower, NUL
    <3>3. NUL \notin Decimal BY <3>2 DEF Decimal
    <3> QED BY <3>1, <3>3
  <2>2. m \in 1 .. n /\ j = Past(fmt, m, F) BY <1>1 DEF WidthAt
  <2> HIDE DEF m, j, F, n
  <2>3. j \in m .. n BY <2>1, <2>2, PastIs DEF n
  <2>4. j \in 1 .. n /\ j >= m BY <1>1, <2>2, <2>3
  <2>5. Past(fmt, j, Decimal) \in j .. n BY <2>1, <2>4, PastIs DEF n
  <2>6. LetterAt(fmt, i) = Past(fmt, j, Decimal) BY DEF LetterAt, j
  <2> DEFINE l == LetterAt(fmt, i)
  <2>7. l \in j .. n BY <2>5, <2>6
  <2> HIDE DEF l
  <2>8. l \in i .. n BY <1>1, <2>4, <2>7 DEF m
  <2> QED BY <2>8 DEF l, n
<1> DEFINE l == IF fmt[i] = "%" THEN LetterAt(fmt, i) ELSE i
           d == IF TakesAt(fmt, i) THEN 1 ELSE 0
<1>3. l \in i .. n /\ d \in {0, 1} BY <1>1, <1>2
<1>4. After(fmt, x) = <<l + 1, x[2] + d>> BY DEF After
<1> HIDE DEF l, d
<1>5. l + 1 \in 1 .. n + 1 /\ l + 1 > i /\ x[2] + d \in Nat BY <1>1, <1>3
<1> QED BY <1>4, <1>5 DEF Places

\* What the loop runs through from x on, and what it prints.
Walks(s, fmt) ==
    \A x \in Places(fmt) : s[x] = IF x[1] >= Len(fmt) THEN <<>> ELSE <<x>> \o s[After(fmt, x)]

PrintedAt(fmt, x, args) == Printed(fmt, x[1], IF TakesAt(fmt, x[1]) THEN args[x[2]] ELSE 0)

Walk(fmt) ==
    CHOOSE g : g = [x \in Places(fmt) |-> IF x[1] >= Len(fmt) THEN <<>> ELSE <<x>> \o g[After(fmt, x)]]

AllPrinted(fmt, rounds, args) == FlattenSeq([m \in DOMAIN rounds |-> PrintedAt(fmt, rounds[m], args)])

LEMMA KvprintfIs ==
    ASSUME NEW format, NEW args
    PROVE  kvprintf(format, args) = AllPrinted(Append(format, NUL), Walk(Append(format, NUL))[<<1, 1>>], args)
BY DEF kvprintf, AllPrinted, Walk, PrintedAt, After, Places

LEMMA WalkIs ==
    ASSUME NEW T, NEW format \in Seq(T), NEW fmt, fmt = Append(format, NUL)
    PROVE  Walks(Walk(fmt), fmt)
<1> DEFINE U == T \cup {NUL}
           n == Len(fmt)
           S == Places(fmt)
           V == Seq(S)
           Stop == {x \in S : x[1] >= n}
           rank == [x \in S |-> n + 1 - x[1]]
           N == [x \in S |-> IF x[1] >= n THEN x ELSE After(fmt, x)]
           B == [x \in S |-> <<>>]
           F == [y \in S \X V |-> <<y[1]>> \o y[2]]
           Body(g) == [x \in S |-> IF x[1] >= n THEN <<>> ELSE <<x>> \o g[After(fmt, x)]]
           h == Walk(fmt)
<1>1. fmt \in Seq(U) /\ n \in Nat \ {0} /\ fmt # <<>> /\ fmt[n] = NUL
  <2>1. T \subseteq U /\ NUL \in U OBVIOUS
  <2> HIDE DEF U
  <2>2. format \in Seq(U) BY <2>1, SeqGrows
  <2> QED BY <2>1, <2>2
<1>2. ASSUME NEW x \in S PROVE x[1] \in 1 .. n + 1 /\ x[2] \in Nat BY DEF Places
<1>3. ASSUME NEW x \in S, ~(x[1] >= n) PROVE After(fmt, x) \in S /\ After(fmt, x)[1] > x[1]
  <2>1. x[1] < n BY <1>1, <1>2, <1>3
  <2> HIDE DEF U
  <2> QED BY <1>1, <2>1, AfterIs
<1> HIDE DEF S
<1>4. rank \in [S -> Nat]
  <2>1. \A x \in S : n + 1 - x[1] \in Nat BY <1>1, <1>2
  <2> QED BY <2>1
<1>5. N \in [S -> S] BY <1>3
<1>6. B \in [S -> V] OBVIOUS
<1>7. F \in [S \X V -> V]
  <2>1. ASSUME NEW x \in S, NEW v \in V PROVE <<x>> \o v \in V OBVIOUS
  <2> HIDE DEF V
  <2> QED BY <2>1
<1>8. \A x \in S \ Stop : rank[N[x]] < rank[x]
  <2> SUFFICES ASSUME NEW x \in S, ~(x[1] >= n) PROVE rank[N[x]] < rank[x] OBVIOUS
  <2> DEFINE y == After(fmt, x)
  <2>1. N[x] = y /\ y \in S /\ y[1] > x[1] BY <1>3
  <2> HIDE DEF y, N
  <2>2. rank[y] = n + 1 - y[1] /\ rank[x] = n + 1 - x[1] BY <2>1
  <2>3. y[1] \in 1 .. n + 1 /\ x[1] \in 1 .. n + 1 BY <1>2, <2>1
  <2> QED BY <1>1, <2>1, <2>2, <2>3
<1>9. PICK f \in [S -> V] : Unfolds(f, S, Stop, B, F, N)
  <2> HIDE DEF rank, N, B, F, V, Stop
  <2> QED BY <1>4, <1>5, <1>6, <1>7, <1>8, RankedRecursion
<1>10. \A x \in S : f[x] = IF x[1] >= n THEN <<>> ELSE <<x>> \o f[After(fmt, x)]
  <2> SUFFICES ASSUME NEW x \in S PROVE f[x] = IF x[1] >= n THEN <<>> ELSE <<x>> \o f[After(fmt, x)] OBVIOUS
  <2>1. f[x] = IF x \in Stop THEN B[x] ELSE F[<<x, f[N[x]]>>] BY <1>9 DEF Unfolds
  <2>2. CASE x[1] >= n BY <2>1, <2>2
  <2>3. CASE ~(x[1] >= n)
    <3> DEFINE y == After(fmt, x)
    <3>1. N[x] = y /\ y \in S /\ x \notin Stop BY <1>3, <2>3
    <3> HIDE DEF y, N, Stop
    <3>2. f[y] \in V BY <3>1
    <3> HIDE DEF V
    <3>3. F[<<x, f[y]>>] = <<x>> \o f[y] BY <3>2
    <3>4. f[x] = <<x>> \o f[y]
      <4> HIDE DEF F
      <4> QED BY <2>1, <3>1, <3>3
    <3> QED BY <2>3, <3>4 DEF y
  <2> QED BY <2>2, <2>3
<1>11. \E g : g = Body(g)
  <2>1. f = [x \in S |-> f[x]] OBVIOUS
  <2>2. f = Body(f) BY <1>10, <2>1
  <2> HIDE DEF Body
  <2> QED BY <2>2
<1>12. h = CHOOSE g : g = Body(g) BY DEF Walk, S
<1>13. h = Body(h)
  <2> HIDE DEF Body, h
  <2> QED BY <1>11, <1>12
<1> HIDE DEF h
<1>14. \A x \in S : h[x] = IF x[1] >= n THEN <<>> ELSE <<x>> \o h[After(fmt, x)] BY <1>13, Zenon
<1>15. Walks(h, fmt) BY <1>14 DEF Walks, S
<1> QED BY <1>15 DEF h

\* The pieces of a call.
ArePieces(ps) == (\E Q : ps \in Seq(Q)) /\ ps # <<>> /\ \A k \in 1 .. Len(ps) : IsPiece(ps[k])

\* A format is its pieces, one behind the other, and a NUL: e[k] is where the
\* k-th piece ends.
Spells(e, ps, fmt) ==
    /\ e \in [0 .. Len(ps) -> Nat] /\ e[0] = 0 /\ Len(fmt) = e[Len(ps)] + 1 /\ fmt[Len(fmt)] = NUL
    /\ \A k \in 1 .. Len(ps) :
          /\ e[k] = e[k - 1] + Len(Written(ps[k])) /\ e[k] <= e[Len(ps)] /\ e[k - 1] < e[k]
          /\ Stands(fmt, e[k - 1] + 1, Written(ps[k]))

LEMMA PieceIsText ==
    ASSUME NEW q, IsPiece(q)
    PROVE  IsText(Written(q)) /\ Len(Written(q)) \in Nat \ {0} /\ (q.conv = "" => Written(q) = <<q.arg>>)
<1>1. CASE q.conv = ""
  <2>1. Written(q) = <<q.arg>> BY <1>1 DEF Written
  <2>2. IsText(<<q.arg>>) BY CharIs
  <2>3. Len(<<q.arg>>) = 1 OBVIOUS
  <2> QED BY <2>1, <2>2, <2>3
<1>2. CASE q.conv # ""
  <2>1. IsConversion(q) BY <1>2 DEF IsConversion
  <2>2. IsText(Written(q)) BY <2>1, WrittenIs
  <2> DEFINE a == Len(q.flags)
             b == Len(q.width)
  <2>3. a \in Nat /\ b \in Nat /\ Len(Written(q)) = 2 + a + b BY <2>1, WrittenIs
  <2> HIDE DEF a, b
  <2>4. Len(Written(q)) \in Nat \ {0} BY <2>3
  <2> QED BY <1>2, <2>2, <2>4
<1> QED BY <1>1, <1>2

LEMMA FormatSpells ==
    ASSUME NEW ps, ArePieces(ps)
    PROVE  IsText(Format(ps)) /\ \E e : Spells(e, ps, Append(Format(ps), NUL))
<1> DEFINE n == Len(ps)
           ws == [k \in 1 .. n |-> Written(ps[k])]
           f == Format(ps)
           T == UNION {{ws[i][j] : j \in 1 .. Len(ws[i])} : i \in 1 .. n}
<1>1. PICK Q : ps \in Seq(Q) BY DEF ArePieces
<1>2. n \in Nat \ {0} /\ DOMAIN ps = 1 .. n BY <1>1 DEF ArePieces
<1>3. f = FlattenSeq(ws) BY <1>2 DEF Format
<1>4. ASSUME NEW k \in 1 .. n PROVE ws[k] = Written(ps[k]) /\ IsText(ws[k]) /\ Len(ws[k]) \in Nat \ {0}
  <2>1. ws[k] = Written(ps[k]) OBVIOUS
  <2>2. IsPiece(ps[k]) BY DEF ArePieces
  <2>3. IsText(Written(ps[k])) /\ Len(Written(ps[k])) \in Nat \ {0} BY <2>2, PieceIsText
  <2> HIDE DEF ws
  <2> QED BY <2>1, <2>3
<1>5. Len(ws) = n /\ ws = [k \in 1 .. n |-> ws[k]] BY <1>2
<1> HIDE DEF f, ws, n
<1>6. ASSUME NEW k \in 1 .. n PROVE ws[k] \in Seq(T)
  <2>1. PICK S : ws[k] \in Seq(S) BY <1>4 DEF IsText
  <2>2. \A j \in 1 .. Len(ws[k]) : ws[k][j] \in T OBVIOUS
  <2> HIDE DEF T
  <2> QED BY <2>1, <2>2
<1> HIDE DEF T
<1>7. ws \in Seq(Seq(T)) /\ ws # <<>> BY <1>2, <1>5, <1>6
<1>8. PICK e : f \in Seq(T) /\ Laid(e, ws, f) BY <1>3, <1>7, FlattenLaid
<1>9. IsText(f) BY <1>8 DEF IsText
<1> DEFINE U == T \cup {NUL}
           fmt == Append(f, NUL)
<1>10. fmt \in Seq(U) /\ Len(fmt) = Len(f) + 1 /\ fmt[Len(f) + 1] = NUL /\ \A y \in 1 .. Len(f) : fmt[y] = f[y]
  <2>1. T \subseteq U /\ NUL \in U OBVIOUS
  <2> HIDE DEF U
  <2>2. f \in Seq(U) BY <1>8, <2>1, SeqGrows
  <2> QED BY <2>1, <2>2
<1> HIDE DEF U, fmt
<1>11. e \in [0 .. n -> Nat] /\ e[0] = 0 /\ Len(f) = e[n] BY <1>5, <1>8 DEF Laid
<1>12. \A k \in 1 .. n :
          /\ e[k] = e[k - 1] + Len(ws[k]) /\ e[k] <= e[n]
          /\ \A y \in 1 .. Len(ws[k]) : f[e[k - 1] + y] = ws[k][y]
  BY <1>5, <1>8 DEF Laid
<1>13. ASSUME NEW k \in 1 .. n
       PROVE  /\ e[k] = e[k - 1] + Len(Written(ps[k])) /\ e[k] <= e[n] /\ e[k - 1] < e[k]
              /\ Stands(fmt, e[k - 1] + 1, Written(ps[k]))
  <2> DEFINE w == ws[k]
             c == e[k - 1]
             d == e[k]
             m == e[n]
  <2>1. c \in Nat /\ d \in Nat /\ m \in Nat
    <3>1. k - 1 \in 0 .. n /\ k \in 0 .. n /\ n \in 0 .. n BY <1>2
    <3> QED BY <1>11, <3>1
  <2>2. w = Written(ps[k]) /\ Len(w) \in Nat \ {0} BY <1>4
  <2>3. d = c + Len(w) /\ d <= m /\ \A y \in 1 .. Len(w) : f[c + y] = w[y] BY <1>12
  <2> HIDE DEF w, c, d, m
  <2>4. Len(fmt) = m + 1 /\ \A y \in 1 .. m : fmt[y] = f[y] BY <1>10, <1>11 DEF m
  <2> DEFINE i == c + 1
  <2>5. i \in 1 .. Len(fmt) /\ i + Len(w) - 1 <= Len(fmt) BY <2>1, <2>2, <2>3, <2>4
  <2>6. ASSUME NEW y \in 1 .. Len(w) PROVE fmt[i + y - 1] = w[y]
    <3>1. i + y - 1 = c + y /\ c + y \in 1 .. m BY <2>1, <2>2, <2>3
    <3> QED BY <2>3, <2>4, <3>1
  <2>7. Stands(fmt, i, w) BY <2>5, <2>6 DEF Stands
  <2>8. c < d BY <2>1, <2>2, <2>3
  <2> QED BY <2>2, <2>3, <2>7, <2>8 DEF c, d, m
<1>14. Spells(e, ps, fmt) BY <1>10, <1>11, <1>13 DEF Spells, n
<1> QED BY <1>9, <1>14 DEF f, fmt

\* At a piece, the loop prints what it means and goes on behind it.
LEMMA RoundIs ==
    ASSUME NEW T, NEW fmt \in Seq(T), NEW ps, ArePieces(ps), NEW e, Spells(e, ps, fmt),
           NEW args, NEW a, Handed(a, ps, args), NEW k \in 1 .. Len(ps)
    PROVE  LET x == <<e[k - 1] + 1, a[k - 1] + 1>> IN
           /\ x \in Places(fmt) /\ ~(x[1] >= Len(fmt)) /\ After(fmt, x) = <<e[k] + 1, a[k] + 1>>
           /\ PrintedAt(fmt, x, args) = Shown(ps[k])
<1> DEFINE n == Len(ps)
           q == ps[k]
           w == Written(q)
           c == e[k - 1]
           d == e[k]
           m == e[n]
           i == c + 1
           b == a[k - 1]
           x == <<i, b + 1>>
<1>1. n \in Nat
  <2>1. PICK Q : ps \in Seq(Q) BY DEF ArePieces
  <2> QED BY <2>1
<1>2. k - 1 \in 0 .. n /\ k \in 0 .. n /\ n \in 0 .. n BY <1>1
<1>3. c \in Nat /\ d \in Nat /\ m \in Nat /\ Len(fmt) = m + 1 BY <1>2 DEF Spells
<1>4. d = c + Len(w) /\ d <= m /\ c < d /\ Stands(fmt, i, w) BY DEF Spells
<1>5. b \in Nat BY <1>2 DEF Handed
<1>6. IsPiece(q) BY DEF ArePieces
<1>7. IF q.conv \in TakesArgument THEN a[k] = b + 1 /\ args[a[k]] = q.arg ELSE a[k] = b BY DEF Handed
<1> DEFINE z == a[k]
<1> HIDE DEF n, q, w, c, d, m, i, b, z
<1>8. i \in 1 .. Len(fmt) + 1 /\ ~(i >= Len(fmt)) /\ b + 1 \in Nat BY <1>3, <1>4, <1>5 DEF i
<1>9. x \in Places(fmt) BY <1>8 DEF Places
<1>10. x[1] = i /\ x[2] = b + 1 OBVIOUS
<1>11. CASE q.conv = ""
  <2>1. w = <<q.arg>> BY <1>6, <1>11, PieceIsText DEF w
  <2>2. Len(w) = 1 /\ w[1] = q.arg BY <2>1
  <2>3. fmt[i + 1 - 1] = q.arg
    <3>1. 1 \in 1 .. Len(w) BY <2>2
    <3> QED BY <1>4, <2>2, <3>1 DEF Stands
  <2>4. i + 1 - 1 = i BY <1>3 DEF i
  <2>5. fmt[i] # "%" /\ ~TakesAt(fmt, i) /\ \A arg : Printed(fmt, i, arg) = Shown(q)
    <3>1. fmt[i] = q.arg BY <2>3, <2>4
    <3>2. StandsAlone(fmt, i, q) BY <1>6, <1>11, <3>1, CharacterAt, Zenon
    <3> QED BY <3>2 DEF StandsAlone
  <2>6. PrintedAt(fmt, x, args) = Shown(q) BY <1>10, <2>5 DEF PrintedAt
  <2>7. "" \notin TakesArgument BY DEF TakesArgument
  <2>8. a[k] = b BY <1>7, <1>11, <2>7
  <2>9. After(fmt, x) = <<i + 1, (b + 1) + 0>> BY <1>10, <2>5 DEF After
  <2>10. i + 1 = d + 1 /\ (b + 1) + 0 = a[k] + 1 BY <1>3, <1>4, <1>5, <2>2, <2>8 DEF i
  <2>11. After(fmt, x) = <<d + 1, a[k] + 1>> BY <2>9, <2>10
  <2> QED BY <1>8, <1>9, <1>10, <2>6, <2>11 DEF q, d, b, i, c
<1>12. CASE q.conv # ""
  <2>1. IsConversion(q) BY <1>6, <1>12 DEF IsConversion
  <2>2. /\ fmt[i] = "%" /\ LetterAt(fmt, i) = i + Len(w) - 1 /\ TakesAt(fmt, i)
        /\ Printed(fmt, i, q.arg) = Shown(q)
    BY <1>4, <2>1, ConversionAt DEF w
  <2>3. q.conv \in TakesArgument
    <3>1. q.conv \in {"c", "s", "d", "u", "x"} BY <2>1 DEF IsConversion, IsPiece
    <3> QED BY <3>1, Letters
  <2>4. a[k] = b + 1 /\ args[a[k]] = q.arg BY <1>7, <2>3
  <2>5. PrintedAt(fmt, x, args) = Shown(q) BY <1>10, <2>2, <2>4 DEF PrintedAt
  <2>6. After(fmt, x) = <<i + Len(w) - 1 + 1, (b + 1) + 1>> BY <1>10, <2>2 DEF After
  <2>7. i + Len(w) - 1 + 1 = d + 1
    <3>1. Len(w) \in Nat BY <1>6, PieceIsText DEF w
    <3> QED BY <1>3, <1>4, <3>1 DEF i
  <2>8. After(fmt, x) = <<d + 1, a[k] + 1>> BY <2>4, <2>6, <2>7
  <2> QED BY <1>8, <1>9, <1>10, <2>5, <2>8 DEF q, d, b, i, c
<1> QED BY <1>11, <1>12

\* What lies before the loop at the k-th of n pieces.
Ahead(X, k, n) == [m \in 1 .. n + 1 - k |-> X[k + m - 1]]

LEMMA AheadIs ==
    ASSUME NEW S, NEW n \in Nat, NEW X \in [1 .. n + 1 -> S], NEW k \in 1 .. n
    PROVE  <<X[k]>> \o Ahead(X, k + 1, n) = Ahead(X, k, n)
<1> DEFINE t == Ahead(X, k + 1, n)
           u == Ahead(X, k, n)
           z == <<X[k]>>
           j == n - k
<1>1. j \in Nat /\ n + 1 - (k + 1) = j /\ n + 1 - k = j + 1 /\ k \in 1 .. n + 1 OBVIOUS
<1>2. t = [m \in 1 .. j |-> X[k + 1 + m - 1]] BY <1>1 DEF Ahead
<1>3. u = [m \in 1 .. j + 1 |-> X[k + m - 1]] BY <1>1 DEF Ahead
<1> HIDE DEF t, u
<1>4. \A m \in 1 .. j : k + 1 + m - 1 \in 1 .. n + 1 /\ k + 1 + m - 1 = k + m OBVIOUS
<1>5. \A m \in 1 .. j + 1 : k + m - 1 \in 1 .. n + 1 OBVIOUS
<1>6. t \in Seq(S) /\ Len(t) = j /\ \A m \in 1 .. j : t[m] = X[k + m]
  <2> HIDE DEF j
  <2> QED BY <1>1, <1>2, <1>4
<1>7. u \in Seq(S) /\ Len(u) = j + 1 /\ \A m \in 1 .. j + 1 : u[m] = X[k + m - 1]
  <2> HIDE DEF j
  <2> QED BY <1>1, <1>3, <1>5
<1>8. z \in Seq(S) /\ Len(z) = 1 /\ z[1] = X[k] BY <1>1
<1> HIDE DEF z
<1> DEFINE v == z \o t
<1>9. z \in Seq(S) /\ t \in Seq(S) BY <1>6, <1>8
<1>10. v \in Seq(S) /\ Len(v) = Len(z) + Len(t) /\ (\A m \in 1 .. Len(z) : v[m] = z[m]) BY <1>9, ConcatIs
<1>11. \A m \in 1 .. Len(t) : v[Len(z) + m] = t[m] BY <1>9, ConcatIs
<1> HIDE DEF v
<1>12. Len(v) = Len(u) BY <1>1, <1>6, <1>7, <1>8, <1>10
<1>13. ASSUME NEW m \in 1 .. Len(v) PROVE v[m] = u[m]
  <2>1. CASE m = 1
    <3>1. v[m] = X[k] /\ m \in 1 .. j + 1 BY <1>1, <1>8, <1>10, <2>1
    <3>2. k + m - 1 = k BY <2>1
    <3> QED BY <1>7, <3>1, <3>2
  <2>2. CASE m # 1
    <3> DEFINE y == m - 1
    <3>1. y \in 1 .. j /\ m \in 1 .. j + 1 /\ 1 + y = m /\ k + y = k + m - 1 BY <1>1, <1>7, <1>12, <2>2
    <3> HIDE DEF y, j
    <3>2. v[1 + y] = t[y] /\ t[y] = X[k + y] BY <1>6, <1>8, <1>11, <3>1
    <3> QED BY <1>7, <3>1, <3>2
  <2> QED BY <2>1, <2>2
<1>14. v = u BY <1>7, <1>10, <1>12, <1>13, SeqEqual
<1> QED BY <1>14 DEF v, z, t, u

\* The loop goes from piece to piece.
LEMMA RoundsAre ==
    ASSUME NEW T, NEW fmt \in Seq(T), NEW ps, ArePieces(ps), NEW e, Spells(e, ps, fmt),
           NEW args, NEW a, Handed(a, ps, args), NEW s, Walks(s, fmt)
    PROVE  s[<<1, 1>>] = [k \in 1 .. Len(ps) |-> <<e[k - 1] + 1, a[k - 1] + 1>>]
<1> DEFINE n == Len(ps)
           S == Places(fmt)
           X == [k \in 1 .. n + 1 |-> <<e[k - 1] + 1, a[k - 1] + 1>>]
<1>1. n \in Nat \ {0}
  <2>1. PICK Q : ps \in Seq(Q) BY DEF ArePieces
  <2> QED BY <2>1 DEF ArePieces
<1>2. \A k \in 1 .. n + 1 : X[k] = <<e[k - 1] + 1, a[k - 1] + 1>> OBVIOUS
<1>3. ASSUME NEW k \in 1 .. n
      PROVE  /\ X[k] \in S /\ ~(X[k][1] >= Len(fmt)) /\ After(fmt, X[k]) = X[k + 1]
  <2>1. X[k] = <<e[k - 1] + 1, a[k - 1] + 1>>
    <3>1. k \in 1 .. n + 1 BY <1>1
    <3> QED BY <1>2, <3>1
  <2>2. X[k + 1] = <<e[k] + 1, a[k] + 1>>
    <3>1. k + 1 \in 1 .. n + 1 /\ (k + 1) - 1 = k BY <1>1
    <3> HIDE DEF X
    <3> QED BY <1>2, <3>1
  <2> HIDE DEF X
  <2> QED BY <2>1, <2>2, RoundIs
<1>4. X[n + 1] \in S /\ X[n + 1][1] >= Len(fmt)
  <2>1. n + 1 \in 1 .. n + 1 /\ (n + 1) - 1 = n /\ n \in 0 .. n BY <1>1
  <2>2. X[n + 1] = <<e[n] + 1, a[n] + 1>>
    <3> HIDE DEF X
    <3> QED BY <1>2, <2>1
  <2>3. e[n] \in Nat /\ Len(fmt) = e[n] + 1 /\ a[n] \in Nat BY <2>1 DEF Spells, Handed
  <2> HIDE DEF X
  <2>4. e[n] + 1 \in 1 .. Len(fmt) + 1 /\ a[n] + 1 \in Nat /\ e[n] + 1 >= Len(fmt) BY <2>3
  <2> QED BY <2>2, <2>4 DEF Places
<1>5. X \in [1 .. n + 1 -> S]
  <2>1. \A k \in 1 .. n + 1 : X[k] \in S
    <3>1. \A k \in 1 .. n + 1 : k \in 1 .. n \/ k = n + 1 BY <1>1
    <3> HIDE DEF X, S
    <3> QED BY <1>3, <1>4, <3>1
  <2>2. X = [k \in 1 .. n + 1 |-> X[k]] OBVIOUS
  <2> HIDE DEF X, S
  <2> QED BY <2>1, <2>2
<1> HIDE DEF X
<1> DEFINE P == {j \in 0 .. n : s[X[n + 1 - j]] = Ahead(X, n + 1 - j, n)}
<1>6. 0 \in P
  <2>1. s[X[n + 1]] = <<>> BY <1>4 DEF Walks
  <2>2. Ahead(X, n + 1, n) = <<>>
    <3>1. n + 1 - (n + 1) = 0 BY <1>1
    <3>2. Ahead(X, n + 1, n) = [m \in 1 .. 0 |-> X[n + 1 + m - 1]] BY <3>1 DEF Ahead
    <3> QED BY <3>2
  <2>3. n + 1 - 0 = n + 1 BY <1>1
  <2> QED BY <1>1, <2>1, <2>2, <2>3
<1>7. ASSUME NEW j \in 0 .. n - 1, j \in P PROVE j + 1 \in P
  <2> DEFINE k == n - j
  <2>1. k \in 1 .. n /\ n + 1 - j = k + 1 /\ n + 1 - (j + 1) = k /\ j + 1 \in 0 .. n BY <1>1
  <2>2. s[X[k + 1]] = Ahead(X, k + 1, n) BY <1>7, <2>1
  <2> HIDE DEF k, P
  <2>3. s[X[k]] = <<X[k]>> \o s[X[k + 1]] BY <1>3, <2>1 DEF Walks
  <2>4. <<X[k]>> \o Ahead(X, k + 1, n) = Ahead(X, k, n) BY <1>1, <1>5, <2>1, AheadIs
  <2>5. s[X[k]] = Ahead(X, k, n) BY <2>2, <2>3, <2>4
  <2> QED BY <2>1, <2>5 DEF P
<1>8. n \in P
  <2> HIDE DEF P, n
  <2>1. 0 \in Nat /\ n \in 0 .. n BY <1>1
  <2> QED BY <1>1, <1>6, <1>7, <2>1, RangeInduction
<1>9. s[X[1]] = Ahead(X, 1, n)
  <2>1. n + 1 - n = 1 BY <1>1
  <2> QED BY <1>8, <2>1
<1>10. X[1] = <<1, 1>>
  <2>1. 1 \in 1 .. n + 1 /\ 1 - 1 = 0 BY <1>1
  <2>2. X[1] = <<e[0] + 1, a[0] + 1>> BY <1>2, <2>1
  <2>3. e[0] = 0 /\ a[0] = 0 BY DEF Spells, Handed
  <2>4. 0 + 1 = 1 OBVIOUS
  <2> QED BY <2>2, <2>3, <2>4
<1>11. Ahead(X, 1, n) = [k \in 1 .. n |-> <<e[k - 1] + 1, a[k - 1] + 1>>]
  <2>1. n + 1 - 1 = n BY <1>1
  <2>2. Ahead(X, 1, n) = [k \in 1 .. n |-> X[1 + k - 1]] BY <2>1 DEF Ahead
  <2>3. \A k \in 1 .. n : 1 + k - 1 = k /\ k \in 1 .. n + 1 BY <1>1
  <2>4. \A k \in 1 .. n : X[1 + k - 1] = <<e[k - 1] + 1, a[k - 1] + 1>> BY <1>2, <2>3
  <2> QED BY <2>2, <2>4
<1> QED BY <1>9, <1>10, <1>11

\* What the pieces mean, one behind the other.
AllShown(ps) == FlattenSeq([k \in 1 .. Len(ps) |-> Shown(ps[k])])

\* kvprintf() prints every piece of the format with its own argument.
LEMMA CallPrints ==
    ASSUME NEW ps, ArePieces(ps)
    PROVE  kvprintf(Format(ps), Arguments(ps)) = AllShown(ps)
<1> DEFINE n == Len(ps)
           f == Format(ps)
           args == Arguments(ps)
           fmt == Append(f, NUL)
           s == Walk(fmt)
<1>1. PICK Q : ps \in Seq(Q) BY DEF ArePieces
<1>2. n \in Nat BY <1>1
<1>3. PICK T : f \in Seq(T) BY FormatSpells DEF IsText
<1>4. PICK e : Spells(e, ps, fmt) BY FormatSpells
<1>5. PICK a : Handed(a, ps, args) BY <1>1, ArgumentsAre
<1>6. kvprintf(f, args) = AllPrinted(fmt, s[<<1, 1>>], args) BY KvprintfIs
<1> HIDE DEF f, args
<1>7. Walks(s, fmt) BY <1>3, WalkIs
<1> DEFINE U == T \cup {NUL}
<1>8. fmt \in Seq(U)
  <2>1. T \subseteq U /\ NUL \in U OBVIOUS
  <2> HIDE DEF U
  <2>2. f \in Seq(U) BY <1>3, <2>1, SeqGrows
  <2> QED BY <2>1, <2>2
<1> HIDE DEF fmt, s, U
<1> DEFINE X == [k \in 1 .. n |-> <<e[k - 1] + 1, a[k - 1] + 1>>]
<1>9. s[<<1, 1>>] = X BY <1>4, <1>5, <1>7, <1>8, RoundsAre
<1>10. ASSUME NEW k \in 1 .. n PROVE PrintedAt(fmt, X[k], args) = Shown(ps[k])
  <2>1. X[k] = <<e[k - 1] + 1, a[k - 1] + 1>> OBVIOUS
  <2>2. PrintedAt(fmt, <<e[k - 1] + 1, a[k - 1] + 1>>, args) = Shown(ps[k])
    <3> HIDE DEF X
    <3> QED BY <1>4, <1>5, <1>8, RoundIs
  <2> QED BY <2>1, <2>2, Zenon
<1>11. DOMAIN X = 1 .. n OBVIOUS
<1> HIDE DEF X
<1>12. AllPrinted(fmt, X, args) = FlattenSeq([k \in 1 .. n |-> PrintedAt(fmt, X[k], args)])
  BY <1>11 DEF AllPrinted
<1>13. [k \in 1 .. n |-> PrintedAt(fmt, X[k], args)] = [k \in 1 .. n |-> Shown(ps[k])] BY <1>10
<1> QED BY <1>6, <1>9, <1>12, <1>13 DEF AllShown, f, args

-----------------------------------------------------------------------------
(* What a call leaves on the screen.                                        *)

LEMMA CallIs ==
    ASSUME NEW list \in Calls
    PROVE  ArePieces(list)
<1>1. list \in Seq(ToSet(list)) /\ list # <<>> /\ \A i \in DOMAIN list : IsPiece(list[i]) BY CallAssumption
<1> DEFINE Q == ToSet(list)
<1> HIDE DEF Q
<1>2. list \in Seq(Q) BY <1>1 DEF Q
<1>3. DOMAIN list = 1 .. Len(list) BY <1>2
<1> QED BY <1>1, <1>2, <1>3 DEF ArePieces

LEMMA ShownIsPrinted ==
    ASSUME NEW q, IsPiece(q)
    PROVE  IsText(Shown(q)) /\ IsPrinted(Shown(q), q)
<1>1. CASE q.conv = ""
  <2>1. Shown(q) = <<q.arg>> BY <1>1 DEF Shown
  <2>2. IsText(<<q.arg>>) BY CharIs
  <2> QED BY <1>1, <2>1, <2>2 DEF IsPrinted
<1>2. CASE q.conv # ""
  <2>1. IsConversion(q) BY <1>2 DEF IsConversion
  <2>2. IsText(Shown(q)) /\ IsField(Shown(q), q) BY <2>1, FieldIsExact
  <2> QED BY <1>2, <2>2 DEF IsPrinted
<1> QED BY <1>1, <1>2

\* s is cut at ends into what the pieces print.
Pieced(ends, s, ps) ==
    \A k \in 1 .. Len(ps) :
        LET from == IF k = 1 THEN 0 ELSE ends[k - 1]
            to   == IF k = Len(ps) THEN Len(s) ELSE ends[k]
        IN  from <= to /\ IsPrinted(SubSeq(s, from + 1, to), ps[k])

LEMMA AllShownIs ==
    ASSUME NEW ps, ArePieces(ps)
    PROVE  /\ IsText(AllShown(ps))
           /\ \E ends \in [1 .. Len(ps) - 1 -> 0 .. Len(AllShown(ps))] : Pieced(ends, AllShown(ps), ps)
<1> DEFINE n == Len(ps)
           ss == [k \in 1 .. n |-> Shown(ps[k])]
           r == AllShown(ps)
           T == UNION {{ss[i][j] : j \in 1 .. Len(ss[i])} : i \in 1 .. n}
<1>1. PICK Q : ps \in Seq(Q) BY DEF ArePieces
<1>2. n \in Nat \ {0} BY <1>1 DEF ArePieces
<1>3. r = FlattenSeq(ss) BY DEF AllShown
<1>4. ASSUME NEW k \in 1 .. n PROVE IsText(ss[k]) /\ IsPrinted(ss[k], ps[k])
  <2>1. ss[k] = Shown(ps[k]) OBVIOUS
  <2>2. IsPiece(ps[k]) BY DEF ArePieces
  <2>3. IsText(Shown(ps[k])) /\ IsPrinted(Shown(ps[k]), ps[k]) BY <2>2, ShownIsPrinted
  <2> HIDE DEF ss
  <2> QED BY <2>1, <2>3
<1>5. Len(ss) = n /\ ss = [k \in 1 .. n |-> ss[k]] BY <1>2
<1> HIDE DEF r, ss, n
<1>6. ASSUME NEW k \in 1 .. n PROVE ss[k] \in Seq(T)
  <2>1. PICK S : ss[k] \in Seq(S) BY <1>4 DEF IsText
  <2>2. \A j \in 1 .. Len(ss[k]) : ss[k][j] \in T OBVIOUS
  <2> HIDE DEF T
  <2> QED BY <2>1, <2>2
<1> HIDE DEF T
<1>7. ss \in Seq(Seq(T)) /\ ss # <<>> BY <1>2, <1>5, <1>6
<1>8. PICK e : r \in Seq(T) /\ Laid(e, ss, r) BY <1>3, <1>7, FlattenLaid
<1>9. IsText(r) BY <1>8 DEF IsText
<1>10. e \in [0 .. n -> Nat] /\ e[0] = 0 /\ Len(r) = e[n] BY <1>5, <1>8 DEF Laid
<1>11. \A k \in 1 .. n :
          /\ e[k] = e[k - 1] + Len(ss[k]) /\ e[k] <= e[n]
          /\ \A y \in 1 .. Len(ss[k]) : r[e[k - 1] + y] = ss[k][y]
  BY <1>5, <1>8 DEF Laid
<1> DEFINE ends == [k \in 1 .. n - 1 |-> e[k]]
<1>12. ends \in [1 .. n - 1 -> 0 .. Len(r)]
  <2>1. ASSUME NEW k \in 1 .. n - 1 PROVE e[k] \in 0 .. Len(r)
    <3>1. k \in 1 .. n /\ k \in 0 .. n /\ n \in 0 .. n BY <1>2
    <3>2. e[k] \in Nat /\ e[n] \in Nat /\ e[k] <= e[n] BY <1>10, <1>11, <3>1
    <3> QED BY <1>10, <3>2
  <2> QED BY <2>1
<1>13. ASSUME NEW k \in 1 .. n
       PROVE  LET from == IF k = 1 THEN 0 ELSE ends[k - 1]
                  to   == IF k = n THEN Len(r) ELSE ends[k]
              IN  from <= to /\ IsPrinted(SubSeq(r, from + 1, to), ps[k])
  <2> DEFINE from == IF k = 1 THEN 0 ELSE ends[k - 1]
             to   == IF k = n THEN Len(r) ELSE ends[k]
             c == e[k - 1]
             d == e[k]
             w == ss[k]
  <2>1. from = c
    <3>1. CASE k = 1
      <4>1. k - 1 = 0 BY <3>1
      <4> QED BY <1>10, <3>1, <4>1
    <3>2. CASE k # 1
      <4>1. k - 1 \in 1 .. n - 1 BY <1>2, <3>2
      <4> QED BY <3>2, <4>1
    <3> QED BY <3>1, <3>2
  <2>2. to = d
    <3>1. CASE k = n BY <1>10, <3>1
    <3>2. CASE k # n
      <4>1. k \in 1 .. n - 1 BY <1>2, <3>2
      <4> QED BY <3>2, <4>1
    <3> QED BY <3>1, <3>2
  <2>3. w \in Seq(T) /\ IsPrinted(w, ps[k]) BY <1>4, <1>6
  <2>4. c \in Nat /\ d \in Nat /\ d <= Len(r)
    <3>1. k - 1 \in 0 .. n /\ k \in 0 .. n BY <1>2
    <3> QED BY <1>10, <1>11, <3>1
  <2>5. d = c + Len(w) /\ \A y \in 1 .. Len(w) : r[c + y] = w[y] BY <1>11
  <2> HIDE DEF from, to, c, d, w
  <2>6. Len(w) \in Nat /\ c <= d BY <2>3, <2>4, <2>5
  <2> DEFINE u == SubSeq(r, c + 1, d)
  <2>7. u \in Seq(T) /\ Len(u) = Len(w) /\ \A y \in 1 .. Len(w) : u[y] = r[c + y]
    <3>1. r \in Seq(T) /\ Len(r) \in Nat BY <1>8
    <3>2. c + 1 \in 1 .. Len(r) + 1 /\ d \in c .. Len(r) BY <2>4, <2>6, <3>1
    <3> QED BY <2>4, <2>5, <2>6, <3>1, <3>2
  <2> HIDE DEF u
  <2>8. u = w BY <2>3, <2>5, <2>7, SeqEqual
  <2>9. from <= to /\ IsPrinted(SubSeq(r, from + 1, to), ps[k]) BY <2>1, <2>2, <2>3, <2>6, <2>8 DEF u
  <2> QED BY <2>9 DEF from, to
<1> HIDE DEF ends
<1>14. Pieced(ends, r, ps) BY <1>13 DEF Pieced, n
<1> QED BY <1>9, <1>12, <1>14 DEF r, n

\* The last call is still on the screen.
CallShown ==
    printed # <<>> => /\ pc = "prompt" /\ printed \in Calls
                      /\ con.screen = AllShown(printed)

LEMMA CallStep == ASSUME KInv, CallShown, [CmdNext]_cmdvars PROVE CallShown'
<1>1. ASSUME NEW given, NEW list, execute(given, list) PROVE CallShown' BY <1>1 DEF execute, CallShown
<1>2. ASSUME NEW pieces \in Calls, kprintf(pieces) PROVE CallShown'
  <2> DEFINE s == AllShown(pieces)
  <2>1. ArePieces(pieces) BY CallIs
  <2>2. kvprintf(Format(pieces), Arguments(pieces)) = s /\ IsText(s) BY <2>1, CallPrints, AllShownIs
  <2> HIDE DEF s
  <2>3. con = Quiet BY <1>2 DEF kprintf, KInv, Quiet
  <2>4. con' = Put(Quiet, s) /\ pc' = "prompt" /\ printed' = pieces BY <1>2, <2>2, <2>3 DEF kprintf
  <2>5. Put(Quiet, s) = [on |-> FALSE, buf |-> <<>>, screen |-> s] BY <2>2, PutQuiet
  <2>6. con'.screen = s BY <2>4, <2>5
  <2> QED BY <2>4, <2>6 DEF CallShown, s
<1>3. CASE printed' = printed /\ pc # "prompt" BY <1>3 DEF CallShown
<1>4. CASE UNCHANGED cmdvars BY <1>4 DEF cmdvars, aux, CallShown
<1>5. CASE NextWord BY <1>3, <1>5 DEF NextWord, Parsed, aux
<1>6. CASE NoMoreWords BY <1>3, <1>6 DEF NoMoreWords, Parsed, aux
<1>7. CASE Operator BY <1>3, <1>7 DEF Operator, Parsed, Say, aux
<1>8. CASE NotFound \/ NoMemory BY <1>3, <1>8 DEF NotFound, NoMemory, Say, aux
<1>9. CASE Begin BY <1>3, <1>9 DEF Begin, aux
<1>10. CASE Run BY <1>3, <1>10 DEF Run
<1>11. CASE redirect_to_file BY <1>3, <1>11 DEF redirect_to_file, aux
<1>12. CASE Die BY <1>3, <1>12 DEF Die, aux
<1>13. CASE halt_forever BY <1>4, <1>13 DEF halt_forever
<1> QED BY <1>1, <1>2, <1>4, <1>5, <1>6, <1>7, <1>8, <1>9, <1>10, <1>11, <1>12, <1>13 DEF CmdNext

\* kprintf() prints every character of a format as it is and every conversion
\* with its own argument, in a column that is wide enough, filled on the proper
\* side and never cut off, and nothing else: for every format made of the
\* conversions the kernel uses, every width and every argument.
THEOREM FieldsAreExact == CmdSpec => []FieldsExact
<1> DEFINE Inv == CInv /\ KInv /\ Named /\ CallShown
<1>1. CmdInit => Inv BY CmdInitHolds, KInitHolds DEF Named, CallShown, CmdInit
<1>2. Inv /\ [CmdNext]_cmdvars => Inv' BY CommandStep, CallStep
<1>3. Inv => FieldsExact
  <2> SUFFICES ASSUME CallShown, printed # <<>>
               PROVE  \E ends \in [1 .. Len(printed) - 1 -> 0 .. Len(con.screen)] : Pieced(ends, con.screen, printed)
    BY DEF FieldsExact, Pieced
  <2>1. ArePieces(printed) /\ con.screen = AllShown(printed) BY CallIs DEF CallShown
  <2> QED BY <2>1, AllShownIs
<1> QED BY <1>1, <1>2, <1>3, PTL DEF CmdSpec

-----------------------------------------------------------------------------
(* The tools.                                                               *)

\* x stands behind the first i characters of s.
Lies(s, i, x) == i + Len(x) <= Len(s) /\ \A k \in 1 .. Len(x) : s[i + k] = x[k]

LEMMA LiesCut ==
    ASSUME NEW T, NEW s \in Seq(T), NEW x \in Seq(T), NEW i \in Nat, Lies(s, i, x)
    PROVE  SubSeq(s, i + 1, i + Len(x)) = x
<1> DEFINE u == SubSeq(s, i + 1, i + Len(x))
<1>1. Len(x) \in Nat /\ Len(s) \in Nat /\ i + Len(x) <= Len(s) BY DEF Lies
<1>2. u \in Seq(T) /\ Len(u) = Len(x) /\ \A k \in 1 .. Len(x) : u[k] = s[i + k] BY <1>1
<1> HIDE DEF u
<1>3. \A k \in 1 .. Len(x) : u[k] = x[k] BY <1>2 DEF Lies
<1>4. u = x BY <1>2, <1>3, SeqEqual
<1> QED BY <1>4 DEF u

LEMMA LiesBehind ==
    ASSUME NEW T, NEW a \in Seq(T), NEW b \in Seq(T)
    PROVE  a \o b \in Seq(T) /\ Len(a \o b) = Len(a) + Len(b) /\ Lies(a \o b, Len(a), b)
<1> DEFINE d == a \o b
<1>1. Len(a) \in Nat /\ Len(b) \in Nat OBVIOUS
<1>2. d \in Seq(T) /\ Len(d) = Len(a) + Len(b) /\ \A k \in 1 .. Len(b) : d[Len(a) + k] = b[k] OBVIOUS
<1> HIDE DEF d
<1>3. Lies(d, Len(a), b) BY <1>1, <1>2 DEF Lies
<1> QED BY <1>2, <1>3 DEF d

LEMMA LiesStill ==
    ASSUME NEW T, NEW a \in Seq(T), NEW b \in Seq(T), NEW i \in Nat, NEW x \in Seq(T), Lies(a, i, x)
    PROVE  Lies(a \o b, i, x)
<1> DEFINE d == a \o b
<1>1. Len(a) \in Nat /\ Len(b) \in Nat /\ Len(x) \in Nat OBVIOUS
<1>2. Len(d) = Len(a) + Len(b) /\ \A k \in 1 .. Len(a) : d[k] = a[k] OBVIOUS
<1> HIDE DEF d
<1>3. i + Len(x) <= Len(a) /\ \A k \in 1 .. Len(x) : a[i + k] = x[k] BY DEF Lies
<1>4. \A k \in 1 .. Len(x) : i + k \in 1 .. Len(a) BY <1>1, <1>3
<1>5. Lies(d, i, x) BY <1>1, <1>2, <1>3, <1>4 DEF Lies
<1> QED BY <1>5 DEF d

LEMMA LiesFirst ==
    ASSUME NEW T, NEW a \in Seq(T)
    PROVE  Lies(a, 0, a)
BY DEF Lies

\* "%6u".
LEMMA ColumnIs ==
    ASSUME NEW v \in Nat
    PROVE  /\ Column(Converted("u", v, 6, FALSE, " "), v)
           /\ IsText(Converted("u", v, 6, FALSE, " "))
<1> DEFINE q == [conv |-> "u", flags |-> <<>>, width |-> <<"6">>, arg |-> v]
           n == <<>>
<1>1. NumberOf(<<"6">>, 10) = 6
  <2>1. Reads(<<lower[6 + 1]>>, 6, 10) BY ReadsOne
  <2>2. lower[6 + 1] = "6" BY DEF lower
  <2> QED BY <2>1, <2>2 DEF Reads
<1>2. q.conv = "u" /\ q.flags = <<>> /\ q.width = <<"6">> /\ q.arg = v OBVIOUS
<1>3. "6" \in Decimal
  <2>1. lower[7] = "6" BY DEF lower
  <2> QED BY <2>1 DEF Decimal
<1>4. q.flags \in Seq({"-", "0"}) /\ q.width \in Seq(Decimal) /\ (q.width # <<>> => q.width[1] # "0")
  BY <1>2, <1>3
<1>5. IsConversion(q)
  <2>1. q.conv # "" BY <1>2
  <2> HIDE DEF q
  <2>2. q.conv = "u" /\ q.arg \in Nat BY <1>2
  <2> QED BY <1>4, <2>1, <2>2 DEF IsConversion, IsPiece
<1>6. Wide(q) = 6 BY <1>1, <1>2 DEF Wide
<1>7. ~Leftward(q) /\ ~Zeros(q)
  <2>1. ToSet(q.flags) = {} BY <1>2 DEF ToSet
  <2> QED BY <2>1 DEF Leftward, Zeros
<1>8. Leftward(q) = FALSE BY <1>7 DEF Leftward
<1> HIDE DEF q
<1>9. Shown(q) = Converted("u", v, 6, FALSE, " ")
  <2>1. Shown(q) = Converted(q.conv, q.arg, Wide(q), Leftward(q), IF Zeros(q) THEN "0" ELSE " ") BY <1>2 DEF Shown
  <2>2. (IF Zeros(q) THEN "0" ELSE " ") = " " BY <1>7
  <2> QED BY <1>2, <1>6, <1>8, <2>1, <2>2
<1>10. IsText(Shown(q)) /\ IsField(Shown(q), q) BY <1>5, FieldIsExact
<1> QED BY <1>9, <1>10 DEF Column, q

LEMMA ColumnWide ==
    ASSUME NEW v, NEW s, Column(s, v) , IsText(s)
    PROVE  Len(s) \in Nat \ {0}
<1> DEFINE q == [conv |-> "u", flags |-> <<>>, width |-> <<"6">>, arg |-> v]
<1>1. Len(s) \in Nat BY DEF IsText
<1>2. PICK i \in 1 .. Len(s) + 1, j \in 0 .. Len(s) : IsBody(SubSeq(s, i, j), q) BY DEF Column, IsField
<1>3. IsNumeral(SubSeq(s, i, j), v, 10) BY <1>2 DEF IsBody
<1>4. SubSeq(s, i, j) # <<>>
  <2> SUFFICES ASSUME SubSeq(s, i, j) = <<>> PROVE FALSE OBVIOUS
  <2>1. ~(v < 0) => FALSE BY <1>3 DEF IsNumeral
  <2>2. v < 0 => FALSE BY <1>3 DEF IsNumeral
  <2> QED BY <2>1, <2>2
<1>5. CASE Len(s) = 0
  <2>1. i = 1 /\ j = 0 BY <1>1, <1>5
  <2>2. SubSeq(s, 1, 0) = <<>> BY SubSeqEmpty
  <2> QED BY <1>4, <2>1, <2>2
<1> QED BY <1>1, <1>5

\* A text in a larger alphabet.
LEMMA TextIn ==
    ASSUME NEW s, IsText(s)
    PROVE  s \in Seq(ToSet(s))
<1>1. PICK T : s \in Seq(T) BY DEF IsText
<1>2. \A i \in 1 .. Len(s) : s[i] \in ToSet(s) BY <1>1 DEF ToSet
<1>3. ToSet(s) \subseteq T BY <1>1 DEF ToSet
<1> QED BY <1>1, <1>2

\* What stands where in the output of wc.
CountsAt(o, T, x, y, z, l, b, c) ==
    o \in Seq(T) /\ Len(o) >= c /\ Lies(o, 0, x) /\ Lies(o, l + 1, y) /\ Lies(o, b + 1, z)

LEMMA CountsStay ==
    ASSUME NEW T, NEW x \in Seq(T), NEW y \in Seq(T), NEW z \in Seq(T),
           NEW l \in Nat, NEW b \in Nat, NEW c \in Nat,
           NEW u, NEW v \in Seq(T), CountsAt(u, T, x, y, z, l, b, c)
    PROVE  CountsAt(u \o v, T, x, y, z, l, b, c)
<1>1. u \in Seq(T) /\ Len(u) >= c /\ Lies(u, 0, x) /\ Lies(u, l + 1, y) /\ Lies(u, b + 1, z) BY DEF CountsAt
<1>2. u \o v \in Seq(T) /\ Len(u \o v) = Len(u) + Len(v) BY <1>1, LiesBehind
<1>3. Len(u) \in Nat /\ Len(v) \in Nat BY <1>1
<1>4. Lies(u \o v, 0, x) BY <1>1, LiesStill
<1>5. ASSUME NEW i \in Nat, NEW a \in Seq(T), Lies(u, i, a) PROVE Lies(u \o v, i, a) BY <1>1, <1>5, LiesStill
<1>6. l + 1 \in Nat /\ b + 1 \in Nat OBVIOUS
<1>7. Lies(u \o v, l + 1, y) /\ Lies(u \o v, b + 1, z) BY <1>1, <1>5, <1>6
<1> QED BY <1>1, <1>2, <1>3, <1>4, <1>7 DEF CountsAt

\* The three counts and the name, one behind the other.
LEMMA CountsLie ==
    ASSUME NEW T, NEW x \in Seq(T), NEW y \in Seq(T), NEW z \in Seq(T), NEW w \in Seq(T),
           NEW sp \in Seq(T), Len(sp) = 1, NEW nl \in Seq(T), NEW l \in Nat, l = Len(x), NEW b \in Nat, b = l + 1 + Len(y),
           NEW c \in Nat, c = b + 1 + Len(z)
    PROVE  CountsAt(x \o sp \o y \o sp \o z \o sp \o w \o nl, T, x, y, z, l, b, c)
<1> DEFINE p1 == x \o sp
           p2 == p1 \o y
           p3 == p2 \o sp
           p4 == p3 \o z
           p5 == p4 \o sp
           p6 == p5 \o w
<1>0. sp \in Seq(T) /\ nl \in Seq(T) /\ Len(sp) = 1 OBVIOUS
<1>1. Len(y) \in Nat /\ Len(z) \in Nat OBVIOUS
<1>2. l + 1 \in Nat /\ b + 1 \in Nat BY <1>1
<1>3. ASSUME NEW u \in Seq(T), NEW v \in Seq(T), NEW i \in Nat, NEW a \in Seq(T), Lies(u, i, a)
      PROVE  Lies(u \o v, i, a)
  BY <1>3, LiesStill
<1>4. p1 \in Seq(T) /\ Len(p1) = l + 1 /\ Lies(p1, 0, x)
  <2>1. p1 \in Seq(T) /\ Len(p1) = Len(x) + Len(sp) BY <1>0, LiesBehind
  <2>2. Lies(x, 0, x) BY LiesFirst
  <2>3. Lies(p1, 0, x) BY <1>0, <1>3, <2>2
  <2> QED BY <1>0, <2>1, <2>3
<1> HIDE DEF p1
<1>5. p2 \in Seq(T) /\ Len(p2) = b /\ Lies(p2, 0, x) /\ Lies(p2, l + 1, y)
  <2>1. p2 \in Seq(T) /\ Len(p2) = Len(p1) + Len(y) /\ Lies(p2, Len(p1), y) BY <1>4, LiesBehind
  <2>2. Lies(p2, 0, x) BY <1>3, <1>4
  <2> QED BY <1>4, <2>1, <2>2
<1> HIDE DEF p2
<1>6. p3 \in Seq(T) /\ Len(p3) = b + 1 /\ Lies(p3, 0, x) /\ Lies(p3, l + 1, y)
  <2>1. p3 \in Seq(T) /\ Len(p3) = Len(p2) + Len(sp) BY <1>0, <1>5, LiesBehind
  <2>2. Lies(p3, 0, x) BY <1>0, <1>3, <1>5
  <2>3. Lies(p3, l + 1, y) BY <1>0, <1>2, <1>3, <1>5
  <2> QED BY <1>0, <1>5, <2>1, <2>2, <2>3
<1> HIDE DEF p3
<1>7. CountsAt(p4, T, x, y, z, l, b, c)
  <2>1. p4 \in Seq(T) /\ Len(p4) = Len(p3) + Len(z) /\ Lies(p4, Len(p3), z) BY <1>6, LiesBehind
  <2>2. Lies(p4, 0, x) BY <1>3, <1>6
  <2>3. Lies(p4, l + 1, y) BY <1>2, <1>3, <1>6
  <2> HIDE DEF p4
  <2>4. Len(p4) = c BY <1>6, <2>1
  <2>5. c >= c OBVIOUS
  <2> QED BY <1>6, <2>1, <2>2, <2>3, <2>4, <2>5 DEF CountsAt
<1> HIDE DEF p4
<1>8. CountsAt(p5, T, x, y, z, l, b, c) BY <1>0, <1>1, <1>7, CountsStay
<1> HIDE DEF p5
<1>9. CountsAt(p6, T, x, y, z, l, b, c) BY <1>1, <1>8, CountsStay
<1> HIDE DEF p6
<1>10. CountsAt(p6 \o nl, T, x, y, z, l, b, c) BY <1>0, <1>1, <1>9, CountsStay
<1> QED BY <1>10 DEF p6, p5, p4, p3, p2, p1

\* The output, cut apart again.
CutApart(o, x, y, z, l, b, c) ==
    /\ l \in Nat /\ b \in 1 .. Len(o) /\ c \in 1 .. Len(o) /\ l <= Len(o)
    /\ SubSeq(o, 1, l) = x /\ SubSeq(o, l + 2, b) = y /\ SubSeq(o, b + 2, c) = z

LEMMA CountsCut ==
    ASSUME NEW T, NEW x \in Seq(T), NEW y \in Seq(T), NEW z \in Seq(T), NEW o,
           NEW l \in Nat, l = Len(x), NEW b \in Nat, b = l + 1 + Len(y),
           NEW c \in Nat, c = b + 1 + Len(z),
           CountsAt(o, T, x, y, z, l, b, c)
    PROVE  CutApart(o, x, y, z, l, b, c)
<1>1. l \in Nat /\ Len(y) \in Nat /\ Len(z) \in Nat /\ b \in Nat /\ c \in Nat /\ l <= c /\ b <= c /\ 1 <= b OBVIOUS
<1>2. o \in Seq(T) /\ Len(o) >= c /\ Lies(o, 0, x) /\ Lies(o, l + 1, y) /\ Lies(o, b + 1, z) BY DEF CountsAt
<1>3. Len(o) \in Nat BY <1>2
<1>4. b \in 1 .. Len(o) /\ c \in 1 .. Len(o) /\ l <= Len(o) BY <1>1, <1>2, <1>3
<1>5. ASSUME NEW i \in Nat, NEW a \in Seq(T), Lies(o, i, a) PROVE SubSeq(o, i + 1, i + Len(a)) = a
  BY <1>2, <1>5, LiesCut
<1>6. SubSeq(o, 0 + 1, 0 + Len(x)) = x BY <1>2, <1>5
<1>7. l + 1 \in Nat /\ b + 1 \in Nat BY <1>1
<1>8. SubSeq(o, (l + 1) + 1, (l + 1) + Len(y)) = y BY <1>2, <1>5, <1>7
<1>9. SubSeq(o, (b + 1) + 1, (b + 1) + Len(z)) = z BY <1>2, <1>5, <1>7
<1>10. 0 + 1 = 1 /\ 0 + Len(x) = l /\ (l + 1) + 1 = l + 2 /\ (b + 1) + 1 = b + 2 BY <1>1
<1> QED BY <1>1, <1>4, <1>6, <1>8, <1>9, <1>10 DEF CutApart

\* wc's counts and its file's name are all it prints.
LEMMA CountsTell ==
    ASSUME NEW w, IsText(w), NEW C, NEW f \in Seq(C), NEW ws, ws[2] = w
    PROVE  IsText(CountsOf(w, f)) /\ WcExact(ws, f, CountsOf(w, f))
<1> DEFINE x == Converted("u", Counted(f).lines, 6, FALSE, " ")
           y == Converted("u", Counted(f).words, 6, FALSE, " ")
           z == Converted("u", Len(f), 6, FALSE, " ")
           sp == <<" ">>
           nl == <<NL>>
           o == CountsOf(w, f)
           cx == Cardinality(Newlines(f))
           cy == WordCount(f)
           cz == Len(f)
           T == ToSet(x) \cup ToSet(y) \cup ToSet(z) \cup ToSet(w) \cup ToSet(sp) \cup ToSet(nl)
           l == Len(x)
           b == l + 1 + Len(y)
           c == b + 1 + Len(z)
<1>1. Counted(f).lines \in Nat /\ Counted(f).words \in Nat BY CountedIs DEF Counts
<1>2. Counted(f).lines = cx /\ Counted(f).words = cy BY CountsAreExact
<1>3. cz \in Nat OBVIOUS
<1>4. Column(x, cx) /\ Column(y, cy) /\ Column(z, cz) /\ IsText(x) /\ IsText(y) /\ IsText(z)
  <2>1. Column(x, Counted(f).lines) /\ IsText(x) BY <1>1, ColumnIs
  <2>2. Column(y, Counted(f).words) /\ IsText(y) BY <1>1, ColumnIs
  <2>3. Column(z, cz) /\ IsText(z) BY <1>3, ColumnIs
  <2> HIDE DEF x, y, z, cx, cy, cz
  <2> QED BY <1>2, <2>1, <2>2, <2>3
<1>5. o = x \o sp \o y \o sp \o z \o sp \o w \o nl BY DEF CountsOf
<1>6. IsText(sp) /\ IsText(nl) /\ Len(sp) = 1 BY CharIs
<1> HIDE DEF x, y, z, sp, nl, o, cx, cy, cz
<1>7. x \in Seq(T) /\ y \in Seq(T) /\ z \in Seq(T) /\ w \in Seq(T) /\ sp \in Seq(T) /\ nl \in Seq(T)
  <2>1. /\ ToSet(x) \subseteq T /\ ToSet(y) \subseteq T /\ ToSet(z) \subseteq T
        /\ ToSet(w) \subseteq T /\ ToSet(sp) \subseteq T /\ ToSet(nl) \subseteq T
    OBVIOUS
  <2> HIDE DEF T
  <2>2. ASSUME NEW s, IsText(s), ToSet(s) \subseteq T PROVE s \in Seq(T)
    <3>1. s \in Seq(ToSet(s)) BY <2>2, TextIn
    <3> DEFINE S == ToSet(s)
    <3> HIDE DEF S
    <3> QED BY <2>2, <3>1, SeqGrows DEF S
  <2> QED BY <1>4, <1>6, <2>1, <2>2
<1> HIDE DEF T
<1>8. l \in Nat /\ b \in Nat /\ c \in Nat
  <2>1. Len(x) \in Nat /\ Len(y) \in Nat /\ Len(z) \in Nat BY <1>7
  <2> QED BY <2>1
<1>9. l = Len(x) /\ b = l + 1 + Len(y) /\ c = b + 1 + Len(z) OBVIOUS
<1> HIDE DEF l, b, c
<1>10. CountsAt(o, T, x, y, z, l, b, c) BY <1>5, <1>6, <1>7, <1>8, <1>9, CountsLie
<1>11. o \in Seq(T) BY <1>10 DEF CountsAt
<1>12. /\ b \in 1 .. Len(o) /\ c \in 1 .. Len(o) /\ l <= Len(o)
       /\ SubSeq(o, 1, l) = x /\ SubSeq(o, l + 2, b) = y /\ SubSeq(o, b + 2, c) = z
  <2>1. x \in Seq(T) /\ y \in Seq(T) /\ z \in Seq(T) BY <1>7
  <2>2. CutApart(o, x, y, z, l, b, c) BY <1>8, <1>9, <1>10, <2>1, CountsCut
  <2> QED BY <2>2 DEF CutApart
<1>13. l \in 1 .. Len(o)
  <2>1. Len(x) \in Nat \ {0} BY <1>4, ColumnWide
  <2>2. Len(o) \in Nat BY <1>11
  <2> QED BY <1>8, <1>9, <1>12, <2>1, <2>2
<1>14. o = SubSeq(o, 1, l) \o sp \o SubSeq(o, l + 2, b) \o sp \o SubSeq(o, b + 2, c) \o sp \o ws[2] \o nl
  BY <1>5, <1>12
<1>15. Column(SubSeq(o, 1, l), cx) /\ Column(SubSeq(o, l + 2, b), cy) /\ Column(SubSeq(o, b + 2, c), cz)
  BY <1>4, <1>12
<1>16. WcExact(ws, f, o) BY <1>12, <1>13, <1>14, <1>15, Zenon DEF WcExact, cx, cy, cz, sp, nl
<1>17. IsText(o) BY <1>11 DEF IsText
<1> QED BY <1>16, <1>17 DEF o

LEMMA WcTells ==
    ASSUME NEW ws, AreWords(ws), NEW C, NEW f \in Seq(C)
    PROVE  WcExact(ws, f, cmd_wc(ws, f))
<1> SUFFICES ASSUME Len(ws) = 2, ws[2] \in FileNames PROVE WcExact(ws, f, cmd_wc(ws, f)) BY Zenon DEF WcExact
<1> DEFINE missing == {i \in 2 .. Len(ws) : ws[i] \notin FileNames}
           upto == IF missing = {} THEN Len(ws) ELSE Min(missing)
           o == CountsOf(ws[2], f)
           ss == [i \in 1 .. upto - 1 |-> want_file(ws[i + 1], CountsOf(ws[i + 1], f))]
<1>1. missing = {}
  <2>1. \A i \in 2 .. Len(ws) : i = 2 OBVIOUS
  <2> QED BY <2>1
<1>2. upto = 2 BY <1>1
<1>3. cmd_wc(ws, f) = FlattenSeq(ss) BY DEF cmd_wc
<1>4. IsText(ws[2]) BY DEF AreWords
<1>5. IsText(o) /\ WcExact(ws, f, o) BY <1>4, CountsTell
<1>6. ss = <<o>>
  <2>1. want_file(ws[2], CountsOf(ws[2], f)) = o BY DEF want_file
  <2> HIDE DEF o, upto
  <2>2. upto - 1 = 1 BY <1>2
  <2>3. ss = [i \in 1 .. 1 |-> want_file(ws[i + 1], CountsOf(ws[i + 1], f))] BY <2>2
  <2>4. ss = [i \in 1 .. 1 |-> o]
    <3>1. \A i \in 1 .. 1 : i + 1 = 2 OBVIOUS
    <3>2. \A i \in 1 .. 1 : want_file(ws[i + 1], CountsOf(ws[i + 1], f)) = o BY <2>1, <3>1
    <3> QED BY <2>3, <3>2
  <2> HIDE DEF ss
  <2> QED BY <2>4
<1> HIDE DEF ss, o
<1>7. PICK T : o \in Seq(T) BY <1>5 DEF IsText
<1>8. ss \in Seq(Seq(T)) /\ ss # <<>> /\ Len(ss) = 1 /\ ss[1] = o BY <1>6, <1>7
<1>9. FlattenSeq(ss) = ss[1]
  <2>1. PICK g \in [1 .. Len(ss) -> Seq(T)] : g[1] = ss[1] /\ FlattenSeq(ss) = g[Len(ss)] BY <1>8, FlattenIs
  <2> QED BY <1>8, <2>1
<1> QED BY <1>3, <1>5, <1>8, <1>9

\* A number is read to its last digit.
LEMMA AtoiNumber ==
    ASSUME NEW w, IsText(w), IsNumber(w)
    PROVE  atoi_simple(w) = NumberOf(w, 10) /\ NumberOf(w, 10) \in Nat
<1> DEFINE P(n) == (\A i \in 1 .. n : w[i] \in Decimal) /\ (n < Len(w) => w[n + 1] \notin Decimal)
           digits == CHOOSE n \in 0 .. Len(w) : P(n)
           l == Len(w)
           u == SubSeq(w, 1, l)
<1>1. PICK T : w \in Seq(T) BY DEF IsText
<1>2. l \in Nat /\ DOMAIN w = 1 .. l /\ \A i \in 1 .. l : w[i] \in Decimal BY <1>1 DEF IsNumber
<1>3. P(l) BY <1>2
<1>4. ASSUME NEW n \in 0 .. Len(w), P(n) PROVE n = l
  <2> SUFFICES ASSUME n # l PROVE FALSE OBVIOUS
  <2>0. l \in Nat /\ n \in 0 .. l BY <1>2
  <2>1. n < l /\ n + 1 \in 1 .. l
    <3> HIDE DEF l, P
    <3> QED BY <2>0
  <2> QED BY <1>2, <1>4, <2>1
<1>5. l \in 0 .. Len(w) BY <1>2
<1>6. digits \in 0 .. Len(w) /\ P(digits)
  <2> HIDE DEF P, l
  <2> QED BY <1>3, <1>5
<1>7. atoi_simple(w) = NumberOf(SubSeq(w, 1, digits), 10) BY DEF atoi_simple
<1> HIDE DEF digits
<1>8. digits = l
  <2> HIDE DEF P, l
  <2> QED BY <1>4, <1>6
<1> HIDE DEF P
<1>9. w \in Seq(Decimal) BY <1>1, <1>2
<1>10. u = w
  <2>1. \A i \in 1 .. l : w[i] \in T BY <1>1
  <2>2. u \in Seq(T) /\ Len(u) = l /\ \A i \in 1 .. l : u[i] = w[i] BY <1>1, <1>2
  <2> HIDE DEF u
  <2> QED BY <1>1, <2>2, SeqEqual
<1> QED BY <1>7, <1>8, <1>9, <1>10, WidthIs

\* What one word does to the options.
LEMMA OptionStepIs ==
    ASSUME NEW ws, NEW s \in Options(ws), NEW i
    PROVE  LET t == OptionStep(ws, s, i)
               option == ws[i] = <<"-", "n">> /\ i < Len(ws)
           IN  /\ s.skip => t.limit = atoi_simple(ws[i]) /\ t.path = s.path /\ ~t.skip
               /\ ~s.skip /\ option => t.limit = s.limit /\ t.path = s.path /\ t.skip
               /\ ~s.skip /\ ~option => t.limit = s.limit /\ t.path = i /\ ~t.skip
<1> DEFINE t == OptionStep(ws, s, i)
           option == ws[i] = <<"-", "n">> /\ i < Len(ws)
           a == atoi_simple(ws[i])
           L == {10} \cup {atoi_simple(ws[k]) : k \in 1 .. Len(ws)}
           Q == 0 .. Len(ws)
<1>1. s \in [limit : L, path : Q, skip : BOOLEAN] BY DEF Options
<1> HIDE DEF L, Q
<1>2. s.skip => t = [s EXCEPT !.limit = a, !.skip = FALSE] BY DEF OptionStep
<1>3. ~s.skip /\ option => t = [s EXCEPT !.skip = TRUE] BY DEF OptionStep
<1>4. ~s.skip /\ ~option => t = [s EXCEPT !.path = i] BY DEF OptionStep
<1> HIDE DEF t, option, a
<1>5. s.skip => t.limit = a /\ t.path = s.path /\ ~t.skip BY <1>1, <1>2
<1>6. ~s.skip /\ option => t.limit = s.limit /\ t.path = s.path /\ t.skip BY <1>1, <1>3
<1>7. ~s.skip /\ ~option => t.limit = s.limit /\ t.path = i /\ ~t.skip BY <1>1, <1>4
<1> QED BY <1>5, <1>6, <1>7 DEF t, option, a

\* The options found among the first k words: the path at i, the option at j (0: none).
OptionsTo(s, k, i, j, lim) ==
    /\ s.skip <=> (k = j /\ j # 0)
    /\ s.path = IF i <= k THEN i ELSE 0
    /\ s.limit = IF j # 0 /\ j < k THEN lim ELSE 10

LEMMA OptionsFound ==
    ASSUME NEW ws, Len(ws) \in Nat \ {0}, ws[1] # <<"-", "n">>,
           NEW i, PathAt(ws) = {i}, NEW j \in Nat, j < Len(ws),
           \A k \in 2 .. Len(ws) : ws[k] = <<"-", "n">> <=> k = j,
           j # 0 => j \in 2 .. Len(ws),
           NEW lim, j # 0 => lim = atoi_simple(ws[j + 1])
    PROVE  OptionsTo(HeadOptions(ws), Len(ws), i, j, lim) /\ i \in 2 .. Len(ws)
<1> DEFINE n == Len(ws)
           N == <<"-", "n">>
<1>1. n \in Nat \ {0} OBVIOUS
<1>2. PICK h : OptionsRun(h, ws) /\ HeadOptions(ws) = h[n] BY OptionsAre
<1>3. i \in 2 .. n /\ ws[i] # N /\ ws[i - 1] # N BY DEF PathAt
<1>4. ASSUME NEW k \in 2 .. n, ws[k] # N, ws[k - 1] # N PROVE k = i
  <2>1. k \in PathAt(ws) BY <1>4 DEF PathAt
  <2> QED BY <2>1
<1> DEFINE P == {k \in 1 .. n : OptionsTo(h[k], k, i, j, lim)}
<1>5. 1 \in P
  <2> DEFINE b == h[1]
  <2>1. b = [limit |-> 10, path |-> 0, skip |-> FALSE] BY <1>2 DEF OptionsRun
  <2>2. b.limit = 10 /\ b.path = 0 /\ ~b.skip BY <2>1
  <2> HIDE DEF b
  <2>3. ~(1 = j /\ j # 0) /\ ~(i <= 1) /\ ~(j # 0 /\ j < 1) BY <1>1, <1>3
  <2>4. OptionsTo(b, 1, i, j, lim) BY <2>2, <2>3 DEF OptionsTo
  <2>5. 1 \in 1 .. n BY <1>1
  <2> QED BY <2>4, <2>5 DEF b
<1>6. ASSUME NEW m \in 1 .. n - 1, m \in P PROVE m + 1 \in P
  <2> DEFINE k == m + 1
             s == h[m]
             t == h[k]
             option == ws[k] = N /\ k < n
  <2>1. k \in 2 .. n /\ k \in 1 .. n /\ k - 1 = m /\ m \in 1 .. n /\ m \in Nat /\ k \in Nat BY <1>1
  <2>2. OptionsTo(s, m, i, j, lim) BY <1>6
  <2>3. t = OptionStep(ws, s, k) /\ s \in Options(ws)
    <3>1. h[k] = OptionStep(ws, h[k - 1], k) BY <1>2, <2>1 DEF OptionsRun
    <3>2. h[m] \in Options(ws) BY <1>2, <2>1 DEF OptionsRun
    <3> QED BY <2>1, <3>1, <3>2
  <2> HIDE DEF t, s, n
  <2>4. /\ s.skip => t.limit = atoi_simple(ws[k]) /\ t.path = s.path /\ ~t.skip
        /\ ~s.skip /\ option => t.limit = s.limit /\ t.path = s.path /\ t.skip
        /\ ~s.skip /\ ~option => t.limit = s.limit /\ t.path = k /\ ~t.skip
    BY <2>3, OptionStepIs DEF n
  <2>5. (ws[k] = N <=> k = j) /\ j < n /\ (j # 0 => j \in 2 .. n) BY <2>1 DEF n
  <2>6. k = m + 1 /\ (k - 1) = m OBVIOUS
  <2> HIDE DEF k, N
  <2>7. /\ s.skip <=> (m = j /\ j # 0)
        /\ s.path = IF i <= m THEN i ELSE 0
        /\ s.limit = IF j # 0 /\ j < m THEN lim ELSE 10
    BY <2>2 DEF OptionsTo
  <2>8. ASSUME s.skip PROVE OptionsTo(t, k, i, j, lim)
    <3>1. m = j /\ j # 0 /\ k = j + 1 /\ ws[m] = N
      <4>1. m = j /\ j # 0 /\ j \in 2 .. n BY <2>5, <2>7, <2>8
      <4> QED BY <2>6, <4>1 DEF n, N
    <3>2. t.limit = lim BY <2>4, <2>8, <3>1
    <3>3. k # i /\ m # i BY <1>3, <2>1, <3>1 DEF N
    <3>4. t.path = IF i <= k THEN i ELSE 0
      <4>1. t.path = s.path BY <2>4, <2>8
      <4>2. i <= m <=> i <= k BY <1>3, <2>1, <2>6, <3>3
      <4> QED BY <2>7, <4>1, <4>2
    <3>5. ~t.skip /\ k # j /\ j < k BY <2>1, <2>4, <2>6, <2>8, <3>1
    <3> QED BY <3>1, <3>2, <3>4, <3>5 DEF OptionsTo
  <2>9. ASSUME ~s.skip, option PROVE OptionsTo(t, k, i, j, lim)
    <3>1. ws[k] = N /\ k = j /\ j # 0 BY <2>1, <2>5, <2>9
    <3>2. k # i BY <1>3, <3>1 DEF N
    <3>3. t.path = IF i <= k THEN i ELSE 0
      <4>1. t.path = s.path BY <2>4, <2>9
      <4>2. i <= m <=> i <= k BY <1>3, <2>1, <2>6, <3>2
      <4> QED BY <2>7, <4>1, <4>2
    <3>4. ~(j < k) /\ ~(j < m) BY <2>1, <2>6, <3>1
    <3>5. t.limit = s.limit /\ t.skip BY <2>4, <2>9
    <3>6. s.limit = 10 BY <2>7, <3>4
    <3> QED BY <3>1, <3>3, <3>4, <3>5, <3>6 DEF OptionsTo
  <2>10. ASSUME ~s.skip, ~option PROVE OptionsTo(t, k, i, j, lim)
    <3>1. ws[k] # N
      <4> SUFFICES ASSUME ws[k] = N PROVE FALSE OBVIOUS
      <4>1. k = j /\ ~(k < n) BY <2>5, <2>10
      <4> QED BY <2>5, <4>1
    <3>2. ws[k - 1] # N
      <4>1. CASE m = 1 BY <2>6, <4>1 DEF N
      <4>2. CASE m # 1
        <5>1. m \in 2 .. n BY <1>1, <2>1, <4>2
        <5>2. m # j
          <6> SUFFICES ASSUME m = j PROVE FALSE OBVIOUS
          <6>1. j # 0 BY <5>1
          <6> QED BY <2>7, <2>10, <6>1
        <5>3. ws[m] = N <=> m = j BY <5>1 DEF n, N
        <5> QED BY <2>6, <5>2, <5>3
      <4> QED BY <4>1, <4>2
    <3>3. k = i BY <1>4, <2>1, <3>1, <3>2
    <3>4. k # j BY <2>5, <3>1
    <3>5. t.path = i /\ i <= k /\ ~t.skip /\ t.limit = s.limit BY <2>1, <2>4, <2>10, <3>3
    <3>6. j # 0 /\ j < k <=> j # 0 /\ j < m
      <4>1. j # m \/ j = 0 BY <2>7, <2>10
      <4> QED BY <2>1, <2>6, <3>4, <4>1
    <3> QED BY <2>7, <3>4, <3>5, <3>6 DEF OptionsTo
  <2>11. OptionsTo(t, k, i, j, lim) BY <2>8, <2>9, <2>10
  <2> QED BY <2>1, <2>11 DEF t, k
<1> HIDE DEF P
<1>7. \A k \in 1 .. n : k \in P BY <1>1, <1>5, <1>6, RangeInduction
<1>8. n \in P BY <1>1, <1>7
<1>9. OptionsTo(h[n], n, i, j, lim) BY <1>8 DEF P
<1> QED BY <1>2, <1>3, <1>9

\* head finds the file and the number of lines it is asked for.
LEMMA HeadAsked ==
    ASSUME NEW ws, AreWords(ws), IsHead(ws)
    PROVE  /\ HeadOptions(ws).path \in 2 .. Len(ws) /\ ws[HeadOptions(ws).path] \in FileNames
           /\ HeadOptions(ws).limit = Asked(ws) /\ Asked(ws) \in Nat
<1> DEFINE n == Len(ws)
           N == <<"-", "n">>
           o == HeadOptions(ws)
<1>1. Len(ws) \in Nat \ {0} BY DEF AreWords
<1>2. ws[1] # N
  <2> DEFINE w == ws[1]
             a == <<"h", "e", "a", "d">>
  <2>1. w = a BY DEF IsHead
  <2>2. Len(a) = 4 /\ Len(N) = 2 OBVIOUS
  <2> HIDE DEF w, a, N
  <2>3. w # N BY <2>1, <2>2
  <2> QED BY <2>3 DEF w
<1>3. PICK i : PathAt(ws) = {i} /\ ws[i] \in FileNames BY DEF IsHead
<1>4. ASSUME OptionAt(ws) = {}
      PROVE  o.path \in 2 .. n /\ ws[o.path] \in FileNames /\ o.limit = Asked(ws) /\ Asked(ws) \in Nat
  <2> DEFINE j == 0
             lim == 0
  <2>1. \A k \in 2 .. Len(ws) : ws[k] # N BY <1>4 DEF OptionAt
  <2>2. \A k \in 2 .. Len(ws) : ws[k] = N <=> k = j BY <1>1, <2>1
  <2>3. j \in Nat /\ j = 0 /\ j < Len(ws) BY <1>1
  <2> HIDE DEF j, lim
  <2>4. OptionsTo(o, Len(ws), i, j, lim) /\ i \in 2 .. Len(ws) BY <1>1, <1>2, <1>3, <2>2, <2>3, OptionsFound
  <2>5. o.path = IF i <= Len(ws) THEN i ELSE 0 BY <2>4 DEF OptionsTo
  <2>6. o.limit = 10 BY <2>3, <2>4 DEF OptionsTo
  <2>7. Asked(ws) = 10 BY <1>4 DEF Asked
  <2>8. o.path = i BY <1>1, <2>4, <2>5
  <2> QED BY <1>3, <2>4, <2>6, <2>7, <2>8
<1>5. ASSUME NEW j \in OptionAt(ws), OptionAt(ws) = {j}, j < n, IsNumber(ws[j + 1])
      PROVE  o.path \in 2 .. n /\ ws[o.path] \in FileNames /\ o.limit = Asked(ws) /\ Asked(ws) \in Nat
  <2> DEFINE w == ws[j + 1]
             lim == atoi_simple(w)
             P == OptionAt(ws)
  <2>1. j \in 2 .. Len(ws) BY DEF OptionAt
  <2>2. \A k \in 2 .. Len(ws) : ws[k] = N <=> k = j
    <3>1. \A k \in 2 .. Len(ws) : k \in OptionAt(ws) <=> ws[k] = N BY DEF OptionAt
    <3> QED BY <1>5, <3>1
  <2>3. j \in Nat /\ j # 0 /\ j < Len(ws) /\ j + 1 \in 1 .. Len(ws) BY <1>1, <1>5, <2>1
  <2>4. IsText(w) BY <2>3 DEF AreWords
  <2>5. lim = NumberOf(w, 10) /\ NumberOf(w, 10) \in Nat BY <1>5, <2>4, AtoiNumber
  <2>6. Asked(ws) = NumberOf(w, 10)
    <3>1. P # {} /\ P = {j} BY <1>5
    <3>2. Asked(ws) = NumberOf(ws[1 + CHOOSE k \in P : TRUE], 10) BY <3>1 DEF Asked
    <3> HIDE DEF P
    <3>3. (CHOOSE k \in P : TRUE) = j BY <3>1
    <3>4. 1 + j = j + 1 BY <2>3
    <3> QED BY <3>2, <3>3, <3>4
  <2>7. lim = atoi_simple(ws[j + 1]) OBVIOUS
  <2> HIDE DEF lim, w, P
  <2>8. OptionsTo(o, Len(ws), i, j, lim) /\ i \in 2 .. Len(ws)
    BY <1>1, <1>2, <1>3, <2>1, <2>2, <2>3, <2>7, OptionsFound
  <2>9. o.path = IF i <= Len(ws) THEN i ELSE 0 BY <2>8 DEF OptionsTo
  <2>10. o.limit = lim BY <2>3, <2>8 DEF OptionsTo
  <2>11. o.path = i BY <1>1, <2>8, <2>9
  <2> QED BY <1>3, <2>5, <2>6, <2>8, <2>10, <2>11
<1> QED BY <1>4, <1>5 DEF IsHead

\* head prints the lines it is asked for.
LEMMA HeadTells ==
    ASSUME NEW ws, AreWords(ws), NEW C, NEW f \in Seq(C)
    PROVE  HeadExact(ws, f, cmd_head(ws, f))
<1> SUFFICES ASSUME IsHead(ws) PROVE cmd_head(ws, f) = UpToLine(Asked(ws), f) BY DEF HeadExact
<1> DEFINE o == HeadOptions(ws)
<1>1. o.path \in 2 .. Len(ws) /\ ws[o.path] \in FileNames /\ o.limit = Asked(ws) /\ Asked(ws) \in Nat BY HeadAsked
<1>2. cmd_head(ws, f) = IF o.path = 0 THEN Complaint ELSE want_file(ws[o.path], FirstLines(o.limit, f)) BY DEF cmd_head
<1> HIDE DEF o
<1>3. Len(ws) \in Nat BY DEF AreWords
<1>4. o.path # 0 BY <1>1, <1>3
<1>5. cmd_head(ws, f) = FirstLines(Asked(ws), f) BY <1>1, <1>2, <1>4 DEF want_file
<1>6. FirstLines(Asked(ws), f) = UpToLine(Asked(ws), f) BY <1>1, HeadIsExact
<1> QED BY <1>5, <1>6

\* Where the line that ends at e begins: behind the last newline in front of it.
Breaks(f, e) == {0} \cup {i \in Newlines(f) : i < e}
Start(f, e) == Max(Breaks(f, e))

LEMMA MaxOf ==
    ASSUME NEW s, NEW m \in s, \A y \in s : y \in Int /\ y <= m
    PROVE  Max(s) = m
<1>1. m \in Int /\ \A y \in s : m >= y OBVIOUS
<1>2. \A x \in s : (\A y \in s : x >= y) => x = m OBVIOUS
<1> QED BY <1>1, <1>2 DEF Max

LEMMA StartIs ==
    ASSUME NEW T, NEW f \in Seq(T), NEW e \in 1 .. Len(f) + 1
    PROVE  /\ Start(f, e) \in 0 .. e - 1 /\ Start(f, e) \in Breaks(f, e)
           /\ \A y \in Breaks(f, e) : y <= Start(f, e)
<1> DEFINE s == Breaks(f, e)
           D == {e - y : y \in s}
<1>1. s \in SUBSET (0 .. e - 1) /\ 0 \in s
  <2>1. Newlines(f) \subseteq 1 .. Len(f) BY DEF Newlines
  <2> QED BY <2>1 DEF Breaks
<1> HIDE DEF s
<1>2. D \in SUBSET Nat /\ D # {}
  <2>1. \A y \in s : y \in 0 .. e - 1 BY <1>1
  <2>2. \A y \in s : e - y \in Nat BY <2>1
  <2> QED BY <1>1, <2>2
<1>3. PICK d \in D : \A x \in D : d <= x
  <2> HIDE DEF D
  <2> QED BY <1>2, LeastExists
<1>4. PICK m \in s : d = e - m OBVIOUS
<1>5. \A y \in s : y \in Int /\ y <= m
  <2> SUFFICES ASSUME NEW y \in s PROVE y \in Int /\ y <= m OBVIOUS
  <2>1. e - m <= e - y BY <1>3, <1>4
  <2>2. y \in 0 .. e - 1 /\ m \in 0 .. e - 1 BY <1>1
  <2> QED BY <2>1, <2>2
<1>6. Max(s) = m BY <1>5, MaxOf
<1> QED BY <1>1, <1>5, <1>6 DEF Start, s

LEMMA StartSteps ==
    ASSUME NEW T, NEW f \in Seq(T)
    PROVE  /\ Start(f, 1) = 0
           /\ \A e \in 1 .. Len(f) : Start(f, e + 1) = IF f[e] = NL THEN e ELSE Start(f, e)
<1>1. Newlines(f) \subseteq 1 .. Len(f) BY DEF Newlines
<1>2. Start(f, 1) = 0
  <2>1. 1 \in 1 .. Len(f) + 1 OBVIOUS
  <2>2. Start(f, 1) \in 0 .. 1 - 1 BY <2>1, StartIs
  <2> QED BY <2>2
<1>3. ASSUME NEW e \in 1 .. Len(f) PROVE Start(f, e + 1) = IF f[e] = NL THEN e ELSE Start(f, e)
  <2>1. CASE f[e] = NL
    <3>1. e \in Breaks(f, e + 1) BY <2>1 DEF Breaks, Newlines
    <3>2. \A y \in Breaks(f, e + 1) : y \in Int /\ y <= e BY <1>1 DEF Breaks
    <3>3. Max(Breaks(f, e + 1)) = e BY <3>1, <3>2, MaxOf
    <3> QED BY <2>1, <3>3 DEF Start
  <2>2. CASE f[e] # NL
    <3>1. Breaks(f, e + 1) = Breaks(f, e)
      <4>1. e \notin Newlines(f) BY <2>2 DEF Newlines
      <4>2. \A i \in Newlines(f) : i < e + 1 <=> i < e BY <1>1, <4>1
      <4> QED BY <4>2 DEF Breaks
    <3> QED BY <2>2, <3>1 DEF Start
  <2> QED BY <2>1, <2>2
<1> QED BY <1>2, <1>3

LEMMA LineIs ==
    ASSUME NEW T, NEW f \in Seq(T), NEW e \in 1 .. Len(f) + 1
    PROVE  /\ LineTo(f, e) = SubSeq(f, 1 + Start(f, e), e - 1)
           /\ LineTo(f, e) \in Seq(T) /\ Len(LineTo(f, e)) = e - 1 - Start(f, e)
           /\ \A k \in 1 .. e - 1 - Start(f, e) : LineTo(f, e)[k] = f[Start(f, e) + k]
<1> DEFINE a == Start(f, e)
           u == SubSeq(f, 1 + a, e - 1)
<1>1. a \in 0 .. e - 1 BY StartIs
<1>2. LineTo(f, e) = u BY DEF LineTo, Start, Breaks
<1> HIDE DEF a
<1>3. Len(f) \in Nat /\ a \in Nat /\ e \in Nat /\ 1 + a \in Int /\ e - 1 \in Int BY <1>1
<1>4. \A i \in 1 + a .. e - 1 : f[i] \in T
  <2>1. \A i \in 1 + a .. e - 1 : i \in 1 .. Len(f) BY <1>3
  <2> QED BY <2>1, ElementOfSeq
<1>5. u \in Seq(T) /\ Len(u) = IF 1 + a <= e - 1 THEN (e - 1) - (1 + a) + 1 ELSE 0
  BY <1>3, <1>4, SubSeqProperties
<1>6. \A i \in 1 .. (e - 1) - (1 + a) + 1 : u[i] = f[(1 + a) + i - 1]
  BY <1>3, <1>4, SubSeqProperties
<1> HIDE DEF u
<1>7. Len(u) = e - 1 - a BY <1>1, <1>3, <1>5
<1>8. \A k \in 1 .. e - 1 - a : u[k] = f[a + k]
  <2> SUFFICES ASSUME NEW k \in 1 .. e - 1 - a PROVE u[k] = f[a + k] OBVIOUS
  <2>1. k \in 1 .. (e - 1) - (1 + a) + 1 /\ (1 + a) + k - 1 = a + k BY <1>3
  <2> QED BY <1>6, <2>1
<1> QED BY <1>2, <1>5, <1>7, <1>8 DEF a, u

LEMMA LineGrows ==
    ASSUME NEW T, NEW f \in Seq(T), NEW e \in 1 .. Len(f)
    PROVE  LineTo(f, e + 1) = IF f[e] = NL THEN <<>> ELSE Append(LineTo(f, e), f[e])
<1> DEFINE a == Start(f, e)
           b == Start(f, e + 1)
           u == LineTo(f, e)
           v == LineTo(f, e + 1)
<1>0. e \in 1 .. Len(f) + 1 /\ e + 1 \in 1 .. Len(f) + 1 /\ e \in Nat /\ e + 1 - 1 = e OBVIOUS
<1>1. u \in Seq(T) /\ Len(u) = e - 1 - a /\ \A k \in 1 .. e - 1 - a : u[k] = f[a + k] BY <1>0, LineIs
<1>2. v \in Seq(T) /\ Len(v) = e - b /\ \A k \in 1 .. e - b : v[k] = f[b + k]
  <2> DEFINE d == e + 1
  <2>1. d \in 1 .. Len(f) + 1 /\ d - 1 = e BY <1>0
  <2> HIDE DEF d
  <2>2. /\ LineTo(f, d) \in Seq(T) /\ Len(LineTo(f, d)) = d - 1 - Start(f, d)
        /\ \A k \in 1 .. d - 1 - Start(f, d) : LineTo(f, d)[k] = f[Start(f, d) + k]
    BY <2>1, LineIs
  <2> QED BY <2>1, <2>2 DEF d
<1>3. b = IF f[e] = NL THEN e ELSE a BY StartSteps
<1>4. a \in 0 .. e - 1 BY <1>0, StartIs
<1>5. f[e] \in T BY ElementOfSeq
<1> HIDE DEF a, b, u, v
<1>6. CASE f[e] = NL
  <2>1. Len(v) = 0 BY <1>0, <1>2, <1>3, <1>6
  <2>2. v = <<>> BY <1>2, <2>1
  <2> QED BY <1>6, <2>2 DEF v
<1>7. CASE f[e] # NL
  <2> DEFINE x == f[e]
  <2>1. b = a /\ x \in T BY <1>3, <1>5, <1>7
  <2> DEFINE w == Append(u, x)
             l == Len(u)
  <2>2. w \in Seq(T) /\ Len(w) = l + 1 /\ w[l + 1] = x /\ \A k \in 1 .. l : w[k] = u[k]
    <3> HIDE DEF x
    <3> QED BY <1>1, <2>1, AppendProperties
  <2>3. l = e - 1 - a /\ l + 1 = e - a /\ l \in Nat /\ a + (l + 1) = e BY <1>0, <1>1, <1>4
  <2> HIDE DEF w, l
  <2>4. Len(v) = Len(w) BY <1>2, <2>1, <2>2, <2>3
  <2>5. \A k \in 1 .. Len(v) : v[k] = w[k]
    <3> SUFFICES ASSUME NEW k \in 1 .. Len(v) PROVE v[k] = w[k] OBVIOUS
    <3>1. k \in 1 .. l + 1 /\ v[k] = f[a + k] BY <1>2, <2>1, <2>2, <2>3, <2>4
    <3>2. CASE k = l + 1 BY <2>2, <2>3, <3>1, <3>2
    <3>3. CASE k # l + 1
      <4>1. k \in 1 .. l BY <2>3, <3>1, <3>3
      <4>2. u[k] = f[a + k] BY <1>1, <2>3, <4>1
      <4> QED BY <2>2, <3>1, <4>1, <4>2
    <3> QED BY <3>2, <3>3
  <2>6. v = w BY <1>2, <2>2, <2>4, <2>5, SeqEqual
  <2> QED BY <1>7, <2>6 DEF v, w, u
<1> QED BY <1>6, <1>7

\* What the buffer holds of a line grows by a character as long as there is room.
LEMMA CutGrows ==
    ASSUME NEW T, NEW u \in Seq(T), NEW x \in T, NEW m \in Nat
    PROVE  SubSeq(Append(u, x), 1, Min({m, Len(Append(u, x))}))
           = IF Len(SubSeq(u, 1, Min({m, Len(u)}))) < m
             THEN Append(SubSeq(u, 1, Min({m, Len(u)})), x) ELSE SubSeq(u, 1, Min({m, Len(u)}))
<1> DEFINE v == Append(u, x)
           l == Len(u)
           i == Min({m, l})
           j == Min({m, Len(v)})
           a == SubSeq(u, 1, i)
           b == SubSeq(v, 1, j)
           z == Append(a, x)
<1>1. l \in Nat /\ v \in Seq(T) /\ Len(v) = l + 1 /\ v[l + 1] = x /\ \A k \in 1 .. l : v[k] = u[k]
  BY AppendProperties
<1> HIDE DEF v
<1>2. i = (IF m <= l THEN m ELSE l) /\ j = (IF m <= l + 1 THEN m ELSE l + 1)
  <2>1. m \in Int /\ l \in Int /\ Len(v) \in Int BY <1>1
  <2> HIDE DEF l
  <2>2. i = IF m <= l THEN m ELSE l BY <2>1, MinIs
  <2>3. j = IF m <= Len(v) THEN m ELSE Len(v) BY <2>1, MinIs
  <2> QED BY <1>1, <2>2, <2>3
<1> HIDE DEF i, j
<1>3. i \in 0 .. l /\ j \in 0 .. l + 1 BY <1>1, <1>2
<1>4. a \in Seq(T) /\ Len(a) = i /\ \A k \in 1 .. i : a[k] = u[k]
  <2> HIDE DEF l
  <2>1. \A k \in 1 .. i : u[k] \in T BY <1>1, <1>3 DEF l
  <2> QED BY <1>3, <2>1 DEF l
<1>5. b \in Seq(T) /\ Len(b) = j /\ \A k \in 1 .. j : b[k] = v[k]
  <2>1. j \in 0 .. Len(v) BY <1>1, <1>3
  <2> QED BY <1>1, <2>1
<1> HIDE DEF a, b
<1>6. z \in Seq(T) /\ Len(z) = i + 1 /\ z[i + 1] = x /\ \A k \in 1 .. i : z[k] = a[k]
  BY <1>4, AppendProperties
<1> HIDE DEF z
<1>7. ASSUME i < m PROVE b = z
  <2>1. i = l /\ j = l + 1 BY <1>1, <1>2, <1>7
  <2>2. \A k \in 1 .. Len(b) : b[k] = z[k]
    <3> SUFFICES ASSUME NEW k \in 1 .. l + 1 PROVE b[k] = z[k] BY <1>5, <2>1
    <3>1. CASE k = l + 1 BY <1>1, <1>5, <1>6, <2>1, <3>1
    <3>2. CASE k # l + 1
      <4>1. k \in 1 .. l BY <1>1, <3>2
      <4> QED BY <1>1, <1>4, <1>5, <1>6, <2>1, <4>1
    <3> QED BY <3>1, <3>2
  <2> QED BY <1>5, <1>6, <2>1, <2>2, SeqEqual
<1>8. ASSUME ~(i < m) PROVE b = a
  <2>1. i = m /\ j = m /\ m <= l BY <1>1, <1>2, <1>8
  <2>2. \A k \in 1 .. Len(b) : b[k] = a[k]
    <3> SUFFICES ASSUME NEW k \in 1 .. m PROVE b[k] = a[k] BY <1>5, <2>1
    <3>1. k \in 1 .. l BY <1>1, <2>1
    <3> QED BY <1>1, <1>4, <1>5, <2>1, <3>1
  <2> QED BY <1>4, <1>5, <2>1, <2>2, SeqEqual
<1> QED BY <1>4, <1>7, <1>8 DEF a, b, z, v, i, j, l

LEMMA HeldIs ==
    ASSUME NEW T, NEW f \in Seq(T), NEW e \in 1 .. Len(f) + 1
    PROVE  Held(f, e) \in Seq(T)
<1> DEFINE u == LineTo(f, e)
           m == SHELL_LINE_MAX - 1
           i == Min({m, Len(u)})
<1>1. u \in Seq(T) BY LineIs
<1>2. m \in Nat BY ToolAssumption
<1>3. Held(f, e) = SubSeq(u, 1, i) BY DEF Held
<1> HIDE DEF u, m
<1>4. i = IF m <= Len(u) THEN m ELSE Len(u)
  <2>1. m \in Int /\ Len(u) \in Int BY <1>1, <1>2
  <2> QED BY <2>1, MinIs
<1> HIDE DEF i
<1>5. i \in 0 .. Len(u) BY <1>1, <1>2, <1>4
<1> QED BY <1>1, <1>3, <1>5

LEMMA HeldEmpty ==
    ASSUME NEW T, NEW f \in Seq(T), NEW e \in 1 .. Len(f) + 1, LineTo(f, e) = <<>>
    PROVE  Held(f, e) = <<>>
<1> DEFINE z == <<>>
           m == SHELL_LINE_MAX - 1
<1>1. m \in Nat /\ Len(z) = 0 BY ToolAssumption
<1>2. Min({m, Len(z)}) = 0
  <2>1. m \in Int /\ Len(z) \in Int BY <1>1
  <2> HIDE DEF m, z
  <2> QED BY <1>1, <2>1, MinIs
<1>3. Held(f, e) = SubSeq(z, 1, Min({m, Len(z)})) BY DEF Held
<1>4. SubSeq(z, 1, 0) = <<>> OBVIOUS
<1> HIDE DEF z, m
<1> QED BY <1>2, <1>3, <1>4

\* How a character changes what is held.
HeldOn(f, e) ==
    Held(f, e + 1) = IF f[e] = NL THEN <<>>
                     ELSE IF Len(Held(f, e)) + 1 < SHELL_LINE_MAX
                          THEN Append(Held(f, e), f[e]) ELSE Held(f, e)

LEMMA HeldGrows ==
    ASSUME NEW T, NEW f \in Seq(T), NEW e \in 1 .. Len(f)
    PROVE  HeldOn(f, e)
<1> DEFINE u == LineTo(f, e)
           x == f[e]
           m == SHELL_LINE_MAX - 1
<1>1. e \in 1 .. Len(f) + 1 /\ e + 1 \in 1 .. Len(f) + 1 OBVIOUS
<1>2. u \in Seq(T) BY <1>1, LineIs
<1>3. x \in T OBVIOUS
<1>4. LineTo(f, e + 1) = IF f[e] = NL THEN <<>> ELSE Append(u, x) BY LineGrows
<1>5. m \in Nat /\ SHELL_LINE_MAX \in Nat BY ToolAssumption
<1>6. CASE x = NL
  <2>1. LineTo(f, e + 1) = <<>> BY <1>4, <1>6
  <2>2. Held(f, e + 1) = <<>> BY <1>1, <2>1, HeldEmpty
  <2> QED BY <1>6, <2>2 DEF HeldOn
<1>7. CASE x # NL
  <2> DEFINE h == SubSeq(u, 1, Min({m, Len(u)}))
  <2>1. Held(f, e) = h BY DEF Held
  <2>2. LineTo(f, e + 1) = Append(u, x) BY <1>4, <1>7
  <2>3. Held(f, e + 1) = SubSeq(Append(u, x), 1, Min({m, Len(Append(u, x))})) BY <2>2 DEF Held
  <2>4. h \in Seq(T) BY <1>1, <2>1, HeldIs
  <2> HIDE DEF u, m, x
  <2>5. Held(f, e + 1) = IF Len(h) < m THEN Append(h, x) ELSE h BY <1>2, <1>3, <1>5, <2>3, CutGrows
  <2> HIDE DEF h
  <2>6. Len(h) < m <=> Len(h) + 1 < SHELL_LINE_MAX BY <1>5, <2>4 DEF m
  <2> QED BY <1>7, <2>1, <2>5, <2>6 DEF HeldOn, x
<1> QED BY <1>6, <1>7

\* What grep is to print for the line that ends at e, if one does.
Hit(pattern, f, e) ==
    IF e \in LineEnds(f) /\ Held(f, e) # <<>> /\ pattern \in SubSeqs(Held(f, e))
    THEN Append(Held(f, e), NL) ELSE <<>>

Rejoins(a, b, x) == a \o b \o <<x>> = a \o Append(b, x)

LEMMA AppendJoins ==
    ASSUME NEW T, NEW a \in Seq(T), NEW b \in Seq(T), NEW x \in T
    PROVE  Rejoins(a, b, x)
<1> DEFINE z == <<x>>
           u == a \o b
           v == u \o z
           d == Append(b, x)
           w == a \o d
           l == Len(a)
           m == Len(b)
<1>1. l \in Nat /\ m \in Nat /\ z \in Seq(T) /\ Len(z) = 1 /\ z[1] = x OBVIOUS
<1>2. d \in Seq(T) /\ Len(d) = m + 1 /\ d[m + 1] = x /\ \A k \in 1 .. m : d[k] = b[k] BY AppendProperties
<1>3. u \in Seq(T) /\ Len(u) = l + m /\ (\A k \in 1 .. l : u[k] = a[k]) /\ \A k \in 1 .. m : u[l + k] = b[k] OBVIOUS
<1> HIDE DEF z, u, d
<1>4. v \in Seq(T) /\ Len(v) = Len(u) + Len(z) /\ (\A k \in 1 .. Len(u) : v[k] = u[k])
      /\ \A k \in 1 .. Len(z) : v[Len(u) + k] = z[k]
  <2>1. u \in Seq(T) /\ z \in Seq(T) BY <1>1, <1>3
  <2> QED BY <2>1
<1>5. w \in Seq(T) /\ Len(w) = l + Len(d) /\ (\A k \in 1 .. l : w[k] = a[k]) /\ \A k \in 1 .. Len(d) : w[l + k] = d[k]
  <2>1. d \in Seq(T) BY <1>2
  <2> QED BY <2>1
<1> HIDE DEF v, w, l, m
<1>6. Len(v) = Len(w) /\ Len(v) = l + m + 1 BY <1>1, <1>2, <1>3, <1>4, <1>5
<1>7. \A k \in 1 .. Len(v) : v[k] = w[k]
  <2> SUFFICES ASSUME NEW k \in 1 .. Len(v) PROVE v[k] = w[k] OBVIOUS
  <2>1. k \in Nat /\ k <= l + m + 1 /\ k >= 1 BY <1>1, <1>6
  <2>2. CASE k <= l
    <3>1. k \in 1 .. l /\ k \in 1 .. Len(u) BY <1>1, <1>3, <2>1, <2>2
    <3> QED BY <1>3, <1>4, <1>5, <3>1
  <2>3. CASE k > l /\ k <= l + m
    <3> DEFINE i == k - l
    <3>1. i \in 1 .. m /\ k = l + i /\ k \in 1 .. Len(u) /\ i \in 1 .. Len(d) BY <1>1, <1>2, <1>3, <2>1, <2>3
    <3> HIDE DEF i
    <3> QED BY <1>2, <1>3, <1>4, <1>5, <3>1
  <2>4. CASE k = l + m + 1
    <3>1. k = Len(u) + 1 /\ 1 \in 1 .. Len(z) BY <1>1, <1>3, <2>4
    <3>2. v[k] = x BY <1>1, <1>4, <3>1
    <3>3. m + 1 \in 1 .. Len(d) /\ k = l + (m + 1) BY <1>1, <1>2, <2>4
    <3>4. w[k] = x BY <1>2, <1>5, <3>3
    <3> QED BY <3>2, <3>4
  <2> QED BY <1>1, <2>1, <2>2, <2>3, <2>4
<1>8. v = w BY <1>4, <1>5, <1>6, <1>7, SeqEqual
<1> QED BY <1>8 DEF Rejoins, v, w, u, z, d

\* What one character does to the search.
SearchedOn(pattern, v, c, t) ==
    /\ c # NL => /\ t.line = IF Len(v.line) + 1 < SHELL_LINE_MAX THEN Append(v.line, c) ELSE v.line
                 /\ t.out = v.out
    /\ c = NL => /\ t.line = <<>>
                 /\ t.out = IF v.line # <<>> /\ pattern \in SubSeqs(v.line)
                            THEN v.out \o v.line \o <<NL>> ELSE v.out

LEMMA SearchStepIs ==
    ASSUME NEW T, NEW pattern, NEW v \in Search(T), NEW c
    PROVE  SearchedOn(pattern, v, c, SearchStep(pattern, v, c))
<1> DEFINE t == SearchStep(pattern, v, c)
           l == v.line
           o == v.out
           fits == Len(l) + 1 < SHELL_LINE_MAX
           found == l # <<>> /\ pattern \in SubSeqs(l)
           m == IF fits THEN Append(l, c) ELSE l
           p1 == IF found THEN o \o l \o <<NL>> ELSE o
<1>1. c # NL => t = [v EXCEPT !.line = m] BY DEF SearchStep
<1>2. c = NL => t = [line |-> <<>>, out |-> p1] BY DEF SearchStep, strstr
<1>3. v \in [line : Seq(T), out : Seq(T)] BY DEF Search
<1>4. ASSUME c # NL PROVE t.line = m /\ t.out = o
  <2>1. t = [v EXCEPT !.line = m] BY <1>1, <1>4
  <2> HIDE DEF m, t, fits, l
  <2> QED BY <1>3, <2>1
<1>5. ASSUME c = NL PROVE t.line = <<>> /\ t.out = p1
  <2>1. t = [line |-> <<>>, out |-> p1] BY <1>2, <1>5
  <2> HIDE DEF t, p1
  <2> QED BY <2>1
<1> QED BY <1>4, <1>5 DEF SearchedOn

\* The lines found up to k.
FoundTo(r, k, g, f) ==
    /\ r[k].out = IF k = 0 THEN <<>> ELSE g[k]
    /\ k <= Len(f) => r[k].line = Held(f, k + 1)

LEMMA FoundStep ==
    ASSUME NEW T, NEW f \in Seq(T), NL \in T, NEW pattern,
           NEW r, Searching(r, pattern, T, Append(f, NL)),
           NEW g \in [1 .. Len(f) + 1 -> Seq(T)], g[1] = Hit(pattern, f, 1),
           \A i \in 2 .. Len(f) + 1 : g[i] = g[i - 1] \o Hit(pattern, f, i),
           NEW e \in 1 .. Len(f) + 1, FoundTo(r, e - 1, g, f)
    PROVE  FoundTo(r, e, g, f)
<1> DEFINE n == Len(f)
           s == Append(f, NL)
           v == r[e - 1]
           t == r[e]
           c == s[e]
           hit == Hit(pattern, f, e)
           line0 == Held(f, e)
<1>1. n \in Nat /\ e \in Nat /\ e - 1 \in 0 .. n + 1 /\ e \in 0 .. n + 1 OBVIOUS
<1>2. Len(s) = n + 1 OBVIOUS
<1>3. t = SearchStep(pattern, v, c) /\ v \in Search(T)
  <2> HIDE DEF s
  <2>1. e \in 1 .. Len(s) /\ e - 1 \in 0 .. Len(s) BY <1>1, <1>2
  <2> QED BY <2>1 DEF Searching, s
<1>4. c = IF e = n + 1 THEN NL ELSE f[e]
  <2>1. s[n + 1] = NL /\ \A k \in 1 .. n : s[k] = f[k] OBVIOUS
  <2>2. e # n + 1 => e \in 1 .. n BY <1>1
  <2> QED BY <2>1, <2>2
<1>5. v.line = line0
  <2>1. e - 1 <= n /\ (e - 1) + 1 = e BY <1>1
  <2> QED BY <2>1 DEF FoundTo
<1>6. line0 \in Seq(T) BY HeldIs
<1>7. v.out \in Seq(T) BY <1>3 DEF Search
<1>8. e \in LineEnds(f) <=> c = NL
  <2>1. CASE e = n + 1 BY <1>4, <2>1 DEF LineEnds
  <2>2. CASE e # n + 1
    <3>1. e \in 1 .. n BY <1>1, <2>2
    <3>2. e \in Newlines(f) <=> f[e] = NL BY <3>1 DEF Newlines
    <3> QED BY <1>4, <2>2, <3>2 DEF LineEnds
  <2> QED BY <2>1, <2>2
<1>9. g[e] = v.out \o hit
  <2>1. CASE e = 1
    <3>1. v.out = <<>>
      <4>1. e - 1 = 0 BY <2>1
      <4> QED BY <4>1 DEF FoundTo
    <3>2. g[1] \in Seq(T)
      <4>1. 1 \in 1 .. Len(f) + 1 BY <1>1
      <4> QED BY <4>1
    <3>3. <<>> \o g[1] = g[1] BY <3>2
    <3> QED BY <2>1, <3>1, <3>3
  <2>2. CASE e # 1
    <3>1. e \in 2 .. n + 1 /\ e - 1 # 0 BY <1>1, <2>2
    <3>2. v.out = g[e - 1] BY <3>1 DEF FoundTo
    <3> QED BY <3>1, <3>2
  <2> QED BY <2>1, <2>2
<1>10. /\ c # NL => /\ t.line = IF Len(v.line) + 1 < SHELL_LINE_MAX THEN Append(v.line, c) ELSE v.line
                    /\ t.out = v.out
       /\ c = NL => /\ t.line = <<>>
                    /\ t.out = IF v.line # <<>> /\ pattern \in SubSeqs(v.line)
                               THEN v.out \o v.line \o <<NL>> ELSE v.out
  <2> HIDE DEF s, v, t, c
  <2>1. SearchedOn(pattern, v, c, SearchStep(pattern, v, c)) BY <1>3, SearchStepIs
  <2> QED BY <1>3, <2>1 DEF SearchedOn
<1> DEFINE o == v.out
<1>11. t.out = g[e]
  <2>1. CASE c # NL
    <3>1. e \in 1 .. n /\ f[e] # NL BY <1>1, <1>4, <2>1
    <3>3. t.out = o BY <1>10, <2>1
    <3>4. hit = <<>> BY <1>8, <2>1 DEF Hit
    <3> HIDE DEF o, hit, t, v, c
    <3>5. o \o <<>> = o BY <1>7 DEF o
    <3> QED BY <1>9, <3>3, <3>4, <3>5 DEF o
  <2>2. CASE c = NL
    <3> DEFINE found == line0 # <<>> /\ pattern \in SubSeqs(line0)
    <3>1. hit = IF found THEN Append(line0, NL) ELSE <<>> BY <1>8, <2>2 DEF Hit
    <3>2. t.out = IF found THEN o \o line0 \o <<NL>> ELSE o
      <4>1. t.out = IF v.line # <<>> /\ pattern \in SubSeqs(v.line) THEN v.out \o v.line \o <<NL>> ELSE v.out
        <5> HIDE DEF t, v, c
        <5> QED BY <1>10, <2>2, Zenon
      <4> HIDE DEF t, v, c, line0
      <4> QED BY <1>5, <4>1, Zenon DEF o
    <3> HIDE DEF found, hit, t, v, c, o, line0
    <3>3. o \in Seq(T) /\ line0 \in Seq(T) BY <1>6, <1>7 DEF o
    <3>4. o \o line0 \o <<NL>> = o \o Append(line0, NL)
      <4>1. Rejoins(o, line0, NL) BY <3>3, AppendJoins, Zenon
      <4> QED BY <4>1 DEF Rejoins
    <3>5. o \o <<>> = o BY <3>3
    <3>6. g[e] = o \o hit BY <1>9 DEF o
    <3> QED BY <3>1, <3>2, <3>4, <3>5, <3>6
  <2> QED BY <2>1, <2>2
<1>12. ASSUME e <= n PROVE t.line = Held(f, e + 1)
  <2>1. e \in 1 .. n /\ c = f[e] BY <1>1, <1>4, <1>12
  <2>2. Held(f, e + 1) = IF f[e] = NL THEN <<>>
                         ELSE IF Len(line0) + 1 < SHELL_LINE_MAX THEN Append(line0, f[e]) ELSE line0
    <3>1. HeldOn(f, e) BY <2>1, HeldGrows
    <3> QED BY <3>1 DEF HeldOn
  <2> HIDE DEF t, v, c, line0
  <2> QED BY <1>5, <1>10, <2>1, <2>2
<1>13. e # 0 BY <1>1
<1> QED BY <1>11, <1>12, <1>13 DEF FoundTo

\* grep prints the lines that hold the pattern, in their order, the last one too
\* if no newline ends it; of a line longer than its buffer it searches and prints
\* what the buffer holds, for every file (cmd_grep).
THEOREM SearchIsExact ==
    ASSUME NEW C, NEW f \in Seq(C), NEW pattern
    PROVE  Searched(pattern, f) = Matching(pattern, f)
<1> DEFINE T == C \cup {NL}
           n == Len(f) + 1
           s == Append(f, NL)
           ss == [e \in 1 .. n |-> Hit(pattern, f, e)]
<1>1. f \in Seq(T) /\ NL \in T
  <2>1. C \subseteq T /\ NL \in T OBVIOUS
  <2> HIDE DEF T
  <2> QED BY <2>1, SeqGrows
<1> HIDE DEF T
<1>2. PICK r : Searching(r, pattern, T, s) /\ r[n].out = Searched(pattern, f) BY <1>1, SearchRuns
<1>3. n \in Nat \ {0} OBVIOUS
<1>4. ASSUME NEW e \in 1 .. n PROVE Hit(pattern, f, e) \in Seq(T)
  <2> DEFINE u == Held(f, e)
  <2>1. u \in Seq(T) BY <1>1, HeldIs
  <2> HIDE DEF u
  <2>2. Append(u, NL) \in Seq(T) /\ <<>> \in Seq(T) BY <1>1, <2>1
  <2> QED BY <2>2 DEF Hit, u
<1>5. Matching(pattern, f) = FlattenSeq(ss) BY DEF Matching, Hit
<1>6. ss \in Seq(Seq(T)) /\ Len(ss) = n /\ ss # <<>> /\ \A e \in 1 .. n : ss[e] = Hit(pattern, f, e)
  <2> HIDE DEF n
  <2>1. ss \in Seq(Seq(T)) /\ Len(ss) = n BY <1>3, <1>4
  <2> QED BY <1>3, <2>1
<1> HIDE DEF ss
<1>7. PICK g \in [1 .. Len(ss) -> Seq(T)] :
           /\ g[1] = ss[1] /\ \A i \in 2 .. Len(ss) : g[i] = g[i - 1] \o ss[i]
           /\ FlattenSeq(ss) = g[Len(ss)]
  BY <1>6, FlattenIs
<1>8. /\ g \in [1 .. n -> Seq(T)] /\ g[1] = Hit(pattern, f, 1) /\ FlattenSeq(ss) = g[n]
      /\ \A i \in 2 .. n : g[i] = g[i - 1] \o Hit(pattern, f, i)
  <2> HIDE DEF n
  <2>1. 1 \in 1 .. n /\ \A i \in 2 .. n : i \in 1 .. n BY <1>3
  <2> QED BY <1>6, <1>7, <2>1
<1> DEFINE P == {k \in 0 .. n : FoundTo(r, k, g, f)}
<1>9. 0 \in P
  <2> DEFINE b == r[0]
  <2>1. b = [line |-> <<>>, out |-> <<>>] BY <1>2 DEF Searching
  <2>2. b.line = <<>> /\ b.out = <<>> BY <2>1
  <2> HIDE DEF b
  <2>3. LineTo(f, 1) = <<>>
    <3>1. 1 \in 1 .. Len(f) + 1 OBVIOUS
    <3>2. Start(f, 1) = 0 BY StartSteps
    <3>3. LineTo(f, 1) \in Seq(C) /\ Len(LineTo(f, 1)) = 1 - 1 - Start(f, 1) BY <3>1, LineIs
    <3> DEFINE u == LineTo(f, 1)
    <3>4. u \in Seq(C) /\ Len(u) = 0 BY <3>2, <3>3
    <3> HIDE DEF u
    <3>5. u = <<>> BY <3>4
    <3> QED BY <3>5 DEF u
  <2>4. Held(f, 0 + 1) = <<>>
    <3>1. 1 \in 1 .. Len(f) + 1 /\ 0 + 1 = 1 OBVIOUS
    <3>2. Held(f, 1) = <<>> BY <2>3, <3>1, HeldEmpty
    <3> QED BY <3>1, <3>2
  <2>5. FoundTo(r, 0, g, f) BY <2>2, <2>4 DEF FoundTo, b
  <2>6. 0 \in 0 .. n BY <1>3
  <2> QED BY <2>5, <2>6
<1>10. ASSUME NEW k \in 0 .. n - 1, k \in P PROVE k + 1 \in P
  <2> DEFINE e == k + 1
  <2>1. e \in 1 .. n /\ e \in 0 .. n /\ e - 1 = k BY <1>3
  <2>2. FoundTo(r, k, g, f) BY <1>10
  <2> HIDE DEF e, P
  <2>3. FoundTo(r, e - 1, g, f) BY <2>1, <2>2
  <2>4. FoundTo(r, e, g, f) BY <1>1, <1>2, <1>8, <2>1, <2>3, FoundStep
  <2>5. e \in P BY <2>1, <2>4 DEF P
  <2> QED BY <2>5 DEF e
<1> HIDE DEF P, n
<1>11. \A k \in 0 .. n : k \in P BY <1>3, <1>9, <1>10, RangeInduction
<1>12. n \in P /\ n # 0 BY <1>3, <1>11
<1>13. r[n].out = g[n] BY <1>12 DEF P, FoundTo
<1> QED BY <1>2, <1>5, <1>8, <1>13

LEMMA GrepTells ==
    ASSUME NEW ws, NEW C, NEW f \in Seq(C)
    PROVE  GrepExact(ws, f, cmd_grep(ws, f))
<1> SUFFICES ASSUME Len(ws) = 3, ws[3] \in FileNames
             PROVE  cmd_grep(ws, f) = Matching(ws[2], f)
  BY DEF GrepExact
<1>1. cmd_grep(ws, f) = Searched(ws[2], f) BY DEF cmd_grep, want_file
<1>2. Searched(ws[2], f) = Matching(ws[2], f) BY SearchIsExact
<1> QED BY <1>1, <1>2

-----------------------------------------------------------------------------
(* hexdump.                                                                 *)

\* The digits of v in base 16.
Sixteenth(v) == format_num(v, 16, lower)

LEMMA SixteenthIs ==
    /\ \A v \in 0 .. 15 : Sixteenth(v) = <<lower[v + 1]>>
    /\ \A q \in Nat \ {0}, k \in 0 .. 15 : Sixteenth(q * 16 + k) = Append(Sixteenth(q), lower[k + 1])
    /\ \A v \in Nat : Sixteenth(v) \in Seq(Digit)
<1> DEFINE base == 16
<1>1. base \in {10, 16} /\ base = 16 OBVIOUS
<1>2. \A v : Sixteenth(v) = format_num(v, base, lower) BY DEF Sixteenth
<1> HIDE DEF base
<1>3. ASSUME NEW v \in 0 .. 15 PROVE Sixteenth(v) = <<lower[v + 1]>>
  <2>1. v \in Nat /\ v < base BY <1>1
  <2>2. format_num(v, base, lower) = <<lower[v + 1]>> BY <1>1, <2>1, FormatIs
  <2> QED BY <1>2, <2>2
<1>4. ASSUME NEW q \in Nat \ {0}, NEW k \in 0 .. 15
      PROVE  Sixteenth(q * 16 + k) = Append(Sixteenth(q), lower[k + 1])
  <2> DEFINE v == q * 16 + k
  <2>1. v \in Nat /\ ~(v < base) BY <1>1
  <2>2. v \div base = q /\ v % base = k BY <1>1
  <2> HIDE DEF v
  <2>3. format_num(v, base, lower) = Append(format_num(v \div base, base, lower), lower[(v % base) + 1])
    BY <1>1, <2>1, FormatIs
  <2>4. format_num(v, base, lower) = Append(format_num(q, base, lower), lower[k + 1]) BY <2>2, <2>3
  <2>5. Sixteenth(v) = Append(Sixteenth(q), lower[k + 1]) BY <1>2, <2>4
  <2> QED BY <2>5 DEF v
<1>5. ASSUME NEW v \in Nat PROVE Sixteenth(v) \in Seq(Digit)
  <2>1. Reads(format_num(v, base, lower), v, base) BY <1>1, FormatReads
  <2>2. Reads(Sixteenth(v), v, base) BY <1>2, <2>1
  <2>3. Sixteenth(v) \in Seq(Digits(base)) BY <2>2 DEF Reads
  <2>4. Digits(base) \subseteq Digit BY <1>1, DigitsAre
  <2> QED BY <2>3, <2>4
<1> QED BY <1>3, <1>4, <1>5

LEMMA HexDigits ==
    ASSUME NEW v \in 0 .. 15
    PROVE  lower[v + 1] \in Digit /\ ValueOf(lower[v + 1]) = v
<1> DEFINE j == v + 1
<1>1. j \in 1 .. 16 /\ j - 1 = v OBVIOUS
<1> HIDE DEF j
<1>2. ValueOf(lower[j]) = j - 1 BY <1>1, DigitIs
<1>3. lower[j] \in Digit BY <1>1 DEF Digit
<1> QED BY <1>1, <1>2, <1>3 DEF j

LEMMA ZeroIs == "0" \in Digit /\ ValueOf("0") = 0
<1>1. lower[0 + 1] = "0" BY DEF lower
<1>2. 0 \in 0 .. 15 OBVIOUS
<1>3. lower[0 + 1] \in Digit /\ ValueOf(lower[0 + 1]) = 0 BY <1>2, HexDigits
<1> QED BY <1>1, <1>3

\* What fills the column.
Zeroed(e, s, width) ==
    /\ e \in Seq(Digit) /\ Len(e) = width
    /\ \A k \in 1 .. width - Len(s) : e[k] = "0"
    /\ \A k \in 1 .. Len(s) : e[width - Len(s) + k] = s[k]

LEMMA ZerosIn ==
    ASSUME NEW s \in Seq(Digit), NEW width \in Nat, Len(s) <= width,
           NEW e, e = emit(s, width, FALSE, "0")
    PROVE  Zeroed(e, s, width)
<1> DEFINE n == width - Len(s)
           z == "0"
           u == pad(z, n)
<1>1. Len(s) \in Nat /\ n \in Nat OBVIOUS
<1>2. e = u \o s
  <2> DEFINE gap == IF width > Len(s) THEN width - Len(s) ELSE 0
  <2>1. gap = n BY <1>1
  <2>2. e = pad(z, gap) \o s BY DEF emit
  <2> QED BY <2>1, <2>2
<1>3. z \in Digit /\ z = "0" BY ZeroIs
<1> HIDE DEF n, z
<1>4. u \in Seq(Digit) /\ Len(u) = n /\ \A k \in 1 .. n : u[k] = z BY <1>1, <1>3, PadIs
<1> HIDE DEF u
<1>5. /\ u \o s \in Seq(Digit) /\ Len(u \o s) = Len(u) + Len(s)
      /\ \A k \in 1 .. Len(u) : (u \o s)[k] = u[k]
      /\ \A k \in 1 .. Len(s) : (u \o s)[Len(u) + k] = s[k]
  BY <1>4
<1>6. n + Len(s) = width BY <1>1 DEF n
<1>7. e \in Seq(Digit) /\ Len(e) = width BY <1>2, <1>4, <1>5, <1>6
<1>8. (\A k \in 1 .. n : e[k] = z) /\ \A k \in 1 .. Len(s) : e[n + k] = s[k] BY <1>2, <1>4, <1>5
<1> QED BY <1>3, <1>7, <1>8 DEF Zeroed, n

\* "%02x" of a byte.
HexByte(s, v) ==
    /\ s \in Seq(Digit) /\ Len(s) = 2 /\ s[1] \in Digit /\ s[2] \in Digit
    /\ 16 * ValueOf(s[1]) + ValueOf(s[2]) = v

IsAppended(b, a, d) ==
    Len(b) = Len(a) + 1 /\ b[Len(a) + 1] = d /\ \A i \in 1 .. Len(a) : b[i] = a[i]

LEMMA AppendedIs ==
    ASSUME NEW T, NEW a \in Seq(T), NEW d \in T, NEW b, b = Append(a, d)
    PROVE  IsAppended(b, a, d)
BY DEF IsAppended

LEMMA HexTwo ==
    ASSUME NEW v \in 0 .. 255
    PROVE  HexByte(Hex(v, 2), v)
<1> DEFINE b == Sixteenth(v)
           e == Hex(v, 2)
<1>1. e = emit(b, 2, FALSE, "0") BY CaseX DEF Hex, Sixteenth
<1>2. v \in Nat OBVIOUS
<1>3. b \in Seq(Digit) BY <1>2, SixteenthIs
<1>4. "0" \in Digit /\ ValueOf("0") = 0 BY ZeroIs
<1>5. CASE v < 16
  <2> DEFINE c == lower[v + 1]
  <2>1. v \in 0 .. 15 BY <1>5
  <2>2. c \in Digit /\ ValueOf(c) = v BY <2>1, HexDigits
  <2>3. b = <<c>> BY <2>1, SixteenthIs
  <2> HIDE DEF b, c, e
  <2>4. Len(b) = 1 /\ b[1] = c BY <2>3
  <2>5. Len(b) <= 2 /\ 2 \in Nat BY <2>4
  <2>6. Zeroed(e, b, 2) BY <1>1, <1>3, <2>5, ZerosIn, Zenon
  <2>7. e \in Seq(Digit) /\ Len(e) = 2 /\ e[1] = "0" /\ e[2] = c
    <3>1. 1 \in 1 .. 2 - Len(b) /\ 1 \in 1 .. Len(b) /\ 2 - Len(b) + 1 = 2 BY <2>4
    <3>2. e[1] = "0" BY <2>6, <3>1 DEF Zeroed
    <3>3. e[2 - Len(b) + 1] = b[1] BY <2>6, <3>1 DEF Zeroed
    <3>4. e[2] = c BY <2>4, <3>1, <3>3
    <3> QED BY <2>6, <3>2, <3>4 DEF Zeroed
  <2>8. 16 * ValueOf(e[1]) + ValueOf(e[2]) = v BY <1>2, <1>4, <2>2, <2>7
  <2>9. HexByte(e, v) BY <1>4, <2>2, <2>7, <2>8 DEF HexByte
  <2> QED BY <2>9 DEF e
<1>6. CASE ~(v < 16)
  <2>1. PICK q \in Nat, k \in 0 .. 15 : v = 16 * q + k BY <1>2, Sixteens
  <2>2. q \in 0 .. 15 /\ q \in Nat \ {0} /\ v = q * 16 + k BY <1>6, <2>1
  <2> DEFINE c == lower[q + 1]
             d == lower[k + 1]
  <2>3. c \in Digit /\ ValueOf(c) = q BY <2>2, HexDigits
  <2>4. d \in Digit /\ ValueOf(d) = k BY HexDigits
  <2>5. b = Append(Sixteenth(q), d) BY <2>2, SixteenthIs
  <2>6. Sixteenth(q) = <<c>> BY <2>2, SixteenthIs
  <2> HIDE DEF b, c, d, e
  <2>7. Len(b) = 2 /\ b[1] = c /\ b[2] = d
    <3> DEFINE a == <<c>>
    <3>1. a \in Seq(Digit) /\ Len(a) = 1 /\ a[1] = c BY <2>3
    <3>2. b = Append(a, d) BY <2>5, <2>6
    <3> HIDE DEF a
    <3>3. IsAppended(b, a, d) BY <2>4, <3>1, <3>2, AppendedIs, Zenon
    <3>4. 1 \in 1 .. Len(a) /\ Len(a) + 1 = 2 BY <3>1
    <3> QED BY <3>1, <3>3, <3>4 DEF IsAppended
  <2>8. Len(b) <= 2 /\ 2 \in Nat BY <2>7
  <2>9. Zeroed(e, b, 2) BY <1>1, <1>3, <2>8, ZerosIn, Zenon
  <2>11. e \in Seq(Digit) /\ Len(e) = 2 /\ e[1] = c /\ e[2] = d
    <3>1. 1 \in 1 .. Len(b) /\ 2 \in 1 .. Len(b) /\ 2 - Len(b) + 1 = 1 /\ 2 - Len(b) + 2 = 2 BY <2>7
    <3>2. e[2 - Len(b) + 1] = b[1] /\ e[2 - Len(b) + 2] = b[2] BY <2>9, <3>1 DEF Zeroed
    <3>3. e[1] = c /\ e[2] = d BY <2>7, <3>1, <3>2
    <3> QED BY <2>9, <3>3 DEF Zeroed
  <2>12. 16 * ValueOf(e[1]) + ValueOf(e[2]) = v BY <2>2, <2>3, <2>4, <2>11
  <2>13. HexByte(e, v) BY <2>3, <2>4, <2>11, <2>12 DEF HexByte
  <2> QED BY <2>13 DEF e
<1> QED BY <1>5, <1>6

\* What 32 bits hold: eight digits are enough for it.
SizeMax == 65536 * 65536

Fits(B, k) == \A v \in Nat : v < B => Len(Sixteenth(v)) <= k

LEMMA OneDigitMore ==
    ASSUME NEW B \in Nat, NEW k \in Nat, Fits(B, k)
    PROVE  Fits(16 * B, k + 1)
<1> SUFFICES ASSUME NEW v \in Nat, v < 16 * B PROVE Len(Sixteenth(v)) <= k + 1 BY DEF Fits
<1>1. CASE v < 16
  <2>1. Sixteenth(v) = <<lower[v + 1]>>
    <3>1. v \in 0 .. 15 BY <1>1
    <3> QED BY <3>1, SixteenthIs
  <2> DEFINE c == lower[v + 1]
  <2> HIDE DEF c
  <2>2. Sixteenth(v) = <<c>> BY <2>1 DEF c
  <2>3. Len(<<c>>) = 1 OBVIOUS
  <2>4. Len(Sixteenth(v)) = 1 BY <2>2, <2>3
  <2> QED BY <2>4
<1>2. CASE ~(v < 16)
  <2>1. PICK q \in Nat, d \in 0 .. 15 : v = 16 * q + d BY Sixteens
  <2>2. q < B /\ q \in Nat \ {0} /\ v = q * 16 + d BY <1>2, <2>1
  <2> DEFINE s == Sixteenth(q)
             c == lower[d + 1]
  <2>3. Sixteenth(v) = Append(s, c) BY <2>2, SixteenthIs
  <2>4. s \in Seq(Digit) BY SixteenthIs
  <2>5. Len(s) <= k BY <2>2 DEF Fits
  <2> HIDE DEF s, c
  <2>7. Len(Append(s, c)) = Len(s) + 1 /\ Len(s) \in Nat BY <2>4
  <2>8. Len(Sixteenth(v)) = Len(s) + 1 BY <2>3, <2>7
  <2> QED BY <2>5, <2>7, <2>8
<1> QED BY <1>1, <1>2

LEMMA EightDigits == Fits(SizeMax, 8)
<1>2. Fits(16, 1)
  <2> SUFFICES ASSUME NEW v \in Nat, v < 16 PROVE Len(Sixteenth(v)) <= 1 BY DEF Fits
  <2>1. v \in 0 .. 15 OBVIOUS
  <2>2. Sixteenth(v) = <<lower[v + 1]>> BY <2>1, SixteenthIs
  <2> DEFINE c == lower[v + 1]
  <2> HIDE DEF c
  <2>3. Sixteenth(v) = <<c>> BY <2>2 DEF c
  <2>4. Len(<<c>>) = 1 OBVIOUS
  <2>5. Len(Sixteenth(v)) = 1 BY <2>3, <2>4
  <2> QED BY <2>5
<1>3. ASSUME NEW B \in Nat, NEW k \in Nat, NEW B2, NEW k2, Fits(B, k), B2 = 16 * B, k2 = k + 1
      PROVE  Fits(B2, k2)
  BY <1>3, OneDigitMore
<1>4. Fits(256, 2)
  <2>1. 16 * 16 = 256 /\ 1 + 1 = 2 OBVIOUS
  <2> QED BY <1>2, <1>3, <2>1
<1>5. Fits(4096, 3)
  <2>1. 16 * 256 = 4096 /\ 2 + 1 = 3 OBVIOUS
  <2> QED BY <1>4, <1>3, <2>1
<1>6. Fits(65536, 4)
  <2>1. 16 * 4096 = 65536 /\ 3 + 1 = 4 OBVIOUS
  <2> QED BY <1>5, <1>3, <2>1
<1>7. Fits(1048576, 5)
  <2>1. 16 * 65536 = 1048576 /\ 4 + 1 = 5 OBVIOUS
  <2> QED BY <1>6, <1>3, <2>1
<1>8. Fits(16777216, 6)
  <2>1. 16 * 1048576 = 16777216 /\ 5 + 1 = 6 OBVIOUS
  <2> QED BY <1>7, <1>3, <2>1
<1>9. Fits(268435456, 7)
  <2>1. 16 * 16777216 = 268435456 /\ 6 + 1 = 7 OBVIOUS
  <2> QED BY <1>8, <1>3, <2>1
<1>10. Fits(SizeMax, 8)
  <2>1. SizeMax = 16 * 268435456 /\ 7 + 1 = 8 BY DEF SizeMax
  <2> QED BY <1>9, <1>3, <2>1
<1> QED BY <1>10

LEMMA HexEight ==
    ASSUME NEW v \in Nat, v < SizeMax
    PROVE  Hex(v, 8) \in Seq(Digit) /\ Len(Hex(v, 8)) = 8
<1> DEFINE b == Sixteenth(v)
           e == Hex(v, 8)
<1>1. e = emit(b, 8, FALSE, "0") BY CaseX DEF Hex, Sixteenth
<1>2. b \in Seq(Digit) BY SixteenthIs
<1>3. Len(b) <= 8 /\ 8 \in Nat BY EightDigits DEF Fits
<1> HIDE DEF b, e
<1>4. Zeroed(e, b, 8) BY <1>1, <1>2, <1>3, ZerosIn, Zenon
<1>5. e \in Seq(Digit) /\ Len(e) = 8 BY <1>4 DEF Zeroed
<1> QED BY <1>5, Zenon DEF e

\* The characters of a cell.
CellChar == Digit \cup {" "}

LEMMA NoSpace == \A d \in Digit : d # " " /\ d # NL
<1> DEFINE D == {"0", "1", "2", "3", "4", "5", "6", "7", "8", "9", "a", "b", "c", "d", "e", "f"}
<1>1. ASSUME NEW c, NEW i \in 1 .. 16, c = lower[i] PROVE c \in D BY <1>1 DEF lower
<1>2. ASSUME NEW c \in D PROVE c # " " /\ c # NL BY DEF NL
<1> HIDE DEF D
<1>3. ASSUME NEW d \in Digit PROVE d # " " /\ d # NL
  <2>1. PICK i \in 1 .. 16 : d = lower[i] BY DEF Digit
  <2> QED BY <1>1, <1>2, <2>1
<1> QED BY <1>3

\* Short texts.
LEMMA Singly == ASSUME NEW T, NEW c \in T PROVE <<c>> \in Seq(T) /\ Len(<<c>>) = 1 /\ <<c>>[1] = c
OBVIOUS

LEMMA Doubly ==
    ASSUME NEW T, NEW c \in T, NEW d \in T
    PROVE  <<c, d>> \in Seq(T) /\ Len(<<c, d>>) = 2 /\ <<c, d>>[1] = c /\ <<c, d>>[2] = d
OBVIOUS

LEMMA Triply ==
    ASSUME NEW T, NEW c \in T
    PROVE  <<c, c, c>> \in Seq(T) /\ Len(<<c, c, c>>) = 3 /\ <<c, c, c>>[1] = c
OBVIOUS

Joined(s, a, b, T) ==
    /\ s \in Seq(T) /\ Len(s) = Len(a) + Len(b) /\ Len(a) \in Nat /\ Len(b) \in Nat
    /\ \A k \in 1 .. Len(a) : s[k] = a[k]
    /\ \A k \in 1 .. Len(b) : s[Len(a) + k] = b[k]

LEMMA JoinIs ==
    ASSUME NEW T, NEW a \in Seq(T), NEW b \in Seq(T), NEW s, s = a \o b
    PROVE  Joined(s, a, b, T)
BY DEF Joined

LEMMA SpaceIn == " " \in CellChar
<1> DEFINE c == " "
<1>1. c \in {c} OBVIOUS
<1> HIDE DEF c
<1>2. {c} \subseteq CellChar BY DEF CellChar, c
<1> QED BY <1>1, <1>2 DEF c

\* s says what the k-th byte of g is, or that there is none.
Says(a, b, g, k) ==
    IF k <= Len(g) THEN a # " " /\ 16 * ValueOf(a) + ValueOf(b) = Code[g[k]] ELSE a = " "

AreBytes(g) == \A i \in DOMAIN g : Code[g[i]] \in 0 .. 255

IsCell(s, g, k) == s \in Seq(CellChar) /\ Len(s) = 3 /\ Says(s[1], s[2], g, k)

LEMMA CellIs ==
    ASSUME NEW C, NEW g \in Seq(C), AreBytes(g), NEW k \in Nat \ {0}
    PROVE  IsCell(Cell(g, k), g, k)
<1>0. " " \in CellChar BY SpaceIn
<1>1. CASE k <= Len(g)
  <2> DEFINE v == Code[g[k]]
             h == Hex(v, 2)
             sp == <<" ">>
             s == h \o sp
  <2>1. k \in DOMAIN g BY <1>1
  <2>2. v \in 0 .. 255 BY <2>1, Zenon DEF AreBytes
  <2>3. Cell(g, k) = s BY <1>1 DEF Cell
  <2> HIDE DEF v
  <2>4. HexByte(h, v) BY <2>2, HexTwo
  <2> HIDE DEF h
  <2>5. h \in Seq(Digit) /\ Len(h) = 2 /\ h[1] \in Digit /\ 16 * ValueOf(h[1]) + ValueOf(h[2]) = v
    BY <2>4 DEF HexByte
  <2>6. h \in Seq(CellChar)
    <3>1. Digit \subseteq CellChar BY DEF CellChar
    <3> QED BY <2>5, <3>1, SeqGrows
  <2>7. sp \in Seq(CellChar) /\ Len(sp) = 1 BY <1>0, Singly, Zenon
  <2>a. s = h \o sp OBVIOUS
  <2> HIDE DEF sp, s
  <2>8. s \in Seq(CellChar) /\ Len(s) = Len(h) + Len(sp) /\ \A i \in 1 .. Len(h) : s[i] = h[i]
    <3>1. Joined(s, h, sp, CellChar) BY <2>6, <2>7, <2>a, JoinIs, Zenon
    <3> QED BY <3>1 DEF Joined
  <2>9. Len(s) = 3 /\ s[1] = h[1] /\ s[2] = h[2] BY <2>5, <2>7, <2>8
  <2>10. s[1] # " " BY <2>5, <2>9, NoSpace
  <2>11. 16 * ValueOf(s[1]) + ValueOf(s[2]) = v BY <2>5, <2>9
  <2>12. Says(s[1], s[2], g, k) BY <1>1, <2>10, <2>11 DEF Says, v
  <2>13. IsCell(s, g, k) BY <2>8, <2>9, <2>12 DEF IsCell
  <2> QED BY <2>3, <2>13
<1>2. CASE ~(k <= Len(g))
  <2> DEFINE s == <<" ", " ", " ">>
  <2>1. s \in Seq(CellChar) /\ Len(s) = 3 /\ s[1] = " " BY <1>0, Triply, Zenon
  <2>2. Cell(g, k) = s BY <1>2 DEF Cell
  <2> HIDE DEF s
  <2>3. Says(s[1], s[2], g, k) BY <1>2, <2>1 DEF Says
  <2>4. IsCell(s, g, k) BY <2>1, <2>3 DEF IsCell
  <2> QED BY <2>2, <2>4
<1> QED BY <1>1, <1>2

\* A cell with what stands behind it.
Spaced(g, off, i) == Cell(g, off + i) \o (IF i = DUMP_ROW \div 2 THEN <<" ">> ELSE <<>>)

Midway(i) == IF i >= DUMP_ROW \div 2 THEN 1 ELSE 0

LEMMA HalfIs ==
    /\ DUMP_ROW \in Nat \ {0} /\ DUMP_ROW \div 2 \in Nat \ {0} /\ DUMP_ROW \div 2 <= DUMP_ROW
    /\ Midway(0) = 0 /\ Midway(DUMP_ROW) = 1
    /\ \A i \in 1 .. DUMP_ROW : /\ Midway(i) = Midway(i - 1) + (IF i = DUMP_ROW \div 2 THEN 1 ELSE 0)
                                /\ Midway(i) \in Nat /\ Midway(i - 1) \in Nat
                                /\ Midway(i - 1) = IF i > DUMP_ROW \div 2 THEN 1 ELSE 0
<1>1. DUMP_ROW \in Nat \ {0} /\ DUMP_ROW % 2 = 0 BY ToolAssumption
<1>2. DUMP_ROW \div 2 \in Nat \ {0} /\ DUMP_ROW \div 2 <= DUMP_ROW BY <1>1
<1> QED BY <1>1, <1>2 DEF Midway

LEMMA SpacedIs ==
    ASSUME NEW C, NEW g \in Seq(C), AreBytes(g), NEW off \in Nat, NEW i \in 1 .. DUMP_ROW
    PROVE  /\ Spaced(g, off, i) \in Seq(CellChar)
           /\ Len(Spaced(g, off, i)) = 3 + (IF i = DUMP_ROW \div 2 THEN 1 ELSE 0)
           /\ Says(Spaced(g, off, i)[1], Spaced(g, off, i)[2], g, off + i)
<1> DEFINE c == Cell(g, off + i)
           t == IF i = DUMP_ROW \div 2 THEN <<" ">> ELSE <<>>
           s == c \o t
<1>1. DUMP_ROW \in Nat /\ off + i \in Nat \ {0} BY ToolAssumption
<1>2. IsCell(c, g, off + i) BY <1>1, CellIs
<1>3. <<" ">> \in Seq(CellChar) /\ Len(<<" ">>) = 1 BY SpaceIn, Singly, Zenon
<1>4. t \in Seq(CellChar) /\ Len(t) = IF i = DUMP_ROW \div 2 THEN 1 ELSE 0
  <2> DEFINE sp == <<" ">>
             no == <<>>
  <2>1. sp \in Seq(CellChar) /\ Len(sp) = 1 BY <1>3
  <2>2. no \in Seq(CellChar) /\ Len(no) = 0 OBVIOUS
  <2>3. t = IF i = DUMP_ROW \div 2 THEN sp ELSE no OBVIOUS
  <2> HIDE DEF t, sp, no
  <2> QED BY <2>1, <2>2, <2>3
<1>5. Spaced(g, off, i) = s BY DEF Spaced
<1>a. s = c \o t OBVIOUS
<1> HIDE DEF c, t, s
<1>6. c \in Seq(CellChar) /\ Len(c) = 3 BY <1>2 DEF IsCell
<1>7. s \in Seq(CellChar) /\ Len(s) = Len(c) + Len(t) /\ \A k \in 1 .. Len(c) : s[k] = c[k]
  <2>1. Joined(s, c, t, CellChar) BY <1>4, <1>6, <1>a, JoinIs, Zenon
  <2> QED BY <2>1 DEF Joined
<1>8. s[1] = c[1] /\ s[2] = c[2] BY <1>6, <1>7
<1>9. Says(s[1], s[2], g, off + i) BY <1>2, <1>8 DEF IsCell
<1> QED BY <1>4, <1>5, <1>6, <1>7, <1>9

RowCells(g, off) == FlattenSeq([i \in 1 .. DUMP_ROW |-> Spaced(g, off, i)])

\* The cells of a row, one behind the other.
AreCells(c, g, off) ==
    /\ c \in Seq(CellChar) /\ Len(c) = 3 * DUMP_ROW + 1
    /\ \A i \in 1 .. DUMP_ROW : LET at == 3 * i + Midway(i - 1) - 2
                               IN  at \in 1 .. Len(c) /\ at + 1 \in 1 .. Len(c) /\ Says(c[at], c[at + 1], g, off + i)

LEMMA CellsAre ==
    ASSUME NEW C, NEW g \in Seq(C), AreBytes(g), NEW off \in Nat
    PROVE  AreCells(RowCells(g, off), g, off)
<1> DEFINE ss == [i \in 1 .. DUMP_ROW |-> Spaced(g, off, i)]
           c == FlattenSeq(ss)
           D == DUMP_ROW
<1>1. D \in Nat \ {0} BY HalfIs
<1>2. \A i \in 1 .. D : ss[i] \in Seq(CellChar) BY SpacedIs
<1>3. \A i \in 1 .. D : Len(ss[i]) = 3 + (IF i = DUMP_ROW \div 2 THEN 1 ELSE 0) BY SpacedIs
<1>4. \A i \in 1 .. D : Says(ss[i][1], ss[i][2], g, off + i) BY SpacedIs
<1>5. ss = [i \in 1 .. D |-> ss[i]] OBVIOUS
<1>6. RowCells(g, off) = c BY DEF RowCells
<1> HIDE DEF ss
<1>7. ss \in Seq(Seq(CellChar)) /\ Len(ss) = D /\ ss # <<>>
  <2> DEFINE Q == Seq(CellChar)
  <2>1. \A i \in 1 .. D : ss[i] \in Q BY <1>2
  <2> HIDE DEF Q
  <2>2. ss \in Seq(Q) /\ Len(ss) = D BY <1>1, <1>5, <2>1
  <2>3. ss # <<>> BY <1>1, <2>2
  <2> QED BY <2>2, <2>3 DEF Q
<1>8. c \in Seq(CellChar) BY <1>7, FlattenLaid
<1>9. PICK e : Laid(e, ss, c) BY <1>7, FlattenLaid
<1> HIDE DEF c
<1>10. e \in [0 .. D -> Nat] /\ e[0] = 0 /\ Len(c) = e[D] BY <1>7, <1>9 DEF Laid
<1>11. \A i \in 1 .. D : e[i] = e[i - 1] + Len(ss[i]) BY <1>7, <1>9 DEF Laid
<1>12. \A i \in 1 .. D : e[i] <= e[D] /\ \A x \in 1 .. Len(ss[i]) : c[e[i - 1] + x] = ss[i][x]
  BY <1>7, <1>9 DEF Laid
<1>13. \A i \in 0 .. D : e[i] = 3 * i + Midway(i)
  <2> DEFINE S == {i \in 0 .. D : e[i] = 3 * i + Midway(i)}
  <2>1. 0 \in S BY <1>1, <1>10, HalfIs
  <2>2. ASSUME NEW i \in 0 .. D - 1, i \in S PROVE i + 1 \in S
    <3>1. i + 1 \in 1 .. D /\ (i + 1) - 1 = i /\ i \in Nat BY <1>1
    <3>2. e[i + 1] = e[i] + Len(ss[i + 1]) BY <1>11, <3>1
    <3>3. Len(ss[i + 1]) = 3 + (IF i + 1 = DUMP_ROW \div 2 THEN 1 ELSE 0) BY <1>3, <3>1
    <3>4. Midway(i + 1) = Midway(i) + (IF i + 1 = DUMP_ROW \div 2 THEN 1 ELSE 0) /\ Midway(i) \in Nat BY <3>1, HalfIs
    <3>5. e[i] = 3 * i + Midway(i) BY <2>2
    <3>6. e[i + 1] = 3 * (i + 1) + Midway(i + 1) BY <3>1, <3>2, <3>3, <3>4, <3>5
    <3> QED BY <1>1, <3>1, <3>6
  <2>3. 0 \in Nat /\ D \in Nat BY <1>1
  <2> HIDE DEF S
  <2>4. \A i \in 0 .. D : i \in S BY <2>1, <2>2, <2>3, RangeInduction
  <2> QED BY <2>4 DEF S
<1>14. Len(c) = 3 * DUMP_ROW + 1
  <2>1. D \in 0 .. D BY <1>1
  <2> QED BY <1>10, <1>13, <2>1, HalfIs
<1>15. ASSUME NEW i \in 1 .. D, NEW at, at = 3 * i + Midway(i - 1) - 2
       PROVE  at \in 1 .. Len(c) /\ at + 1 \in 1 .. Len(c) /\ Says(c[at], c[at + 1], g, off + i)
  <2>1. i - 1 \in 0 .. D /\ i \in 0 .. D BY <1>1
  <2>2. e[i - 1] = 3 * (i - 1) + Midway(i - 1) /\ Midway(i - 1) \in Nat BY <1>13, <2>1, HalfIs
  <2>3. at = e[i - 1] + 1 /\ at + 1 = e[i - 1] + 2 /\ e[i - 1] \in Nat BY <1>1, <1>15, <2>2
  <2>4. Len(ss[i]) >= 3 /\ Len(ss[i]) \in Nat BY <1>3
  <2>5. e[i - 1] + Len(ss[i]) <= Len(c) BY <1>10, <1>11, <1>12
  <2>6. at \in 1 .. Len(c) /\ at + 1 \in 1 .. Len(c) BY <1>10, <1>14, <2>3, <2>4, <2>5
  <2>7. c[e[i - 1] + 1] = ss[i][1] /\ c[e[i - 1] + 2] = ss[i][2]
    <3>1. 1 \in 1 .. Len(ss[i]) /\ 2 \in 1 .. Len(ss[i]) BY <2>4
    <3> QED BY <1>12, <3>1
  <2>8. c[at] = ss[i][1] /\ c[at + 1] = ss[i][2] BY <2>3, <2>7
  <2>9. Says(ss[i][1], ss[i][2], g, off + i) BY <1>4
  <2> QED BY <2>6, <2>8, <2>9
<1>16. AreCells(c, g, off) BY <1>8, <1>14, <1>15 DEF AreCells
<1> QED BY <1>6, <1>16

\* What a row says, and that it is one line.
CellAt(i) == 8 + 3 * i + (IF i > DUMP_ROW \div 2 THEN 1 ELSE 0)

IsRow(row, g, off) ==
    /\ Len(row) \in Nat /\ Len(row) > 13 + 3 * DUMP_ROW /\ row[13 + 3 * DUMP_ROW] = "|"
    /\ row[Len(row)] = NL /\ \A k \in 1 .. Len(row) - 1 : row[k] # NL
    /\ \A i \in 1 .. DUMP_ROW : Says(row[CellAt(i)], row[CellAt(i) + 1], g, off + i)

LEMMA RowSays ==
    ASSUME NEW C, NEW g \in Seq(C), AreBytes(g), Code[NL] = 10,
           NEW off \in Nat, off < Len(g), Len(g) < SizeMax
    PROVE  IsRow(Row(g, off), g, off) /\ \E W : Row(g, off) \in Seq(W)
<1> DEFINE c == RowCells(g, off)
           m == Min({DUMP_ROW, Len(g) - off})
           chars == [i \in 1 .. m |-> Printable(g[off + i])]
           W == CellChar \cup {"|"} \cup {Printable(g[off + i]) : i \in 1 .. m}
           V == W \cup {NL}
           a1 == Hex(off, 8)
           a2 == <<" ", " ">>
           a4 == <<" ", "|">>
           a6 == <<"|", NL>>
           b1 == a1 \o a2
           b2 == b1 \o c
           b3 == b2 \o a4
           b4 == b3 \o chars
           row == b4 \o a6
<1>1. Row(g, off) = row BY DEF Row, RowCells, Spaced
<1>2. AreCells(c, g, off) BY CellsAre
<1>3. DUMP_ROW \in Nat \ {0} /\ Len(g) \in Nat BY HalfIs
<1>4. m \in Nat
  <2>1. Len(g) - off \in Nat /\ DUMP_ROW \in Nat BY <1>3
  <2>2. m = IF DUMP_ROW <= Len(g) - off THEN DUMP_ROW ELSE Len(g) - off BY <2>1, MinIs
  <2> HIDE DEF m
  <2> QED BY <2>1, <2>2
<1>5. ASSUME NEW w \in W PROVE w # NL
  <2>1. CASE w \in CellChar
    <3>1. CASE w \in Digit BY <3>1, NoSpace
    <3>2. CASE w = " " BY <3>2 DEF NL
    <3> QED BY <2>1, <3>1, <3>2 DEF CellChar
  <2>2. CASE w = "|" BY <2>2 DEF NL
  <2>3. ASSUME NEW x, w = Printable(x) PROVE w # NL
    <3>1. CASE Code[x] >= 32 /\ Code[x] < 127
      <4>1. w = x BY <2>3, <3>1 DEF Printable
      <4>2. x # NL BY <3>1
      <4> QED BY <4>1, <4>2
    <3>2. CASE ~(Code[x] >= 32 /\ Code[x] < 127)
      <4>1. w = "." BY <2>3, <3>2 DEF Printable
      <4> QED BY <4>1 DEF NL
    <3> QED BY <3>1, <3>2
  <2> QED BY <2>1, <2>2, <2>3
<1>6. CellChar \subseteq W /\ "|" \in W /\ " " \in W /\ \A i \in 1 .. m : chars[i] \in W BY SpaceIn
<1>7. W \subseteq V /\ NL \in V OBVIOUS
<1>8. chars \in Seq(W)
  <2>1. chars = [i \in 1 .. m |-> chars[i]] OBVIOUS
  <2>2. \A i \in 1 .. m : chars[i] \in W OBVIOUS
  <2> HIDE DEF chars, m, W
  <2> QED BY <1>4, <2>1, <2>2
<1> HIDE DEF c, m, chars, W, V
<1>9. a1 \in Seq(W) /\ Len(a1) = 8
  <2>1. off < SizeMax
    <3> DEFINE k == SizeMax
    <3>1. k \in Nat BY DEF SizeMax
    <3>2. Len(g) < k OBVIOUS
    <3> HIDE DEF k
    <3>3. off < k BY <1>3, <3>1, <3>2
    <3> QED BY <3>3 DEF k
  <2>2. a1 \in Seq(Digit) /\ Len(a1) = 8 BY <2>1, HexEight
  <2> HIDE DEF a1
  <2>3. Digit \subseteq W BY <1>6 DEF CellChar
  <2> QED BY <2>2, <2>3, SeqGrows
<1>10. a2 \in Seq(W) /\ Len(a2) = 2 BY <1>6, Doubly, Zenon
<1>11. c \in Seq(W) /\ Len(c) = 3 * DUMP_ROW + 1
  <2>1. c \in Seq(CellChar) /\ Len(c) = 3 * DUMP_ROW + 1 BY <1>2 DEF AreCells
  <2> QED BY <1>6, <2>1, SeqGrows
<1>12. a4 \in Seq(W) /\ Len(a4) = 2 /\ a4[2] = "|" BY <1>6, Doubly, Zenon
<1>13. a6 \in Seq(V) /\ Len(a6) = 2 /\ a6[1] = "|" /\ a6[2] = NL
  <2>1. "|" \in V BY <1>6, <1>7
  <2> QED BY <1>7, <2>1, Doubly, Zenon
<1>14. Joined(b1, a1, a2, W)
  <2>1. b1 = a1 \o a2 OBVIOUS
  <2> HIDE DEF b1
  <2> QED BY <1>9, <1>10, <2>1, JoinIs, Zenon
<1>15. Joined(b2, b1, c, W)
  <2>1. b2 = b1 \o c OBVIOUS
  <2>2. b1 \in Seq(W) BY <1>14 DEF Joined
  <2> HIDE DEF b1, b2
  <2> QED BY <1>11, <2>1, <2>2, JoinIs, Zenon
<1>16. Joined(b3, b2, a4, W)
  <2>1. b3 = b2 \o a4 OBVIOUS
  <2>2. b2 \in Seq(W) BY <1>15 DEF Joined
  <2> HIDE DEF b2, b3
  <2> QED BY <1>12, <2>1, <2>2, JoinIs, Zenon
<1>17. Joined(b4, b3, chars, W)
  <2>1. b4 = b3 \o chars OBVIOUS
  <2>2. b3 \in Seq(W) BY <1>16 DEF Joined
  <2> HIDE DEF b3, b4
  <2> QED BY <1>8, <2>1, <2>2, JoinIs, Zenon
<1>18. b4 \in Seq(W) BY <1>17 DEF Joined
<1>19. Joined(row, b4, a6, V)
  <2>1. row = b4 \o a6 OBVIOUS
  <2>2. b4 \in Seq(V) BY <1>7, <1>18, SeqGrows
  <2> HIDE DEF b4, row
  <2> QED BY <1>13, <2>1, <2>2, JoinIs, Zenon
<1> HIDE DEF a1, a2, a4, a6, b1, b2, b3, b4, row
<1>20. Len(b1) = 10 BY <1>9, <1>10, <1>14 DEF Joined
<1>21. Len(b2) = 11 + 3 * DUMP_ROW BY <1>3, <1>11, <1>15, <1>20 DEF Joined
<1>22. Len(b3) = 13 + 3 * DUMP_ROW BY <1>3, <1>12, <1>16, <1>21 DEF Joined
<1>23. Len(b4) \in Nat /\ Len(b4) >= 13 + 3 * DUMP_ROW BY <1>3, <1>17, <1>22 DEF Joined
<1>24. Len(row) = Len(b4) + 2 BY <1>13, <1>19 DEF Joined
<1>25. \A k \in 1 .. Len(b3) : row[k] = b3[k]
  <2>1. \A k \in 1 .. Len(b3) : b4[k] = b3[k] BY <1>17 DEF Joined
  <2>2. \A k \in 1 .. Len(b4) : row[k] = b4[k] BY <1>19 DEF Joined
  <2>3. Len(b3) \in Nat /\ Len(b4) \in Nat /\ Len(b3) <= Len(b4) BY <1>3, <1>22, <1>23
  <2>4. 1 .. Len(b3) \subseteq 1 .. Len(b4) BY <2>3
  <2> QED BY <2>1, <2>2, <2>4, Zenon
<1>26. row[13 + 3 * DUMP_ROW] = "|"
  <2>1. b3[Len(b2) + 2] = "|"
    <3>1. 2 \in 1 .. Len(a4) BY <1>12
    <3>2. b3[Len(b2) + 2] = a4[2] BY <1>16, <3>1 DEF Joined
    <3> QED BY <1>12, <3>2
  <2>2. Len(b2) + 2 = 13 + 3 * DUMP_ROW /\ 13 + 3 * DUMP_ROW \in 1 .. Len(b3) BY <1>3, <1>21, <1>22
  <2> QED BY <1>25, <2>1, <2>2
<1>27. row[Len(row)] = NL /\ row[Len(b4) + 1] = "|"
  <2>1. 1 \in 1 .. Len(a6) /\ 2 \in 1 .. Len(a6) BY <1>13
  <2>2. row[Len(b4) + 1] = a6[1] /\ row[Len(b4) + 2] = a6[2] BY <1>19, <2>1 DEF Joined
  <2> QED BY <1>13, <1>24, <2>2
<1>28. ASSUME NEW k \in 1 .. Len(row) - 1 PROVE row[k] # NL
  <2>1. CASE k \in 1 .. Len(b4)
    <3>1. row[k] = b4[k] BY <1>19, <2>1 DEF Joined
    <3>2. b4[k] \in W BY <1>18, <2>1, ElementOfSeq
    <3> QED BY <1>5, <3>1, <3>2
  <2>2. CASE k = Len(b4) + 1 BY <1>27, <2>2 DEF NL
  <2> QED BY <1>23, <1>24, <2>1, <2>2
<1>29. ASSUME NEW i \in 1 .. DUMP_ROW PROVE Says(row[CellAt(i)], row[CellAt(i) + 1], g, off + i)
  <2> DEFINE at == 3 * i + Midway(i - 1) - 2
  <2>1. at \in 1 .. Len(c) /\ at + 1 \in 1 .. Len(c) /\ Says(c[at], c[at + 1], g, off + i) BY <1>2 DEF AreCells
  <2>2. Len(b1) + at = CellAt(i) /\ Len(b1) + (at + 1) = CellAt(i) + 1
    <3> DEFINE x == Midway(i - 1)
    <3>1. x = (IF i > DUMP_ROW \div 2 THEN 1 ELSE 0) /\ x \in Nat BY HalfIs
    <3>2. CellAt(i) = 8 + 3 * i + x BY <3>1 DEF CellAt
    <3> HIDE DEF x
    <3>3. at = 3 * i + x - 2 BY DEF x
    <3> HIDE DEF at
    <3>4. i \in Nat BY <1>3
    <3> QED BY <1>20, <3>1, <3>2, <3>3, <3>4
  <2> HIDE DEF at
  <2>3. b2[Len(b1) + at] = c[at] /\ b2[Len(b1) + (at + 1)] = c[at + 1] BY <1>15, <2>1 DEF Joined
  <2>4. \A k \in 1 .. Len(b2) : row[k] = b2[k]
    <3>1. \A k \in 1 .. Len(b2) : b3[k] = b2[k] BY <1>16 DEF Joined
    <3> QED BY <1>3, <1>21, <1>22, <1>25, <3>1
  <2>5. Len(b1) + at \in 1 .. Len(b2) /\ Len(b1) + (at + 1) \in 1 .. Len(b2)
    BY <1>3, <1>11, <1>20, <1>21, <2>1
  <2>6. row[Len(b1) + at] = c[at] /\ row[Len(b1) + (at + 1)] = c[at + 1] BY <2>3, <2>4, <2>5
  <2> QED BY <2>1, <2>2, <2>6
<1>30. IsRow(row, g, off) BY <1>3, <1>23, <1>24, <1>26, <1>27, <1>28, <1>29 DEF IsRow
<1>31. row \in Seq(V) BY <1>19 DEF Joined
<1> QED BY <1>1, <1>30, <1>31

\* The offsets of the rows.
AreOffsets(O, R, n) ==
    /\ R \in Nat /\ O \in [0 .. R -> Nat] /\ O[0] = 0 /\ O[R] >= n /\ (n = 0 <=> R = 0)
    /\ \A r \in 1 .. R : O[r] = O[r - 1] + DUMP_ROW /\ O[r - 1] < n /\ O[r - 1] = (r - 1) * DUMP_ROW

LEMMA OffsetsAre ==
    ASSUME NEW n \in Nat
    PROVE  LET R == (n + DUMP_ROW - 1) \div DUMP_ROW
           IN  AreOffsets([r \in 0 .. R |-> r * DUMP_ROW], R, n)
<1> DEFINE R == (n + DUMP_ROW - 1) \div DUMP_ROW
           O == [r \in 0 .. R |-> r * DUMP_ROW]
           D == DUMP_ROW
           a == n + D - 1
<1>1. D \in Nat \ {0} BY HalfIs
<1>2. a \in Nat BY <1>1
<1>3. PICK x : x = R * D OBVIOUS
<1>4. R \in Nat /\ R * D <= a /\ a < R * D + D
  <2>1. R = a \div D OBVIOUS
  <2> HIDE DEF a, D, R
  <2> QED BY <1>1, <1>2, <2>1
<1> HIDE DEF R
<1>5. ASSUME NEW r \in 0 .. R PROVE r * D \in Nat /\ r * D <= R * D
  <2> HIDE DEF D
  <2>1. r \in Nat /\ R - r \in Nat BY <1>4
  <2>2. R * D = r * D + (R - r) * D BY <1>1, <1>4, <2>1
  <2>3. r * D \in Nat /\ (R - r) * D \in Nat BY <1>1, <2>1
  <2> QED BY <2>2, <2>3
<1>6. ASSUME NEW r \in 1 .. R PROVE r * D = (r - 1) * D + D
  <2> HIDE DEF D
  <2> QED BY <1>1, <1>4
<1>7. O \in [0 .. R -> Nat]
  <2> HIDE DEF D
  <2>1. O = [r \in 0 .. R |-> r * D] BY DEF D
  <2> QED BY <1>5, <2>1
<1>8. O[0] = 0
  <2>1. 0 \in 0 .. R BY <1>4
  <2>2. O[0] = 0 * D BY <2>1
  <2> QED BY <1>1, <2>2
<1>9. O[R] >= n
  <2>1. O[R] = x
    <3>1. R \in 0 .. R BY <1>4
    <3> QED BY <1>3, <3>1
  <2>2. x \in Nat /\ x <= n + D - 1 /\ n + D - 1 < x + D BY <1>1, <1>3, <1>4
  <2> HIDE DEF O, D
  <2> QED BY <1>1, <2>1, <2>2
<1>10. ASSUME NEW r \in 1 .. R
       PROVE  O[r] = O[r - 1] + DUMP_ROW /\ O[r - 1] < n /\ O[r - 1] = (r - 1) * DUMP_ROW
  <2>1. r \in 0 .. R /\ r - 1 \in 0 .. R BY <1>4
  <2>2. O[r] = r * D /\ O[r - 1] = (r - 1) * D BY <2>1
  <2> DEFINE y == r * D
             z == (r - 1) * D
  <2>3. y = z + D /\ y \in Nat /\ z \in Nat /\ y <= x BY <1>3, <1>5, <1>6, <2>1
  <2> HIDE DEF y, z
  <2>4. x <= n + D - 1
    <3> HIDE DEF D
    <3> QED BY <1>3, <1>4 DEF D
  <2>5. x \in Nat
    <3>1. R \in 0 .. R BY <1>4
    <3> QED BY <1>3, <1>5, <3>1
  <2>6. z < n
    <3>1. D \in Nat BY <1>1
    <3> HIDE DEF D
    <3> QED BY <2>3, <2>4, <2>5, <3>1
  <2> QED BY <2>2, <2>3, <2>6 DEF y, z
<1>11. n = 0 <=> R = 0
  <2>1. x \in Nat /\ x <= n + D - 1 /\ n + D - 1 < x + D BY <1>1, <1>3, <1>4
  <2>2. ASSUME n = 0 PROVE R = 0
    <3>1. CASE R > 0
      <4>1. R \in 1 .. R BY <1>4, <3>1
      <4>2. O[R - 1] < n BY <1>10, <4>1
      <4>3. R - 1 \in 0 .. R BY <1>4, <3>1
      <4> HIDE DEF O
      <4>4. O[R - 1] \in Nat BY <1>7, <4>3
      <4> QED BY <2>2, <4>2, <4>4
    <3> QED BY <1>4, <3>1
  <2>3. ASSUME R = 0 PROVE n = 0
    <3>1. O[R] = 0 BY <1>8, <2>3
    <3> HIDE DEF O
    <3> QED BY <1>9, <3>1
  <2> QED BY <2>2, <2>3
<1>12. AreOffsets(O, R, n)
  <2> HIDE DEF O
  <2> QED BY <1>4, <1>7, <1>8, <1>9, <1>10, <1>11 DEF AreOffsets
<1> QED BY <1>12 DEF R

\* Every position lies in one piece.
LEMMA Between ==
    ASSUME NEW R \in Nat, NEW E \in [0 .. R -> Nat], E[0] = 0, NEW j \in Nat \ {0}, j <= E[R]
    PROVE  \E r \in 1 .. R : E[r - 1] < j /\ j <= E[r]
<1> DEFINE S == {r \in 0 .. R : j <= E[r]}
<1>1. R \in S OBVIOUS
<1>2. PICK r \in S : \A k \in S : r <= k
  <2>1. S \in SUBSET Nat OBVIOUS
  <2> HIDE DEF S
  <2> QED BY <1>1, <2>1, LeastExists
<1>3. r \in 0 .. R /\ j <= E[r] OBVIOUS
<1>4. r # 0 BY <1>3
<1>5. r \in 1 .. R /\ r - 1 \in 0 .. R BY <1>3, <1>4
<1>6. r - 1 \notin S
  <2> HIDE DEF S
  <2> QED BY <1>2, <1>5
<1>7. E[r - 1] < j BY <1>5, <1>6
<1> QED BY <1>3, <1>5, <1>7

\* A dump: where its rows end, and what they say.
IsDump(o, T, E, O, R, f) ==
    /\ AreOffsets(O, R, Len(f)) /\ o \in Seq(T)
    /\ E \in [0 .. R -> Nat] /\ E[0] = 0 /\ E[R] = Len(o)
    /\ \A r \in 1 .. R :
          /\ E[r - 1] + 13 + 3 * DUMP_ROW < E[r] /\ E[r] <= Len(o)
          /\ o[E[r]] = NL /\ o[E[r - 1] + 13 + 3 * DUMP_ROW] = "|"
          /\ \A j \in 1 .. Len(o) : E[r - 1] < j /\ j < E[r] => o[j] # NL
          /\ \A i \in 1 .. DUMP_ROW :
                Says(o[E[r - 1] + CellAt(i)], o[E[r - 1] + CellAt(i) + 1], f, O[r - 1] + i)

LEMMA CellAtIs ==
    ASSUME NEW i \in 1 .. DUMP_ROW
    PROVE  CellAt(i) \in Nat /\ CellAt(i) >= 1 /\ CellAt(i) + 1 < 13 + 3 * DUMP_ROW
<1>1. DUMP_ROW \in Nat \ {0} /\ DUMP_ROW \div 2 \in Nat BY HalfIs
<1> QED BY <1>1 DEF CellAt

LEMMA DumpIs ==
    ASSUME NEW C, NEW f \in Seq(C), AreBytes(f), Code[NL] = 10, Len(f) < SizeMax
    PROVE  \E T, E, O, R : IsDump(FlattenSeq(Rows(f)), T, E, O, R, f)
<1> DEFINE n == Len(f)
           R == (n + DUMP_ROW - 1) \div DUMP_ROW
           O == [r \in 0 .. R |-> r * DUMP_ROW]
           ss == Rows(f)
           o == FlattenSeq(ss)
           T == UNION {{ss[i][j] : j \in 1 .. Len(ss[i])} : i \in 1 .. R}
<1>1. n \in Nat OBVIOUS
<1>2. AreOffsets(O, R, n)
  <2> HIDE DEF n
  <2> QED BY <1>1, OffsetsAre
<1>3. ss = [r \in 1 .. R |-> Row(f, (r - 1) * DUMP_ROW)] BY DEF Rows
<1> HIDE DEF n, R, O, ss
<1>4. ASSUME NEW r \in 1 .. R PROVE ss[r] = Row(f, O[r - 1]) /\ O[r - 1] \in Nat /\ O[r - 1] < Len(f)
  <2>1. O[r - 1] = (r - 1) * DUMP_ROW /\ O[r - 1] < n BY <1>2 DEF AreOffsets
  <2>2. r - 1 \in 0 .. R BY <1>2 DEF AreOffsets
  <2>3. O[r - 1] \in Nat BY <1>2, <2>2 DEF AreOffsets
  <2>4. ss[r] = Row(f, (r - 1) * DUMP_ROW) BY <1>3
  <2> QED BY <2>1, <2>3, <2>4 DEF n
<1>5. ASSUME NEW r \in 1 .. R PROVE IsRow(ss[r], f, O[r - 1]) /\ \E W : ss[r] \in Seq(W)
  <2> DEFINE k == O[r - 1]
             row == ss[r]
  <2>1. row = Row(f, k) /\ k \in Nat /\ k < Len(f) BY <1>4
  <2> HIDE DEF k, row
  <2>2. IsRow(Row(f, k), f, k) /\ \E W : Row(f, k) \in Seq(W) BY <2>1, RowSays
  <2>3. IsRow(row, f, k) /\ \E W : row \in Seq(W) BY <2>1, <2>2
  <2> QED BY <2>3 DEF k, row
<1>6. ASSUME NEW i \in 1 .. R PROVE ss[i] \in Seq(T)
  <2>1. PICK S : ss[i] \in Seq(S) BY <1>5
  <2>2. \A j \in 1 .. Len(ss[i]) : ss[i][j] \in T OBVIOUS
  <2> HIDE DEF T
  <2> QED BY <2>1, <2>2
<1> HIDE DEF T
<1>7. R \in Nat BY <1>2 DEF AreOffsets
<1>8. ss \in Seq(Seq(T)) /\ Len(ss) = R
  <2> DEFINE Q == Seq(T)
  <2>1. \A i \in 1 .. R : ss[i] \in Q BY <1>6
  <2>2. ss = [i \in 1 .. R |-> ss[i]] BY <1>3
  <2> HIDE DEF Q
  <2> QED BY <1>7, <2>1, <2>2 DEF Q
<1>9. CASE R = 0
  <2> DEFINE E == [i \in 0 .. R |-> 0]
  <2>1. o = ss BY <1>8, <1>9 DEF FlattenSeq
  <2>2. ss \in Seq(T) /\ Len(ss) = 0 BY <1>8, <1>9
  <2>3. o \in Seq(T) /\ Len(o) = 0 BY <2>1, <2>2
  <2> HIDE DEF o
  <2>4. E \in [0 .. R -> Nat] /\ E[0] = 0 /\ E[R] = Len(o) BY <1>9, <2>3
  <2> HIDE DEF E
  <2>5. 1 .. R = {} BY <1>9
  <2>6. IsDump(o, T, E, O, R, f) BY <1>2, <2>3, <2>4, <2>5 DEF IsDump, n
  <2> QED BY <2>6 DEF o, ss
<1>10. CASE R # 0
  <2>1. ss # <<>> BY <1>8, <1>10
  <2>2. o \in Seq(T) BY <1>8, <2>1, FlattenLaid
  <2>3. PICK E : Laid(E, ss, o) BY <1>8, <2>1, FlattenLaid
  <2> HIDE DEF o
  <2>4. E \in [0 .. R -> Nat] /\ E[0] = 0 /\ Len(o) = E[R] BY <1>8, <2>3 DEF Laid
  <2>5. ASSUME NEW r \in 1 .. R
        PROVE  /\ E[r] = E[r - 1] + Len(ss[r]) /\ E[r] <= E[R]
               /\ \A x \in 1 .. Len(ss[r]) : o[E[r - 1] + x] = ss[r][x]
    BY <1>8, <2>3 DEF Laid
  <2>6. ASSUME NEW r \in 1 .. R
        PROVE  /\ E[r - 1] + 13 + 3 * DUMP_ROW < E[r] /\ E[r] <= Len(o)
               /\ o[E[r]] = NL /\ o[E[r - 1] + 13 + 3 * DUMP_ROW] = "|"
               /\ \A j \in 1 .. Len(o) : E[r - 1] < j /\ j < E[r] => o[j] # NL
               /\ \A i \in 1 .. DUMP_ROW :
                     Says(o[E[r - 1] + CellAt(i)], o[E[r - 1] + CellAt(i) + 1], f, O[r - 1] + i)
    <3> DEFINE row == ss[r]
               a == E[r - 1]
               b == E[r]
               l == Len(row)
               c == 13 + 3 * DUMP_ROW
    <3>1. IsRow(row, f, O[r - 1]) BY <1>5
    <3>2. b = a + l /\ b <= Len(o) /\ \A x \in 1 .. l : o[a + x] = row[x] BY <2>4, <2>5
    <3>3. r \in 0 .. R /\ r - 1 \in 0 .. R BY <1>7
    <3>4. a \in Nat /\ b \in Nat BY <2>4, <3>3
    <3>5. DUMP_ROW \in Nat \ {0} BY HalfIs
    <3>6. c \in Nat /\ c = 13 + 3 * DUMP_ROW BY <3>5
    <3> HIDE DEF row, a, b, l, c
    <3>7. l \in Nat /\ l > c /\ row[c] = "|" /\ row[l] = NL BY <3>1, <3>6 DEF IsRow, l
    <3>8. \A k \in 1 .. l - 1 : row[k] # NL BY <3>1 DEF IsRow, l
    <3>9. \A i \in 1 .. DUMP_ROW : Says(row[CellAt(i)], row[CellAt(i) + 1], f, O[r - 1] + i)
      BY <3>1 DEF IsRow
    <3>10. a + c < b BY <3>2, <3>4, <3>6, <3>7
    <3>11. o[b] = NL
      <4>1. l \in 1 .. l BY <3>6, <3>7
      <4> QED BY <3>2, <3>7, <4>1
    <3>12. o[a + c] = "|"
      <4>1. c \in 1 .. l BY <3>5, <3>6, <3>7
      <4> QED BY <3>2, <3>7, <4>1
    <3>13. ASSUME NEW j \in 1 .. Len(o), a < j, j < b PROVE o[j] # NL
      <4>1. j - a \in 1 .. l - 1 /\ j - a \in 1 .. l /\ a + (j - a) = j BY <2>2, <3>2, <3>4, <3>7, <3>13
      <4>2. o[a + (j - a)] = row[j - a] BY <3>2, <4>1
      <4> QED BY <3>8, <4>1, <4>2
    <3>14. ASSUME NEW i \in 1 .. DUMP_ROW PROVE Says(o[a + CellAt(i)], o[a + CellAt(i) + 1], f, O[r - 1] + i)
      <4> DEFINE k == CellAt(i)
      <4>1. k \in Nat /\ k >= 1 /\ k + 1 < c BY <3>6, CellAtIs
      <4> HIDE DEF k
      <4>2. k \in 1 .. l /\ k + 1 \in 1 .. l BY <3>6, <3>7, <4>1
      <4>3. a + (k + 1) = a + k + 1 BY <3>4, <4>1
      <4>4. o[a + k] = row[k] /\ o[a + k + 1] = row[k + 1] BY <3>2, <4>2, <4>3
      <4>5. Says(row[k], row[k + 1], f, O[r - 1] + i) BY <3>9 DEF k
      <4>6. Says(o[a + k], o[a + k + 1], f, O[r - 1] + i) BY <4>4, <4>5
      <4> QED BY <4>6 DEF k
    <3>15. a + c = a + 13 + 3 * DUMP_ROW BY <3>4, <3>5 DEF c
    <3>16. a + 13 + 3 * DUMP_ROW < b /\ b <= Len(o) /\ o[b] = NL /\ o[a + 13 + 3 * DUMP_ROW] = "|"
      BY <3>2, <3>10, <3>11, <3>12, <3>15
    <3> QED BY <3>13, <3>14, <3>16 DEF a, b
  <2>7. IsDump(o, T, E, O, R, f) BY <1>2, <2>2, <2>4, <2>6 DEF IsDump, n
  <2> QED BY <2>7 DEF o, ss
<1> QED BY <1>9, <1>10

\* The newlines of a dump are the ends of its rows.
LEMMA DumpEnds ==
    ASSUME NEW o, NEW T, NEW E, NEW O, NEW R, NEW f, IsDump(o, T, E, O, R, f),
           NEW e \in 1 .. Len(o), o[e] = NL
    PROVE  \E r \in 1 .. R : e = E[r]
<1>1. R \in Nat /\ E \in [0 .. R -> Nat] /\ E[0] = 0 /\ E[R] = Len(o) /\ o \in Seq(T) BY DEF IsDump, AreOffsets
<1>2. Len(o) \in Nat BY <1>1
<1>3. e \in Nat \ {0} /\ e <= E[R] BY <1>1, <1>2
<1>4. PICK r \in 1 .. R : E[r - 1] < e /\ e <= E[r] BY <1>1, <1>3, Between
<1>5. ~(E[r - 1] < e /\ e < E[r]) BY DEF IsDump
<1>6. E[r] \in Nat
  <2>1. r \in 0 .. R BY <1>1
  <2> QED BY <1>1, <2>1
<1>7. e = E[r] BY <1>3, <1>4, <1>5, <1>6
<1> QED BY <1>7

\* The line of the r-th row, as far as the character behind its cells.
LEMMA DumpLine ==
    ASSUME NEW o, NEW T, NEW E, NEW O, NEW R, NEW f, IsDump(o, T, E, O, R, f), NEW r \in 1 .. R
    PROVE  \A k \in 1 .. 13 + 3 * DUMP_ROW : LineTo(o, E[r])[k] = o[E[r - 1] + k]
<1> DEFINE a == E[r - 1]
           b == E[r]
           c == 13 + 3 * DUMP_ROW
<1>1. R \in Nat /\ E \in [0 .. R -> Nat] /\ E[0] = 0 /\ E[R] = Len(o) /\ o \in Seq(T) BY DEF IsDump, AreOffsets
<1>2. r \in 0 .. R /\ r - 1 \in 0 .. R /\ r \in Nat BY <1>1
<1>3. a \in Nat /\ b \in Nat /\ Len(o) \in Nat BY <1>1, <1>2
<1>4. a + 13 + 3 * DUMP_ROW < b /\ b <= Len(o) BY DEF IsDump
<1>5. \A j \in 1 .. Len(o) : a < j /\ j < b => o[j] # NL BY DEF IsDump
<1>6. DUMP_ROW \in Nat BY HalfIs
<1>7. c \in Nat /\ a + c < b BY <1>3, <1>4, <1>6
<1>8. a \in Breaks(o, b)
  <2>1. CASE r = 1 BY <1>1, <2>1 DEF Breaks
  <2>2. CASE r # 1
    <3>1. r - 1 \in 1 .. R BY <1>2, <2>2
    <3>2. o[a] = NL /\ E[(r - 1) - 1] + 13 + 3 * DUMP_ROW < a BY <3>1 DEF IsDump
    <3>3. E[(r - 1) - 1] \in Nat
      <4>1. (r - 1) - 1 \in 0 .. R BY <1>1, <3>1
      <4> QED BY <1>1, <4>1
    <3> HIDE DEF a, b
    <3>4. a \in 1 .. Len(o) /\ a < b BY <1>3, <1>4, <1>6, <3>2, <3>3
    <3>5. a \in Newlines(o)
      <4>1. DOMAIN o = 1 .. Len(o) BY <1>1
      <4> QED BY <3>2, <3>4, <4>1 DEF Newlines
    <3> QED BY <3>4, <3>5 DEF Breaks
  <2> QED BY <2>1, <2>2
<1> HIDE DEF a, b, c
<1>9. \A y \in Breaks(o, b) : y \in Int /\ y <= a
  <2> SUFFICES ASSUME NEW y \in Breaks(o, b) PROVE y \in Int /\ y <= a OBVIOUS
  <2>1. CASE y = 0 BY <1>3, <2>1
  <2>2. CASE y \in Newlines(o) /\ y < b
    <3>1. y \in 1 .. Len(o) /\ o[y] = NL BY <1>1, <2>2 DEF Newlines
    <3>2. ~(a < y) BY <1>5, <2>2, <3>1
    <3> QED BY <1>3, <3>1, <3>2
  <2> QED BY <2>1, <2>2 DEF Breaks
<1>10. Start(o, b) = a BY <1>8, <1>9, MaxOf DEF Start
<1>11. b \in 1 .. Len(o) + 1 BY <1>3, <1>4, <1>6
<1>12. \A k \in 1 .. b - 1 - Start(o, b) : LineTo(o, b)[k] = o[Start(o, b) + k] BY <1>1, <1>11, LineIs
<1>13. \A k \in 1 .. b - 1 - a : LineTo(o, b)[k] = o[a + k] BY <1>10, <1>12
<1>14. \A k \in 1 .. c : k \in 1 .. b - 1 - a BY <1>3, <1>7
<1>15. \A k \in 1 .. c : LineTo(o, b)[k] = o[a + k] BY <1>13, <1>14
<1> QED BY <1>15 DEF a, b, c

\* Every row has its bar at the same place.
LEMMA DumpAligned ==
    ASSUME NEW o, NEW T, NEW E, NEW O, NEW R, NEW f, IsDump(o, T, E, O, R, f), NEW e \in Newlines(o)
    PROVE  LineTo(o, e)[13 + 3 * DUMP_ROW] = "|"
<1> DEFINE c == 13 + 3 * DUMP_ROW
<1>1. o \in Seq(T) BY DEF IsDump
<1>2. e \in 1 .. Len(o) /\ o[e] = NL BY <1>1 DEF Newlines
<1>3. PICK r \in 1 .. R : e = E[r] BY <1>2, DumpEnds
<1>4. DUMP_ROW \in Nat BY HalfIs
<1>5. c \in 1 .. c BY <1>4
<1>6. \A k \in 1 .. c : LineTo(o, E[r])[k] = o[E[r - 1] + k] BY DumpLine
<1>7. o[E[r - 1] + 13 + 3 * DUMP_ROW] = "|" BY DEF IsDump
<1>8. E[r - 1] + c = E[r - 1] + 13 + 3 * DUMP_ROW
  <2>1. R \in Nat /\ E \in [0 .. R -> Nat] BY DEF IsDump, AreOffsets
  <2>2. r - 1 \in 0 .. R BY <2>1
  <2>3. E[r - 1] \in Nat BY <2>1, <2>2
  <2> QED BY <1>4, <2>3
<1> HIDE DEF c
<1>9. LineTo(o, E[r])[c] = "|" BY <1>5, <1>6, <1>7, <1>8
<1> QED BY <1>3, <1>9 DEF c

\* What is read from a cell.
LEMMA CellRead ==
    ASSUME NEW o, NEW T, NEW E, NEW O, NEW R, NEW f, IsDump(o, T, E, O, R, f),
           NEW r \in 1 .. R, NEW i \in 1 .. DUMP_ROW
    PROVE  ReadCell(LineTo(o, E[r]), i) =
              IF O[r - 1] + i <= Len(f) THEN <<Code[f[O[r - 1] + i]]>> ELSE <<>>
<1> DEFINE ln == LineTo(o, E[r])
           at == CellAt(i)
           k == O[r - 1] + i
           a == E[r - 1]
<1>1. at \in Nat /\ at >= 1 /\ at + 1 < 13 + 3 * DUMP_ROW BY CellAtIs
<1>2. \A x \in 1 .. 13 + 3 * DUMP_ROW : ln[x] = o[a + x] BY DumpLine
<1>3. Says(o[a + at], o[a + at + 1], f, k) BY DEF IsDump
<1>4. ReadCell(ln, i) = IF ln[at] = " " THEN <<>> ELSE <<16 * ValueOf(ln[at]) + ValueOf(ln[at + 1])>>
  BY DEF ReadCell, CellAt
<1>5. a + (at + 1) = a + at + 1
  <2>1. R \in Nat /\ E \in [0 .. R -> Nat] BY DEF IsDump, AreOffsets
  <2>2. r - 1 \in 0 .. R BY <2>1
  <2>3. E[r - 1] \in Nat BY <2>1, <2>2
  <2> QED BY <1>1, <2>3
<1>6. DUMP_ROW \in Nat BY HalfIs
<1> HIDE DEF ln, at, k, a
<1>7. at \in 1 .. 13 + 3 * DUMP_ROW /\ at + 1 \in 1 .. 13 + 3 * DUMP_ROW BY <1>1, <1>6
<1>8. ln[at] = o[a + at] /\ ln[at + 1] = o[a + at + 1] BY <1>2, <1>5, <1>7
<1>9. Says(ln[at], ln[at + 1], f, k) BY <1>3, <1>8
<1>10. CASE k <= Len(f)
  <2>1. ln[at] # " " /\ 16 * ValueOf(ln[at]) + ValueOf(ln[at + 1]) = Code[f[k]] BY <1>9, <1>10 DEF Says
  <2>2. ReadCell(ln, i) = <<Code[f[k]]>> BY <1>4, <2>1
  <2> QED BY <1>10, <2>2 DEF ln, k
<1>11. CASE ~(k <= Len(f))
  <2>1. ln[at] = " " BY <1>9, <1>11 DEF Says
  <2>2. ReadCell(ln, i) = <<>> BY <1>4, <2>1
  <2> QED BY <1>11, <2>2 DEF ln, k
<1> QED BY <1>10, <1>11

Byte == 0 .. 255

\* The bytes behind offset off, as many as a row has.
RowBytes(f, off) ==
    FlattenSeq([i \in 1 .. DUMP_ROW |-> IF off + i <= Len(f) THEN <<Code[f[off + i]]>> ELSE <<>>])

IsPart(x, f, off) ==
    /\ x \in Seq(Byte) /\ Len(x) = (IF off + DUMP_ROW <= Len(f) THEN DUMP_ROW ELSE Len(f) - off)
    /\ \A j \in 1 .. Len(x) : x[j] = Code[f[off + j]]

LEMMA PartIs ==
    ASSUME NEW C, NEW f \in Seq(C), AreBytes(f), NEW off \in Nat, off < Len(f)
    PROVE  IsPart(RowBytes(f, off), f, off)
<1> DEFINE D == DUMP_ROW
           n == Len(f)
           ss == [i \in 1 .. D |-> IF off + i <= Len(f) THEN <<Code[f[off + i]]>> ELSE <<>>]
           x == FlattenSeq(ss)
           Till(i) == IF off + i <= n THEN i ELSE n - off
<1>1. D \in Nat \ {0} /\ n \in Nat BY HalfIs
<1>2. RowBytes(f, off) = x BY DEF RowBytes
<1>3. ASSUME NEW i \in 1 .. D, off + i <= n
      PROVE  ss[i] \in Seq(Byte) /\ Len(ss[i]) = 1 /\ ss[i][1] = Code[f[off + i]]
  <2> DEFINE c == Code[f[off + i]]
  <2>1. off + i \in 1 .. n BY <1>1, <1>3
  <2>2. off + i \in DOMAIN f BY <2>1
  <2>3. c \in Byte BY <2>2, Zenon DEF AreBytes, Byte
  <2>4. ss[i] = <<c>> BY <1>3
  <2> HIDE DEF c, ss
  <2>5. <<c>> \in Seq(Byte) /\ Len(<<c>>) = 1 /\ <<c>>[1] = c BY <2>3, Singly
  <2> QED BY <2>4, <2>5 DEF c
<1>4. ASSUME NEW i \in 1 .. D, ~(off + i <= n) PROVE ss[i] \in Seq(Byte) /\ Len(ss[i]) = 0
  <2>1. ss[i] = <<>> BY <1>4
  <2> HIDE DEF ss
  <2> QED BY <2>1
<1>5. ss = [i \in 1 .. D |-> ss[i]] OBVIOUS
<1> HIDE DEF ss, D, n
<1>6. ss \in Seq(Seq(Byte)) /\ Len(ss) = D /\ ss # <<>>
  <2> DEFINE Q == Seq(Byte)
  <2>1. \A i \in 1 .. D : ss[i] \in Q BY <1>3, <1>4
  <2> HIDE DEF Q
  <2>2. ss \in Seq(Q) /\ Len(ss) = D BY <1>1, <1>5, <2>1
  <2>3. ss # <<>> BY <1>1, <2>2
  <2> QED BY <2>2, <2>3 DEF Q
<1>7. x \in Seq(Byte) BY <1>6, FlattenLaid
<1>8. PICK e : Laid(e, ss, x) BY <1>6, FlattenLaid
<1> HIDE DEF x
<1>9. e \in [0 .. D -> Nat] /\ e[0] = 0 /\ Len(x) = e[D] BY <1>6, <1>8 DEF Laid
<1>10. \A i \in 1 .. D : e[i] = e[i - 1] + Len(ss[i]) BY <1>6, <1>8 DEF Laid
<1>11. \A i \in 1 .. D : \A y \in 1 .. Len(ss[i]) : x[e[i - 1] + y] = ss[i][y] BY <1>6, <1>8 DEF Laid
<1>0. off < n BY DEF n
<1>12. \A i \in 0 .. D : e[i] = Till(i)
  <2> DEFINE S == {i \in 0 .. D : e[i] = Till(i)}
  <2>1. 0 \in S BY <1>0, <1>1, <1>9
  <2>2. ASSUME NEW i \in 0 .. D - 1, i \in S PROVE i + 1 \in S
    <3>1. i + 1 \in 1 .. D /\ (i + 1) - 1 = i /\ i \in Nat /\ i + 1 \in 0 .. D BY <1>1
    <3>2. e[i + 1] = e[i] + Len(ss[i + 1]) BY <1>10, <3>1
    <3>3. e[i] = Till(i) BY <2>2
    <3>4. CASE off + (i + 1) <= n
      <4>1. Len(ss[i + 1]) = 1 BY <1>3, <3>1, <3>4
      <4>2. e[i + 1] = Till(i + 1) BY <1>1, <3>1, <3>2, <3>3, <3>4, <4>1
      <4> QED BY <3>1, <4>2
    <3>5. CASE ~(off + (i + 1) <= n)
      <4>1. Len(ss[i + 1]) = 0 BY <1>4, <3>1, <3>5
      <4>2. e[i + 1] = Till(i + 1) BY <1>1, <3>1, <3>2, <3>3, <3>5, <4>1
      <4> QED BY <3>1, <4>2
    <3> QED BY <3>4, <3>5
  <2>3. 0 \in Nat /\ D \in Nat BY <1>1
  <2> HIDE DEF S
  <2>4. \A i \in 0 .. D : i \in S BY <2>1, <2>2, <2>3, RangeInduction
  <2> QED BY <2>4 DEF S
<1>13. Len(x) = IF off + D <= n THEN D ELSE n - off
  <2>1. D \in 0 .. D BY <1>1
  <2> QED BY <1>9, <1>12, <2>1
<1>14. ASSUME NEW j \in 1 .. Len(x) PROVE x[j] = Code[f[off + j]]
  <2>1. j \in 1 .. D /\ off + j <= n /\ j - 1 \in 0 .. D /\ off + (j - 1) <= n BY <1>0, <1>1, <1>13
  <2>2. e[j - 1] = j - 1 BY <1>12, <2>1
  <2>3. Len(ss[j]) = 1 /\ ss[j][1] = Code[f[off + j]] BY <1>3, <2>1
  <2>4. 1 \in 1 .. Len(ss[j]) /\ e[j - 1] + 1 = j BY <2>1, <2>2, <2>3
  <2>5. x[e[j - 1] + 1] = ss[j][1] BY <1>11, <2>1, <2>4
  <2> QED BY <2>3, <2>4, <2>5
<1>15. IsPart(x, f, off) BY <1>7, <1>13, <1>14 DEF IsPart, D, n
<1> QED BY <1>2, <1>15

\* What a row is read as.
ReadRow(ln) == FlattenSeq([i \in 1 .. DUMP_ROW |-> ReadCell(ln, i)])

LEMMA RowRead ==
    ASSUME NEW o, NEW T, NEW E, NEW O, NEW R, NEW f, IsDump(o, T, E, O, R, f), NEW r \in 1 .. R
    PROVE  ReadRow(LineTo(o, E[r])) = RowBytes(f, O[r - 1])
<1> DEFINE a == [i \in 1 .. DUMP_ROW |-> ReadCell(LineTo(o, E[r]), i)]
           k == O[r - 1]
           b == [i \in 1 .. DUMP_ROW |-> IF k + i <= Len(f) THEN <<Code[f[k + i]]>> ELSE <<>>]
<1>1. \A i \in 1 .. DUMP_ROW : ReadCell(LineTo(o, E[r]), i) = IF k + i <= Len(f) THEN <<Code[f[k + i]]>> ELSE <<>>
  BY CellRead
<1>2. a = b BY <1>1
<1>3. ReadRow(LineTo(o, E[r])) = FlattenSeq(a) BY DEF ReadRow
<1>4. RowBytes(f, k) = FlattenSeq(b) BY DEF RowBytes
<1> QED BY <1>2, <1>3, <1>4

\* Reading a dump goes through the bytes of the file.
LEMMA DumpRead ==
    ASSUME NEW C, NEW f \in Seq(C), AreBytes(f),
           NEW o, NEW T, NEW E, NEW O, NEW R, IsDump(o, T, E, O, R, f)
    PROVE  ReadBack(o) = [i \in DOMAIN f |-> Code[f[i]]]
<1> DEFINE n == Len(f)
           D == DUMP_ROW
           z == [i \in 1 .. n |-> Code[f[i]]]
           tt == [e \in DOMAIN o |-> IF o[e] = NL THEN ReadRow(LineTo(o, e)) ELSE <<>>]
           y == FlattenSeq(tt)
           N == Len(o)
<1>1. R \in Nat /\ o \in Seq(T) /\ E \in [0 .. R -> Nat] /\ E[0] = 0 /\ E[R] = N BY DEF IsDump, AreOffsets
<1>2. O \in [0 .. R -> Nat] /\ O[0] = 0 /\ O[R] >= n /\ (n = 0 <=> R = 0) BY DEF IsDump, AreOffsets
<1>3. \A r \in 1 .. R : O[r] = O[r - 1] + D /\ O[r - 1] < n BY DEF IsDump, AreOffsets
<1>4. D \in Nat \ {0} /\ n \in Nat /\ N \in Nat /\ DOMAIN o = 1 .. N BY <1>1, HalfIs
<1>5. ReadBack(o) = y BY DEF ReadBack, ReadRow
<1>6. DOMAIN f = 1 .. n OBVIOUS
<1>7. z \in Seq(Byte) /\ Len(z) = n /\ \A i \in 1 .. n : z[i] = Code[f[i]]
  <2>1. \A i \in 1 .. n : Code[f[i]] \in Byte BY <1>6, Zenon DEF AreBytes, Byte
  <2>2. \A i \in 1 .. n : z[i] = Code[f[i]] OBVIOUS
  <2>3. z = [i \in 1 .. n |-> z[i]] OBVIOUS
  <2>4. \A i \in 1 .. n : z[i] \in Byte BY <2>1, <2>2, Zenon
  <2> HIDE DEF z, n
  <2>5. z \in Seq(Byte) /\ Len(z) = n BY <1>4, <2>3, <2>4
  <2> QED BY <2>2, <2>5
<1>8. \A e \in 1 .. N : o[e] # NL => tt[e] = <<>> BY <1>4
<1>9. ASSUME NEW r \in 1 .. R
      PROVE  /\ r \in 0 .. R /\ r - 1 \in 0 .. R /\ E[r] \in 1 .. N /\ E[r - 1] \in Nat /\ O[r - 1] \in Nat
             /\ E[r - 1] < E[r] /\ O[r - 1] < n /\ o[E[r]] = NL
  <2>1. r \in 0 .. R /\ r - 1 \in 0 .. R BY <1>1
  <2>2. E[r] \in Nat /\ E[r - 1] \in Nat /\ O[r - 1] \in Nat BY <1>1, <1>2, <2>1
  <2>3. E[r - 1] + 13 + 3 * DUMP_ROW < E[r] /\ E[r] <= N /\ o[E[r]] = NL BY DEF IsDump
  <2>4. E[r] \in 1 .. N /\ E[r - 1] < E[r] BY <1>4, <2>2, <2>3
  <2> QED BY <1>3, <2>1, <2>2, <2>3, <2>4
<1>10. ASSUME NEW r \in 1 .. R PROVE IsPart(tt[E[r]], f, O[r - 1])
  <2>1. E[r] \in 1 .. N /\ o[E[r]] = NL /\ O[r - 1] \in Nat /\ O[r - 1] < Len(f) BY <1>9
  <2>2. tt[E[r]] = ReadRow(LineTo(o, E[r])) BY <1>4, <2>1
  <2>3. ReadRow(LineTo(o, E[r])) = RowBytes(f, O[r - 1]) BY RowRead
  <2> DEFINE k == O[r - 1]
  <2>4. k \in Nat /\ k < Len(f) BY <2>1
  <2> HIDE DEF k, tt
  <2>5. IsPart(RowBytes(f, k), f, k) BY <2>4, PartIs
  <2> QED BY <2>2, <2>3, <2>5 DEF k
<1>11. ASSUME NEW e \in 1 .. N PROVE tt[e] \in Seq(Byte)
  <2>1. CASE o[e] # NL
    <3>1. tt[e] = <<>> BY <1>8, <2>1
    <3> HIDE DEF tt
    <3> QED BY <3>1
  <2>2. CASE o[e] = NL
    <3>1. PICK r \in 1 .. R : e = E[r] BY <2>2, DumpEnds
    <3>2. IsPart(tt[e], f, O[r - 1]) BY <1>10, <3>1
    <3> HIDE DEF tt
    <3> QED BY <3>2 DEF IsPart
  <2> QED BY <2>1, <2>2
<1>12. tt = [e \in 1 .. N |-> tt[e]] BY <1>4
<1> HIDE DEF tt, z, N, n, D
<1>13. tt \in Seq(Seq(Byte)) /\ Len(tt) = N
  <2> DEFINE Q == Seq(Byte)
  <2>1. \A i \in 1 .. N : tt[i] \in Q BY <1>11
  <2> HIDE DEF Q
  <2> QED BY <1>4, <1>12, <2>1 DEF Q
<1>14. CASE R = 0
  <2>1. N = 0 /\ n = 0 BY <1>1, <1>2, <1>14
  <2>2. y = tt BY <1>13, <2>1 DEF FlattenSeq
  <2>3. tt = <<>> /\ z = <<>> BY <1>7, <1>13, <2>1
  <2> QED BY <1>5, <1>6, <2>2, <2>3 DEF z
<1>15. CASE R # 0
  <2>0. R \in 1 .. R BY <1>1, <1>15
  <2>1. tt # <<>>
    <3>1. E[R] \in 1 .. N BY <1>9, <2>0
    <3>2. N # 0 BY <1>4, <3>1
    <3> QED BY <1>13, <3>2
  <2>2. y \in Seq(Byte) BY <1>13, <2>1, FlattenLaid
  <2>3. PICK e : Laid(e, tt, y) BY <1>13, <2>1, FlattenLaid
  <2> HIDE DEF y
  <2>4. e \in [0 .. N -> Nat] /\ e[0] = 0 /\ Len(y) = e[N] BY <1>13, <2>3 DEF Laid
  <2>5. \A i \in 1 .. N : e[i] = e[i - 1] + Len(tt[i]) BY <1>13, <2>3 DEF Laid
  <2>6. \A i \in 1 .. N : \A x \in 1 .. Len(tt[i]) : y[e[i - 1] + x] = tt[i][x] BY <1>13, <2>3 DEF Laid
  <2>7. ASSUME NEW p0 \in 0 .. N, NEW r \in 1 .. R, E[r - 1] <= p0, p0 < E[r] PROVE e[p0] = O[r - 1]
    <3> DEFINE S == {q \in 0 .. N : \A s \in 1 .. R : E[s - 1] <= q /\ q < E[s] => e[q] = O[s - 1]}
    <3>1. 0 \in S
      <4> SUFFICES ASSUME NEW s \in 1 .. R, E[s - 1] <= 0 PROVE e[0] = O[s - 1] BY <1>4
      <4>1. CASE s = 1 BY <1>2, <2>4, <4>1
      <4>2. CASE s # 1
        <5>1. s - 1 \in 1 .. R BY <1>1, <4>2
        <5>2. E[s - 1] \in 1 .. N BY <1>9, <5>1
        <5> QED BY <1>4, <5>2
      <4> QED BY <4>1, <4>2
    <3>2. ASSUME NEW q \in 0 .. N - 1, q \in S PROVE q + 1 \in S
      <4>1. q + 1 \in 1 .. N /\ (q + 1) - 1 = q /\ q \in Nat /\ q + 1 \in 0 .. N BY <1>4
      <4>2. e[q + 1] = e[q] + Len(tt[q + 1]) /\ e[q] \in Nat
        <5>1. e[q + 1] = e[(q + 1) - 1] + Len(tt[q + 1]) BY <2>5, <4>1
        <5>2. q \in 0 .. N BY <1>4
        <5>3. e[q] \in Nat BY <2>4, <5>2
        <5> QED BY <4>1, <5>1, <5>3
      <4>3. ASSUME NEW s \in 1 .. R, E[s - 1] <= q + 1, q + 1 < E[s] PROVE e[q + 1] = O[s - 1]
        <5>1. E[s - 1] \in Nat /\ E[s] \in 1 .. N /\ E[s - 1] < E[s] BY <1>9
        <5>2. CASE E[s - 1] = q + 1
          <6>1. s # 1 BY <1>1, <4>1, <5>2
          <6>2. s - 1 \in 1 .. R BY <1>1, <6>1
          <6> DEFINE t == s - 1
          <6>3. t \in 1 .. R /\ E[t] = q + 1 BY <5>2, <6>2
          <6> HIDE DEF t
          <6>4. E[t - 1] < E[t] /\ E[t - 1] \in Nat /\ O[t - 1] \in Nat BY <1>9, <6>3
          <6>5. E[t - 1] <= q /\ q < E[t] BY <4>1, <6>3, <6>4
          <6>6. e[q] = O[t - 1] BY <3>2, <6>3, <6>5
          <6>7. IsPart(tt[q + 1], f, O[t - 1]) BY <1>10, <6>3
          <6>8. O[t - 1] + D < n
            <7>1. O[s - 1] < n BY <1>9
            <7>2. O[t] = O[t - 1] + D BY <1>3, <6>3
            <7> QED BY <7>1, <7>2 DEF t
          <6>9. Len(tt[q + 1]) = D
            <7>1. O[t - 1] + D <= n BY <1>4, <6>4, <6>8
            <7> QED BY <6>7, <7>1 DEF IsPart, D, n
          <6>10. O[t] = O[t - 1] + D BY <1>3, <6>3
          <6> QED BY <4>2, <6>6, <6>9, <6>10 DEF t
        <5>3. CASE E[s - 1] < q + 1
          <6>1. E[s - 1] <= q /\ q < E[s] BY <4>1, <4>3, <5>1, <5>3
          <6>2. e[q] = O[s - 1] BY <3>2, <6>1
          <6>3. o[q + 1] # NL
            <7>1. \A j \in 1 .. Len(o) : E[s - 1] < j /\ j < E[s] => o[j] # NL BY DEF IsDump
            <7>2. q + 1 \in 1 .. Len(o) BY <4>1 DEF N
            <7> QED BY <4>3, <5>3, <7>1, <7>2
          <6>4. tt[q + 1] = <<>> BY <1>8, <4>1, <6>3
          <6>5. Len(tt[q + 1]) = 0 BY <6>4
          <6> QED BY <4>2, <6>2, <6>5
        <5> QED BY <4>1, <4>3, <5>1, <5>2, <5>3
      <4> QED BY <4>1, <4>3
    <3>3. 0 \in Nat /\ N \in Nat BY <1>4
    <3> HIDE DEF S
    <3>4. \A q \in 0 .. N : q \in S BY <3>1, <3>2, <3>3, RangeInduction
    <3> QED BY <2>7, <3>4 DEF S
  <2>8. ASSUME NEW r \in 1 .. R
        PROVE  /\ e[E[r] - 1] = O[r - 1] /\ e[E[r]] = O[r - 1] + Len(tt[E[r]])
               /\ \A x \in 1 .. Len(tt[E[r]]) : y[O[r - 1] + x] = Code[f[O[r - 1] + x]]
    <3>1. E[r] \in 1 .. N /\ E[r - 1] \in Nat /\ E[r - 1] < E[r] BY <1>9
    <3>2. E[r] - 1 \in 0 .. N /\ E[r - 1] <= E[r] - 1 /\ E[r] - 1 < E[r] BY <1>4, <3>1
    <3>3. e[E[r] - 1] = O[r - 1] BY <2>7, <3>2
    <3>4. e[E[r]] = e[E[r] - 1] + Len(tt[E[r]]) BY <2>5, <3>1
    <3>5. \A x \in 1 .. Len(tt[E[r]]) : y[e[E[r] - 1] + x] = tt[E[r]][x] BY <2>6, <3>1
    <3>6. IsPart(tt[E[r]], f, O[r - 1]) BY <1>10
    <3>7. \A x \in 1 .. Len(tt[E[r]]) : tt[E[r]][x] = Code[f[O[r - 1] + x]] BY <3>6 DEF IsPart
    <3> QED BY <3>3, <3>4, <3>5, <3>7
  <2>9. ASSUME NEW r \in 1 .. R
        PROVE  Len(tt[E[r]]) = IF O[r] <= n THEN D ELSE n - O[r - 1]
    <3>1. IsPart(tt[E[r]], f, O[r - 1]) BY <1>10
    <3>2. O[r] = O[r - 1] + D BY <1>3
    <3> QED BY <3>1, <3>2 DEF IsPart, D, n
  <2>10. Len(y) = n
    <3>1. e[E[R]] = O[R - 1] + Len(tt[E[R]]) BY <2>0, <2>8
    <3>2. Len(tt[E[R]]) = IF O[R] <= n THEN D ELSE n - O[R - 1] BY <2>0, <2>9
    <3>3. O[R] = O[R - 1] + D /\ O[R - 1] \in Nat BY <1>3, <1>9, <2>0
    <3>4. Len(y) = e[E[R]] BY <1>1, <2>4
    <3> QED BY <1>2, <1>4, <3>1, <3>2, <3>3, <3>4
  <2>11. ASSUME NEW j \in 1 .. n PROVE y[j] = z[j]
    <3>1. j \in Nat \ {0} /\ j <= O[R]
      <4>1. O[R] \in Nat
        <5>1. R \in 0 .. R BY <1>1
        <5> QED BY <1>2, <5>1
      <4> QED BY <1>2, <1>4, <4>1
    <3>2. PICK r \in 1 .. R : O[r - 1] < j /\ j <= O[r] BY <1>1, <1>2, <3>1, Between
    <3>3. O[r - 1] \in Nat /\ O[r] = O[r - 1] + D BY <1>3, <1>9
    <3>4. Len(tt[E[r]]) = IF O[r] <= n THEN D ELSE n - O[r - 1] BY <2>9
    <3> DEFINE x == j - O[r - 1]
    <3>5. x \in 1 .. Len(tt[E[r]]) /\ O[r - 1] + x = j BY <1>4, <3>1, <3>2, <3>3, <3>4
    <3> HIDE DEF x
    <3>6. y[O[r - 1] + x] = Code[f[O[r - 1] + x]] BY <2>8, <3>5
    <3>7. z[j] = Code[f[j]] BY <1>7
    <3> QED BY <3>5, <3>6, <3>7
  <2>12. y = z BY <1>7, <2>2, <2>10, <2>11, SeqEqual
  <2> QED BY <1>5, <1>6, <2>12 DEF z
<1> QED BY <1>14, <1>15

\* What cmd_hexdump() prints reads back as the bytes of the file, whatever the file
\* and the length of a row are, and the bar stands in the same column of every row.
THEOREM DumpIsExact ==
    ASSUME NEW C, NEW f \in Seq(C), AreBytes(f), Code[NL] = 10, Len(f) < SizeMax
    PROVE  /\ ReadBack(FlattenSeq(Rows(f))) = [i \in DOMAIN f |-> Code[f[i]]]
           /\ \A e \in Newlines(FlattenSeq(Rows(f))) :
                 LineTo(FlattenSeq(Rows(f)), e)[13 + 3 * DUMP_ROW] = "|"
<1> DEFINE o == FlattenSeq(Rows(f))
<1>1. PICK T, E, O, R : IsDump(o, T, E, O, R, f) BY DumpIs
<1> HIDE DEF o
<1>2. ReadBack(o) = [i \in DOMAIN f |-> Code[f[i]]] BY <1>1, DumpRead
<1>3. \A e \in Newlines(o) : LineTo(o, e)[13 + 3 * DUMP_ROW] = "|" BY <1>1, DumpAligned
<1> QED BY <1>2, <1>3 DEF o

LEMMA HexdumpTells ==
    ASSUME NEW ws, AreWords(ws), NEW C, NEW f \in Seq(C), AreBytes(f), Code[NL] = 10, Len(f) < SizeMax
    PROVE  HexdumpExact(ws, f, cmd_hexdump(ws, f))
<1> SUFFICES ASSUME Len(ws) > 1, ws[2] \in FileNames
             PROVE  /\ ReadBack(cmd_hexdump(ws, f)) = [i \in DOMAIN f |-> Code[f[i]]]
                    /\ \A e \in Newlines(cmd_hexdump(ws, f)) :
                          LineTo(cmd_hexdump(ws, f), e)[13 + 3 * DUMP_ROW] = "|"
  BY DEF HexdumpExact
<1>1. ~(Len(ws) < 2) BY DEF AreWords
<1>2. cmd_hexdump(ws, f) = FlattenSeq(Rows(f)) BY <1>1 DEF cmd_hexdump, want_file
<1> QED BY <1>2, DumpIsExact

\* What every command prints is what its documentation says.
Told(w, f, o) == WcExact(w, f, o) /\ GrepExact(w, f, o) /\ HeadExact(w, f, o) /\ HexdumpExact(w, f, o)

LEMMA OutputTells ==
    ASSUME CInv, argv # <<>>, NEW f \in Files
    PROVE  Told(Words, f, Output(f))
<1> DEFINE T == STRING
           w == Words[1]
           o == Output(f)
           wc == <<"w", "c">>
           grep == <<"g", "r", "e", "p">>
           hd == <<"h", "e", "a", "d">>
           dump == <<"h", "e", "x", "d", "u", "m", "p">>
<1>1. AreWords(Words) /\ w = Word(1) BY WordsAre
<1>2. f \in Seq(T) /\ AreBytes(f) BY FileAssumption DEF AreBytes
<1>3. Code[NL] = 10 /\ Len(f) < SizeMax
  <2>1. Code[NL] = 10 /\ Len(f) \div 65536 < 65536 BY SizeAssumption
  <2> DEFINE l == Len(f)
  <2>2. l \in Nat BY <1>2
  <2> HIDE DEF l
  <2>3. l \div 65536 < 65536 => l < 65536 * 65536 BY <2>2
  <2> QED BY <2>1, <2>3 DEF SizeMax, l
<1>4. wc # grep /\ wc # hd /\ wc # dump /\ grep # hd /\ grep # dump /\ hd # dump
  <2>1. Len(wc) = 2 /\ Len(grep) = 4 /\ Len(hd) = 4 /\ Len(dump) = 7 OBVIOUS
  <2>2. grep[1] = "g" /\ hd[1] = "h" OBVIOUS
  <2>3. "g" # "h" /\ 2 # 4 /\ 2 # 7 /\ 4 # 7 OBVIOUS
  <2> HIDE DEF wc, grep, hd, dump
  <2>4. wc # grep /\ wc # hd /\ wc # dump /\ grep # dump /\ hd # dump BY <2>1, <2>3, Zenon
  <2>5. grep # hd BY <2>2, <2>3, Zenon
  <2> QED BY <2>4, <2>5
<1>5. o = CASE w = wc -> cmd_wc(Words, f) [] w = grep -> cmd_grep(Words, f) [] w = hd -> cmd_head(Words, f)
            [] w = dump -> cmd_hexdump(Words, f) [] OTHER -> cmd_echo(Words)
  BY <1>1 DEF Output
<1> HIDE DEF T, o, wc, grep, hd, dump, w
<1>6. WcExact(Words, f, o)
  <2>1. CASE w = wc
    <3>1. o = cmd_wc(Words, f) BY <1>4, <1>5, <2>1
    <3>2. WcExact(Words, f, cmd_wc(Words, f)) BY <1>1, <1>2, WcTells
    <3> QED BY <3>1, <3>2
  <2>2. CASE w # wc BY <2>2, Zenon DEF WcExact, w, wc
  <2> QED BY <2>1, <2>2
<1>7. GrepExact(Words, f, o)
  <2>1. CASE w = grep
    <3>1. o = cmd_grep(Words, f) BY <1>4, <1>5, <2>1
    <3>2. GrepExact(Words, f, cmd_grep(Words, f)) BY <1>2, GrepTells
    <3> QED BY <3>1, <3>2
  <2>2. CASE w # grep BY <2>2, Zenon DEF GrepExact, w, grep
  <2> QED BY <2>1, <2>2
<1>8. HeadExact(Words, f, o)
  <2>1. CASE w = hd
    <3>1. o = cmd_head(Words, f) BY <1>4, <1>5, <2>1
    <3>2. HeadExact(Words, f, cmd_head(Words, f)) BY <1>1, <1>2, HeadTells
    <3> QED BY <3>1, <3>2
  <2>2. CASE w # hd BY <2>2, Zenon DEF HeadExact, IsHead, w, hd
  <2> QED BY <2>1, <2>2
<1>9. HexdumpExact(Words, f, o)
  <2>1. CASE w = dump
    <3>1. o = cmd_hexdump(Words, f) BY <1>4, <1>5, <2>1
    <3>2. HexdumpExact(Words, f, cmd_hexdump(Words, f)) BY <1>1, <1>2, <1>3, HexdumpTells
    <3> QED BY <3>1, <3>2
  <2>2. CASE w # dump BY <2>2, Zenon DEF HexdumpExact, w, dump
  <2> QED BY <2>1, <2>2
<1> QED BY <1>6, <1>7, <1>8, <1>9 DEF Told, o

LEMMA ToolsStep == ASSUME CInv, Named, ToolsExact, [CmdNext]_cmdvars PROVE ToolsExact'
<1>1. ASSUME NEW given, NEW list, execute(given, list) PROVE ToolsExact'
  <2>1. ~ran'.done BY <1>1 DEF execute, NotRun
  <2> QED BY <2>1 DEF ToolsExact
<1>2. ASSUME ran' = ran PROVE ToolsExact' BY <1>2 DEF ToolsExact
<1>3. CASE Run
  <2>1. pc = "run" BY <1>3 DEF Run
  <2>2. argv # <<>> BY <2>1 DEF Named
  <2>3. PICK f \in Files : ran' = [argv |-> Words, file |-> f, output |-> Output(f), done |-> TRUE] BY <1>3 DEF Run
  <2>4. Told(Words, f, Output(f)) BY <2>2, OutputTells
  <2>5. ran'.argv = Words /\ ran'.file = f /\ ran'.output = Output(f) BY <2>3
  <2>6. Told(ran'.argv, ran'.file, ran'.output) BY <2>4, <2>5
  <2> QED BY <2>6 DEF ToolsExact, Told
<1>4. ASSUME NEW pieces, kprintf(pieces) PROVE ran' = ran BY <1>4 DEF kprintf
<1>5. NextWord \/ NoMoreWords \/ Operator => ran' = ran
  BY DEF NextWord, NoMoreWords, Operator, Parsed, Say, aux
<1>6. NotFound \/ NoMemory \/ Begin \/ redirect_to_file \/ Die => ran' = ran
  BY DEF NotFound, NoMemory, Begin, redirect_to_file, Die, Say, aux
<1>7. halt_forever \/ UNCHANGED cmdvars => ran' = ran BY DEF halt_forever, cmdvars, aux
<1> QED BY <1>1, <1>2, <1>3, <1>4, <1>5, <1>6, <1>7 DEF CmdNext

\* The tools print what COMMANDS.md says, for every file and every size of the
\* buffers and of a dump's row, with two limits that are the code's own and part
\* of the statement: grep takes of a line what its buffer holds, and head's number
\* has at most nine digits (cmd_wc, cmd_grep, cmd_head, cmd_hexdump).
THEOREM ToolsAreExact == CmdSpec => []ToolsExact
<1> DEFINE Inv == CInv /\ KInv /\ Named /\ ToolsExact
<1>1. CmdInit => Inv BY CmdInitHolds, KInitHolds DEF Named, CmdInit, ToolsExact, NotRun
<1>2. Inv /\ [CmdNext]_cmdvars => Inv' BY CommandStep, ToolsStep
<1>3. Inv => ToolsExact OBVIOUS
<1> QED BY <1>1, <1>2, <1>3, PTL DEF CmdSpec
=============================================================================
