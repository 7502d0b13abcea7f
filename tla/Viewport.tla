------------------------------ MODULE Viewport ------------------------------
(* How the line editor draws itself (cli/editor.ts: layout, viewport,             *)
(* renderEditor, clearBlock, and the draw, clear, cycle-mode and finish of         *)
(* Editor.read): how many rows the input takes, which of them are drawn when the  *)
(* window is too small, on which the cursor is left, and how far up the next       *)
(* redraw goes. One row too far and it erases what is above.                     *)
(*                                                                           *)
(* What is drawn are lines, each ended by a newline; the terminal breaks one that  *)
(* is wider than its window, and a terminal that reflows breaks it anew when the   *)
(* window changes. A line is a number of characters, all of one width: 1, or 2 for *)
(* the wide ones.                                                              *)
EXTENDS Integers, Sequences

CONSTANTS Inputs,      \* what the editor may hold when it draws
          Windows,     \* the terminals: columns, rows, whether it reflows; "none", "rule" or "box"
          Prompts,     \* the widths of the prompt, which has the mode in it
          Continuation, \* the width of what is before the lines that follow
          Gutter,      \* what a box takes from the width
          SearchLabel  \* the width of what stands for the prompt in a search

Undrawn == -1

ASSUME WindowsAssumption ==
  /\ \A w \in Windows : /\ w.columns \in Nat \ {0} /\ w.rows \in Nat \ {0} /\ w.reflows \in BOOLEAN
                        /\ w.chrome \in {"none", "rule", "box"}
  /\ Prompts \subseteq Nat /\ Continuation \in Nat /\ Gutter \in Nat /\ SearchLabel \in Nat

\* What an EditorState is, with the prompt of its mode: a buffer with the cursor in
\* it, a menu of suggestions of one width or none, or a search that found an entry.
ASSUME InputsAssumption ==
  \A e \in Inputs :
    /\ e.lines \in Seq(Nat) /\ e.row \in 1..Len(e.lines) /\ e.col \in 0..e.lines[e.row]
    /\ e.menu \in Nat /\ (e.menu > 0 => e.menuAt \in 0..(e.menu - 1)) /\ e.menuAt \in Nat /\ e.item \in Nat
    /\ e.width \in {1, 2} /\ e.prompt \in Prompts /\ e.search \in BOOLEAN /\ e.found \in Nat

VARIABLES input,     \* lines, row, col; menu, menuAt, item; width of a character; prompt; search, found
          window,
          painted,   \* the widths of the lines that are drawn
          drawnIn,   \* the window they were drawn in
          spot,      \* the cursor's cell: a line of them, and how far on it
          parked,    \* the row of the block the terminal's cursor is on
          kept,      \* the row the editor believes it is on: cursorRow in read()
          strayed,   \* how far below the block's first row the last redraw began
          clearing   \* and the last clearing

viewVars == <<input, window, painted, drawnIn, spot, parked, kept, strayed, clearing>>

-----------------------------------------------------------------------------
(* layout.                                                                     *)

Least(a, b) == IF a <= b THEN a ELSE b
Most(a, b) == IF a <= b THEN b ELSE a
RoundedUp(n, d) == (n + d - 1) \div d

\* The first of lines 1, 2, ... of these heights is on row 0: the row of line i.
Top(heights, i) ==
  LET sum[n \in 0..(i - 1)] == IF n = 0 THEN 0 ELSE sum[n - 1] + heights[n]
  IN sum[i - 1]

\* columns() and rows() of main.ts: a size too small is taken for an unknown one.
ToldColumns(w) == IF w.columns > 20 THEN w.columns ELSE 80
ToldRows(w) == IF w.rows > 4 THEN w.rows ELSE 24

Columns(w) == IF w.chrome = "box" THEN Most(8, ToldColumns(w) - Gutter) ELSE ToldColumns(w)

\* What is before line i.
Prefix(e, i) == IF i = 1 THEN e.prompt ELSE Continuation

\* chunkByColumns: characters on the row that has the prefix, and on the others.
OnFirst(n, prefix, columns, width) == Least(n, Most(1, Most(1, columns - prefix) \div width))
OnRest(columns, width) == Most(1, columns \div width)

\* The rows of a line: a last one that is full to the edge has an empty one after it.
RowsOf(n, prefix, columns, width) ==
  LET first == OnFirst(n, prefix, columns, width)
      rest  == n - first
      per   == OnRest(columns, width)
      last  == IF rest = 0 THEN prefix + first * width ELSE (rest - (RoundedUp(rest, per) - 1) * per) * width
  IN 1 + RoundedUp(rest, per) + (IF last >= columns THEN 1 ELSE 0)

RowsBefore(e, i, columns) ==
  Top([n \in 1..Len(e.lines) |-> RowsOf(e.lines[n], Prefix(e, n), columns, e.width)], i)

\* How wide row k of a line is, and row r of the input.
WidthOf(n, prefix, columns, width, k) ==
  LET first == OnFirst(n, prefix, columns, width)
      per   == OnRest(columns, width)
  IN IF k = 0 THEN prefix + first * width
     ELSE IF k <= RoundedUp(n - first, per) THEN Least(per, n - first - (k - 1) * per) * width ELSE 0

RowWidth(e, r, columns) ==
  LET i == CHOOSE l \in 1..Len(e.lines) : RowsBefore(e, l, columns) <= r /\ r < RowsBefore(e, l + 1, columns)
  IN WidthOf(e.lines[i], Prefix(e, i), columns, e.width, r - RowsBefore(e, i, columns))

\* Where the cursor is, by the columns before it.
Cursor(e, columns) ==
  LET before == RowsBefore(e, e.row, columns)
      upto   == Prefix(e, e.row) + e.col * e.width
  IN IF upto < columns THEN [row |-> before, col |-> upto]
     ELSE [row |-> before + 1 + (upto - columns) \div columns, col |-> (upto - columns) % columns]

-----------------------------------------------------------------------------
(* viewport: the menu has at most half, then each grows into what is left over.  *)

HeaderRows(w) == IF w.chrome = "box" THEN 1 ELSE 0
FooterRows(w) == IF w.chrome = "none" THEN 0 ELSE 1
Chrome(w) == HeaderRows(w) + FooterRows(w)
ForContent(w) == Most(1, Most(1, ToldRows(w) - 1) - Chrome(w))

\* The first of a slice of `share` out of `all` that has `here` in it.
Slice(here, share, all) == Least(Most(0, here - share \div 2), Most(0, all - share))

\* Mutant of View: the slice starts at the cursor's row.
ViewFromCursor(e, w) ==
  LET rows   == RowsBefore(e, Len(e.lines) + 1, Columns(w))
      wanted == Least(e.menu, ForContent(w) \div 2)
      buffer == Most(1, Least(rows, ForContent(w) - wanted))
      menu   == Least(e.menu, Most(0, ForContent(w) - buffer))
      start  == Least(Cursor(e, Columns(w)).row, rows)
  IN [first |-> start, buffer |-> Least(buffer, rows - start), menu |-> menu,
      menuSelected |-> e.menuAt - Slice(e.menuAt, menu, e.menu),
      cursorRow |-> Cursor(e, Columns(w)).row - Slice(Cursor(e, Columns(w)).row, buffer, rows) + HeaderRows(w),
      total |-> Least(buffer, rows - start) + menu + Chrome(w)]

View(e, w) ==
  LET rows   == RowsBefore(e, Len(e.lines) + 1, Columns(w))
      wanted == Least(e.menu, ForContent(w) \div 2)
      buffer == Most(1, Least(rows, ForContent(w) - wanted))
      menu   == Least(e.menu, Most(0, ForContent(w) - buffer))
      cursor == Cursor(e, Columns(w)).row
  IN [first |-> Slice(cursor, buffer, rows), buffer |-> buffer, menu |-> menu,
      menuSelected |-> e.menuAt - Slice(e.menuAt, menu, e.menu),
      cursorRow    |-> cursor - Slice(cursor, buffer, rows) + HeaderRows(w),
      total        |-> buffer + menu + Chrome(w)]

\* cursorRowOf, renderedRows: a search is one row.
CursorRowOf(e, w) == IF e.search THEN 0 ELSE View(e, w).cursorRow
RenderedRows(e, w) == IF e.search THEN 1 ELSE View(e, w).total

-----------------------------------------------------------------------------
(* renderEditor, and what a terminal makes of it.                                *)

\* The lines that are drawn: the rows of a box are padded to its sides, the rule and
\* what is not in a box are as wide as they are, a suggestion is never cut.
Drawing(e, w, v) ==
  [n \in 1..v.total |->
     IF w.chrome = "box" THEN IF n <= v.buffer + 2 THEN ToldColumns(w) ELSE 4 + e.item
     ELSE IF n <= v.buffer THEN RowWidth(e, v.first + n - 1, Columns(w))
     ELSE IF n <= v.buffer + v.menu THEN 4 + e.item ELSE ToldColumns(w) - 2]

Painted(e, w) ==
  IF e.search THEN <<SearchLabel + Least(e.found, Most(8, ToldColumns(w) - SearchLabel - 1))>>
  ELSE Drawing(e, w, View(e, w))

CursorColumn(e, w) ==
  IF e.search THEN SearchLabel + 1 ELSE Cursor(e, Columns(w)).col + (IF w.chrome = "box" THEN Gutter \div 2 ELSE 0)

\* The rows each line takes in a window of so many columns.
Heights(widths, columns) == [n \in 1..Len(widths) |-> Most(1, RoundedUp(widths[n], columns))]

\* The cursor ends on the last row and is moved up from there, to the top of the
\* window at most.
Parked(widths, cursorRow, w) ==
  Top(Heights(widths, w.columns), Len(widths) + 1) - 1 - Least(Most(0, Len(widths) - 1 - cursorRow), w.rows - 1)

\* The cell that is on row r, and the row of a cell.
CellOn(widths, columns, r, col) ==
  LET h == Heights(widths, columns)
      l == CHOOSE i \in 1..Len(widths) : Top(h, i) <= r /\ r < Top(h, i + 1)
  IN [line |-> l, offset |-> (r - Top(h, l)) * columns + Least(col, columns - 1)]

RowOf(widths, cell, columns) == Top(Heights(widths, columns), cell.line) + cell.offset \div columns

-----------------------------------------------------------------------------
(* Editor.read.                                                                *)

ViewInit ==
  /\ input \in Inputs /\ window \in Windows /\ painted = <<>> /\ drawnIn = window
  /\ spot = [line |-> 0, offset |-> 0] /\ parked = 0 /\ kept = Undrawn /\ strayed = 0 /\ clearing = 0

\* Where the block is drawn.
Draw(e, w) ==
  LET lines == Painted(e, w)
      row   == Parked(lines, CursorRowOf(e, w), w)
  IN /\ painted' = lines /\ drawnIn' = w /\ parked' = row
     /\ spot' = CellOn(lines, w.columns, row, CursorColumn(e, w))

\* Going up stops at the top of the window.
From(up) == parked - Least(up, window.rows - 1)

\* Mutant of Redrawn: what is kept is how tall the block is.
RedrawnByHeight(e) ==
  /\ strayed' = From(Most(0, kept)) /\ clearing' = 0
  /\ Draw(e, window) /\ kept' = RenderedRows(e, window) - 1

\* draw: up from where the cursor is by what is kept, then the block.
Redrawn(e) ==
  /\ strayed' = From(Most(0, kept)) /\ clearing' = 0
  /\ Draw(e, window) /\ kept' = CursorRowOf(e, window)

\* draw after something else was written, or nothing was: the block begins there.
DrawnAnew(e) ==
  /\ strayed' = 0
  /\ Draw(e, window) /\ kept' = CursorRowOf(e, window)

\* read: an empty buffer, with the prompt of the mode there is.
Begins ==
  /\ kept = Undrawn /\ input' \in Inputs /\ input'.lines = <<0>> /\ input'.menu = 0 /\ ~input'.search
  /\ DrawnAnew(input') /\ clearing' = 0 /\ UNCHANGED window

\* A key changed what is held.
KeyPressed ==
  /\ kept # Undrawn /\ input' \in Inputs /\ input'.prompt = input.prompt
  /\ Redrawn(input') /\ UNCHANGED window

\* Ctrl-L: the screen is empty, the block starts at its top.
ClearScreen ==
  /\ kept # Undrawn /\ DrawnAnew(input) /\ clearing' = 0
  /\ UNCHANGED <<input, window>>

\* Shift-Tab: the mode is another one, and so is the prompt. With a notice of it the
\* block is taken down by the shape it has with the new prompt, and drawn below.
ModeCycled ==
  /\ kept # Undrawn
  /\ \E p \in Prompts : input' = [input EXCEPT !.prompt = p]
  /\ input' \in Inputs
  /\ \/ Redrawn(input')
     \/ DrawnAnew(input') /\ clearing' = From(CursorRowOf(input', window))
  /\ UNCHANGED window

\* Nothing is redrawn when the window changes: columns and rows are read again at
\* the next draw. A terminal that reflows moves the cursor with its cell.
Resized ==
  /\ window' \in Windows /\ window'.chrome = window.chrome /\ window'.reflows = window.reflows
  /\ parked' = IF window.reflows /\ kept # Undrawn THEN RowOf(painted, spot, window'.columns) ELSE parked
  /\ UNCHANGED <<input, painted, drawnIn, spot, kept, strayed, clearing>>

\* finish: the block is taken down by its shape now, not by what is kept.
TakeDown ==
  /\ kept # Undrawn /\ strayed' = 0 /\ clearing' = From(CursorRowOf(input, window))
  /\ painted' = <<>> /\ drawnIn' = window /\ spot' = [line |-> 0, offset |-> 0] /\ parked' = 0 /\ kept' = Undrawn
  /\ UNCHANGED <<input, window>>

ViewNext == Begins \/ KeyPressed \/ ClearScreen \/ ModeCycled \/ Resized \/ TakeDown
ViewSpec == ViewInit /\ [][ViewNext]_viewVars

-----------------------------------------------------------------------------

\* The cursor is drawn on the character it is before. Not so for wide characters,
\* whose rows end a column early where the columns left are odd.
CursorOnText ==
  LET columns == Columns(window)
      prefix  == Prefix(input, input.row)
      first   == OnFirst(input.lines[input.row], prefix, columns, input.width)
      per     == OnRest(columns, input.width)
      before  == RowsBefore(input, input.row, columns)
  IN input.col < input.lines[input.row] =>
       Cursor(input, columns) =
         IF input.col < first THEN [row |-> before, col |-> prefix + input.col * input.width]
         ELSE [row |-> before + 1 + (input.col - first) \div per,
               col |-> ((input.col - first) % per) * input.width]

\* Nothing that is drawn is wider than so many columns.
Fitting(columns) == spot.offset < columns /\ \A n \in 1..Len(painted) : painted[n] <= columns

\* A redraw never begins above the block, however the window was resized since and
\* whatever the terminal made of it: the cursor is never above the row that is
\* kept. It is on that row as long as all that is drawn fits the window, the one it
\* was drawn in and the one there is. The row is one of the input's that are drawn
\* and the selected suggestion is among the drawn ones; no more is drawn than the
\* editor is told the window holds; and the cursor is on the character it is before.
BlockKnown ==
  /\ strayed >= 0
  /\ kept # Undrawn =>
       LET v == View(input, window)
       IN /\ kept < Len(painted) /\ kept <= parked
          /\ Fitting(drawnIn.columns) /\ Len(painted) <= drawnIn.rows /\ Fitting(window.columns) => parked = kept
          /\ v.cursorRow - HeaderRows(window) \in 0..(v.buffer - 1)
          /\ v.menu > 0 => v.menuSelected \in 0..(v.menu - 1)
          /\ v.total < ToldRows(window)
          /\ input.width = 1 => CursorOnText

\* Each redraw goes up by exactly what it takes to reach the block's first row. Not
\* so when the terminal has broken a line of it.
RedrawnFromItsTop == strayed = 0

\* clearBlock leaves the cursor where the block began. Not so when its shape is
\* another one now: after a change of the mode, or of the window.
ClearedFromItsTop == clearing = 0
=============================================================================
