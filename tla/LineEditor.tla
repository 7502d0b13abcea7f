----------------------------- MODULE LineEditor -----------------------------
(* The line editor's state and what one key does to it (cli/editor.ts,          *)
(* applyKey): the buffer, the cursor, history, completion, search, undo.        *)
(*                                                                           *)
(* A line is its length. What depends on the characters, where a word or a      *)
(* token begins, what a search finds, is any value the lengths allow; so is a    *)
(* key that gives a set of states.                                              *)
EXTENDS Naturals, Sequences, SequencesExt, FiniteSetsExt

CONSTANTS Pastes,        \* what is typed or pasted at once: sequences of lengths
          Completions,   \* what a completer may offer: sequences of lengths
          MaxUndo,       \* MAX_UNDO
          NoDraft,
          MaxLength, MaxLines \* bounds

ASSUME EditorAssumption ==
  /\ MaxUndo \in Nat \ {0}
  /\ Pastes \subseteq Seq(Nat) \ {<<>>} /\ Completions \subseteq Seq(Nat) \ {<<>>}
  /\ NoDraft \notin Seq(Nat)

Blank == <<0>>
NoSearch == [open |-> FALSE, matches |-> 0, at |-> 0]

\* newEditorState
Fresh(history) ==
  [lines |-> Blank, row |-> 1, col |-> 0, history |-> history, historyAt |-> Len(history),
   draft |-> NoDraft, kill |-> 0, done |-> "no", menu |-> <<>>, menuAt |-> 0,
   undo |-> <<>>, redo |-> <<>>, search |-> NoSearch]

Current(e) == e.lines[e.row]
MenuClosed(e) == [e EXCEPT !.menu = <<>>, !.menuAt = 0]
Snapshot(e) == [lines |-> e.lines, row |-> e.row, col |-> e.col]
Bounded(s) == SubSeq(s, Max({1, Len(s) - MaxUndo + 1}), Len(s))

\* remember: the snapshot is of the state before the edit.
Remember(e, edited) == [edited EXCEPT !.undo = Bounded(Append(e.undo, Snapshot(e))), !.redo = <<>>]

\* The buffer with the lines from..to replaced.
Splice(lines, from, to, new) == SubSeq(lines, 1, from - 1) \o new \o SubSeq(lines, to + 1, Len(lines))

\* The whole buffer replaced, the cursor at its end.
Show(e, lines) == [e EXCEPT !.lines = lines, !.row = Len(lines), !.col = Last(lines)]

-----------------------------------------------------------------------------
(* Editing.                                                                    *)

\* Text, typed or pasted: the first part joins what is before the cursor, the
\* last what is after it.
Insert(e, parts) ==
  LET tail   == Current(e) - e.col
      n      == Len(parts)
      joined == [i \in 1..n |-> parts[i] + (IF i = 1 THEN e.col ELSE 0) + (IF i = n THEN tail ELSE 0)]
  IN {Remember(e, MenuClosed([e EXCEPT
        !.lines = Splice(@, e.row, e.row, joined), !.row = @ + n - 1,
        !.col = (IF n = 1 THEN @ ELSE 0) + parts[n]]))}

Newline(e) ==
  {[e EXCEPT !.lines = Splice(@, e.row, e.row, <<e.col, Current(e) - e.col>>), !.row = @ + 1, !.col = 0]}

Backspace(e) ==
  IF e.col > 0 THEN {Remember(e, MenuClosed([e EXCEPT !.lines[e.row] = @ - 1, !.col = @ - 1]))}
  ELSE IF e.row = 1 THEN {e}
  ELSE LET before == e.lines[e.row - 1]
       IN {Remember(e, [e EXCEPT !.lines = Splice(@, e.row - 1, e.row, <<before + Current(e)>>),
                                 !.row = @ - 1, !.col = before])}

DeleteForward(e) ==
  IF e.col < Current(e) THEN {[e EXCEPT !.lines[e.row] = @ - 1]}
  ELSE IF e.row = Len(e.lines) THEN {e}
  ELSE {[e EXCEPT !.lines = Splice(@, e.row, e.row + 1, <<Current(e) + e.lines[e.row + 1]>>)]}

\* Ctrl-K, Ctrl-U and Ctrl-W: a word begins anywhere before the cursor.
Kill(e) ==
  {Remember(e, [e EXCEPT !.lines[e.row] = e.col, !.kill = Current(e) - e.col])}
  \cup {Remember(e, [e EXCEPT !.lines[e.row] = @ - (e.col - at), !.col = at, !.kill = e.col - at]) :
          at \in 0..e.col}

Yank(e) ==
  IF e.kill = 0 THEN {e}
  ELSE {Remember(e, [e EXCEPT !.lines[e.row] = @ + e.kill, !.col = @ + e.kill])}

\* Ctrl-Z and its reverse: the snapshot comes back, the state goes on the other
\* stack. Neither history nor a draft is part of it.
Swap(e, from, to) ==
  IF e[from] = <<>> THEN {e}
  ELSE LET last == Last(e[from])
       IN {MenuClosed([e EXCEPT !.lines = last.lines, !.row = Min({last.row, Len(last.lines)}),
                            !.col = last.col, ![from] = Front(@),
                            ![to] = Bounded(Append(@, Snapshot(e)))])}

-----------------------------------------------------------------------------
(* Moving.                                                                     *)

Left(e) ==
  IF e.col > 0 THEN {[e EXCEPT !.col = @ - 1]}
  ELSE IF e.row = 1 THEN {e}
  ELSE {[e EXCEPT !.row = @ - 1, !.col = e.lines[e.row - 1]]}

Right(e) ==
  IF e.col < Current(e) THEN {[e EXCEPT !.col = @ + 1]}
  ELSE IF e.row = Len(e.lines) THEN {e}
  ELSE {[e EXCEPT !.row = @ + 1, !.col = 0]}

\* Home, End and the two word keys stay in the line.
WithinLine(e) == {[e EXCEPT !.col = col] : col \in 0..Current(e)}

\* Mutant of Up: the column is kept.
UpKeeping(e) ==
  IF e.row > 1 THEN {[e EXCEPT !.row = @ - 1]}
  ELSE IF e.historyAt = 0 THEN {e}
  ELSE {Show([e EXCEPT !.historyAt = @ - 1,
                       !.draft = IF e.historyAt = Len(e.history) THEN e.lines ELSE @],
             e.history[e.historyAt])}

\* In the buffer first, then into history. What was being typed is kept.
Up(e) ==
  IF e.row > 1 THEN {[e EXCEPT !.row = @ - 1, !.col = Min({@, e.lines[e.row - 1]})]}
  ELSE IF e.historyAt = 0 THEN {e}
  ELSE {Show([e EXCEPT !.historyAt = @ - 1,
                       !.draft = IF e.historyAt = Len(e.history) THEN e.lines ELSE @],
             e.history[e.historyAt])}

Down(e) ==
  IF e.row < Len(e.lines) THEN {[e EXCEPT !.row = @ + 1, !.col = Min({@, e.lines[e.row + 1]})]}
  ELSE IF e.historyAt = Len(e.history) THEN {e}
  ELSE LET at == e.historyAt + 1
       IN {Show([e EXCEPT !.historyAt = at],
                IF at < Len(e.history) THEN e.history[at + 1]
                ELSE IF e.draft = NoDraft THEN Blank ELSE e.draft)}

-----------------------------------------------------------------------------
(* Completion and search.                                                      *)

\* A candidate takes the place of the token before the cursor.
Complete(e, length) ==
  {[e EXCEPT !.lines[e.row] = @ - (e.col - start) + length, !.col = start + length] : start \in 0..e.col}

Tab(e) ==
  {e} \cup UNION {IF Len(c) = 1 THEN Complete(e, c[1]) ELSE {[e EXCEPT !.menu = c, !.menuAt = 0]} :
                    c \in Completions}

\* A menu takes these keys before the buffer does.
InMenu(e) ==
  LET n == Len(e.menu)
  IN {[e EXCEPT !.menuAt = (@ + 1) % n], [e EXCEPT !.menuAt = (@ + n - 1) % n], MenuClosed(e)}
     \cup {MenuClosed(x) : x \in Complete(e, e.menu[e.menuAt + 1])}

OpenSearch(e) ==
  {MenuClosed([e EXCEPT !.search = [open |-> TRUE, matches |-> Len(e.history), at |-> 0]])}

\* While a search is open it has the keyboard: older, another query, given up,
\* or the entry found taken over.
InSearch(e) ==
  {[e EXCEPT !.search.at = Min({@ + 1, Max({0, e.search.matches - 1})}) ],
   [e EXCEPT !.search = NoSearch]}
  \cup {[e EXCEPT !.search = [open |-> TRUE, matches |-> n, at |-> 0]] : n \in 0..Len(e.history)}
  \cup {Show([e EXCEPT !.search = NoSearch], e.history[i]) :
          i \in IF e.search.at < e.search.matches THEN DOMAIN e.history ELSE {}}

-----------------------------------------------------------------------------

\* Ctrl-C, Ctrl-D, which ends only an empty buffer, and Enter, which a menu takes.
Ended(e) ==
  {[e EXCEPT !.done = d] : d \in {"cancel"} \cup (IF e.lines = Blank THEN {"eof"} ELSE {})
                                         \cup (IF e.menu = <<>> THEN {"line"} ELSE {})}

Fits(e) == Len(e.lines) <= MaxLines /\ \A i \in DOMAIN e.lines : e.lines[i] <= MaxLength

\* applyKey: the states one key may lead to.
ApplyKey(e) ==
  {x \in IF e.search.open THEN InSearch(e)
         ELSE (IF e.menu # <<>> THEN InMenu(e)
               ELSE Up(e) \cup Down(e) \cup Tab(e))
              \cup Ended(e)
              \cup (UNION {Insert(e, parts) : parts \in Pastes})
              \cup Newline(e) \cup Backspace(e) \cup DeleteForward(e) \cup Kill(e) \cup Yank(e)
              \cup Left(e) \cup Right(e) \cup WithinLine(e)
              \cup Swap(e, "undo", "redo") \cup Swap(e, "redo", "undo") \cup OpenSearch(e) : Fits(x)}

\* Whatever was typed, pasted, undone, completed or fetched from history, the
\* cursor is in the buffer, the highlight in the menu, and what was being typed
\* when history was walked into is there to come back to.
EditorSound(e) ==
  /\ e.row \in DOMAIN e.lines /\ e.col \in 0..Current(e)
  /\ e.menuAt = 0 \/ e.menuAt < Len(e.menu)
  /\ e.search.at = 0 \/ e.search.at < e.search.matches
  /\ e.historyAt < Len(e.history) => e.draft # NoDraft
  /\ \A s \in ToSet(e.undo) \cup ToSet(e.redo) : s.row \in DOMAIN s.lines /\ s.col \in 0..s.lines[s.row]
=============================================================================
