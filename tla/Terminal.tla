------------------------------ MODULE Terminal ------------------------------
(* The interactive loop and the terminal it borrows: the line editor's driver    *)
(* (cli/editor.ts), the approval menu (cli/select.ts), the typed reason           *)
(* (cli/prompter.ts) and the loop that holds them (cli/main.ts). Raw mode and     *)
(* bracketed paste are the terminal's: they outlive the process unless somebody   *)
(* puts them back.                                                             *)
EXTENDS LineEditor

CONSTANTS MaxKeys, MaxReads  \* bounds

VARIABLES doing,      \* "prompt", "between", "turn", "menu", "reason", "leaving", "gone"
          raw,        \* the terminal: raw mode
          pasteMode,  \* the terminal: bracketed paste
          armed,      \* the editor's exit and signal listeners are installed
          readers,    \* who listens to stdin
          asker,      \* the readline interface: "none", "open", "closed"
          ed,         \* the editor's state
          past,       \* the editor's history
          keys        \* keys pressed so far, for the bound

terminalVars == <<doing, raw, pasteMode, armed, readers, asker, ed, past, keys>>

TerminalTypeOK ==
  /\ doing \in {"prompt", "between", "turn", "menu", "reason", "leaving", "gone"}
  /\ raw \in BOOLEAN /\ pasteMode \in BOOLEAN /\ armed \in BOOLEAN
  /\ readers \subseteq {"editor", "menu", "readline"}
  /\ asker \in {"none", "open", "closed"}

\* readline itself is external: it sets raw mode when it opens, clears it when it
\* closes, and listens from the one to the other.
Opened == asker' = "open" /\ raw' = TRUE
ClosedReadline == asker' = "closed" /\ raw' = FALSE

TerminalInit ==
  /\ doing = "between" /\ raw = FALSE /\ pasteMode = FALSE /\ armed = FALSE
  /\ readers = {} /\ asker = "none" /\ ed = Fresh(<<>>) /\ past = <<>> /\ keys = 0

\* Editor.read, called by the loop.
Read ==
  /\ doing = "between" /\ Len(past) < MaxReads
  /\ doing' = "prompt" /\ raw' = TRUE /\ pasteMode' = TRUE /\ armed' = TRUE
  /\ readers' = readers \cup {"editor"} /\ ed' = Fresh(past)
  /\ UNCHANGED <<asker, past, keys>>

\* A key that leaves the line unfinished. Clear and Shift-Tab do not reach it.
PressKey ==
  /\ doing = "prompt" /\ keys < MaxKeys
  /\ \E next \in ApplyKey(ed) : next.done = "no" /\ ed' = next
  /\ keys' = keys + 1
  /\ UNCHANGED <<doing, raw, pasteMode, armed, readers, asker, past>>

\* Editor.read's finish.
Released == raw' = FALSE /\ pasteMode' = FALSE /\ armed' = FALSE /\ readers' = readers \ {"editor"}

\* Enter: a blank line, /exit, or a line that is sent. What is not blank is remembered.
Enter ==
  /\ doing = "prompt"
  /\ \E e \in ApplyKey(ed) : e.done = "line"
  /\ Released
  /\ \E written \in IF ed.lines = Blank THEN {FALSE} ELSE BOOLEAN :
       /\ past' = IF written THEN Append(past, ed.lines) ELSE past
       /\ doing' \in IF written THEN {"turn", "leaving"} ELSE {"between"}
  /\ UNCHANGED <<asker, ed, keys>>

\* Ctrl-C stays, Ctrl-D or the end of the input leaves.
GiveUp ==
  /\ doing = "prompt" /\ Released
  /\ \E d \in {e.done : e \in ApplyKey(ed)} \cap {"cancel", "eof"} :
       doing' = IF d = "cancel" THEN "between" ELSE "leaving"
  /\ UNCHANGED <<asker, ed, past, keys>>

InputEnds ==
  /\ doing = "prompt" /\ Released /\ doing' = "leaving"
  /\ UNCHANGED <<asker, ed, past, keys>>

-----------------------------------------------------------------------------
(* A turn, and the questions asked in it.                                      *)

TurnEnds ==
  /\ doing = "turn" /\ doing' = "between"
  /\ UNCHANGED <<raw, pasteMode, armed, readers, asker, ed, past, keys>>

\* TerminalApprovalPrompter.request: select.
Ask ==
  /\ doing = "turn" /\ doing' = "menu" /\ raw' = TRUE /\ readers' = readers \cup {"menu"}
  /\ UNCHANGED <<pasteMode, armed, asker, ed, past, keys>>

\* An answer without a reason, or Escape and Ctrl-C, which deny.
Picked ==
  /\ doing = "menu" /\ doing' = "turn" /\ raw' = FALSE /\ readers' = readers \ {"menu"}
  /\ UNCHANGED <<pasteMode, armed, asker, ed, past, keys>>

\* withReason: the interface is opened once and used again. A closed one throws,
\* and the refusal is the turn's.
PickedReason ==
  /\ doing = "menu"
  /\ \/ asker = "none" /\ Opened /\ doing' = "reason" /\ readers' = (readers \ {"menu"}) \cup {"readline"}
     \/ asker = "open" /\ raw' = FALSE /\ doing' = "reason" /\ readers' = readers \ {"menu"}
        /\ UNCHANGED asker
     \/ asker = "closed" /\ raw' = FALSE /\ doing' = "turn" /\ readers' = readers \ {"menu"}
        /\ UNCHANGED asker
  /\ UNCHANGED <<pasteMode, armed, ed, past, keys>>

\* The reason is typed: the interface stays open. Ctrl-C and Ctrl-D close it.
Explained ==
  /\ doing = "reason" /\ doing' = "turn"
  /\ \/ UNCHANGED <<raw, readers, asker>>
     \/ ClosedReadline /\ readers' = readers \ {"readline"}
  /\ UNCHANGED <<pasteMode, armed, ed, past, keys>>

-----------------------------------------------------------------------------
(* The ends. What is armed puts the terminal back, whatever was being done.      *)

Restored == pasteMode' = FALSE /\ raw' = FALSE

\* Mutant of Killed: the listeners are only for `exit`.
KilledUnheard ==
  /\ doing \notin {"gone"} /\ doing' = "gone" /\ UNCHANGED <<raw, pasteMode>>
  /\ UNCHANGED <<armed, readers, asker, ed, past, keys>>

\* SIGTERM, SIGHUP or SIGQUIT: onSignal, then the signal again.
Killed ==
  /\ doing # "gone" /\ doing' = "gone"
  /\ IF armed THEN Restored ELSE UNCHANGED <<raw, pasteMode>>
  /\ UNCHANGED <<armed, readers, asker, ed, past, keys>>

\* Something throws: the loop's finally blocks, and `exit` if it was not caught.
Crash ==
  /\ doing \in {"prompt", "between", "turn", "menu", "reason"}
  /\ doing' \in {"leaving"} \cup (IF doing = "prompt" THEN {"gone"} ELSE {})
  /\ Restored
  /\ UNCHANGED <<armed, readers, asker, ed, past, keys>>

\* The loop is left: editor.teardown, kernel.shutdown, closeTypedPrompt.
Leave ==
  /\ doing = "leaving" /\ doing' = "gone" /\ Restored
  /\ readers' = readers \ {"readline"} /\ asker' = "none"
  /\ UNCHANGED <<armed, ed, past, keys>>

TerminalNext ==
  \/ Read \/ PressKey \/ Enter \/ GiveUp \/ InputEnds
  \/ TurnEnds \/ Ask \/ Picked \/ PickedReason \/ Explained
  \/ Killed \/ Crash \/ Leave

TerminalSpec == TerminalInit /\ [][TerminalNext]_terminalVars

-----------------------------------------------------------------------------

\* However the program ends, bracketed paste is off: by Enter, by the end of the
\* input, by an exception, by a signal that can be caught (editor.ts: "restored on
\* the way out of every path including a crash"). Raw mode is off too, unless the
\* signal came outside the prompt, where nothing is armed.
TerminalRestored == doing = "gone" => ~pasteMode /\ (armed => ~raw)

\* Raw mode is on while the line is edited, and otherwise only for an open menu, for
\* the interface a typed reason opened, which it keeps (see OneReader), or after a
\* signal.
RawAccounted ==
  /\ doing = "prompt" => raw
  /\ raw => doing \in {"prompt", "menu", "gone"} \/ asker = "open"

\* Whatever the keys, the line that is edited is sound, and while it is nothing else
\* listens that was not left behind.
CursorInBuffer == EditorSound(ed) /\ (doing = "prompt" => readers \subseteq {"editor", "readline"})

\* The terminal is left as it was found, but for the raw mode of a signal outside the
\* prompt, and the line is sound: both outlive every path through keys, questions,
\* signals and crashes.
TerminalKept == TerminalRestored /\ RawAccounted /\ CursorInBuffer

\* "Two readers of one stdin is the defect this avoids" (prompter.ts). After one
\* typed reason it is not avoided: the interface withReason opened goes on
\* listening, and what runs next runs in raw mode.
OneReader == Cardinality(readers) <= 1 /\ (doing = "turn" => ~raw)
=============================================================================
