------------------------------- MODULE Screen -------------------------------
(* What a turn looks like while it runs: the spinner and SessionRenderer          *)
(* (cli/render.ts) and the markdown stream under it (cli/markdown.ts).             *)
(*                                                                           *)
(* A line of the answer is its number and its kind; a delta is a sequence of      *)
(* "x", text that does not end the line, and kinds, the rest of a line of that     *)
(* kind and its newline. Of the terminal only the row the cursor is on matters:   *)
(* it is clean, or has a piece of the answer on it, or the spinner.               *)
EXTENDS Integers, Sequences

CONSTANTS Deltas,       \* what a model may stream at once
          Batch,        \* the calls of a step
          MaxProse, MaxPieces, MaxRequests  \* bounds

LineKinds == {"plain", "row", "rule", "fence"}
ASSUME DeltasAssumption == Deltas \subseteq Seq(LineKinds \cup {"x"})

VARIABLES phase,      \* "editor", "requesting", "streaming", "calling", "running", "menu"
          md,         \* the markdown stream
          thought,    \* the reasoning stream
          reasoned,   \* whether reasoning is shown
          screen,     \* the spinner and the cursor's row
          shown,      \* the lines of the answer that are printed for good
          inFlight,   \* calls without a result
          requests    \* of this turn

screenVars == <<phase, md, thought, reasoned, screen, shown, inFlight, requests>>

\* A table that does not fit and has no rows is printed as no records at all.
\* echo is whether stdout is a terminal, and never changes.
FreshStream(echo) ==
  [line |-> 1, text |-> 0, of |-> 0, emitted |-> 0, raw |-> TRUE, code |-> FALSE, candidate |-> <<>>,
   table |-> <<>>, wrote |-> FALSE, echo |-> echo, dropped |-> {}]
NoThought == [text |-> FALSE, opened |-> FALSE]

ScreenTypeOK ==
  /\ phase \in {"editor", "requesting", "streaming", "calling", "running", "menu"}
  /\ md.line \in Nat /\ md.emitted \in Nat /\ thought.text \in BOOLEAN
  /\ screen \in [spinner : BOOLEAN, row : {"clean", "answer", "spinner"}, over : BOOLEAN, trace : BOOLEAN]
  /\ inFlight \subseteq Batch

-----------------------------------------------------------------------------
(* The row. `over` is set when the spinner is drawn over the answer or the answer *)
(* goes on from what is not it; `trace` when a row that was to be erased is left, *)
(* both since the turn began.                                                  *)

Drawn(s) == [s EXCEPT !.row = "spinner", !.over = @ \/ s.row = "answer"]
Spinning(s) == IF s.spinner THEN s ELSE Drawn([s EXCEPT !.spinner = TRUE])
Stopped(s) == [s EXCEPT !.spinner = FALSE, !.row = "clean"]

\* Whole lines, of chrome or of the answer, written from where the cursor is.
Lines(s) ==
  [s EXCEPT !.row = "clean", !.over = @ \/ s.row = "answer", !.trace = @ \/ s.row = "spinner"]
Cleared(s) == [s EXCEPT !.row = "clean"]
Echoed(s) == [s EXCEPT !.row = "answer", !.trace = @ \/ s.row = "spinner"]

-----------------------------------------------------------------------------
(* MarkdownStream.                                                             *)

Held(m) == m.table \o m.candidate

\* closeTable: whether what is held still fits is known now.
CloseTable(m, fits) ==
  [m EXCEPT !.table = <<>>, !.candidate = <<>>,
            !.dropped = IF ~fits /\ Len(m.table) = 2 THEN @ \cup {m.table[i] : i \in 1..Len(m.table)} ELSE @]
Closing(m, fits) == IF ~fits /\ Len(m.table) = 2 THEN <<>> ELSE Held(m)

\* renderLines: the stream after the line, and the lines that come out.
Rendered(m, kind, fits) ==
  LET cells == kind \in {"row", "rule"}
      next  == [m EXCEPT !.line = @ + 1, !.text = 0]
  IN CASE m.code -> [md |-> [next EXCEPT !.code = kind # "fence"], out |-> <<m.line>>]
       [] ~m.code /\ m.table # <<>> /\ cells ->
            [md |-> [next EXCEPT !.table = Append(@, m.line)], out |-> <<>>]
       [] ~m.code /\ m.table = <<>> /\ m.candidate # <<>> /\ kind = "rule" ->
            [md |-> [next EXCEPT !.table = Append(m.candidate, m.line), !.candidate = <<>>], out |-> <<>>]
       [] ~m.code /\ Held(m) = <<>> /\ cells -> [md |-> [next EXCEPT !.candidate = <<m.line>>], out |-> <<>>]
       [] OTHER -> [md |-> [CloseTable(next, fits) EXCEPT !.code = kind = "fence"],
                    out |-> Append(Closing(m, fits), m.line)]

\* One element of a delta. r is the stream, the screen and what is printed.
Element(r, e, fits) ==
  IF e = "x" THEN [r EXCEPT !.md.text = @ + 1, !.md.of = IF r.md.text = 0 THEN requests ELSE @]
  ELSE LET one == Rendered(r.md, e, fits)
           at  == IF r.md.emitted > 0 THEN Cleared(r.screen) ELSE r.screen
       IN [md     |-> [one.md EXCEPT !.emitted = 0, !.raw = TRUE, !.wrote = TRUE],
           screen |-> IF one.out # <<>> /\ r.md.echo THEN Lines(at) ELSE at,
           shown  |-> r.shown \o one.out, wrote |-> r.wrote \/ one.out # <<>> \/ r.md.emitted > 0]

\* feed: a delta, element by element.
Fed(r, delta, fits) ==
  LET fed[n \in 0..Len(delta)] == IF n = 0 THEN r ELSE Element(fed[n - 1], delta[n], fits)
  IN fed[Len(delta)]

\* echo: once a line cannot be measured or does not fit, no more of it.
Echo(r, short) ==
  IF ~r.md.echo \/ ~r.md.raw THEN r
  ELSE IF ~short THEN [r EXCEPT !.md.raw = FALSE]
  ELSE IF r.md.text <= r.md.emitted THEN r
  ELSE [r EXCEPT !.md.emitted = r.md.text, !.screen = Echoed(@), !.wrote = TRUE]

\* Mutant of Flushed: the table that is open stays open.
FlushedKeeping(m, s, sh, kind, fits) ==
  IF m.text = 0 THEN [md |-> m, screen |-> s, shown |-> sh]
  ELSE LET one == Rendered(m, kind, fits)
       IN [md |-> [one.md EXCEPT !.emitted = 0, !.raw = TRUE, !.wrote = TRUE],
           screen |-> IF m.echo THEN Lines(Cleared(s)) ELSE s, shown |-> sh \o one.out]

\* flush: the tail is rendered first, then the block is closed. If nothing comes
\* of it nothing is cleared either.
Flushed(m, s, sh, kind, fits) ==
  LET one  == IF m.text = 0 THEN [md |-> m, out |-> <<>>] ELSE Rendered(m, kind, fits)
      rest == Closing(one.md, fits)
      at   == IF m.emitted > 0 THEN Cleared(s) ELSE s
  IN IF one.out \o rest = <<>> THEN [md |-> CloseTable(one.md, fits), screen |-> s, shown |-> sh]
     ELSE [md     |-> [CloseTable(one.md, fits) EXCEPT !.emitted = 0, !.raw = TRUE, !.wrote = TRUE],
           screen |-> IF m.echo THEN Lines(at) ELSE at, shown |-> sh \o one.out \o rest]

-----------------------------------------------------------------------------
(* ReasoningStream, whose lines go to stderr, whole.                            *)

ThoughtFlushed(s) ==
  IF thought.text \/ thought.opened
  THEN [s EXCEPT !.row = "clean", !.trace = @ \/ s.row # "clean"] ELSE s

\* flushAnswer from a screen, and what is done to the screen then: the reasoning
\* goes first, then the answer's tail.
FlushAnswer(s, Then(_)) ==
  \E kind \in LineKinds, fits \in BOOLEAN :
    LET done == Flushed(md, ThoughtFlushed(s), shown, kind, fits)
    IN md' = done.md /\ screen' = Then(done.screen) /\ shown' = done.shown /\ thought' = NoThought

-----------------------------------------------------------------------------
(* SessionRenderer.on.                                                         *)

ScreenInit ==
  /\ \E echo \in BOOLEAN : md = FreshStream(echo)
  /\ phase = "editor" /\ thought = NoThought /\ reasoned \in BOOLEAN /\ shown = <<>>
  /\ screen = [spinner |-> FALSE, row |-> "clean", over |-> FALSE, trace |-> FALSE]
  /\ inFlight = {} /\ requests = 0

TurnStarted ==
  /\ phase = "editor" /\ phase' = "requesting" /\ requests' = 0 /\ shown' = <<>>
  /\ md' = FreshStream(md.echo) /\ thought' = NoThought
  /\ screen' = Spinning([screen EXCEPT !.over = FALSE, !.trace = FALSE])
  /\ UNCHANGED <<reasoned, inFlight>>

\* Mutant of RequestStarted: what the last request said is not closed.
RequestStartedUnflushed ==
  /\ phase = "requesting" /\ requests < MaxRequests
  /\ phase' = "streaming" /\ requests' = requests + 1 /\ screen' = Spinning(screen)
  /\ UNCHANGED <<md, shown, thought, reasoned, inFlight>>

RequestStarted ==
  /\ phase = "requesting" /\ requests < MaxRequests
  /\ phase' = "streaming" /\ requests' = requests + 1
  /\ FlushAnswer(screen, Spinning)
  /\ UNCHANGED <<reasoned, inFlight>>

\* text_delta: the spinner is stopped only when something is written, and then for good.
Delta ==
  /\ phase = "streaming" /\ md.line <= MaxProse /\ md.text < MaxPieces
  /\ \E delta \in Deltas, fits \in BOOLEAN, short \in BOOLEAN :
       LET quietly == ThoughtFlushed(screen)
           fed(s)  == Echo(Fed([md |-> md, screen |-> s, shown |-> shown, wrote |-> FALSE], delta, fits), short)
           next    == IF fed(quietly).wrote THEN fed(Stopped(quietly)) ELSE fed(quietly)
       IN md' = next.md /\ screen' = next.screen /\ shown' = next.shown
  /\ thought' = NoThought
  /\ UNCHANGED <<phase, reasoned, inFlight, requests>>

\* reasoning_delta: lines are printed when they are whole.
Reasoning ==
  /\ phase = "streaming" /\ reasoned
  /\ \E whole \in BOOLEAN, rest \in BOOLEAN :
       /\ whole \/ rest
       /\ thought' = [text |-> rest \/ (thought.text /\ ~whole), opened |-> thought.opened \/ whole]
       /\ screen' = IF whole THEN Lines(Stopped(screen)) ELSE screen
  /\ UNCHANGED <<phase, md, reasoned, shown, inFlight, requests>>

\* The response is over, was too long and is asked again, or has calls. A response
\* that broke off and is asked for again by the model runtime goes on in the same
\* line: Delta.
Responded ==
  /\ phase = "streaming" /\ phase' \in {"requesting", "calling"}
  /\ UNCHANGED <<md, thought, reasoned, screen, shown, inFlight, requests>>

\* Every call of a step is announced before the first runs.
ToolCall ==
  /\ phase = "calling"
  /\ \E c \in Batch \ inFlight : inFlight' = inFlight \cup {c}
  /\ FlushAnswer(screen, LAMBDA s : Spinning(Lines(Stopped(s))))
  /\ phase' \in {"calling", "running"}
  /\ UNCHANGED <<reasoned, requests>>

AutoApproved ==
  /\ phase = "running"
  /\ FlushAnswer(screen, LAMBDA s : Spinning(Lines(Stopped(s))))
  /\ UNCHANGED <<phase, reasoned, inFlight, requests>>

\* Mutant of Asked: the spinner goes on.
AskedLoud ==
  /\ phase = "running" /\ phase' = "menu" /\ screen' = Lines(screen)
  /\ UNCHANGED <<md, thought, reasoned, shown, inFlight, requests>>

\* The approval prompter asks for quiet and draws its menu.
Asked ==
  /\ phase = "running" /\ phase' = "menu" /\ screen' = Lines(Stopped(screen))
  /\ UNCHANGED <<md, thought, reasoned, shown, inFlight, requests>>

Answered ==
  /\ phase = "menu" /\ phase' = "running"
  /\ UNCHANGED <<md, thought, reasoned, screen, shown, inFlight, requests>>

\* The results of a step come when the whole batch has run.
ToolResult ==
  /\ phase = "running"
  /\ \E c \in inFlight :
       /\ inFlight' = inFlight \ {c}
       /\ phase' = IF inFlight' = {} THEN "requesting" ELSE phase
  /\ screen' = Spinning(Lines(Stopped(screen)))
  /\ UNCHANGED <<md, thought, reasoned, shown, requests>>

\* turn.completed, failed or cancelled, then runOnce: the answer again, if none
\* of it was streamed, and the figures.
TurnOver ==
  /\ phase \in {"requesting", "streaming", "calling", "running"} /\ phase' = "editor"
  /\ inFlight' = {}
  /\ FlushAnswer(Stopped(screen), Lines)
  /\ UNCHANGED <<reasoned, requests>>

\* Every 80 ms.
Tick ==
  /\ screen.spinner /\ screen' = Drawn(screen)
  /\ UNCHANGED <<phase, md, thought, reasoned, shown, inFlight, requests>>

\* /thinking, between turns.
SetReasoning ==
  /\ phase = "editor" /\ reasoned' = ~reasoned /\ thought' = NoThought
  /\ screen' = IF reasoned THEN ThoughtFlushed(screen) ELSE screen
  /\ UNCHANGED <<phase, md, shown, inFlight, requests>>

ScreenNext ==
  \/ TurnStarted \/ RequestStarted \/ Delta \/ Reasoning \/ Responded \/ ToolCall \/ AutoApproved
  \/ Asked \/ Answered \/ ToolResult \/ TurnOver \/ Tick \/ SetReasoning

ScreenSpec == ScreenInit /\ [][ScreenNext]_screenVars

-----------------------------------------------------------------------------

\* However the answer is cut into deltas, whatever interrupts it, each line is
\* printed once and in order, after the lines of a table that were held for it;
\* a line is never made of two messages; when the prompt is back nothing is held.
\* The exception is the table tableBlock makes nothing of.
AnswerWhole ==
  /\ LET lines == shown \o Held(md)
     IN /\ {lines[i] : i \in 1..Len(lines)} = (1..(md.line - 1)) \ md.dropped
        /\ \A i, j \in 1..Len(lines) : i < j => lines[i] < lines[j]
  /\ md.text > 0 => md.of = requests
  /\ phase = "editor" => Held(md) = <<>> /\ md.text = 0 /\ ~thought.text /\ ~thought.opened

\* The spinner is never drawn over what the user reads or types on: not while the
\* menu or the editor has the row, not over a line of the answer; nor is one
\* written to from anywhere else.
RowsApart ==
  /\ phase \in {"menu", "editor"} => ~screen.spinner
  /\ screen.over => md.dropped # {}

\* What the user can rely on to have read and to be typing on.
ScreenKept == AnswerWhole /\ RowsApart

\* The spinner line "already erases itself and already leaves no trace", and the
\* working and the conclusion "are never interleaved on screen" (render.ts). Not
\* so when reasoning that has no newline yet, or a held table, is flushed while it
\* spins, or reasoning after a piece of the answer.
NoTrace == ~screen.trace
=============================================================================
