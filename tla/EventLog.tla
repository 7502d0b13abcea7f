------------------------------ MODULE EventLog ------------------------------
(***************************************************************************)
(* The file events.jsonl of a session (session/store.ts): what an append   *)
(* makes of it, what a kill in the middle of an append leaves of it, and   *)
(* what readEvents reads back.                                             *)
(*                                                                         *)
(* A file is a sequence of lines, and a line is the event it was meant to  *)
(* hold and the state it is in:                                            *)
(*   whole    the event and its newline                                    *)
(*   unended  the event without its newline, at the end of the file        *)
(*   torn     part of the event, at the end of the file                    *)
(*   glued    an unended line that a later append went on with             *)
(*   lost     a torn line that a later append went on with                 *)
(***************************************************************************)
EXTENDS Naturals, Sequences

LineStates == {"whole", "unended", "torn", "glued", "lost"}

Line(e, s) == [event |-> e, state |-> s]

LastState(file) == IF file = << >> THEN "whole" ELSE file[Len(file)].state

SetLast(file, s) == [file EXCEPT ![Len(file)].state = s]

(* appendFile(line + newline): it goes on where the file ends, be that in the
   middle of a line. *)
Appended(file, e) ==
  CASE LastState(file) = "unended" -> SetLast(file, "glued")
    [] LastState(file) = "torn"    -> SetLast(file, "lost")
    [] OTHER                       -> Append(file, Line(e, "whole"))

(* What a kill may leave of a file whose last append was under way: all of it,
   part of it, or nothing. *)
CutShort(file) ==
  CASE LastState(file) = "whole" -> {file, SetLast(file, "unended"), SetLast(file, "torn"),
                                     SubSeq(file, 1, Len(file) - 1)}
    [] LastState(file) = "glued" -> {file, SetLast(file, "unended"), SetLast(file, "torn")}
    [] LastState(file) = "lost"  -> {file, SetLast(file, "torn")}
    [] OTHER                     -> {file}

Parses(line) == line.state \in {"whole", "unended"}

Unbroken(file) == \A i \in 1..Len(file) : Parses(file[i])

(* readEvents stops at the first line that does not parse. *)
Legible(file) ==
  CHOOSE n \in 0..Len(file) :
    /\ \A i \in 1..n : Parses(file[i])
    /\ n < Len(file) => ~Parses(file[n + 1])

ReadBack(file) == [i \in 1..Legible(file) |-> file[i].event]
=============================================================================
