---------------------------- MODULE TurnContract ----------------------------
(***************************************************************************)
(* What a session promises of its turns, whatever happens inside them: one *)
(* turn at a time; the model is asked only when every call it made has a   *)
(* result; a turn ends only when every call has a result; it ends once, as *)
(* completed, cancelled, or failed with a reason, and what is recorded of  *)
(* earlier turns never changes.                                            *)
(***************************************************************************)
EXTENDS Sequences

CONSTANTS Reasons  \* why a turn may fail

VARIABLES
  phase,   \* "idle", "working", or "asking" the model
  calls,   \* every tool call the model ever made
  open,    \* those without a result
  record   \* how the turns so far ended

vars == <<phase, calls, open, record>>

Endings == [state : {"completed", "cancelled"}, error : {"none"}]
             \cup [state : {"failed"}, error : Reasons]

Init == phase = "idle" /\ calls = {} /\ open = {} /\ record = << >>

Begin == phase = "idle" /\ phase' = "working" /\ UNCHANGED <<calls, open, record>>

Ask == phase = "working" /\ open = {} /\ phase' = "asking" /\ UNCHANGED <<calls, open, record>>

(* The model answers, with new calls or none. *)
Hear ==
  /\ phase = "asking" /\ phase' = "working"
  /\ calls \subseteq calls' /\ open' = calls' \ calls
  /\ UNCHANGED record

(* Every open call gets its result, real or synthetic. *)
Close == phase = "working" /\ open' = {} /\ UNCHANGED <<phase, calls, record>>

End ==
  /\ phase = "working" /\ open = {} /\ phase' = "idle"
  /\ \E e \in Endings : record' = Append(record, e)
  /\ UNCHANGED <<calls, open>>

Next == Begin \/ Ask \/ Hear \/ Close \/ End

Spec == Init /\ [][Next]_vars
=============================================================================
