----------------------------- MODULE TurnSignal -----------------------------
(* The AbortSignal of the running turn. Session.cancel aborts it once; every  *)
(* call the turn is waiting for was given it. Nothing takes the abort back,   *)
(* and a listener that is added after it never hears of it.                   *)

VARIABLE aborted                \* signal.aborted
=============================================================================
