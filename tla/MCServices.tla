----------------------------- MODULE MCServices -----------------------------
(* The instance of Services that TLC checks. *)
EXTENDS Services

MCNames == <<"files", "search">>
MCStdio == {"files"}
=============================================================================
