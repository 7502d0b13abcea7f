---------------------------- MODULE MCAgentLoop ----------------------------
(* Small instances of AgentLoop: what a child may have spent. *)
EXTENDS AgentLoop

(* A tool that is no delegation, or a child that made one request and a call. *)
NoneOrOneEach == {NoUsage, [requests |-> 1, calls |-> 1, cost |-> 1]}
=============================================================================
