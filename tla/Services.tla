------------------------------ MODULE Services ------------------------------
(* What a session starts, uses and ends outside the process: the backend its *)
(* commands run on, its MCP servers and its model requests (kernel.ts, the   *)
(* end of createKernel and shutdown; session.ts, cancel). The turn uses one   *)
(* of them at a time, and all of them share the turn's signal.               *)
EXTENDS ModelRequest, McpServers, Execution

VARIABLE session                \* the kernel: being created, open, shut down

vars == <<aborted, requestVars, mcpVars, execVars, session>>

(* Every variable of the three services and of the session stays in its set. *)
ServicesTypeOK ==
  /\ aborted \in BOOLEAN
  /\ session \in {"creating", "open", "closed"}
  /\ RequestTypeOK
  /\ McpTypeOK
  /\ ExecTypeOK

Init ==
  /\ aborted = FALSE
  /\ session = "creating"
  /\ RequestInit
  /\ McpInit
  /\ ExecInit

-----------------------------------------------------------------------------
(* The container backend is created, and orphans are collected, before the   *)
(* first server is attached. What the other kernel does after that is not    *)
(* followed: it is forgotten.                                                *)
Creating ==
  /\ session = "creating"
  /\ CollectStep
  /\ UNCHANGED <<aborted, requestVars, mcpVars, runVars, session>>

Created ==
  /\ session = "creating"
  /\ backend = "container" => collector.at = "done"
  /\ session' = "open"
  /\ now' = 0
  /\ other' = [phase |-> "gone", limit |-> 0, since |-> 0, proxy |-> "absent", network |-> "absent"]
  /\ collector' = [at |-> "done", now |-> 0]
  /\ UNCHANGED <<aborted, requestVars, mcpVars, runVars>>

(* Containers and remote machines have no process sessions: a stdio server is *)
(* refused there. The launcher's backend starts them like the local one.     *)
Attaching ==
  /\ session = "open"
  /\ Attach \/ AllAttached
  /\ backend \in {"container", "ssh"} => \A s \in Stdio : clients'[s] = "none"
  /\ UNCHANGED <<aborted, requestVars, execVars, session>>

-----------------------------------------------------------------------------
(* The turn: it asks the model, runs a tool call, asks again, until it ends. *)
Idle == service = "up" /\ request = "none" /\ asked = Nobody /\ exec = "none"

Ask ==
  /\ Idle /\ ~aborted
  /\ Generate
  /\ UNCHANGED <<aborted, mcpVars, execVars, session>>

(* The loop has read the turn; the next request is a new one, perhaps to a    *)
(* model of another provider.                                                *)
Answered ==
  /\ request = "over"
  /\ request' = "none"
  /\ protocol' \in Protocols
  /\ attempt' = 0 /\ stopped' = FALSE /\ timedOut' = "no" /\ status' = "none"
  /\ adapter' = NewAdapter /\ turn' = NewTurn
  /\ chunks' = 0 /\ received' = 0 /\ begun' = {}
  /\ UNCHANGED <<watchdog, lease, aborted, mcpVars, execVars, session>>

CallServer ==
  /\ Idle
  /\ \E s \in Servers : CallTool(s)
  /\ UNCHANGED <<aborted, requestVars, execVars, session>>

RunCommand ==
  /\ Idle
  /\ Exec
  /\ UNCHANGED <<aborted, requestVars, mcpVars, otherVars, session>>

(* Session.cancel: each listener runs before abort() returns. *)
Cancel ==
  /\ service = "up" /\ session = "open" /\ ~aborted
  /\ aborted' = TRUE
  /\ OnCallerAbort
  /\ OnMcpAbort
  /\ OnExecAbort
  /\ UNCHANGED session

-----------------------------------------------------------------------------
(* shutdown: the servers first, then the backend. *)
Closing ==
  /\ \/ Idle /\ BeginClose
     \/ CloseClients
     \/ ClientsClosed
  /\ UNCHANGED <<aborted, requestVars, execVars, session>>

ClosingBackend ==
  /\ service = "closed" /\ session = "open"
  /\ CloseBackend
  /\ session' = IF started' = {} THEN "closed" ELSE "open"
  /\ UNCHANGED <<aborted, requestVars, mcpVars, otherVars>>

-----------------------------------------------------------------------------
RequestGoesOn == RequestStep /\ UNCHANGED <<aborted, mcpVars, execVars, session>>
ServerGoesOn == McpBackground /\ UNCHANGED <<aborted, requestVars, execVars, session>>
CommandGoesOn == RunStep /\ UNCHANGED <<aborted, requestVars, mcpVars, otherVars, session>>

(* A rejection nobody handles has ended the process: nothing of it moves. *)
Next ==
  /\ ~crashed
  /\ \/ Creating \/ Created \/ Attaching
     \/ Ask \/ Answered \/ CallServer \/ RunCommand \/ Cancel
     \/ RequestGoesOn \/ ServerGoesOn \/ CommandGoesOn
     \/ Closing \/ ClosingBackend

(* Timers fire, the kernel goes on with what it awaited, an exit is noticed,  *)
(* the docker daemon answers and SIGKILL ends what it is sent to. A provider  *)
(* owes no record, a server no answer, a command no end.                     *)
Fairness ==
  /\ WF_requestVars(~crashed /\ (BeginAttempt \/ Resolve \/ SleepEnds \/ Closed))
  /\ WF_requestVars(~crashed /\ WatchdogFires)
  /\ WF_requestVars(~crashed /\ stopped /\ (SendFails \/ Drained \/ StreamBreaks))
  /\ WF_mcpVars(~crashed /\ TimesOut)
  /\ WF_mcpVars(~crashed /\ (CloseClients \/ ClientsClosed))
  /\ \A s \in Stdio : /\ WF_mcpVars(~crashed /\ procs[s] = "dying" /\ ProcessExits(s))
                      /\ WF_mcpVars(~crashed /\ ExitNoticed(s))
  /\ WF_runVars(~crashed /\ (Prepare \/ SetUp \/ TearDown \/ Spawn \/ Expire
                              \/ ClientKilled \/ Reap \/ GroupKilled \/ ChildSettles))
  /\ WF_runVars(~crashed /\ Terminated /\ ChildExits)

Spec == Init /\ [][Next]_vars /\ Fairness

-----------------------------------------------------------------------------
(* Whatever a turn waits for outside the process comes to an end: a request   *)
(* to a model, a call of a server and a command each end by their own timers  *)
(* when nothing answers, unless the process itself ended or a process that    *)
(* the command left behind, out of reach of its limits, holds its pipes.     *)
OperationEnds ==
  /\ (request # "none") ~> (request \in {"none", "over"} \/ crashed)
  /\ (asked # Nobody) ~> (asked = Nobody \/ crashed)
  /\ (exec # "none") ~> (exec = "none" \/ Detached \/ crashed)

(* A session that was closed leaves nothing on the daemon but what the daemon *)
(* itself refused to remove (execution/container.ts: "Anything still running  *)
(* is a leak"): no container, no proxy, no private network; and no server      *)
(* outlives it.                                                              *)
NothingLeftRunning ==
  /\ session = "closed" =>
       /\ Cardinality(containers) + Cardinality(proxies) <= refused
       /\ refused = 0 => networks = {}
  /\ NoServerLeft
=============================================================================
