----------------------------- MODULE McpServers -----------------------------
(* The MCP servers of a session: McpService.start attaches them one by one   *)
(* or refuses the session (mcp/service.ts), a client is handshaken once and  *)
(* then called (client.ts), and a stdio server is a process whose pipe is    *)
(* written and read by StdioTransport (transport-stdio.ts) over a local      *)
(* process session (execution/local.ts).                                     *)
(*                                                                           *)
(* A server answers late, in error, or never; it may die, stop reading its   *)
(* input, or flood its output at any time. No request is repeated.           *)
EXTENDS TurnSignal, Naturals, Sequences

CONSTANTS Names,            \* the declared servers, sorted
          Optional,         \* those declared optional
          Stdio             \* those with a process; the others are HTTP

Servers == {Names[i] : i \in DOMAIN Names}

ASSUME McpAssumption ==
  Names \in Seq(Servers) /\ Optional \subseteq Servers /\ Stdio \subseteq Servers

VARIABLES
  service,          \* McpService: being started, up, giving up, closing
  attaching,        \* how many servers start() has begun to attach
  clients,          \* McpClientState of each, "none" before it exists
  procs,            \* the server's process
  shut,             \* transports that are closed
  flooded,          \* transports that closed themselves on too much output
  asked,            \* the request under way: whose, what for, and how far
  listening,        \* the request's abort listener is added
  crashed           \* the CLI ended on an unhandled error

mcpVars == <<service, attaching, clients, procs, shut, flooded, asked, listening, crashed>>

Nobody == [server |-> "nobody", for |-> "nothing", at |-> "none"]

McpTypeOK ==
  /\ service \in {"starting", "up", "refusing", "closing", "closed", "refused"}
  /\ attaching \in 0..Len(Names)
  /\ clients \in [Servers -> {"none", "new", "ready", "closed"}]
  /\ procs \in [Servers -> {"absent", "up", "exited", "dying", "dead"}]
  /\ shut \subseteq Servers
  /\ flooded \subseteq shut
  /\ asked \in [server : Servers \cup {"nobody"}, for : {"nothing", "initialize", "list", "call"},
                at : {"none", "write", "answer"}]
  /\ (asked = Nobody) <=> (asked.at = "none")
  /\ listening \in BOOLEAN
  /\ crashed \in BOOLEAN

McpInit ==
  /\ service = "starting"
  /\ attaching = 0
  /\ clients = [s \in Servers |-> "none"]
  /\ procs = [s \in Servers |-> "absent"]
  /\ shut = {}
  /\ flooded = {}
  /\ asked = Nobody
  /\ listening = FALSE
  /\ crashed = FALSE

Current == Names[attaching]

(* The listener is added after a signal that has already aborted in vain;    *)
(* HTTP composes its signals and hears it still. Start-up has no signal.     *)
Request(s, purpose) ==
  /\ asked' = [server |-> s, for |-> purpose, at |-> IF s \in Stdio THEN "write" ELSE "answer"]
  /\ listening' = (purpose = "call" /\ (s \in Stdio => ~aborted))

Reachable(s) == s \notin shut /\ (s \in Stdio => procs[s] \notin {"absent", "dead"})

(* A handshake that failed: start() goes on without an optional server, whose *)
(* client stays in the map, and gives the session up for any other.          *)
AttachFails ==
  /\ asked' = Nobody
  /\ listening' = FALSE
  /\ service' = IF Current \in Optional THEN service ELSE "refusing"

(* attach(): a credential a stdio server cannot be given, a backend without   *)
(* process sessions, a host that resolves inside, or the transport is there  *)
(* and initialize is asked.                                                  *)
Attach ==
  /\ service = "starting" /\ asked = Nobody
  /\ attaching < Len(Names)
  /\ attaching' = attaching + 1
  /\ LET s == Names[attaching + 1]
     IN  \/ /\ clients' = [clients EXCEPT ![s] = "new"]
            /\ procs' = [procs EXCEPT ![s] = IF s \in Stdio THEN "up" ELSE "absent"]
            /\ Request(s, "initialize")
            /\ UNCHANGED service
         \/ /\ service' = IF s \in Optional THEN "starting" ELSE "refusing"
            /\ UNCHANGED <<clients, procs, asked, listening>>
  /\ UNCHANGED <<shut, flooded, crashed>>

AllAttached ==
  /\ service = "starting" /\ asked = Nobody
  /\ attaching = Len(Names)
  /\ service' = "up"
  /\ UNCHANGED <<attaching, clients, procs, shut, flooded, asked, listening, crashed>>

(* callTool, from a tool call of the turn: only a client that is ready asks,  *)
(* and a transport that is closed or whose process is known dead throws.     *)
CallTool(s) ==
  /\ service = "up" /\ asked = Nobody
  /\ clients[s] = "ready"
  /\ IF Reachable(s) THEN Request(s, "call") ELSE UNCHANGED <<asked, listening>>
  /\ UNCHANGED <<service, attaching, clients, procs, shut, flooded, crashed>>

-----------------------------------------------------------------------------
(* The frame is in the pipe: request() waits for the answer. *)
Written ==
  /\ asked.at = "write"
  /\ procs[asked.server] = "up"
  /\ asked' = [asked EXCEPT !.at = "answer"]
  /\ UNCHANGED <<service, attaching, clients, procs, shut, flooded, listening, crashed>>

(* The process is gone and its exit not yet noticed: the write fails, and     *)
(* nothing listens to the error of the child's input.                        *)
WriteFails ==
  /\ asked.at = "write"
  /\ procs[asked.server] = "exited"
  /\ crashed' = TRUE
  /\ UNCHANGED <<service, attaching, clients, procs, shut, flooded, asked, listening>>

(* The answer, usable or not. A usable one to initialize is followed by the   *)
(* list, which makes the client ready; a call has its result or its error.   *)
Answer ==
  /\ asked.at = "answer"
  /\ asked.server \in Stdio => procs[asked.server] = "up"
  /\ \E usable \in BOOLEAN :
       IF asked.for = "call"
       THEN asked' = Nobody /\ listening' = FALSE /\ UNCHANGED <<service, clients>>
       ELSE IF ~usable THEN AttachFails /\ UNCHANGED clients
       ELSE IF asked.for = "initialize"
       THEN /\ IF Reachable(asked.server) THEN Request(asked.server, "list") /\ UNCHANGED service
               ELSE AttachFails
            /\ UNCHANGED clients
       ELSE /\ clients' = [clients EXCEPT ![asked.server] = "ready"]
            /\ asked' = Nobody /\ listening' = FALSE
            /\ UNCHANGED service
  /\ UNCHANGED <<attaching, procs, shut, flooded, crashed>>

(* The pending entry is rejected. While the frame is still being written no   *)
(* one awaits the answer: the rejection is unhandled and ends the process.   *)
Reject ==
  IF asked.at = "write"
  THEN crashed' = TRUE /\ UNCHANGED <<service, asked, listening>>
  ELSE /\ IF asked.for = "call" \/ service # "starting"
          THEN asked' = Nobody /\ listening' = FALSE /\ UNCHANGED service
          ELSE AttachFails
       /\ UNCHANGED crashed

TimesOut ==
  /\ asked # Nobody
  /\ Reject
  /\ UNCHANGED <<attaching, clients, procs, shut, flooded>>

OnMcpAbort ==
  /\ IF asked # Nobody /\ listening THEN Reject
     ELSE UNCHANGED <<service, asked, listening, crashed>>
  /\ UNCHANGED <<attaching, clients, procs, shut, flooded>>

-----------------------------------------------------------------------------
(* The server's process: it ends of itself or by a signal, and the session    *)
(* notices with the child's close event. watchForDeath fails what is pending  *)
(* unless the transport was closed.                                          *)
ProcessExits(s) ==
  /\ procs[s] \in {"up", "dying"}
  /\ procs' = [procs EXCEPT ![s] = "exited"]
  /\ UNCHANGED <<service, attaching, clients, shut, flooded, asked, listening, crashed>>

ExitNoticed(s) ==
  /\ procs[s] = "exited"
  /\ procs' = [procs EXCEPT ![s] = "dead"]
  /\ IF asked.server = s /\ s \notin shut THEN Reject
     ELSE UNCHANGED <<service, asked, listening, crashed>>
  /\ UNCHANGED <<attaching, clients, shut, flooded>>

Kill(s) == IF procs[s] = "up" THEN "dying" ELSE procs[s]

(* pump(): too much output without a message, and the transport closes itself *)
Floods(s) ==
  /\ s \in Stdio \ shut
  /\ procs[s] = "up"
  /\ shut' = shut \cup {s}
  /\ flooded' = flooded \cup {s}
  /\ procs' = [procs EXCEPT ![s] = Kill(s)]
  /\ IF asked.server = s THEN Reject ELSE UNCHANGED <<service, asked, listening, crashed>>
  /\ UNCHANGED <<attaching, clients>>

-----------------------------------------------------------------------------
(* McpService.close: every client closes its transport, which kills the       *)
(* process group and awaits its exit; one that is already closed returns.    *)
BeginClose ==
  /\ service = "up" /\ asked = Nobody
  /\ service' = "closing"
  /\ UNCHANGED <<attaching, clients, procs, shut, flooded, asked, listening, crashed>>

Shutting == service \in {"refusing", "closing"}

CloseClients ==
  /\ Shutting
  /\ \E s \in Servers : clients[s] \in {"new", "ready"}
  /\ procs' = [s \in Servers |-> IF s \in shut THEN procs[s] ELSE Kill(s)]
  /\ shut' = shut \cup {s \in Servers : clients[s] # "none"}
  /\ clients' = [s \in Servers |-> IF clients[s] = "none" THEN "none" ELSE "closed"]
  /\ UNCHANGED <<service, attaching, flooded, asked, listening, crashed>>

(* Every kill that close() began has been answered by the process's exit. *)
ClientsClosed ==
  /\ Shutting
  /\ \A s \in Servers : clients[s] \in {"none", "closed"}
  /\ \A s \in Stdio \ flooded : clients[s] = "closed" => procs[s] = "dead"
  /\ service' = IF service = "closing" THEN "closed" ELSE "refused"
  /\ clients' = [s \in Servers |-> "none"]
  /\ UNCHANGED <<attaching, procs, shut, flooded, asked, listening, crashed>>

McpBackground ==
  \/ Written \/ WriteFails \/ Answer \/ TimesOut
  \/ \E s \in Stdio : ProcessExits(s) \/ ExitNoticed(s) \/ Floods(s)

(* No server outlives the session: when start() has refused it or close()     *)
(* returned, each process is dead, but for one whose transport had closed     *)
(* itself before, which close() does not wait for.                           *)
NoServerLeft ==
  service \in {"closed", "refused"} =>
     \A s \in Stdio \ flooded : procs[s] \in {"absent", "dead"}
=============================================================================
