---------------------------- MODULE ModelRequest ----------------------------
(* One request to a model over HTTP: HttpModelRuntime.generate, its retry     *)
(* loop with the connect and idle watchdogs, the egress gate it sends         *)
(* through, the adapters that translate the stream, and collectModelEvents,   *)
(* which folds the events into the turn the loop reads.                       *)
(*                                                                            *)
(* Every await of the code is a step boundary. The provider and the network   *)
(* answer what they like, late, in part, or not at all. A tool call on the    *)
(* stream is named by the attempt it came in and its index.                   *)
EXTENDS TurnSignal, Naturals, FiniteSets

CONSTANTS MaxAttempts,          \* retry.maxAttempts
          MaxChunks,            \* bound: stream records of one attempt
          Indexes               \* indexes of the tool calls of one stream

ASSUME RequestAssumption == /\ MaxAttempts \in Nat \ {0}
                            /\ MaxChunks \in Nat
                            /\ IsFiniteSet(Indexes)

VARIABLES
  request,          \* where the generator stands
  protocol,         \* the adapter chosen for the model's provider
  attempt,          \* attempts begun
  stopped,          \* attempt$.signal.aborted, of the current attempt
  timedOut,         \* which watchdog fired in this attempt
  watchdog,         \* the timer that is armed
  lease,            \* the credential lease is live
  status,           \* the class of the response being read
  adapter,          \* AdapterState of the current attempt
  turn,             \* what collectModelEvents has folded so far
  chunks,           \* bound: records read in this attempt
  received,         \* history: requests the provider received
  begun             \* history: calls the collector was told the start of

requestVars == <<request, protocol, attempt, stopped, timedOut, watchdog, lease,
                 status, adapter, turn, chunks, received, begun>>

Protocols == {"openai-chat", "other"}
Waiting == {"secret", "sent", "drain", "stream", "closing", "backoff"}
Calls == (1..MaxAttempts) \X Indexes
Errors == {"none", "cancelled", "timeout", "network", "provider", "fatal"}

RequestTypeOK ==
  /\ request \in Waiting \cup {"none", "attempt", "over"}
  /\ protocol \in Protocols
  /\ attempt \in 0..MaxAttempts
  /\ stopped \in BOOLEAN
  /\ timedOut \in {"no", "connect", "idle"}
  /\ watchdog \in {"off", "connect", "idle"}
  /\ lease \in BOOLEAN
  /\ lease => request \in Waiting
  /\ status \in {"none", "ok", "empty", "retry", "refuse"}
  /\ adapter \in [open : SUBSET Indexes, finished : BOOLEAN, sawContent : BOOLEAN]
  /\ turn \in [calls : SUBSET Calls, pending : SUBSET Calls, text : SUBSET (1..MaxAttempts),
               finish : {"unknown", "completed", "tool_calls", "truncated", "error"},
               error : Errors]
  /\ chunks \in 0..MaxChunks
  /\ received \in 0..MaxAttempts
  /\ begun \subseteq Calls

NewAdapter == [open |-> {}, finished |-> FALSE, sawContent |-> FALSE]
NewTurn == [calls |-> {}, pending |-> {}, text |-> {}, finish |-> "unknown", error |-> "none"]

RequestInit ==
  /\ request = "none"
  /\ protocol \in Protocols
  /\ attempt = 0
  /\ stopped = FALSE
  /\ timedOut = "no"
  /\ watchdog = "off"
  /\ lease = FALSE
  /\ status = "none"
  /\ adapter = NewAdapter
  /\ turn = NewTurn
  /\ chunks = 0
  /\ received = 0
  /\ begun = {}

-----------------------------------------------------------------------------
(* What the collector does with one event. *)

CallStart(t, c) == [t EXCEPT !.pending = @ \cup {c}]
CallEnd(t, c) == [t EXCEPT !.pending = @ \ {c}, !.calls = @ \cup {c}]
Finish(t, reason) == [t EXCEPT !.finish = reason]
Failed(t, e) == [t EXCEPT !.error = e, !.finish = "error"]

\* Mutant of Collected: what never got its end is dropped.
CollectedEnded(t) ==
  [t EXCEPT !.pending = {}, !.finish = IF t.calls # {} /\ @ # "error" THEN "tool_calls" ELSE @]

(* The stream is over: a call that never got its end still becomes a call,   *)
(* and a turn with calls is a turn that stopped to call tools.               *)
Collected(t) ==
  LET all == t.calls \cup t.pending
  IN  [t EXCEPT !.calls = all, !.pending = {},
                !.finish = IF all # {} /\ @ # "error" THEN "tool_calls" ELSE @]

-----------------------------------------------------------------------------
(* Leaving the attempt: the finally block.                                   *)

Release == watchdog' = "off" /\ lease' = FALSE

End(t) ==
  /\ request' = "over"
  /\ turn' = Collected(t)
  /\ Release
  /\ UNCHANGED <<protocol, attempt, stopped, timedOut, adapter, chunks, received, begun, status>>

(* The catch block: a watchdog's abort is a timeout and may be retried, the  *)
(* caller's is a cancellation and may not.                                   *)
Cause(e) == IF timedOut # "no" /\ ~aborted THEN "timeout" ELSE e
Retryable(e) == e \in {"timeout", "network", "provider"}
MayRetry(e) == Retryable(e) /\ attempt < MaxAttempts

Throw(e) ==
  IF MayRetry(Cause(e)) /\ ~aborted
  THEN /\ request' = "backoff"
       /\ UNCHANGED <<protocol, attempt, stopped, timedOut, watchdog, lease, status,
                      adapter, turn, chunks, received, begun>>
  ELSE End(Failed(turn, Cause(e)))

-----------------------------------------------------------------------------
(* generate(): the model is unknown or has no adapter, or the loop begins. *)
Generate ==
  /\ request = "none"
  /\ \/ request' = "attempt" /\ UNCHANGED turn
     \/ request' = "over" /\ turn' = Failed(turn, "fatal")
  /\ UNCHANGED <<protocol, attempt, stopped, timedOut, watchdog, lease, status,
                 adapter, chunks, received, begun>>

\* Mutant of BeginAttempt: only an abort during the attempt is heard.
BeginAttemptDeaf ==
  /\ request = "attempt"
  /\ request' = "secret"
  /\ attempt' = attempt + 1
  /\ stopped' = FALSE
  /\ timedOut' = "no"
  /\ UNCHANGED <<protocol, watchdog, lease, status, adapter, turn, chunks, received, begun>>

(* A new attempt has a controller of its own. A caller that already aborted   *)
(* aborts it at once; otherwise onCallerAbort listens. Then the credential.   *)
BeginAttempt ==
  /\ request = "attempt"
  /\ request' = "secret"
  /\ attempt' = attempt + 1
  /\ stopped' = aborted
  /\ timedOut' = "no"
  /\ UNCHANGED <<protocol, watchdog, lease, status, adapter, turn, chunks, received, begun>>

(* The provider may need no credential. EgressGate.send hands the request to  *)
(* the transport, and fetch on a signal that is already aborted sends nothing. *)
(* No credential, or a gate that refuses the request for its host, its scheme, *)
(* its size or a secret in it: the error is thrown and is not worth a retry.   *)
Dispatch(keyed) ==
  /\ request' = "sent"
  /\ received' = IF stopped THEN received ELSE received + 1
  /\ watchdog' = "connect"
  /\ lease' = keyed
  /\ UNCHANGED <<protocol, attempt, stopped, timedOut, status, adapter, turn, chunks, begun>>

Resolve ==
  /\ request = "secret"
  /\ \/ \E keyed \in BOOLEAN : Dispatch(keyed)
     \/ Throw("fatal")

(* The race of the response against the attempt's abort. *)
ResponseArrives ==
  /\ request = "sent"
  /\ ~stopped
  /\ \E s \in {"ok", "empty", "retry", "refuse"} :
       /\ status' = s
       /\ timedOut' = "no"
       /\ IF s = "ok"
          THEN /\ request' = "stream"
               /\ watchdog' = "idle"
               /\ adapter' = NewAdapter
               /\ chunks' = 0
               /\ UNCHANGED <<turn, lease>>
          ELSE IF s = "empty"
          THEN /\ request' = "over"
               /\ turn' = Collected(Failed(turn, "provider"))
               /\ Release
               /\ UNCHANGED <<adapter, chunks>>
          ELSE /\ request' = "drain"
               /\ UNCHANGED <<turn, watchdog, lease, adapter, chunks>>
       /\ UNCHANGED <<protocol, attempt, stopped, received, begun>>

SendFails ==
  /\ request = "sent"
  /\ IF stopped THEN Throw("cancelled") ELSE Throw("network")

(* The body of an error response is read to its end. mapError then says       *)
(* whether the status is worth another attempt; the caller is not asked.      *)
Drained ==
  /\ request = "drain"
  /\ \/ /\ stopped
        /\ Throw("cancelled")
     \/ /\ ~stopped
        /\ IF status = "retry" /\ attempt < MaxAttempts
           THEN /\ request' = "backoff"
                /\ lease' = FALSE
                /\ UNCHANGED <<protocol, attempt, stopped, timedOut, watchdog, status,
                               adapter, turn, chunks, received, begun>>
           ELSE End(Failed(turn, "provider"))

(* The sleep between attempts listens to nobody. *)
SleepEnds ==
  /\ request = "backoff"
  /\ request' = "attempt"
  /\ Release
  /\ UNCHANGED <<protocol, attempt, stopped, timedOut, status, adapter, turn, chunks, received, begun>>

-----------------------------------------------------------------------------
(* One record of the stream, translated. openai-chat ends its calls only when *)
(* it is flushed; the others end each call and the answer by records.         *)

Flush(t) ==
  LET ended == {<<attempt, i>> : i \in adapter.open}
  IN  [t EXCEPT !.calls = @ \cup ended, !.pending = @ \ ended, !.finish = "completed"]

Text == /\ turn' = [turn EXCEPT !.text = @ \cup {attempt}]
        /\ adapter' = [adapter EXCEPT !.sawContent = TRUE]
        /\ UNCHANGED begun

ToolCallStart(i) ==
  /\ <<attempt, i>> \notin begun
  /\ turn' = CallStart(turn, <<attempt, i>>)
  /\ adapter' = [adapter EXCEPT !.open = @ \cup {i}, !.sawContent = TRUE]
  /\ begun' = begun \cup {<<attempt, i>>}

ToolCallEnd(i) ==
  /\ protocol = "other"
  /\ i \in adapter.open
  /\ turn' = CallEnd(turn, <<attempt, i>>)
  /\ adapter' = [adapter EXCEPT !.open = @ \ {i}]
  /\ UNCHANGED begun

(* openai-chat and openai-responses end what is open with the answer;         *)
(* anthropic leaves it to the collector.                                      *)
Terminal ==
  /\ turn' \in {Flush(turn)} \cup (IF protocol = "other" THEN {Finish(turn, "completed")} ELSE {})
  /\ adapter' = [adapter EXCEPT !.finished = TRUE, !.open = {}]
  /\ UNCHANGED begun

StreamError ==
  /\ turn' = Failed(turn, "provider")
  /\ adapter' = [adapter EXCEPT !.finished = TRUE]
  /\ UNCHANGED begun

Record ==
  /\ request = "stream"
  /\ ~stopped
  /\ chunks < MaxChunks
  /\ \/ Text
     \/ \E i \in Indexes : ToolCallStart(i) \/ ToolCallEnd(i)
     \/ Terminal
     \/ StreamError
  /\ chunks' = chunks + 1
  /\ watchdog' = "idle"
  /\ request' = IF adapter'.finished THEN "closing" ELSE "stream"
  /\ UNCHANGED <<protocol, attempt, stopped, timedOut, lease, status, received>>

(* The connection closes, with or without a terminal record before it. *)
StreamCloses ==
  /\ request = "stream"
  /\ ~stopped
  /\ request' = "closing"
  /\ UNCHANGED <<protocol, attempt, stopped, timedOut, watchdog, lease, status,
                 adapter, turn, chunks, received, begun>>

StreamBreaks ==
  /\ request = "stream"
  /\ IF stopped THEN Throw("cancelled") ELSE Throw("fatal")

(* The reader is released, what the adapter still holds is flushed, and a     *)
(* stream that had no terminal record is reported as such.                    *)
Closed ==
  /\ request = "closing"
  /\ LET flushed == IF protocol = "openai-chat" /\ ~adapter.finished THEN Flush(turn) ELSE turn
         ended == adapter.finished \/ protocol = "openai-chat"
     IN  End(IF ended THEN flushed
             ELSE Finish(flushed, IF adapter.sawContent THEN "truncated" ELSE "error"))

-----------------------------------------------------------------------------
\* Mutant of WatchdogFires: the phase is noted and nothing aborted.
WatchdogNotes ==
  /\ watchdog # "off"
  /\ timedOut = "no"
  /\ timedOut' = watchdog
  /\ UNCHANGED <<request, protocol, attempt, stopped, watchdog, lease, status, adapter, turn,
                 chunks, received, begun>>

(* The armed timer fires: it says which phase it was and aborts the attempt. *)
WatchdogFires ==
  /\ watchdog # "off"
  /\ timedOut = "no"
  /\ timedOut' = watchdog
  /\ stopped' = TRUE
  /\ UNCHANGED <<request, protocol, attempt, watchdog, lease, status, adapter, turn,
                 chunks, received, begun>>

(* What the turn's abort does here: onCallerAbort, while an attempt listens. *)
OnCallerAbort ==
  /\ stopped' = (stopped \/ request \in Waiting)
  /\ UNCHANGED <<request, protocol, attempt, timedOut, watchdog, lease, status,
                 adapter, turn, chunks, received, begun>>

RequestStep ==
  \/ BeginAttempt \/ Resolve \/ ResponseArrives \/ SendFails
  \/ Drained \/ SleepEnds \/ Record \/ StreamCloses \/ StreamBreaks \/ Closed
  \/ WatchdogFires

-----------------------------------------------------------------------------
(* No tool call is dropped: unless the turn is an error, every call whose     *)
(* start was streamed is a call of the turn, and the turn says tool_calls     *)
(* (model/ir.ts: "the loop would silently drop it and violate invariant 1").  *)
EveryCallReported ==
  (request = "over" /\ turn.finish # "error") =>
     /\ begun \subseteq turn.calls
     /\ begun # {} => turn.finish = "tool_calls"

(* A cancelled turn sends nothing more to a provider: once the signal is      *)
(* aborted no attempt, first or repeated, reaches the network.                *)
NothingSentAfterCancel == [][aborted => received' <= received]_<<requestVars, aborted>>
=============================================================================
