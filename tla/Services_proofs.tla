---------------------------- MODULE Services_proofs ----------------------------
(***************************************************************************)
(* Theorems about Services and the three services it composes, for every    *)
(* number of attempts, servers, commands and refusals.  A service moves by   *)
(* its own actions or not at all, so each has an inductive invariant of its  *)
(* own: Requesting, Heard and Gathered for the request to the model, Serving *)
(* for the MCP servers, Running, CountedLeft and Timely for the backend, and *)
(* Ordered for what the session makes of them.                              *)
(***************************************************************************)
EXTENDS Services, FiniteSetTheorems, TLAPS

-----------------------------------------------------------------------------
(* The model request.                                                      *)

Adapters == [open : SUBSET Indexes, finished : BOOLEAN, sawContent : BOOLEAN]
Turns == [calls : SUBSET Calls, pending : SUBSET Calls, text : SUBSET (1..MaxAttempts),
          finish : {"unknown", "completed", "tool_calls", "truncated", "error"}, error : Errors]

(* What the types rest on: there is an attempt left for whoever may begin one, and a
   request that is out has been counted. *)
Requesting ==
  /\ aborted \in BOOLEAN
  /\ RequestTypeOK
  /\ request = "none" => attempt = 0
  /\ request \in {"attempt", "backoff"} => attempt < MaxAttempts
  /\ request \in Waiting => attempt > 0
  /\ received <= attempt /\ (request = "secret" => received < attempt)

(* What the caller aborted, the attempt that is out has heard of. *)
Heard == aborted /\ request \in Waiting => stopped

(* A call whose start was streamed is kept until the end makes it a call. *)
Gathered == begun \subseteq turn.calls \cup turn.pending /\ EveryCallReported

(* Answered, as far as it is about the request. *)
Renewed ==
  /\ request = "over"
  /\ request' = "none"
  /\ protocol' \in Protocols
  /\ attempt' = 0 /\ stopped' = FALSE /\ timedOut' = "no" /\ status' = "none"
  /\ adapter' = NewAdapter /\ turn' = NewTurn
  /\ chunks' = 0 /\ received' = 0 /\ begun' = {}
  /\ UNCHANGED <<watchdog, lease>>

(* How the request moves in a step of the services. *)
LEMMA RequestMoves ==
  ASSUME [Next]_vars
  PROVE  \/ UNCHANGED <<aborted, requestVars>>
         \/ Generate /\ ~aborted /\ UNCHANGED aborted
         \/ Renewed /\ UNCHANGED aborted
         \/ RequestStep /\ UNCHANGED aborted
         \/ aborted' = TRUE /\ OnCallerAbort
<1>1. CASE Ask BY <1>1 DEF Ask
<1>2. CASE Answered BY <1>2 DEF Answered, Renewed
<1>3. CASE RequestGoesOn BY <1>3 DEF RequestGoesOn
<1>4. CASE Cancel BY <1>4 DEF Cancel
<1>5. CASE UNCHANGED vars BY <1>5 DEF vars
<1>6. CASE Creating \/ Created \/ Attaching \/ CallServer \/ RunCommand \/ ServerGoesOn \/ CommandGoesOn
           \/ Closing \/ ClosingBackend
  BY <1>6 DEF Creating, Created, Attaching, CallServer, RunCommand, ServerGoesOn, CommandGoesOn, Closing,
              ClosingBackend
<1>7. QED BY <1>1, <1>2, <1>3, <1>4, <1>5, <1>6 DEF Next

(* The collector of a turn makes turns of turns. *)
LEMMA TurnsTyped ==
  ASSUME NEW t \in Turns, NEW c \in Calls, NEW e \in Errors,
         NEW r \in {"completed", "truncated", "error"}
  PROVE  /\ CallStart(t, c) \in Turns /\ CallEnd(t, c) \in Turns /\ Finish(t, r) \in Turns
         /\ Failed(t, e) \in Turns /\ Collected(t) \in Turns
  BY DEF Turns, CallStart, CallEnd, Finish, Failed, Collected

LEMMA EndedTyped ==
  ASSUME NEW t \in Turns, NEW e \in Errors
  PROVE  Failed(t, e) \in Turns /\ Collected(Failed(t, e)) \in Turns
<1>1. PICK u \in Turns : u = Failed(t, e) BY DEF Failed, Turns
<1>2. Collected(u) \in Turns BY DEF Collected, Turns
<1>3. QED BY <1>1, <1>2

(* Throwing an error either leaves the attempt for another or ends the request. *)
LEMMA ThrowIs ==
  ASSUME RequestTypeOK, NEW e \in {"cancelled", "network", "fatal"}, Throw(e)
  PROVE  /\ UNCHANGED <<protocol, attempt, stopped, timedOut, adapter, chunks, received, begun, status>>
         /\ \/ /\ request' = "backoff" /\ attempt < MaxAttempts
               /\ UNCHANGED <<watchdog, lease, turn>>
            \/ /\ request' = "over" /\ watchdog' = "off" /\ lease' = FALSE
               /\ \E f \in Errors : turn' = Collected(Failed(turn, f))
<1>1. Cause(e) \in Errors BY DEF Cause, Errors
<1>2. CASE MayRetry(Cause(e)) /\ ~aborted BY <1>2 DEF Throw, MayRetry
<1>3. CASE ~(MayRetry(Cause(e)) /\ ~aborted)
  <2>1. End(Failed(turn, Cause(e))) BY <1>3 DEF Throw
  <2>2. QED BY <1>1, <2>1 DEF End, Release
<1>4. QED BY <1>2, <1>3

(* Each action of the request keeps what its types rest on. *)
LEMMA RequestingStep ==
  ASSUME Requesting, [Next]_vars
  PROVE  Requesting'
<1> USE RequestAssumption
<1>a. adapter \in Adapters /\ turn \in Turns BY DEF Requesting, RequestTypeOK, Adapters, Turns
<1>b. NewAdapter \in Adapters /\ NewTurn \in Turns BY DEF NewAdapter, NewTurn, Adapters, Turns, Errors
<1>c. \A e \in Errors : Collected(Failed(turn, e)) \in Turns BY <1>a, EndedTyped
<1>d. aborted' \in BOOLEAN BY RequestMoves DEF Requesting, requestVars
<1>1. CASE UNCHANGED <<aborted, requestVars>>
  BY <1>d, <1>1 DEF Requesting, RequestTypeOK, requestVars, Waiting
<1>2. CASE Generate
  <2>1. turn' \in Turns
    <3>1. Failed(turn, "fatal") \in Turns BY <1>a, EndedTyped DEF Errors
    <3>2. QED BY <1>2, <1>a, <3>1 DEF Generate
  <2>2. QED BY <1>d, <1>2, <2>1 DEF Requesting, RequestTypeOK, Generate, Waiting, Turns
<1>3. CASE Renewed
  <2>1. adapter' \in Adapters /\ turn' \in Turns BY <1>3, <1>b DEF Renewed
  <2>2. lease' = FALSE BY <1>d, <1>3 DEF Requesting, RequestTypeOK, Renewed, Waiting
  <2>3. 0 \in 0..MaxAttempts /\ 0 \in 0..MaxChunks OBVIOUS
  <2>4. RequestTypeOK'
    BY <1>d, <1>3, <2>1, <2>2, <2>3 DEF Requesting, RequestTypeOK, Renewed, Adapters, Turns
  <2>5. QED BY <1>d, <1>3, <2>4 DEF Renewed, Requesting, Waiting
<1>4. CASE OnCallerAbort
  BY <1>d, <1>4 DEF Requesting, RequestTypeOK, OnCallerAbort, Waiting
<1>5. ASSUME NEW e \in {"cancelled", "network", "fatal"}, Throw(e), request \in Waiting
      PROVE  Requesting'
  <2>1. RequestTypeOK BY DEF Requesting
  <2>2. CASE request' = "backoff"
    <3>1. /\ UNCHANGED <<protocol, attempt, stopped, timedOut, adapter, chunks, received, begun, status>>
          /\ attempt < MaxAttempts /\ UNCHANGED <<watchdog, lease, turn>>
      BY <1>5, <2>1, <2>2, ThrowIs
    <3>2. QED BY <1>d, <1>5, <2>2, <3>1 DEF Requesting, RequestTypeOK, Waiting
  <2>3. CASE request' = "over"
    <3>1. /\ UNCHANGED <<protocol, attempt, stopped, timedOut, adapter, chunks, received, begun, status>>
          /\ watchdog' = "off" /\ lease' = FALSE /\ turn' \in Turns
      BY <1>5, <1>c, <2>1, <2>3, ThrowIs
    <3>2. QED BY <1>d, <1>5, <2>3, <3>1 DEF Requesting, RequestTypeOK, Waiting, Turns
  <2>4. QED BY <1>5, <2>1, <2>2, <2>3, ThrowIs
<1>6. ASSUME NEW t \in Turns, End(t) PROVE Requesting'
  <2>1. turn' \in Turns BY <1>6 DEF End, Collected, Turns
  <2>2. QED BY <1>d, <1>6, <2>1 DEF Requesting, RequestTypeOK, End, Release, Waiting, Turns
<1>7. CASE BeginAttempt
  <2>1. attempt \in 0..MaxAttempts /\ attempt < MaxAttempts /\ received <= attempt /\ received \in 0..MaxAttempts
    BY <1>d, <1>7 DEF Requesting, RequestTypeOK, BeginAttempt
  <2>2. attempt' = attempt + 1 /\ attempt' \in 0..MaxAttempts /\ attempt' > 0 /\ received' < attempt'
    BY <1>7, <2>1 DEF BeginAttempt
  <2>3. lease' = lease /\ ~lease BY <1>d, <1>7 DEF BeginAttempt, Requesting, RequestTypeOK, Waiting
  <2>4. stopped' \in BOOLEAN BY <1>7 DEF BeginAttempt, Requesting
  <2>5. RequestTypeOK' BY <1>d, <1>7, <2>2, <2>3, <2>4 DEF BeginAttempt, Requesting, RequestTypeOK, Waiting
  <2>6. QED BY <1>d, <1>7, <2>1, <2>2, <2>5 DEF BeginAttempt, Requesting
<1>8. CASE Resolve
  <2>1. ASSUME NEW keyed \in BOOLEAN, Dispatch(keyed), request = "secret" PROVE Requesting'
    BY <1>d, <2>1 DEF Requesting, RequestTypeOK, Dispatch, Waiting
  <2>2. QED BY <1>5, <1>8, <2>1 DEF Resolve, Waiting
<1>9. CASE ResponseArrives
  <2>1. request = "sent" /\ UNCHANGED <<protocol, attempt, stopped, received, begun>> BY <1>9 DEF ResponseArrives
  <2>2. status' \in {"ok", "empty", "retry", "refuse"} /\ timedOut' = "no" BY <1>9 DEF ResponseArrives
  <2>3. \/ request' = "stream" /\ watchdog' = "idle" /\ adapter' = NewAdapter /\ chunks' = 0 /\ UNCHANGED <<turn, lease>>
        \/ request' = "over" /\ turn' = Collected(Failed(turn, "provider")) /\ Release /\ UNCHANGED <<adapter, chunks>>
        \/ request' = "drain" /\ UNCHANGED <<turn, watchdog, lease, adapter, chunks>>
    BY <1>9 DEF ResponseArrives
  <2>4. turn' \in Turns /\ adapter' \in Adapters /\ chunks' \in 0..MaxChunks
    BY <1>d, <1>a, <1>b, <1>c, <2>3 DEF Errors, Requesting, RequestTypeOK
  <2>5. request' \in {"stream", "drain", "over"} /\ watchdog' \in {"off", "connect", "idle"} /\ lease' \in BOOLEAN
        /\ (lease' => request' \in Waiting)
    BY <1>d, <2>3 DEF Requesting, RequestTypeOK, Release, Waiting
  <2>6. QED BY <1>d, <2>1, <2>2, <2>4, <2>5 DEF Requesting, RequestTypeOK, Waiting, Adapters, Turns
<1>10. CASE SendFails
  BY <1>5, <1>10 DEF SendFails, Waiting
<1>11. CASE Drained
  <2>1. CASE Throw("cancelled") BY <1>5, <1>11, <2>1 DEF Drained, Waiting
  <2>2. CASE /\ request' = "backoff" /\ request = "drain" /\ attempt < MaxAttempts /\ lease' = FALSE
             /\ UNCHANGED <<protocol, attempt, stopped, timedOut, watchdog, status, adapter, turn, chunks, received, begun>>
    <3>1. RequestTypeOK' BY <1>d, <2>2, ZenonT(40) DEF Requesting, RequestTypeOK, Waiting
    <3>2. request' = "backoff" /\ attempt' = attempt /\ received' = received /\ attempt < MaxAttempts BY <2>2
    <3>3. attempt > 0 /\ received <= attempt BY <2>2 DEF Requesting, Waiting
    <3>4. QED BY <1>d, <3>1, <3>2, <3>3 DEF Requesting
  <2>3. CASE End(Failed(turn, "provider"))
    <3>1. Failed(turn, "provider") \in Turns BY <1>a DEF Failed, Turns, Errors
    <3>2. QED BY <1>6, <2>3, <3>1
  <2>4. QED BY <1>11, <2>1, <2>2, <2>3 DEF Drained
<1>12. CASE SleepEnds
  BY <1>d, <1>12 DEF Requesting, RequestTypeOK, SleepEnds, Release, Waiting
<1>13. CASE Record
  <2>1. /\ request = "stream" /\ chunks < MaxChunks /\ chunks' = chunks + 1 /\ watchdog' = "idle"
        /\ request' \in {"closing", "stream"}
        /\ UNCHANGED <<protocol, attempt, stopped, timedOut, lease, status, received>>
    BY <1>13 DEF Record
  <2>2. attempt \in 1..MaxAttempts BY <1>d, <2>1 DEF Requesting, RequestTypeOK, Waiting
  <2>3. begun \subseteq Calls BY DEF Requesting, RequestTypeOK
  <2>4. turn' \in Turns /\ adapter' \in Adapters /\ begun' \subseteq Calls
    <3>1. CASE Text BY <1>a, <2>2, <2>3, <3>1 DEF Text, Turns, Adapters
    <3>2. ASSUME NEW i \in Indexes, ToolCallStart(i) PROVE turn' \in Turns /\ adapter' \in Adapters /\ begun' \subseteq Calls
      <4>1. <<attempt, i>> \in Calls BY <2>2 DEF Calls
      <4>2. QED BY <1>a, <2>3, <3>2, <4>1 DEF ToolCallStart, CallStart, Turns, Adapters
    <3>3. ASSUME NEW i \in Indexes, ToolCallEnd(i) PROVE turn' \in Turns /\ adapter' \in Adapters /\ begun' \subseteq Calls
      <4>1. <<attempt, i>> \in Calls BY <2>2 DEF Calls
      <4>2. QED BY <1>a, <2>3, <3>3, <4>1 DEF ToolCallEnd, CallEnd, Turns, Adapters
    <3>4. CASE Terminal
      <4>1. {<<attempt, i>> : i \in adapter.open} \subseteq Calls BY <1>a, <2>2 DEF Calls, Adapters
      <4>2. Flush(turn) \in Turns BY <1>a, <4>1 DEF Flush, Turns
      <4>3. Finish(turn, "completed") \in Turns BY <1>a DEF Finish, Turns
      <4>4. QED BY <1>a, <2>3, <3>4, <4>2, <4>3 DEF Terminal, Adapters
    <3>5. CASE StreamError BY <1>a, <2>3, <3>5 DEF StreamError, Failed, Turns, Adapters, Errors
    <3>6. QED BY <1>13, <3>1, <3>2, <3>3, <3>4, <3>5 DEF Record
  <2>5. QED BY <1>d, <2>1, <2>4 DEF Requesting, RequestTypeOK, Waiting, Turns, Adapters
<1>14. CASE StreamCloses
  BY <1>d, <1>14 DEF Requesting, RequestTypeOK, StreamCloses, Waiting
<1>15. CASE StreamBreaks
  BY <1>5, <1>15 DEF StreamBreaks, Waiting
<1>16. CASE Closed
  <2>1. request = "closing" BY <1>16 DEF Closed
  <2>2. {<<attempt, i>> : i \in adapter.open} \subseteq Calls
    <3>1. attempt \in 1..MaxAttempts BY <1>d, <2>1 DEF Requesting, RequestTypeOK, Waiting
    <3>2. QED BY <1>a, <3>1 DEF Calls, Adapters
  <2>3. Flush(turn) \in Turns BY <1>a, <2>2 DEF Flush, Turns
  <2>4. PICK t : t \in {turn, Flush(turn)} /\ (End(t) \/ End(Finish(t, "truncated")) \/ End(Finish(t, "error")))
    BY <1>16 DEF Closed
  <2>5. Finish(t, "truncated") \in Turns /\ Finish(t, "error") \in Turns BY <1>a, <2>3, <2>4 DEF Finish, Turns
  <2>6. QED BY <1>6, <1>a, <2>3, <2>4, <2>5
<1>17. CASE WatchdogFires
  BY <1>d, <1>17 DEF Requesting, RequestTypeOK, WatchdogFires, Waiting
<1>18. QED BY <1>1, <1>2, <1>3, <1>4, <1>7, <1>8, <1>9, <1>10, <1>11, <1>12, <1>13, <1>14, <1>15, <1>16, <1>17,
              RequestMoves DEF RequestStep

LEMMA RequestingInit == Init => Requesting
<1>1. SUFFICES ASSUME Init PROVE Requesting OBVIOUS
<1>2. NewAdapter \in Adapters /\ NewTurn \in Turns BY DEF NewAdapter, NewTurn, Adapters, Turns, Errors
<1>3. aborted = FALSE /\ RequestInit BY <1>1 DEF Init
<1>4. 0 \in 0..MaxAttempts /\ 0 \in 0..MaxChunks /\ 0 < MaxAttempts BY RequestAssumption
<1>5. adapter \in Adapters /\ turn \in Turns BY <1>2, <1>3 DEF RequestInit
<1>6. RequestTypeOK BY <1>3, <1>4, <1>5 DEF RequestInit, RequestTypeOK, Adapters, Turns
<1>7. aborted \in BOOLEAN BY <1>3
<1>8. request = "none" /\ attempt = 0 /\ received = 0 BY <1>3 DEF RequestInit
<1>9. request \notin Waiting /\ received <= attempt BY <1>8 DEF Waiting
<1>10. QED BY <1>4, <1>6, <1>7, <1>8, <1>9 DEF Requesting

LEMMA AlwaysRequesting == Spec => []Requesting
<1>1. Requesting /\ [Next]_vars => Requesting' BY RequestingStep
<1>2. QED BY RequestingInit, <1>1, PTL DEF Spec

(* An attempt begins with the abort it missed, and hears every later one. *)
LEMMA HeardStep ==
  ASSUME Requesting, Heard, [Next]_vars
  PROVE  Heard'
<1>0. RequestTypeOK BY DEF Requesting
<1>1. CASE UNCHANGED <<aborted, requestVars>> \/ Renewed \/ OnCallerAbort
  BY <1>1 DEF Heard, requestVars, Renewed, OnCallerAbort, Waiting
<1>2. CASE Generate /\ ~aborted /\ UNCHANGED aborted BY <1>2 DEF Heard
<1>3. ASSUME NEW e \in {"cancelled", "network", "fatal"}, Throw(e), request \in Waiting, UNCHANGED aborted
      PROVE  Heard'
  BY <1>0, <1>3, ThrowIs DEF Heard, Waiting
<1>4. ASSUME NEW t, End(t) PROVE Heard' BY <1>4 DEF Heard, End, Waiting
<1>5. CASE BeginAttempt /\ UNCHANGED aborted BY <1>5 DEF Heard, BeginAttempt
<1>6. CASE Resolve /\ UNCHANGED aborted
  <2>1. ASSUME NEW keyed \in BOOLEAN, Dispatch(keyed), request = "secret" PROVE Heard'
    BY <1>6, <2>1 DEF Heard, Dispatch, Waiting
  <2>2. QED BY <1>3, <1>6, <2>1 DEF Resolve, Waiting
<1>7. CASE ResponseArrives /\ UNCHANGED aborted
  BY <1>7 DEF Heard, ResponseArrives, Waiting
<1>8. CASE (SendFails \/ StreamBreaks) /\ UNCHANGED aborted
  BY <1>3, <1>8 DEF SendFails, StreamBreaks, Waiting
<1>9. CASE Drained /\ UNCHANGED aborted
  <2>1. CASE Throw("cancelled") BY <1>3, <1>9, <2>1 DEF Drained, Waiting
  <2>2. CASE request = "drain" /\ UNCHANGED stopped BY <1>9, <2>2 DEF Heard, Waiting
  <2>3. QED BY <1>4, <1>9, <2>1, <2>2 DEF Drained
<1>10. CASE (SleepEnds \/ Record \/ StreamCloses \/ WatchdogFires) /\ UNCHANGED aborted
  BY <1>10 DEF Heard, SleepEnds, Record, StreamCloses, WatchdogFires, Waiting
<1>11. CASE Closed BY <1>4, <1>11 DEF Closed
<1>12. QED BY <1>1, <1>2, <1>5, <1>6, <1>7, <1>8, <1>9, <1>10, <1>11, RequestMoves DEF RequestStep

LEMMA AlwaysHeard == Spec => []Heard
<1>1. Init => Heard BY DEF Init, Heard
<1>2. Requesting /\ Heard /\ [Next]_vars => Heard' BY HeardStep
<1>3. QED BY AlwaysRequesting, <1>1, <1>2, PTL DEF Spec

(* What reaches the provider more than before: a dispatch nobody has aborted, and
   nothing once the turn is. *)
LEMMA NoDispatchAborted ==
  ASSUME Requesting, Heard, [Next]_vars, aborted
  PROVE  received' <= received
<1>0. RequestTypeOK /\ received \in Nat BY RequestAssumption DEF Requesting, RequestTypeOK
<1>1. CASE UNCHANGED received BY <1>0, <1>1
<1>2. CASE Renewed BY <1>0, <1>2 DEF Renewed
<1>3. ASSUME NEW keyed, Dispatch(keyed), request = "secret" PROVE received' <= received
  <2>1. stopped BY <1>3 DEF Heard, Waiting
  <2>2. QED BY <1>0, <1>3, <2>1 DEF Dispatch
<1>4. ASSUME NEW e \in {"cancelled", "network", "fatal"}, Throw(e) PROVE UNCHANGED received
  BY <1>0, <1>4, ThrowIs
<1>5. CASE Resolve BY <1>1, <1>3, <1>4, <1>5 DEF Resolve
<1>6. CASE SendFails \/ Drained \/ StreamBreaks
  BY <1>1, <1>4, <1>6 DEF SendFails, Drained, StreamBreaks, End
<1>7. CASE Generate \/ OnCallerAbort \/ BeginAttempt \/ ResponseArrives \/ SleepEnds \/ Record \/ StreamCloses
           \/ Closed \/ WatchdogFires \/ UNCHANGED <<aborted, requestVars>>
  BY <1>1, <1>7 DEF Generate, OnCallerAbort, BeginAttempt, ResponseArrives, SleepEnds, Record, StreamCloses,
                    Closed, End, WatchdogFires, requestVars
<1>8. QED BY <1>2, <1>5, <1>6, <1>7, RequestMoves DEF RequestStep

(* Once the signal is aborted, no attempt, first or repeated, reaches a provider,
   however many there may still be. *)
THEOREM NothingIsSentAfterCancel == Spec => NothingSentAfterCancel
<1>1. Requesting /\ Heard /\ [Next]_vars => [aborted => received' <= received]_<<requestVars, aborted>>
  BY NoDispatchAborted
<1>2. QED BY AlwaysRequesting, AlwaysHeard, <1>1, PTL DEF Spec, NothingSentAfterCancel

LEMMA FlushKeeps ==
  ASSUME turn \in Turns
  PROVE  turn.calls \cup turn.pending \subseteq Flush(turn).calls \cup Flush(turn).pending
<1>1. \E E : Flush(turn) = [turn EXCEPT !.calls = @ \cup E, !.pending = @ \ E, !.finish = "completed"]
  BY DEF Flush
<1>2. QED BY <1>1 DEF Turns

(* No call that was begun is forgotten. *)
LEMMA GatheredStep ==
  ASSUME Requesting, Gathered, [Next]_vars
  PROVE  Gathered'
<1>0. RequestTypeOK /\ turn \in Turns BY DEF Requesting, RequestTypeOK, Turns
<1> DEFINE Kept(t) == t.calls \cup t.pending
<1>1. ASSUME NEW t \in Turns, begun \subseteq Kept(t), turn' = Collected(t), begun' = begun
      PROVE  Gathered'
  <2>1. turn'.calls = Kept(t) BY <1>1 DEF Collected, Turns
  <2>2. turn'.finish # "error" /\ Kept(t) # {} => turn'.finish = "tool_calls" BY <1>1 DEF Collected, Turns
  <2>3. QED BY <1>1, <2>1, <2>2 DEF Gathered, EveryCallReported
<1>2. \A e \in Errors : Failed(turn, e) \in Turns /\ Kept(Failed(turn, e)) = Kept(turn)
  BY <1>0 DEF Failed, Turns
<1>3. CASE UNCHANGED <<request, turn, begun>> BY <1>3 DEF Gathered, EveryCallReported
<1>4. CASE request' # "over" /\ begun' \subseteq Kept(turn') BY <1>4 DEF Gathered, EveryCallReported
<1>5. ASSUME NEW e \in {"cancelled", "network", "fatal"}, Throw(e) PROVE Gathered'
  <2>1. CASE request' = "backoff" BY <1>0, <1>4, <1>5, <2>1, ThrowIs DEF Gathered
  <2>2. CASE request' = "over"
    <3>1. PICK f \in Errors : turn' = Collected(Failed(turn, f)) /\ begun' = begun BY <1>0, <1>5, <2>2, ThrowIs
    <3>2. QED BY <1>1, <1>2, <3>1 DEF Gathered
  <2>3. QED BY <1>0, <1>5, <2>1, <2>2, ThrowIs
<1>6. CASE Generate
  <2>1. CASE UNCHANGED turn /\ request' = "attempt" BY <1>4, <1>6, <2>1 DEF Generate, Gathered
  <2>2. CASE turn' = Failed(turn, "fatal")
    <3>1. turn'.finish = "error" /\ Kept(turn') = Kept(turn) /\ begun' = begun
      BY <1>0, <1>6, <2>2 DEF Failed, Turns, Generate
    <3>2. QED BY <3>1 DEF Gathered, EveryCallReported
  <2>3. QED BY <1>6, <2>1, <2>2 DEF Generate
<1>7. CASE Renewed BY <1>4, <1>7 DEF Renewed
<1>8. CASE ResponseArrives
  <2>1. begun' = begun BY <1>8 DEF ResponseArrives
  <2>2. CASE turn' = Collected(Failed(turn, "provider")) BY <1>1, <1>2, <2>1, <2>2 DEF Gathered, Errors
  <2>3. CASE UNCHANGED turn /\ request' # "over" BY <1>4, <2>1, <2>3 DEF Gathered
  <2>4. QED BY <1>8, <2>2, <2>3 DEF ResponseArrives
<1>9. CASE Drained
  <2>1. CASE End(Failed(turn, "provider")) BY <1>1, <1>2, <2>1 DEF Gathered, Errors, End
  <2>2. CASE request' = "backoff" /\ UNCHANGED <<turn, begun>> BY <1>4, <2>2 DEF Gathered
  <2>3. QED BY <1>5, <1>9, <2>1, <2>2 DEF Drained
<1>10. CASE Record
  <2>1. request' # "over" BY <1>10 DEF Record
  <2>2. CASE Text BY <1>0, <1>4, <2>1, <2>2 DEF Text, Gathered, Turns
  <2>3. ASSUME NEW i \in Indexes, ToolCallStart(i) PROVE Gathered'
    <3>1. Kept(turn') = Kept(turn) \cup {<<attempt, i>>} BY <1>0, <2>3 DEF ToolCallStart, CallStart, Turns
    <3>2. QED BY <1>4, <2>1, <2>3, <3>1 DEF Gathered, ToolCallStart
  <2>4. ASSUME NEW i \in Indexes, ToolCallEnd(i) PROVE Gathered'
    <3>1. Kept(turn) \subseteq Kept(turn') BY <1>0, <2>4 DEF ToolCallEnd, CallEnd, Turns
    <3>2. QED BY <1>4, <2>1, <2>4, <3>1 DEF Gathered, ToolCallEnd
  <2>5. CASE Terminal
    <3>1. Kept(turn) \subseteq Kept(Finish(turn, "completed")) BY <1>0 DEF Finish, Turns
    <3>2. QED BY <1>0, <1>4, <2>1, <2>5, <3>1, FlushKeeps DEF Gathered, Terminal
  <2>6. CASE StreamError BY <1>2, <1>4, <2>1, <2>6 DEF StreamError, Gathered, Errors
  <2>7. QED BY <1>10, <2>2, <2>3, <2>4, <2>5, <2>6 DEF Record
<1>11. CASE Closed
  <2>1. \A t \in {turn, Flush(turn)} : Kept(turn) \subseteq Kept(t) BY <1>0, FlushKeeps
  <2>2. Flush(turn) \in Turns
    <3>1. request = "closing" BY <1>11 DEF Closed
    <3>2. attempt \in 1..MaxAttempts /\ adapter.open \subseteq Indexes
      BY <3>1, RequestAssumption DEF Requesting, RequestTypeOK, Waiting
    <3>3. {<<attempt, i>> : i \in adapter.open} \subseteq Calls BY <3>2 DEF Calls
    <3>4. QED BY <1>0, <3>3 DEF Flush, Turns
  <2>3. PICK t \in {turn, Flush(turn)} : End(t) \/ End(Finish(t, "truncated")) \/ End(Finish(t, "error"))
    BY <1>11 DEF Closed
  <2>4. t \in Turns BY <1>0, <2>2, <2>3
  <2>5. ASSUME NEW r \in {"truncated", "error"} PROVE Finish(t, r) \in Turns /\ Kept(Finish(t, r)) = Kept(t)
    BY <2>4 DEF Finish, Turns
  <2>6. begun' = begun BY <2>3 DEF End
  <2>7. \E u \in Turns : Kept(u) = Kept(t) /\ turn' = Collected(u) BY <2>3, <2>4, <2>5 DEF End
  <2>8. QED BY <1>1, <2>1, <2>3, <2>6, <2>7 DEF Gathered
<1>12. CASE SendFails \/ StreamBreaks BY <1>5, <1>12 DEF SendFails, StreamBreaks
<1>13. CASE UNCHANGED <<aborted, requestVars>> \/ OnCallerAbort \/ WatchdogFires
  BY <1>3, <1>13 DEF requestVars, OnCallerAbort, WatchdogFires
<1>14. CASE BeginAttempt \/ SleepEnds \/ StreamCloses
  BY <1>4, <1>14 DEF BeginAttempt, SleepEnds, StreamCloses, Gathered
<1>15. CASE Resolve
  BY <1>4, <1>5, <1>15 DEF Resolve, Dispatch, Gathered
<1>16. QED BY <1>6, <1>7, <1>8, <1>9, <1>10, <1>11, <1>12, <1>13, <1>14, <1>15, RequestMoves DEF RequestStep

(* No tool call is dropped: a turn that is no error has every call whose start was
   streamed, whatever ended the stream. *)
THEOREM EveryCallIsReported == Spec => []EveryCallReported
<1>1. Init => Gathered BY DEF Init, RequestInit, Gathered, EveryCallReported
<1>2. Requesting /\ Gathered /\ [Next]_vars => Gathered' BY GatheredStep
<1>3. Gathered => EveryCallReported BY DEF Gathered
<1>4. QED BY AlwaysRequesting, <1>1, <1>2, <1>3, PTL DEF Spec

-----------------------------------------------------------------------------
(* The MCP servers.                                                        *)

Askings == [server : Servers \cup {"nobody"}, for : {"nothing", "initialize", "list", "call"},
            at : {"none", "write", "answer"}]

(* A request that is out is a known server's, and it is out only while the service
   waits for it; a server without a client has no process, until they are forgotten. *)
Serving ==
  /\ McpTypeOK
  /\ asked.at # "none" => asked.server \in Servers
  /\ asked.at # "none" => service = IF asked.for = "call" THEN "up" ELSE "starting"
  /\ service \notin {"closed", "refused"} => \A s \in Servers : clients[s] = "none" => procs[s] = "absent"
  /\ NoServerLeft

(* How the servers move in a step of the services. *)
LEMMA McpMoves ==
  ASSUME [Next]_vars
  PROVE  \/ UNCHANGED mcpVars
         \/ Attach \/ AllAttached
         \/ \E s \in Servers : CallTool(s)
         \/ McpBackground
         \/ OnMcpAbort
         \/ BeginClose \/ CloseClients \/ ClientsClosed
<1>1. CASE Attaching BY <1>1 DEF Attaching
<1>2. CASE CallServer BY <1>2 DEF CallServer
<1>3. CASE ServerGoesOn BY <1>3 DEF ServerGoesOn
<1>4. CASE Cancel BY <1>4 DEF Cancel
<1>5. CASE Closing BY <1>5 DEF Closing
<1>6. CASE UNCHANGED vars BY <1>6 DEF vars
<1>7. CASE Creating \/ Created \/ Ask \/ Answered \/ RunCommand \/ RequestGoesOn \/ CommandGoesOn \/ ClosingBackend
  BY <1>7 DEF Creating, Created, Ask, Answered, RunCommand, RequestGoesOn, CommandGoesOn, ClosingBackend
<1>8. QED BY <1>1, <1>2, <1>3, <1>4, <1>5, <1>6, <1>7 DEF Next

(* A request that is made, and one that is given up. *)
LEMMA RequestTyped ==
  ASSUME aborted \in BOOLEAN, NEW s \in Servers, NEW purpose \in {"initialize", "list", "call"}, Request(s, purpose)
  PROVE  /\ asked' \in Askings /\ asked'.at # "none" /\ asked' # Nobody
         /\ asked'.server = s /\ asked'.for = purpose /\ listening' \in BOOLEAN
  BY DEF Request, Askings, Nobody

LEMMA RejectIs ==
  ASSUME Serving, asked.at # "none", Reject
  PROVE  \/ crashed' = TRUE /\ UNCHANGED <<service, asked, listening>>
         \/ /\ asked' = Nobody /\ listening' = FALSE /\ UNCHANGED crashed
            /\ service' = service \/ (service = "starting" /\ service' = "refusing")
  BY DEF Reject, AttachFails, Serving

LEMMA ServingStep ==
  ASSUME aborted \in BOOLEAN, Serving, [Next]_vars
  PROVE  Serving'
<1> USE McpAssumption
<1>0. /\ McpTypeOK /\ asked \in Askings /\ Nobody \in Askings /\ Nobody.at = "none"
      /\ clients \in [Servers -> {"none", "new", "ready", "closed"}]
      /\ procs \in [Servers -> {"absent", "up", "exited", "dying", "dead"}]
  BY DEF Serving, McpTypeOK, Askings, Nobody
<1>1. CASE UNCHANGED mcpVars
  BY <1>1 DEF Serving, McpTypeOK, NoServerLeft, mcpVars
(* the request is as it was, or over; the service goes on, or gives up *)
<1>2. ASSUME UNCHANGED <<clients, procs, shut, flooded, attaching>>, crashed' \in BOOLEAN, listening' \in BOOLEAN,
             service' = service \/ (service = "starting" /\ service' = "refusing" /\ asked' = Nobody),
             \/ UNCHANGED asked
             \/ asked' = Nobody
             \/ asked.at = "write" /\ asked' = [asked EXCEPT !.at = "answer"]
      PROVE  Serving'
  BY <1>0, <1>2 DEF Serving, McpTypeOK, NoServerLeft, Askings, Nobody
<1>3. CASE Attach
  <2>1. /\ service = "starting" /\ asked = Nobody /\ attaching' = attaching + 1
        /\ attaching \in 0..Len(Names) /\ attaching < Len(Names) /\ UNCHANGED <<shut, flooded, crashed>>
    BY <1>3 DEF Attach, Serving, McpTypeOK
  <2>2. attaching' \in 0..Len(Names) /\ attaching + 1 \in DOMAIN Names BY <2>1
  <2>3. PICK s \in Servers : s = Names[attaching + 1] BY <2>2
  <2>4. CASE /\ clients' = [clients EXCEPT ![s] = "new"]
             /\ procs' = [procs EXCEPT ![s] = IF s \in Stdio THEN "up" ELSE "absent"]
             /\ Request(s, "initialize")
             /\ UNCHANGED service
    <3>1. /\ asked' \in Askings /\ asked'.at # "none" /\ asked' # Nobody
          /\ asked'.server = s /\ asked'.for = "initialize" /\ listening' \in BOOLEAN
      BY <2>4, RequestTyped
    <3>2. /\ clients' \in [Servers -> {"none", "new", "ready", "closed"}]
          /\ procs' \in [Servers -> {"absent", "up", "exited", "dying", "dead"}]
          /\ \A q \in Servers : clients'[q] = "none" => procs'[q] = "absent"
      BY <1>0, <2>1, <2>4 DEF Serving
    <3>3. QED BY <2>1, <2>2, <2>4, <3>1, <3>2 DEF Serving, McpTypeOK, NoServerLeft, Askings
  <2>5. CASE service' \in {"starting", "refusing"} /\ UNCHANGED <<clients, procs, asked, listening>>
    BY <1>0, <2>1, <2>2, <2>5 DEF Serving, McpTypeOK, NoServerLeft
  <2>6. QED BY <1>3, <2>3, <2>4, <2>5 DEF Attach
<1>4. CASE AllAttached
  BY <1>0, <1>4 DEF AllAttached, Serving, McpTypeOK, NoServerLeft
<1>5. ASSUME NEW s \in Servers, CallTool(s) PROVE Serving'
  <2>1. service = "up" /\ asked = Nobody /\ UNCHANGED <<service, attaching, clients, procs, shut, flooded, crashed>>
    BY <1>5 DEF CallTool
  <2>2. CASE Request(s, "call")
    <3>1. /\ asked' \in Askings /\ asked'.at # "none" /\ asked' # Nobody
          /\ asked'.server = s /\ asked'.for = "call" /\ listening' \in BOOLEAN
      BY <2>2, RequestTyped
    <3>2. QED BY <2>1, <3>1 DEF Serving, McpTypeOK, NoServerLeft, Askings
  <2>3. CASE UNCHANGED <<asked, listening>> BY <2>1, <2>3 DEF Serving, McpTypeOK, NoServerLeft
  <2>4. QED BY <1>5, <2>2, <2>3 DEF CallTool
<1>6. CASE Written
  BY <1>2, <1>6 DEF Written, Serving, McpTypeOK
<1>7. CASE WriteFails
  BY <1>2, <1>7 DEF WriteFails, Serving, McpTypeOK
<1>8. CASE Answer
  <2>1. asked.at = "answer" /\ asked.server \in Servers /\ UNCHANGED <<attaching, procs, shut, flooded, crashed>>
        /\ crashed' \in BOOLEAN
    BY <1>8 DEF Answer, Serving, McpTypeOK
  <2>2. CASE asked' = Nobody /\ listening' = FALSE /\ UNCHANGED <<service, clients>> BY <1>2, <2>1, <2>2
  <2>3. CASE asked.for # "call" /\ AttachFails /\ UNCHANGED clients
    <3>1. service = "starting" BY <2>1, <2>3 DEF Serving
    <3>2. QED BY <1>2, <2>1, <2>3, <3>1 DEF AttachFails
  <2>4. CASE asked.for = "initialize" /\ Request(asked.server, "list") /\ UNCHANGED <<service, clients>>
    <3>1. /\ asked' \in Askings /\ asked'.at # "none" /\ asked' # Nobody
          /\ asked'.server = asked.server /\ asked'.for = "list" /\ listening' \in BOOLEAN
      BY <2>1, <2>4, RequestTyped
    <3>2. service = "starting" BY <2>1, <2>4 DEF Serving
    <3>3. QED BY <2>1, <2>4, <3>1, <3>2 DEF Serving, McpTypeOK, NoServerLeft, Askings
  <2>5. CASE /\ clients' = [clients EXCEPT ![asked.server] = "ready"] /\ asked.for # "call"
             /\ asked' = Nobody /\ listening' = FALSE /\ UNCHANGED service
    <3>1. service = "starting" BY <2>1, <2>5 DEF Serving
    <3>2. /\ clients' \in [Servers -> {"none", "new", "ready", "closed"}]
          /\ \A q \in Servers : clients'[q] = "none" => clients[q] = "none"
      BY <1>0, <2>5
    <3>3. QED BY <1>0, <2>1, <2>5, <3>1, <3>2 DEF Serving, McpTypeOK, NoServerLeft, Askings
  <2>6. QED BY <1>8, <2>2, <2>3, <2>4, <2>5 DEF Answer
<1>9. ASSUME asked.at # "none", Reject, UNCHANGED <<attaching, clients, procs, shut, flooded>> PROVE Serving'
  BY <1>2, <1>9, RejectIs DEF Serving, McpTypeOK
<1>10. CASE TimesOut
  BY <1>9, <1>10 DEF TimesOut, Serving, McpTypeOK
<1>11. CASE OnMcpAbort
  BY <1>1, <1>9, <1>11 DEF OnMcpAbort, Serving, McpTypeOK, mcpVars
(* a process ends, or its transport closes *)
<1>12. ASSUME NEW s \in Stdio, NEW p \in {"exited", "dead", "dying"},
              procs[s] \in {"up", "dying", "exited"}, procs' = [procs EXCEPT ![s] = p],
              UNCHANGED <<attaching, clients>>, shut \subseteq shut', shut' \subseteq Servers,
              flooded \subseteq flooded', flooded' \subseteq shut',
              crashed' \in BOOLEAN, listening' \in BOOLEAN,
              service' = service \/ (service = "starting" /\ service' = "refusing" /\ asked' = Nobody),
              asked' = asked \/ asked' = Nobody
       PROVE  Serving'
  <2>1. procs' \in [Servers -> {"absent", "up", "exited", "dying", "dead"}] BY <1>0, <1>12
  <2>2. service' \notin {"closed", "refused"} => \A q \in Servers : clients'[q] = "none" => procs'[q] = "absent"
    BY <1>0, <1>12 DEF Serving
  <2>3. NoServerLeft' BY <1>0, <1>12 DEF Serving, NoServerLeft
  <2>4. McpTypeOK' BY <1>0, <1>12, <2>1 DEF McpTypeOK, Askings
  <2>5. QED BY <1>0, <1>12, <2>2, <2>3, <2>4 DEF Serving
<1>13. ASSUME NEW s \in Stdio, ProcessExits(s) PROVE Serving'
  BY <1>0, <1>12, <1>13 DEF ProcessExits, McpTypeOK
<1>14. ASSUME NEW s \in Stdio, asked.server = s, Reject
       PROVE  /\ crashed' \in BOOLEAN /\ listening' \in BOOLEAN
              /\ service' = service \/ (service = "starting" /\ service' = "refusing" /\ asked' = Nobody)
              /\ asked' = asked \/ asked' = Nobody
  <2>1. CASE asked.at # "none" BY <1>0, <1>14, <2>1, RejectIs DEF McpTypeOK
  <2>2. CASE asked.at = "none"
    BY <1>0, <1>14, <2>2 DEF McpTypeOK, Reject, AttachFails, Nobody
  <2>3. QED BY <2>1, <2>2
<1>15. ASSUME NEW s \in Stdio, ExitNoticed(s) PROVE Serving'
  BY <1>0, <1>12, <1>14, <1>15 DEF ExitNoticed, McpTypeOK
<1>16. ASSUME NEW s \in Stdio, Floods(s) PROVE Serving'
  BY <1>0, <1>12, <1>14, <1>16 DEF Floods, McpTypeOK, Kill
<1>17. CASE McpBackground
  BY <1>6, <1>7, <1>8, <1>10, <1>13, <1>15, <1>16, <1>17 DEF McpBackground
<1>18. CASE BeginClose
  BY <1>0, <1>18 DEF BeginClose, Serving, McpTypeOK, NoServerLeft
<1>19. CASE CloseClients
  <2>1. /\ procs' = [s \in Servers |-> IF s \in shut THEN procs[s] ELSE Kill(s)]
        /\ shut' = shut \cup {s \in Servers : clients[s] # "none"}
        /\ clients' = [s \in Servers |-> IF clients[s] = "none" THEN "none" ELSE "closed"]
        /\ service \in {"refusing", "closing"} /\ UNCHANGED <<service, attaching, flooded, asked, listening, crashed>>
    BY <1>19 DEF CloseClients, Shutting
  <2>2. procs' \in [Servers -> {"absent", "up", "exited", "dying", "dead"}]
        /\ \A s \in Servers : procs[s] = "absent" => procs'[s] = "absent"
    BY <1>0, <2>1 DEF Kill
  <2>3. clients' \in [Servers -> {"none", "new", "ready", "closed"}]
        /\ \A s \in Servers : clients'[s] = "none" => clients[s] = "none"
    BY <1>0, <2>1
  <2>4. shut' \subseteq Servers /\ flooded' \subseteq shut' BY <1>0, <2>1 DEF McpTypeOK
  <2>5. McpTypeOK' BY <1>0, <2>1, <2>2, <2>3, <2>4 DEF McpTypeOK
  <2>6. QED BY <2>1, <2>2, <2>3, <2>5 DEF Serving, NoServerLeft
<1>20. CASE ClientsClosed
  <2>1. /\ service \in {"refusing", "closing"} /\ service' \in {"closed", "refused"}
        /\ \A s \in Servers : clients[s] \in {"none", "closed"}
        /\ \A s \in Stdio \ flooded : clients[s] = "closed" => procs[s] = "dead"
        /\ clients' = [s \in Servers |-> "none"]
        /\ UNCHANGED <<attaching, procs, shut, flooded, asked, listening, crashed>>
    BY <1>20 DEF ClientsClosed, Shutting
  <2>2. \A s \in Stdio \ flooded : procs[s] \in {"absent", "dead"} BY <2>1 DEF Serving
  <2>3. asked.at = "none" BY <2>1 DEF Serving
  <2>4. McpTypeOK' BY <1>0, <2>1 DEF McpTypeOK
  <2>5. QED BY <2>1, <2>2, <2>3, <2>4 DEF Serving, NoServerLeft
<1>21. QED BY <1>1, <1>3, <1>4, <1>5, <1>11, <1>17, <1>18, <1>19, <1>20, McpMoves

LEMMA AlwaysServing == Spec => []Serving
<1>1. Init => Serving
  <2>1. SUFFICES ASSUME Init PROVE Serving OBVIOUS
  <2>2. McpInit BY <2>1 DEF Init
  <2>3. 0 \in 0..Len(Names) BY McpAssumption
  <2>4. McpTypeOK BY <2>2, <2>3, McpAssumption DEF McpInit, McpTypeOK, Nobody
  <2>5. QED BY <2>2, <2>4 DEF McpInit, Serving, NoServerLeft, Nobody
<1>2. Requesting => aborted \in BOOLEAN BY DEF Requesting
<1>3. aborted \in BOOLEAN /\ Serving /\ [Next]_vars => Serving' BY ServingStep
<1>4. QED BY AlwaysRequesting, <1>1, <1>2, <1>3, PTL DEF Spec

-----------------------------------------------------------------------------
(* The execution backend.                                                  *)

Runs == [scoped : BOOLEAN, client : {"none", "up", "gone"}, hears : BOOLEAN, expired : BOOLEAN, broken : BOOLEAN]

(* What the current command may still take away itself: its container while it runs,
   its proxy and its network until each one's turn in the teardown. *)
LiveContainer == IF exec = "run" THEN {execs} ELSE {}
LiveProxy == IF exec \in {"none", "failNetwork", "stopNetwork"} THEN {} ELSE {execs}
LiveNetwork == IF exec = "none" THEN {} ELSE {execs}

Others == [phase : {"setup", "running", "teardown", "gone", "crashed"},
           since : 0..MaxTime, limit : TimeLimits \cup {0}, proxy : Resource, network : Resource]
Collectors == [at : {"off", "proxies", "networks", "done"}, now : 0..MaxTime]

(* What the types rest on: only commands that were begun have left anything, the one
   that begins has not, and one whose grant names no host gets no topology. *)
Running ==
  /\ backend \in Backends /\ exec \in Phases /\ execs \in 0..MaxExecs /\ run \in Runs
  /\ background \in Left /\ refused \in 0..MaxDockerFailures
  /\ exec \notin {"none", "snapshot", "child", "spawn", "run", "reap"} => run.scoped
  /\ exec # "none" => execs > 0
  /\ containers \cup proxies \cup networks \cup started \cup reaping \subseteq 1..execs
  /\ exec = "snapshot" => execs \notin containers \cup proxies \cup networks
  /\ exec # "none" /\ ~run.scoped => execs \notin proxies \cup networks
  /\ run.scoped => backend = "container"
  /\ exec = "child" => backend # "container"

(* Whatever no command will take away any more, the daemon refused to remove. *)
CountedLeft ==
  /\ Cardinality(containers \ LiveContainer) + Cardinality(proxies \ LiveProxy) <= refused
  /\ refused = 0 => networks \subseteq LiveNetwork

(* The other kernel keeps to the time each of its phases may take, by its own clock. *)
Timely ==
  /\ now \in 0..MaxTime /\ other \in Others /\ collector \in Collectors
  /\ other.phase = "setup" => other.since = 0 /\ now <= Setup
  /\ other.phase = "running" => other.since <= Setup /\ now - other.since <= other.limit
  /\ other.phase = "teardown" => other.since <= Setup + other.limit /\ now - other.since <= Teardown
  /\ Alive => collector.now <= now

(* How the backend moves in a step of the services. *)
LEMMA ExecMoves ==
  ASSUME [Next]_vars
  PROVE  \/ UNCHANGED execVars
         \/ CollectStep /\ UNCHANGED runVars
         \/ /\ now' = 0 /\ collector' = [at |-> "done", now |-> 0] /\ UNCHANGED runVars
            /\ other' = [phase |-> "gone", limit |-> 0, since |-> 0, proxy |-> "absent", network |-> "absent"]
         \/ Exec /\ service = "up" /\ UNCHANGED otherVars
         \/ OnExecAbort
         \/ RunStep /\ UNCHANGED otherVars
         \/ CloseBackend /\ UNCHANGED otherVars
<1>1. CASE Creating BY <1>1 DEF Creating
<1>2. CASE Created BY <1>2 DEF Created
<1>3. CASE RunCommand BY <1>3 DEF RunCommand, Idle
<1>4. CASE Cancel BY <1>4 DEF Cancel
<1>5. CASE CommandGoesOn BY <1>5 DEF CommandGoesOn
<1>6. CASE ClosingBackend BY <1>6 DEF ClosingBackend
<1>7. CASE UNCHANGED vars BY <1>7 DEF vars
<1>8. CASE Attaching \/ Ask \/ Answered \/ CallServer \/ RequestGoesOn \/ ServerGoesOn \/ Closing
  BY <1>8 DEF Attaching, Ask, Answered, CallServer, RequestGoesOn, ServerGoesOn, Closing
<1>9. QED BY <1>1, <1>2, <1>3, <1>4, <1>5, <1>6, <1>7, <1>8 DEF Next

(* A removal takes away what it is about, or is one more refusal. *)
LEMMA RemoveIs ==
  ASSUME refused \in 0..MaxDockerFailures, NEW S, NEW T, NEW e, Remove(S, T, e)
  PROVE  /\ refused' \in 0..MaxDockerFailures
         /\ \/ T = S \ {e} /\ refused' = refused
            \/ e \in S /\ T = S /\ refused' = refused + 1
  BY ExecutionAssumption DEF Remove, Refuse

LEMMA RunningStep ==
  ASSUME aborted \in BOOLEAN, Running, [Next]_vars
  PROVE  Running'
<1> USE ExecutionAssumption
<1>0. /\ exec \in Phases /\ execs \in 0..MaxExecs /\ run \in Runs /\ refused \in 0..MaxDockerFailures
      /\ NoRun \in Runs /\ ~NoRun.scoped /\ 1..execs \subseteq 1..MaxExecs
  BY DEF Running, NoRun, Runs
(* what is left, or less, of the commands there were *)
<1>1. ASSUME UNCHANGED <<backend, execs>>, background' \in Left, refused' \in 0..MaxDockerFailures,
             exec' \in Phases, run' \in Runs,
             containers' \subseteq containers, proxies' \subseteq proxies, networks' \subseteq networks,
             started' \subseteq started, reaping' \subseteq reaping,
             exec' # "none" => exec # "none" /\ run'.scoped = run.scoped,
             run'.scoped => run.scoped, exec' = "child" => exec = "child",
             exec' \notin {"none", "snapshot", "child", "spawn", "run", "reap"} => run.scoped,
             exec' = "snapshot" => exec = "snapshot"
      PROVE  Running'
  BY <1>1 DEF Running
<1>2. CASE UNCHANGED runVars
  BY <1>2 DEF Running, runVars
<1>3. CASE Exec
  <2>1. /\ exec = "none" /\ execs < MaxExecs /\ execs' = execs + 1 /\ exec' = "snapshot"
        /\ UNCHANGED <<backend, reaping, started, containers, proxies, networks, refused, background>>
    BY <1>3 DEF Exec, GoesTo
  <2>2. run' \in Runs
    <3>1. PICK scoped \in BOOLEAN : run' = [NoRun EXCEPT !.scoped = scoped] BY <1>3 DEF Exec, GoesTo
    <3>2. QED BY <3>1 DEF NoRun, Runs
  <2>7. run'.scoped => backend = "container"
    <3>1. PICK scoped \in BOOLEAN : /\ backend # "container" => ~scoped
                                    /\ run' = [NoRun EXCEPT !.scoped = scoped]
      BY <1>3 DEF Exec, GoesTo
    <3>2. QED BY <3>1 DEF NoRun
  <2>3. execs' \in 0..MaxExecs /\ execs' > 0 /\ execs' \notin 1..execs /\ 1..execs \subseteq 1..execs' BY <1>0, <2>1
  <2>4. execs' \notin containers' \cup proxies' \cup networks'
        /\ containers' \cup proxies' \cup networks' \cup started' \cup reaping' \subseteq 1..execs'
    BY <2>1, <2>3 DEF Running
  <2>5. exec' \in Phases BY <2>1 DEF Phases
  <2>6. QED BY <2>1, <2>2, <2>3, <2>4, <2>5, <2>7 DEF Running
<1>4. CASE OnExecAbort
  <2>1. UNCHANGED <<backend, exec, execs, run, started, containers, proxies, networks, refused, background>>
        /\ reaping' \in {reaping, reaping \cup {execs}} /\ (exec = "none" => reaping' = reaping)
    BY <1>4 DEF OnExecAbort
  <2>2. exec # "none" => execs \in 1..execs BY <1>0 DEF Running
  <2>3. QED BY <2>1, <2>2 DEF Running
<1>5. CASE Prepare
  <2>1. exec = "snapshot" /\ UNCHANGED <<backend, execs, reaping, started, containers, proxies, networks, refused, background>>
    BY <1>5 DEF Prepare
  <2>2. CASE GoesTo("none", NoRun) BY <1>0, <2>1, <2>2 DEF GoesTo, Running, Phases, NoRun
  <2>3. CASE backend # "container" /\ GoesTo("child", [run EXCEPT !.client = "up", !.hears = ~aborted])
    <3>1. run' \in Runs /\ run'.scoped = run.scoped /\ exec' = "child" BY <1>0, <2>3 DEF GoesTo, Runs
    <3>2. QED BY <2>1, <2>3, <3>1 DEF Running, Phases
  <2>4. CASE GoesTo(IF run.scoped THEN "network" ELSE "spawn", run)
    BY <1>0, <2>1, <2>4 DEF GoesTo, Running, Phases, Setting
  <2>5. QED BY <1>5, <2>2, <2>3, <2>4 DEF Prepare
<1>6. CASE SetUp
  <2>1. /\ exec \in Setting /\ UNCHANGED <<backend, execs, run, reaping, started, containers, refused, background>>
        /\ exec' \in {"proxy", "connect", "ready", "spawn", "failProxy"}
        /\ networks' \subseteq networks \cup {execs} /\ proxies' \subseteq proxies \cup {execs}
    BY <1>6 DEF SetUp, Setting
  <2>2. run.scoped /\ execs \in 1..execs BY <1>0, <2>1 DEF Running, Setting
  <2>3. QED BY <2>1, <2>2 DEF Running, Phases, Setting
<1>7. CASE TearDown
  <2>1. UNCHANGED <<backend, execs, reaping, started, containers, background>> BY <1>7 DEF TearDown
  <2>2. CASE /\ exec \in {"failProxy", "stopProxy"}
             /\ GoesTo(IF exec = "failProxy" THEN "failNetwork" ELSE "stopNetwork", run)
             /\ Remove(proxies, proxies', execs)
             /\ UNCHANGED networks
    <3>1. proxies' \subseteq proxies /\ refused' \in 0..MaxDockerFailures BY <1>0, <2>2, RemoveIs
    <3>2. exec' \in {"failNetwork", "stopNetwork"} /\ run' = run BY <2>2 DEF GoesTo
    <3>3. run.scoped BY <2>2 DEF Running
    <3>4. QED BY <1>0, <1>1, <2>1, <2>2, <3>1, <3>2, <3>3 DEF Phases, Running
  <2>3. CASE exec \in {"failNetwork", "stopNetwork"} /\ GoesTo("none", NoRun) /\ RemoveNetwork(execs) /\ UNCHANGED proxies
    <3>1. networks' \subseteq networks /\ refused' \in 0..MaxDockerFailures
      BY <1>0, <2>3, RemoveIs DEF RemoveNetwork
    <3>2. exec' = "none" /\ run' = NoRun BY <2>3 DEF GoesTo
    <3>3. QED BY <1>0, <1>1, <2>1, <2>3, <3>1, <3>2 DEF Phases, Running
  <2>4. QED BY <1>7, <2>2, <2>3 DEF TearDown
<1>8. ASSUME exec \in {"run", "spawn"}, GoesTo(Ending, run)
      PROVE  /\ exec' \in Phases /\ run' \in Runs /\ (exec' # "none" => run'.scoped = run.scoped)
             /\ (exec' \notin {"none", "snapshot", "child", "spawn", "run", "reap"} => run.scoped)
             /\ exec' \notin {"snapshot", "child"} /\ (run'.scoped => run.scoped)
  BY <1>0, <1>8 DEF GoesTo, Ending, Phases, NoRun
<1>9. CASE Spawn
  <2>1. exec = "spawn" /\ UNCHANGED <<backend, execs, reaping, containers, proxies, networks, refused, background>>
    BY <1>9 DEF Spawn
  <2>2. CASE GoesTo("run", [run EXCEPT !.client = "up", !.hears = ~aborted]) /\ started' = started \cup {execs}
    <3>1. run' \in Runs /\ run'.scoped = run.scoped /\ exec' = "run" BY <1>0, <2>2 DEF GoesTo, Runs
    <3>2. execs \in 1..execs BY <1>0, <2>1 DEF Running
    <3>3. QED BY <2>1, <2>2, <3>1, <3>2 DEF Running, Phases
  <2>3. CASE GoesTo(Ending, run) /\ UNCHANGED started BY <1>1, <1>8, <2>1, <2>3 DEF Running
  <2>4. QED BY <1>9, <2>2, <2>3 DEF Spawn
<1>10. CASE ContainerStarts
  <2>1. /\ exec = "run" /\ UNCHANGED <<backend, exec, execs, reaping, started, proxies, networks, refused, background>>
        /\ containers' \subseteq containers \cup {execs} /\ run' \in Runs /\ run'.scoped = run.scoped
    BY <1>0, <1>10 DEF ContainerStarts, Runs
  <2>2. execs \in 1..execs BY <1>0, <2>1 DEF Running
  <2>3. QED BY <2>1, <2>2 DEF Running
<1>11. CASE Expire
  <2>1. /\ exec \in {"run", "child"} /\ UNCHANGED <<backend, exec, execs, started, containers, proxies, networks, refused, background>>
        /\ reaping' \subseteq reaping \cup {execs} /\ run' \in Runs /\ run'.scoped = run.scoped
    BY <1>0, <1>11 DEF Expire, Runs
  <2>2. execs \in 1..execs BY <1>0, <2>1 DEF Running
  <2>3. QED BY <2>1, <2>2 DEF Running
<1>12. CASE CommandEnds \/ ClientKilled \/ ChildExits
  <2>1. /\ UNCHANGED <<backend, exec, execs, reaping, started, proxies, networks, refused>>
        /\ exec \in {"run", "child"} /\ containers' \subseteq containers /\ background' \in Left
        /\ run' \in Runs /\ run'.scoped = run.scoped
    BY <1>0, <1>12 DEF CommandEnds, ClientKilled, ChildExits, Runs, Running, Left
  <2>2. QED BY <1>0, <1>1, <2>1 DEF Running
<1>13. CASE Reaped
  <2>1. PICK e \in reaping :
          /\ reaping' = reaping \ {e} /\ Remove(containers, containers', e)
          /\ run' \in {run, [run EXCEPT !.client = "gone"]}
          /\ UNCHANGED <<backend, exec, execs, started, proxies, networks, background>>
    BY <1>13 DEF Reaped
  <2>2. containers' \subseteq containers /\ refused' \in 0..MaxDockerFailures BY <1>0, <2>1, RemoveIs
  <2>3. run' \in Runs /\ run'.scoped = run.scoped BY <1>0, <2>1 DEF Runs
  <2>4. QED BY <1>0, <1>1, <2>1, <2>2, <2>3 DEF Running
<1>14. CASE Reap
  <2>1. /\ exec = "run" /\ GoesTo(Ending, run) /\ Remove(containers, containers', execs)
        /\ started' \subseteq started /\ UNCHANGED <<backend, execs, reaping, proxies, networks, background>>
    BY <1>14 DEF Reap
  <2>2. containers' \subseteq containers /\ refused' \in 0..MaxDockerFailures BY <1>0, <2>1, RemoveIs
  <2>3. QED BY <1>1, <1>8, <2>1, <2>2 DEF Running
<1>15. CASE ChildForks \/ GroupKilled \/ BackgroundEnds
  <2>1. /\ background' \in Left
        /\ UNCHANGED <<backend, exec, execs, run, reaping, started, containers, proxies, networks, refused>>
    BY <1>15 DEF ChildForks, GroupKilled, BackgroundEnds, Left
  <2>2. QED BY <2>1 DEF Running
<1>16. CASE ChildSettles
  <2>1. /\ exec' = "none" /\ run' = NoRun
        /\ UNCHANGED <<backend, execs, reaping, started, containers, proxies, networks, refused, background>>
    BY <1>16 DEF ChildSettles, GoesTo
  <2>2. QED BY <1>0, <1>1, <2>1 DEF Running, Phases
<1>17. CASE CloseBackend
  <2>1. /\ exec = "none" /\ UNCHANGED <<backend, exec, execs, run, reaping, proxies, networks, background>>
    BY <1>17 DEF CloseBackend
  <2>2. containers' \subseteq containers /\ started' \subseteq started /\ refused' \in 0..MaxDockerFailures
    BY <1>0, <1>17, RemoveIs DEF CloseBackend
  <2>3. QED BY <1>0, <1>1, <2>1, <2>2 DEF Running
<1>18. CASE RunStep
  BY <1>5, <1>6, <1>7, <1>9, <1>10, <1>11, <1>12, <1>13, <1>14, <1>15, <1>16, <1>18 DEF RunStep
<1>19. QED BY <1>2, <1>3, <1>4, <1>17, <1>18, ExecMoves DEF execVars

LEMMA NoMore ==
  ASSUME NEW S, NEW T, IsFiniteSet(T), S \subseteq T
  PROVE  Cardinality(S) \in Nat /\ Cardinality(T) \in Nat /\ Cardinality(S) <= Cardinality(T)
<1>1. IsFiniteSet(S) /\ Cardinality(S) <= Cardinality(T) BY FS_Subset
<1>2. QED BY <1>1, FS_CardinalityType

LEMMA OneMore ==
  ASSUME NEW S, NEW T, NEW e, IsFiniteSet(T), S \subseteq T \cup {e}
  PROVE  Cardinality(S) \in Nat /\ Cardinality(T) \in Nat /\ Cardinality(S) <= Cardinality(T) + 1
<1>1. IsFiniteSet(T \cup {e}) /\ Cardinality(T \cup {e}) = IF e \in T THEN Cardinality(T) ELSE Cardinality(T) + 1
  BY FS_AddElement
<1>2. Cardinality(T) \in Nat BY FS_CardinalityType
<1>3. Cardinality(S) \in Nat /\ Cardinality(S) <= Cardinality(T \cup {e}) BY <1>1, NoMore
<1>4. Cardinality(T \cup {e}) <= Cardinality(T) + 1 BY <1>1, <1>2
<1>5. Cardinality(T \cup {e}) \in Nat BY <1>1, FS_CardinalityType
<1>6. QED BY <1>2, <1>3, <1>4, <1>5

(* What is left grows by nothing, or by the one removal that was refused. *)
LEMMA LeftGrows ==
  ASSUME NEW C, NEW P, NEW D, NEW Q, NEW m \in Nat, NEW n \in Nat, IsFiniteSet(C), IsFiniteSet(P),
         Cardinality(C) + Cardinality(P) <= m,
         \/ D \subseteq C /\ Q \subseteq P /\ m <= n
         \/ (\E e : D \subseteq C \cup {e}) /\ Q \subseteq P /\ n = m + 1
         \/ D \subseteq C /\ (\E e : Q \subseteq P \cup {e}) /\ n = m + 1
  PROVE  Cardinality(D) + Cardinality(Q) <= n
<1>1. D \subseteq C => Cardinality(D) \in Nat /\ Cardinality(C) \in Nat /\ Cardinality(D) <= Cardinality(C) BY NoMore
<1>2. Q \subseteq P => Cardinality(Q) \in Nat /\ Cardinality(P) \in Nat /\ Cardinality(Q) <= Cardinality(P) BY NoMore
<1>3. ASSUME NEW e, D \subseteq C \cup {e}
      PROVE  Cardinality(D) \in Nat /\ Cardinality(C) \in Nat /\ Cardinality(D) <= Cardinality(C) + 1
  BY <1>3, OneMore
<1>4. ASSUME NEW e, Q \subseteq P \cup {e}
      PROVE  Cardinality(Q) \in Nat /\ Cardinality(P) \in Nat /\ Cardinality(Q) <= Cardinality(P) + 1
  BY <1>4, OneMore
<1>5. QED BY <1>1, <1>2, <1>3, <1>4

LEMMA CountedStep ==
  ASSUME Running, Running', CountedLeft, [Next]_vars
  PROVE  CountedLeft'
<1> USE ExecutionAssumption
<1> DEFINE C == containers \ LiveContainer
           P == proxies \ LiveProxy
<1>0. refused \in Nat /\ refused' \in Nat /\ refused \in 0..MaxDockerFailures BY DEF Running
<1>1. IsFiniteSet(C) /\ IsFiniteSet(P)
  <2>1. execs \in Nat BY DEF Running
  <2>2. IsFiniteSet(1..execs) BY <2>1, FS_Interval
  <2>3. C \subseteq 1..execs /\ P \subseteq 1..execs BY DEF Running
  <2>4. QED BY <2>2, <2>3, FS_Subset
<1>2. ASSUME \/ C' \subseteq C /\ P' \subseteq P /\ refused <= refused'
             \/ (\E e : C' \subseteq C \cup {e}) /\ P' \subseteq P /\ refused' = refused + 1
             \/ C' \subseteq C /\ (\E e : P' \subseteq P \cup {e}) /\ refused' = refused + 1,
             refused = 0 /\ refused' = 0 => networks' \subseteq LiveNetwork'
      PROVE  CountedLeft'
  <2>1. Cardinality(C) + Cardinality(P) <= refused BY DEF CountedLeft
  <2> HIDE DEF C, P
  <2>2. Cardinality(C') + Cardinality(P') <= refused' BY <1>0, <1>1, <1>2, <2>1, LeftGrows
  <2>3. refused' = 0 => refused = 0 BY <1>0, <1>2
  <2>4. QED BY <1>2, <2>2, <2>3 DEF CountedLeft, C, P
<1>3. refused = 0 => networks \subseteq LiveNetwork BY DEF CountedLeft
<1>4. CASE UNCHANGED <<exec, execs, containers, proxies, networks, refused>>
  BY <1>4 DEF CountedLeft, LiveContainer, LiveProxy, LiveNetwork
<1>5. CASE Exec
  <2>1. /\ exec = "none" /\ execs' = execs + 1 /\ exec' = "snapshot" /\ UNCHANGED <<containers, proxies, networks, refused>>
    BY <1>5 DEF Exec, GoesTo
  <2>2. C' = C /\ P' \subseteq P BY <2>1 DEF LiveContainer, LiveProxy
  <2>3. refused = 0 => networks' \subseteq LiveNetwork' BY <1>3, <2>1 DEF LiveNetwork
  <2>4. QED BY <1>0, <1>2, <2>1, <2>2, <2>3
(* a command that ends without a topology leaves none *)
<1>6. ASSUME UNCHANGED <<execs, proxies, networks>>, exec # "none", exec \notin {"failNetwork", "stopNetwork"},
             exec' \in Phases, exec' \in {"none", "failNetwork", "stopNetwork"} => execs \notin proxies \cup networks
      PROVE  P' \subseteq P /\ (refused = 0 => networks' \subseteq LiveNetwork')
  BY <1>3, <1>6 DEF LiveProxy, LiveNetwork
<1>7. CASE Prepare
  <2>1. exec = "snapshot" /\ UNCHANGED <<execs, containers, proxies, networks, refused>> /\ exec' # "run"
    BY <1>7 DEF Prepare, GoesTo
  <2>2. execs \notin proxies \cup networks /\ exec' \in Phases BY <2>1 DEF Running
  <2>3. C' = C BY <2>1 DEF LiveContainer
  <2>4. QED BY <1>0, <1>2, <1>6, <2>1, <2>2, <2>3
<1>8. CASE SetUp
  <2>1. /\ exec \in Setting /\ UNCHANGED <<execs, containers, refused>>
        /\ exec' \in {"proxy", "connect", "ready", "spawn", "failProxy"}
        /\ networks' \subseteq networks \cup {execs} /\ proxies' \subseteq proxies \cup {execs}
    BY <1>8 DEF SetUp, Setting
  <2>2. C' = C /\ P' \subseteq P BY <2>1 DEF LiveContainer, LiveProxy, Setting
  <2>3. refused = 0 => networks' \subseteq LiveNetwork' BY <1>3, <2>1 DEF LiveNetwork
  <2>4. QED BY <1>0, <1>2, <2>1, <2>2, <2>3
<1>9. CASE TearDown
  <2>1. UNCHANGED <<execs, containers>> BY <1>9 DEF TearDown
  <2>2. CASE /\ exec \in {"failProxy", "stopProxy"}
             /\ GoesTo(IF exec = "failProxy" THEN "failNetwork" ELSE "stopNetwork", run)
             /\ Remove(proxies, proxies', execs)
             /\ UNCHANGED networks
    <3>1. exec' \in {"failNetwork", "stopNetwork"} BY <2>2 DEF GoesTo
    <3>2. C' = C BY <2>1, <2>2, <3>1 DEF LiveContainer
    <3>3. \/ proxies' = proxies \ {execs} /\ refused' = refused
          \/ proxies' = proxies /\ refused' = refused + 1
      BY <1>0, <2>2, RemoveIs
    <3>4. P = proxies \ {execs} /\ P' = proxies' BY <2>2, <3>1 DEF LiveProxy
    <3>5. proxies' = proxies => P' \subseteq P \cup {execs} BY <3>4
    <3>6. refused = 0 => networks' \subseteq LiveNetwork' BY <1>3, <2>1, <2>2, <3>1 DEF LiveNetwork
    <3>7. QED BY <1>0, <1>2, <3>2, <3>3, <3>4, <3>5, <3>6
  <2>3. CASE exec \in {"failNetwork", "stopNetwork"} /\ GoesTo("none", NoRun) /\ RemoveNetwork(execs) /\ UNCHANGED proxies
    <3>1. exec' = "none" BY <2>3 DEF GoesTo
    <3>2. C' = C /\ P' = P BY <2>1, <2>3, <3>1 DEF LiveContainer, LiveProxy
    <3>3. C = containers /\ P = proxies BY <2>3 DEF LiveContainer, LiveProxy
    <3>4. refused <= refused' BY <1>0, <2>3, RemoveIs DEF RemoveNetwork
    <3>5. ASSUME refused = 0, refused' = 0 PROVE networks' \subseteq LiveNetwork'
      <4>1. Cardinality(containers) \in Nat /\ Cardinality(proxies) \in Nat BY <1>1, <3>3, FS_CardinalityType
      <4>2. Cardinality(containers) = 0 /\ Cardinality(proxies) = 0 BY <3>3, <3>5, <4>1 DEF CountedLeft
      <4>3. containers = {} /\ proxies = {} BY <1>1, <3>3, <4>2, FS_EmptySet
      <4>4. Remove(networks, networks', execs) BY <2>3, <4>3 DEF RemoveNetwork
      <4>5. networks' = networks \ {execs} BY <1>0, <3>5, <4>4, RemoveIs
      <4>6. networks \subseteq {execs} BY <1>3, <3>5 DEF LiveNetwork
      <4>7. QED BY <4>5, <4>6
    <3>6. QED BY <1>2, <3>2, <3>4, <3>5
  <2>4. QED BY <1>9, <2>2, <2>3 DEF TearDown
<1>10. ASSUME exec \in {"run", "spawn"}, GoesTo(Ending, run)
       PROVE  exec' \in {"none", "stopProxy"} /\ (exec' = "none" => execs \notin proxies \cup networks)
  BY <1>10 DEF GoesTo, Ending, Running
<1>11. CASE Spawn
  <2>1. exec = "spawn" /\ UNCHANGED <<execs, containers, proxies, networks, refused>> BY <1>11 DEF Spawn
  <2>2. C' \subseteq C BY <2>1 DEF LiveContainer
  <2>3. exec' = "run" \/ GoesTo(Ending, run) BY <1>11 DEF Spawn, GoesTo
  <2>4. exec' \in Phases BY DEF Running
  <2>5. P' \subseteq P /\ (refused = 0 => networks' \subseteq LiveNetwork')
    BY <1>6, <1>10, <2>1, <2>3, <2>4
  <2>6. QED BY <1>0, <1>2, <2>1, <2>2, <2>5
<1>12. CASE ContainerStarts \/ CommandEnds
  <2>1. exec = "run" /\ UNCHANGED <<exec, execs, proxies, networks, refused>> /\ containers' \subseteq containers \cup {execs}
    BY <1>12 DEF ContainerStarts, CommandEnds
  <2>2. C' \subseteq C /\ P' = P /\ LiveNetwork' = LiveNetwork BY <2>1 DEF LiveContainer, LiveProxy, LiveNetwork
  <2>3. QED BY <1>0, <1>2, <1>3, <2>1, <2>2
<1>13. CASE Expire \/ ClientKilled \/ ChildExits \/ ChildForks \/ GroupKilled \/ BackgroundEnds \/ OnExecAbort
  BY <1>4, <1>13 DEF Expire, ClientKilled, ChildExits, ChildForks, GroupKilled, BackgroundEnds, OnExecAbort
<1>14. CASE Reaped
  <2>1. PICK e \in reaping : Remove(containers, containers', e) /\ UNCHANGED <<exec, execs, proxies, networks>>
    BY <1>14 DEF Reaped
  <2>2. containers' \subseteq containers /\ refused <= refused' BY <1>0, <2>1, RemoveIs
  <2>3. C' \subseteq C /\ P' = P /\ LiveNetwork' = LiveNetwork BY <2>1, <2>2 DEF LiveContainer, LiveProxy, LiveNetwork
  <2>4. QED BY <1>2, <1>3, <2>1, <2>2, <2>3
<1>15. CASE Reap
  <2>1. exec = "run" /\ GoesTo(Ending, run) /\ Remove(containers, containers', execs) /\ UNCHANGED <<execs, proxies, networks>>
    BY <1>15 DEF Reap
  <2>2. exec' \in Phases BY DEF Running
  <2>3. P' \subseteq P /\ (refused = 0 => networks' \subseteq LiveNetwork') BY <1>6, <1>10, <2>1, <2>2
  <2>4. C = containers \ {execs} /\ C' = containers' BY <1>10, <2>1 DEF LiveContainer
  <2>5. \/ containers' = containers \ {execs} /\ refused' = refused
        \/ containers' = containers /\ refused' = refused + 1
    BY <1>0, <2>1, RemoveIs
  <2>6. containers' = containers => C' \subseteq C \cup {execs} BY <2>4
  <2>7. QED BY <1>0, <1>2, <2>3, <2>4, <2>5, <2>6
<1>16. CASE ChildSettles
  <2>1. exec = "child" /\ exec' = "none" /\ UNCHANGED <<execs, containers, proxies, networks, refused>>
    BY <1>16 DEF ChildSettles, GoesTo
  <2>2. exec' \in Phases BY DEF Running
  <2>3. execs \notin proxies \cup networks BY <2>1 DEF Running
  <2>4. C' = C BY <2>1 DEF LiveContainer
  <2>5. QED BY <1>0, <1>2, <1>6, <2>1, <2>2, <2>3, <2>4
<1>17. CASE CloseBackend
  <2>1. exec = "none" /\ UNCHANGED <<exec, execs, proxies, networks>> BY <1>17 DEF CloseBackend
  <2>2. containers' \subseteq containers /\ refused <= refused' BY <1>0, <1>17, RemoveIs DEF CloseBackend
  <2>3. C' \subseteq C /\ P' = P /\ LiveNetwork' = LiveNetwork BY <2>1, <2>2 DEF LiveContainer, LiveProxy, LiveNetwork
  <2>4. QED BY <1>2, <1>3, <2>1, <2>2, <2>3
<1>18. CASE RunStep
  BY <1>7, <1>8, <1>9, <1>11, <1>12, <1>13, <1>14, <1>15, <1>16, <1>18 DEF RunStep
<1>19. QED BY <1>4, <1>5, <1>13, <1>17, <1>18, ExecMoves DEF execVars, runVars

LEMMA AlwaysRunning == Spec => []Running
<1>1. Init => Running
  <2>1. SUFFICES ASSUME Init PROVE Running OBVIOUS
  <2>2. ExecInit BY <2>1 DEF Init
  <2>3. NoRun \in Runs /\ ~NoRun.scoped BY DEF NoRun, Runs
  <2>4. 0 \in 0..MaxExecs /\ 0 \in 0..MaxDockerFailures BY ExecutionAssumption
  <2>5. QED BY <2>2, <2>3, <2>4 DEF ExecInit, Running, Phases, Left
<1>2. Requesting => aborted \in BOOLEAN BY DEF Requesting
<1>3. aborted \in BOOLEAN /\ Running /\ [Next]_vars => Running' BY RunningStep
<1>4. QED BY AlwaysRequesting, <1>1, <1>2, <1>3, PTL DEF Spec

LEMMA AlwaysCounted == Spec => []CountedLeft
<1>1. Init => CountedLeft
  <2>1. SUFFICES ASSUME Init PROVE CountedLeft OBVIOUS
  <2>2. containers = {} /\ proxies = {} /\ networks = {} /\ refused = 0 /\ exec = "none" BY <2>1 DEF Init, ExecInit
  <2>3. {} \ LiveContainer = {} /\ {} \ LiveProxy = {} OBVIOUS
  <2>4. Cardinality({}) = 0 BY FS_EmptySet
  <2>5. QED BY <2>2, <2>3, <2>4 DEF CountedLeft
<1>2. Running /\ Running' /\ CountedLeft /\ [Next]_vars => CountedLeft' BY CountedStep
<1>3. QED BY AlwaysRunning, <1>1, <1>2, PTL DEF Spec

(* A command runs only while the servers are up, and the backend is closed after them. *)
Ordered ==
  /\ service # "up" => exec = "none"
  /\ session = "closed" => service = "closed"

LEMMA OrderedStep ==
  ASSUME Serving, Ordered, [Next]_vars
  PROVE  Ordered'
<1>1. CASE service' = service
  <2>1. CASE RunCommand \/ CommandGoesOn
    <3>1. UNCHANGED session BY <2>1 DEF RunCommand, CommandGoesOn
    <3>2. CASE RunCommand BY <1>1, <3>1, <3>2 DEF RunCommand, Idle, Ordered
    <3>3. CASE CommandGoesOn
      <4>1. exec = "none" => exec' = "none"
        BY <3>3 DEF CommandGoesOn, RunStep, Prepare, SetUp, TearDown, Spawn, ContainerStarts, CommandEnds, Expire, Reaped,
                    ClientKilled, Reap, ChildForks, ChildExits, GroupKilled, BackgroundEnds, ChildSettles, Setting
      <4>2. QED BY <1>1, <3>1, <4>1 DEF Ordered
    <3>4. QED BY <2>1, <3>2, <3>3
  <2>2. CASE ClosingBackend
    BY <1>1, <2>2 DEF ClosingBackend, CloseBackend, Ordered
  <2>3. CASE Creating \/ Created
    BY <1>1, <2>3 DEF Creating, Created, Ordered, runVars
  <2>4. CASE Cancel BY <1>1, <2>4 DEF Cancel, OnExecAbort, Ordered
  <2>5. CASE Attaching \/ Ask \/ Answered \/ CallServer \/ RequestGoesOn \/ ServerGoesOn \/ Closing \/ UNCHANGED vars
    BY <1>1, <2>5 DEF Attaching, Ask, Answered, CallServer, RequestGoesOn, ServerGoesOn, Closing, Ordered, execVars, runVars, vars
  <2>6. QED BY <2>1, <2>2, <2>3, <2>4, <2>5 DEF Next
(* the servers come up, or close when nothing runs, or the session was given up before *)
<1>2. CASE service' # service
  <2>1. ASSUME Reject \/ Answer
        PROVE  service' = service \/ service = "starting"
    <3>1. CASE Reject BY <3>1 DEF Reject, AttachFails
    <3>2. CASE Answer
      <4>1. CASE asked.for = "call" BY <3>2, <4>1 DEF Answer
      <4>2. asked.at = "answer" BY <3>2 DEF Answer
      <4>3. QED BY <4>1, <4>2 DEF Serving
    <3>3. QED BY <2>1, <3>1, <3>2
  <2>2. CASE Attaching
    <3>1. service = "starting" /\ UNCHANGED <<exec, session>> BY <2>2 DEF Attaching, Attach, AllAttached, execVars, runVars
    <3>2. QED BY <3>1 DEF Ordered
  <2>3. CASE ServerGoesOn
    <3>1. UNCHANGED <<exec, session>> BY <2>3 DEF ServerGoesOn, execVars, runVars
    <3>2. service' = service \/ service = "starting"
      BY <2>1, <2>3 DEF ServerGoesOn, McpBackground, Written, WriteFails, TimesOut, ProcessExits, ExitNoticed, Floods
    <3>3. QED BY <1>2, <3>1, <3>2 DEF Ordered
  <2>4. CASE Cancel
    <3>1. service = "up" /\ service' = service BY <2>1, <2>4 DEF Cancel, OnMcpAbort
    <3>2. QED BY <1>2, <3>1
  <2>5. CASE Closing
    <3>1. UNCHANGED <<exec, session>> BY <2>5 DEF Closing, execVars, runVars
    <3>2. CASE Idle /\ BeginClose BY <3>1, <3>2 DEF Idle, BeginClose, Ordered
    <3>3. CASE CloseClients \/ ClientsClosed BY <3>1, <3>3 DEF CloseClients, ClientsClosed, Shutting, Ordered
    <3>4. QED BY <2>5, <3>2, <3>3 DEF Closing
  <2>6. CASE CallServer BY <1>2, <2>6 DEF CallServer, CallTool
  <2>7. CASE Creating \/ Created \/ Ask \/ Answered \/ RunCommand \/ RequestGoesOn \/ CommandGoesOn \/ ClosingBackend \/ UNCHANGED vars
    BY <1>2, <2>7 DEF Creating, Created, Ask, Answered, RunCommand, RequestGoesOn, CommandGoesOn, ClosingBackend, mcpVars, vars
  <2>8. QED BY <2>2, <2>3, <2>4, <2>5, <2>6, <2>7 DEF Next
<1>3. QED BY <1>1, <1>2

(* A session that was shut down left nothing of its own running: no server but one that
   had closed itself, and no container or proxy beyond the removals the daemon refused;
   when it refused none, no network either (shutdown and the backends' teardowns). *)
THEOREM NothingIsLeftRunning == Spec => []NothingLeftRunning
<1>1. Init => Ordered BY DEF Init, ExecInit, Ordered
<1>2. Serving /\ Ordered /\ [Next]_vars => Ordered' BY OrderedStep
<1>3. Serving /\ CountedLeft /\ Ordered => NothingLeftRunning
  <2>1. SUFFICES ASSUME Serving, CountedLeft, Ordered PROVE NothingLeftRunning OBVIOUS
  <2>2. ASSUME session = "closed"
        PROVE  Cardinality(containers) + Cardinality(proxies) <= refused /\ (refused = 0 => networks = {})
    <3>1. exec = "none" BY <2>1, <2>2 DEF Ordered
    <3>2. containers \ LiveContainer = containers /\ proxies \ LiveProxy = proxies /\ LiveNetwork = {}
      BY <3>1 DEF LiveContainer, LiveProxy, LiveNetwork
    <3>3. QED BY <2>1, <3>2 DEF CountedLeft
  <2>3. QED BY <2>1, <2>2 DEF NothingLeftRunning, Serving
<1>4. QED BY AlwaysServing, AlwaysCounted, <1>1, <1>2, <1>3, PTL DEF Spec

-----------------------------------------------------------------------------
(* The other kernel's topology.                                            *)

LEMMA LimitIs ==
  ASSUME other \in Others
  PROVE  other.limit \in Nat
<1>1. \A l \in TimeLimits \cup {0} : l \in Nat
  <2>1. TimeLimits \subseteq Nat BY ExecutionAssumption
  <2>2. QED BY <2>1
<1>2. other.limit \in TimeLimits \cup {0} BY DEF Others
<1>3. QED BY <1>1, <1>2, Zenon

LEMMA TimelyStep ==
  ASSUME Timely, [Next]_vars
  PROVE  Timely'
<1> USE ExecutionAssumption
<1>0. /\ now \in Nat /\ now <= MaxTime /\ now \in 0..MaxTime /\ other.since \in 0..MaxTime
      /\ collector.now \in 0..MaxTime /\ MaxTime \in Nat
      /\ Setup \in Nat /\ other.limit \in Nat /\ Teardown \in Nat
      /\ other \in Others /\ collector \in Collectors
  BY LimitIs DEF Timely, Others, Collectors
<1>1. CASE UNCHANGED otherVars
  BY <1>1 DEF Timely, Alive, otherVars
<1>2. CASE /\ now' = 0 /\ collector' = [at |-> "done", now |-> 0]
           /\ other' = [phase |-> "gone", limit |-> 0, since |-> 0, proxy |-> "absent", network |-> "absent"]
  BY <1>0, <1>2 DEF Timely, Alive, Others, Collectors, Resource
<1>3. CASE Tick
  <2>1. now' = now + 1 /\ now < MaxTime /\ UNCHANGED <<other, collector>> BY <1>3 DEF Tick
  <2>2. /\ other.phase = "setup" => now - other.since < Setup
        /\ other.phase = "running" => now - other.since < other.limit
        /\ other.phase = "teardown" => now - other.since < Teardown
    BY <1>3 DEF Tick, Alive, Limit
  <2>3. now' \in 0..MaxTime BY <1>0, <2>1
  <2>4. other.phase = "setup" => now' <= Setup BY <1>0, <2>1, <2>2 DEF Timely
  <2>5. other.phase = "running" => now' - other.since <= other.limit BY <1>0, <2>1, <2>2
  <2>6. other.phase = "teardown" => now' - other.since <= Teardown BY <1>0, <2>1, <2>2
  <2>7. Alive => collector.now <= now' BY <1>0, <2>1 DEF Timely
  <2>8. QED BY <1>0, <2>1, <2>3, <2>4, <2>5, <2>6, <2>7 DEF Timely, Alive
<1>4. CASE OtherSetsUp
  <2>1. other.phase = "setup" /\ UNCHANGED <<now, collector>> BY <1>4 DEF OtherSetsUp
  <2>2. /\ other'.phase \in {"setup", "running"} /\ other' \in Others
        /\ other'.limit = other.limit
        /\ other'.phase = "setup" => other'.since = other.since
        /\ other'.phase = "running" => other'.since = now
    BY <1>0, <1>4 DEF OtherSetsUp, Others, Resource
  <2>3. now - now <= other.limit BY <1>0
  <2>4. QED BY <1>0, <2>1, <2>2, <2>3 DEF Timely, Alive
<1>5. CASE OtherEnds
  <2>1. UNCHANGED <<now, collector>> BY <1>5 DEF OtherEnds
  <2>2. CASE other.phase = "running" /\ other' = [other EXCEPT !.phase = "teardown", !.since = now]
    <3>1. other' \in Others /\ other'.phase = "teardown" /\ other'.since = now /\ other'.limit = other.limit
      BY <1>0, <2>2 DEF Others
    <3>2. now <= Setup + other.limit /\ now - now <= Teardown BY <1>0, <2>2 DEF Timely
    <3>3. QED BY <1>0, <2>1, <2>2, <3>1, <3>2 DEF Timely, Alive
  <2>3. CASE \/ other' = [other EXCEPT !.phase = "gone", !.proxy = "absent", !.network = "absent"]
             \/ other' = [other EXCEPT !.phase = "crashed"]
    <3>1. other' \in Others /\ other'.phase \in {"gone", "crashed"} BY <1>0, <2>3 DEF Others, Resource
    <3>2. QED BY <1>0, <2>1, <3>1 DEF Timely, Alive
  <2>4. QED BY <1>5, <2>2, <2>3 DEF OtherEnds
<1>6. CASE BeginCollect
  <2>1. collector' \in Collectors /\ collector'.now = now /\ UNCHANGED <<now, other>>
    BY <1>0, <1>6 DEF BeginCollect, Collectors
  <2>2. QED BY <1>0, <2>1 DEF Timely, Alive
<1>7. CASE CollectProxies \/ CollectNetworks
  <2>1. /\ UNCHANGED now /\ collector' \in Collectors /\ collector'.now = collector.now
        /\ other' \in Others /\ other'.phase = other.phase /\ other'.since = other.since
        /\ other'.limit = other.limit
    BY <1>0, <1>7 DEF CollectProxies, CollectNetworks, Collect, Collectors, Others, Resource
  <2>2. QED BY <1>0, <2>1 DEF Timely, Alive
<1>8. CASE CollectStep BY <1>3, <1>4, <1>5, <1>6, <1>7, <1>8 DEF CollectStep
<1>9. CASE OnExecAbort BY <1>1, <1>9 DEF OnExecAbort
<1>10. QED BY <1>1, <1>2, <1>8, <1>9, ExecMoves DEF execVars

LEMMA AlwaysTimely == Spec => []Timely
<1>1. Init => Timely
  <2>1. SUFFICES ASSUME Init PROVE Timely OBVIOUS
  <2>2. ExecInit BY <2>1 DEF Init
  <2>3. 0 \in 0..MaxTime /\ Setup \in Nat BY ExecutionAssumption
  <2>4. now = 0 /\ other.phase = "setup" /\ other.since = 0 /\ collector.now = 0 BY <2>2 DEF ExecInit
  <2>5. other \in Others /\ collector \in Collectors
    <3>1. PICK limit \in TimeLimits :
            other = [phase |-> "setup", limit |-> limit, since |-> 0, proxy |-> "absent", network |-> "absent"]
      BY <2>2 DEF ExecInit
    <3>2. other \in Others BY <2>3, <3>1 DEF Others, Resource
    <3>3. QED BY <2>2, <2>3, <3>2 DEF ExecInit, Collectors
  <2>6. QED BY <2>3, <2>4, <2>5 DEF Timely
<1>2. Timely /\ [Next]_vars => Timely' BY TimelyStep
<1>3. QED BY <1>1, <1>2, PTL DEF Spec

(* A kernel that starts while another one runs a command never takes that one's proxy or
   network for an orphan, if the time limit of the command leaves room within the age from
   which the collector calls a topology stale (egress-sidecar.ts, STALE_AFTER_MS and
   collectOrphanedEgressResources): for every limit, set-up, teardown and age, at every
   moment of the sweep. *)
THEOREM TheBriefTopologyIsKept == Spec => []BriefTopologyKept
<1> USE ExecutionAssumption
<1>1. Init => BriefTopologyKept BY DEF Init, ExecInit, BriefTopologyKept, TopologyKept
<1>2. ASSUME Timely, BriefTopologyKept, [Next]_vars PROVE BriefTopologyKept'
  <2>0. /\ now \in Nat /\ other.since \in Nat /\ collector.now \in Nat /\ other \in Others
        /\ Setup \in Nat /\ other.limit \in Nat /\ Teardown \in Nat /\ StaleAfter \in Nat
    BY <1>2, LimitIs DEF Timely, Others, Collectors
  <2>1. Alive /\ Setup + other.limit + Teardown <= StaleAfter => ~Stale
    <3>1. SUFFICES ASSUME Alive, Setup + other.limit + Teardown <= StaleAfter PROVE collector.now <= StaleAfter BY <2>0 DEF Stale
    <3>2. collector.now <= now BY <1>2, <3>1 DEF Timely
    <3>3. now <= Setup + other.limit + Teardown
      <4>1. other.phase = "setup" => now <= Setup BY <1>2 DEF Timely
      <4>2. other.phase = "running" => other.since <= Setup /\ now - other.since <= other.limit BY <1>2 DEF Timely
      <4>3. other.phase = "teardown" => other.since <= Setup + other.limit /\ now - other.since <= Teardown
        BY <1>2 DEF Timely
      <4>4. QED BY <2>0, <3>1, <4>1, <4>2, <4>3 DEF Alive
    <3>4. QED BY <2>0, <3>1, <3>2, <3>3
  <2>2. CASE UNCHANGED otherVars BY <1>2, <2>2 DEF BriefTopologyKept, TopologyKept, Alive, otherVars
  <2>3. CASE other' = [phase |-> "gone", limit |-> 0, since |-> 0, proxy |-> "absent", network |-> "absent"]
    BY <2>3 DEF BriefTopologyKept, TopologyKept, Alive
  <2>4. CASE Tick \/ BeginCollect BY <1>2, <2>4 DEF Tick, BeginCollect, BriefTopologyKept, TopologyKept, Alive
  <2>5. CASE OtherSetsUp
    <3>1. Alive /\ other'.limit = other.limit /\ other'.proxy \in {other.proxy, "up"} /\ other'.network \in {other.network, "up"}
      BY <2>0, <2>5 DEF OtherSetsUp, Alive, Others
    <3>2. QED BY <1>2, <3>1 DEF BriefTopologyKept, TopologyKept
  <2>6. CASE OtherEnds
    <3>1. \/ /\ other.phase = "running"
             /\ other' = [other EXCEPT !.phase = "teardown", !.since = now]
          \/ other' = [other EXCEPT !.phase = "gone", !.proxy = "absent", !.network = "absent"]
          \/ other' = [other EXCEPT !.phase = "crashed"]
      BY <2>6 DEF OtherEnds
    <3>2. \/ Alive /\ other'.limit = other.limit /\ other'.proxy = other.proxy /\ other'.network = other.network
          \/ other'.phase \in {"gone", "crashed"}
      BY <2>0, <3>1 DEF Alive, Others
    <3>3. QED BY <1>2, <3>2 DEF BriefTopologyKept, TopologyKept, Alive
  <2>7. CASE CollectProxies \/ CollectNetworks
    <3>1. /\ other'.phase = other.phase /\ other'.limit = other.limit
          /\ other'.proxy \in {other.proxy, Collect(other.proxy)}
          /\ other'.network \in {other.network, Collect(other.network)}
      BY <2>0, <2>7 DEF CollectProxies, CollectNetworks, Others
    <3>2. Alive /\ Setup + other.limit + Teardown <= StaleAfter => other'.proxy = other.proxy /\ other'.network = other.network BY <2>1, <3>1 DEF Collect
    <3>3. Alive' => Alive BY <3>1 DEF Alive
    <3>4. QED BY <1>2, <3>1, <3>2, <3>3 DEF BriefTopologyKept, TopologyKept
  <2>8. CASE CollectStep BY <2>4, <2>5, <2>6, <2>7, <2>8 DEF CollectStep
  <2>9. CASE OnExecAbort BY <2>2, <2>9 DEF OnExecAbort
  <2>10. QED BY <1>2, <2>2, <2>3, <2>8, <2>9, ExecMoves DEF execVars
<1>3. QED BY AlwaysTimely, <1>1, <1>2, PTL DEF Spec

(* Every variable of the three services and of the session stays in its set. *)
THEOREM Typing == Spec => []ServicesTypeOK
<1> DEFINE Session == session \in {"creating", "open", "closed"}
<1>1. Init => Session BY DEF Init
<1>2. Session /\ [Next]_vars => Session'
  BY DEF Next, vars, Creating, Created, Attaching, Ask, Answered, CallServer, RunCommand, Cancel, Closing,
         ClosingBackend, RequestGoesOn, ServerGoesOn, CommandGoesOn
<1>3. Running /\ Timely => ExecTypeOK
  <2>1. SUFFICES ASSUME Running, Timely PROVE ExecTypeOK OBVIOUS
  <2>2. execs \in 0..MaxExecs /\ 1..execs \subseteq 1..MaxExecs BY <2>1, ExecutionAssumption DEF Running
  <2>3. {reaping, started, containers, proxies, networks} \subseteq SUBSET (1..MaxExecs) BY <2>1, <2>2 DEF Running
  <2>4. QED BY <2>1, <2>3 DEF Running, Timely, Runs, Others, Collectors, ExecTypeOK
<1>4. Requesting /\ Serving /\ Running /\ Timely /\ Session => ServicesTypeOK
  BY <1>3 DEF Requesting, Serving, ServicesTypeOK
<1>5. QED BY AlwaysRequesting, AlwaysServing, AlwaysRunning, AlwaysTimely, <1>1, <1>2, <1>4, PTL DEF Spec
==============================================================================
