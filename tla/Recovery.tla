------------------------------ MODULE Recovery ------------------------------
(***************************************************************************)
(* A session over several processes: what Session.runTurn writes to the    *)
(* event log, event by event (session/session.ts), the metadata snapshot,  *)
(* a crash at any of those writes, and the resume that rebuilds the        *)
(* conversation and the session's state from the log (session/resume.ts,   *)
(* session/terminal-state.ts, kernel.ts).                                  *)
(*                                                                         *)
(* The loop is that of AgentLoop, as far as it writes: limits, policy,     *)
(* compaction and the events that resume does not read are left out.  At   *)
(* the places in Writing the append of the last action is under way, and a *)
(* crash may cut its line short.                                           *)
(***************************************************************************)
EXTENDS EventLog, Integers, FiniteSets, FiniteSetsExt, SequencesExt

CONSTANTS
  MaxBatch,    \* bound: tool calls in one response
  MaxEvents,   \* bound: no turn and no request begins with this many lines in the log
  MaxCrashes   \* bound: crashes

ASSUME BoundsAssumption == MaxBatch \in Nat /\ MaxEvents \in Nat /\ MaxCrashes \in Nat

VARIABLES
  file,      \* disk: events.jsonl
  snapshot,  \* disk: usage.modelRequests of session.json
  at,        \* the await the process stands at, "down" without a process
  seq,       \* FileSessionStore.seqs of the session
  messages,  \* ContextEngine.messages: role and the calls made or answered
  issued, answered, turns, requests, \* what Session.terminalState reads
  ending,    \* how the turn ends, "none" while it runs
  lo, hi,    \* the calls of the last response; hi is never used again
  pos,       \* the call being logged
  owed,      \* synthetic results not yet logged
  crashes    \* crashes so far

disk == <<file, snapshot>>
log == <<file, seq>>
live == <<issued, answered, turns, requests>>
batch == <<lo, hi, pos>>
vars == <<file, snapshot, at, seq, messages, issued, answered, turns, requests,
          ending, lo, hi, pos, owed, crashes>>

-----------------------------------------------------------------------------
(* Events and messages.                                                    *)

Event(type, datum, n) == [type |-> type, datum |-> datum, seq |-> n]

Message(role, calls) == [role |-> role, calls |-> calls]

CallsOf(ms, role) == UNION {ms[i].calls : i \in {j \in 1..Len(ms) : ms[j].role = role}}

(* openToolCallIds. *)
OpenCalls(ms) == CallsOf(ms, "assistant") \ CallsOf(ms, "tool")

Speak(ms, role, calls) == Append(ms, Message(role, calls))

(* Nothing is said by a message without parts. *)
AnswerAll(ms, calls) == IF calls = {} THEN ms ELSE Speak(ms, "tool", calls)

Ended == [completed |-> "turn.completed", failed |-> "turn.failed", cancelled |-> "turn.cancelled"]

OfType(es, types) == {es[i].datum : i \in {j \in 1..Len(es) : es[j].type \in types}}

CountOf(es, type) == Cardinality({i \in 1..Len(es) : es[i].type = type})

Calls(es) == OfType(es, {"tool.call"})
Results(es) == OfType(es, {"tool.result", "tool.synthetic_result"})

(* replayTerminalState's turns: events that end one, in their order. *)
Concluded(ts, e) ==
  IF \E s \in DOMAIN Ended : Ended[s] = e.type
  THEN Append(ts, CHOOSE s \in DOMAIN Ended : Ended[s] = e.type)
  ELSE ts

Turns(es) ==
  LET concluded[n \in 0..Len(es)] == IF n = 0 THEN << >> ELSE Concluded(concluded[n - 1], es[n])
  IN  concluded[Len(es)]

-----------------------------------------------------------------------------
(* replaySession: the conversation the log tells.                          *)

Flush(r) == [ms |-> AnswerAll(r.ms, r.pending), pending |-> {}]

(* A call joins the assistant message before it, or begins one. *)
AddCall(ms, c) ==
  IF ms # << >> /\ Last(ms).role = "assistant"
  THEN [ms EXCEPT ![Len(ms)].calls = @ \cup {c}]
  ELSE Speak(ms, "assistant", {c})

(* Mutant of Retold: the results of a batch wait for the next turn. *)
RetoldUnflushed(r, e) ==
  CASE e.type = "turn.started" -> [Flush(r) EXCEPT !.ms = Speak(@, "user", {})]
    [] e.type = "model.request.completed" ->
         IF e.datum > 0 THEN [r EXCEPT !.ms = Speak(@, "assistant", {})] ELSE r
    [] e.type = "tool.call" -> [r EXCEPT !.ms = AddCall(@, e.datum)]
    [] e.type \in {"tool.result", "tool.synthetic_result"} -> [r EXCEPT !.pending = @ \cup {e.datum}]
    [] OTHER -> r

Retold(r, e) ==
  CASE e.type = "turn.started" -> [Flush(r) EXCEPT !.ms = Speak(@, "user", {})]
    [] e.type = "model.request.completed" ->
         IF e.datum > 0 THEN [Flush(r) EXCEPT !.ms = Speak(@, "assistant", {})] ELSE Flush(r)
    [] e.type = "tool.call" -> [r EXCEPT !.ms = AddCall(@, e.datum)]
    [] e.type \in {"tool.result", "tool.synthetic_result"} -> [r EXCEPT !.pending = @ \cup {e.datum}]
    [] OTHER -> r

Told(es) ==
  LET told[n \in 0..Len(es)] ==
        IF n = 0 THEN [ms |-> << >>, pending |-> {}] ELSE Retold(told[n - 1], es[n])
  IN  told[Len(es)]

(* Mutant of Rebuilt: the calls that were cut off stay open. *)
RebuiltOpen(es) == Flush(Told(es)).ms

(* A call that got no result is given a synthetic one, at the end. *)
Rebuilt(es) == AnswerAll(Flush(Told(es)).ms, Calls(es) \ Results(es))

-----------------------------------------------------------------------------
Writing == {"booting", "started", "requesting", "responded", "blank", "refused",
            "issuing", "answering", "settling", "ended"}

Places == Writing \cup {"down", "idle", "top", "closing", "persisting"}

(* FileSessionStore.appendNow. *)
Write(type, datum) ==
  /\ seq' = seq + 1
  /\ file' = Appended(file, Event(type, datum, seq + 1))

(* turn.fail: nothing once the turn is cancelled. *)
Failing == ending' = IF ending = "none" THEN "failed" ELSE ending

Init ==
  /\ seq = 1 /\ file = Appended(<< >>, Event("session.started", 0, 1))
  /\ snapshot = 0 /\ at = "booting"
  /\ messages = << >> /\ issued = {} /\ answered = {} /\ turns = << >> /\ requests = 0
  /\ ending = "none" /\ lo = 1 /\ hi = 0 /\ pos = 1 /\ owed = {} /\ crashes = 0

Booted ==
  /\ at = "booting" /\ at' = "idle"
  /\ UNCHANGED <<disk, seq, messages, live, ending, batch, owed, crashes>>

-----------------------------------------------------------------------------
(* Session.runTurn and Session.loop, one action per await.                 *)

RunTurn ==
  /\ at = "idle" /\ Len(file) < MaxEvents
  /\ Write("turn.started", 0)
  /\ messages' = Speak(messages, "user", {})
  /\ ending' = "none" /\ at' = "started"
  /\ UNCHANGED <<snapshot, live, batch, owed, crashes>>

EnterLoop ==
  /\ at = "started" /\ at' = "top"
  /\ UNCHANGED <<disk, seq, messages, live, ending, batch, owed, crashes>>

(* IF the turn was cancelled THEN the loop ends. *)
HeedCancel ==
  /\ at = "top" /\ ending = "cancelled" /\ at' = "closing"
  /\ UNCHANGED <<disk, seq, messages, live, ending, batch, owed, crashes>>

OverBudget ==
  /\ at = "top" /\ ending = "none"
  /\ Write("budget.exceeded", 0) /\ at' = "refused"
  /\ UNCHANGED <<snapshot, messages, live, ending, batch, owed, crashes>>

(* Session.sample up to the call of the provider. A turn cancelled since the
   top of the loop dies at a transition before it, with nothing written. *)
SendRequest ==
  /\ at = "top" /\ ending = "none" /\ Len(file) < MaxEvents
  /\ Write("model.request.started", 0) /\ at' = "requesting"
  /\ UNCHANGED <<snapshot, messages, live, ending, batch, owed, crashes>>

(* The provider answers a turn that was cancelled meanwhile. *)
HearTooLate ==
  /\ at = "requesting" /\ ending = "cancelled"
  /\ requests' = requests + 1 /\ at' = "closing"
  /\ UNCHANGED <<disk, seq, messages, issued, answered, turns, ending, batch, owed, crashes>>

HearFailure ==
  /\ at = "requesting" /\ ending = "none"
  /\ requests' = requests + 1
  /\ Write("model.request.failed", 0) /\ at' = "refused"
  /\ UNCHANGED <<snapshot, messages, issued, answered, turns, ending, batch, owed, crashes>>

(* The answer has n calls, and text or none; text may be blank. *)
Hear(n, text, blank) ==
  /\ at = "requesting" /\ ending = "none"
  /\ requests' = requests + 1
  /\ lo' = hi + 1 /\ hi' = hi + n /\ pos' = hi + 1
  /\ messages' = IF n + text = 0 THEN messages ELSE Speak(messages, "assistant", lo'..hi')
  /\ Write("model.request.completed", text)
  /\ at' = IF n = 0 /\ (blank \/ text = 0) THEN "blank" ELSE "responded"
  /\ UNCHANGED <<snapshot, issued, answered, turns, ending, owed, crashes>>

(* turn.fail after budget.exceeded or model.request.failed. *)
Refuse ==
  /\ at = "refused" /\ Failing /\ at' = "closing"
  /\ UNCHANGED <<disk, seq, messages, live, batch, owed, crashes>>

(* An empty answer is remarked upon, in the conversation only. *)
Nudge ==
  /\ at = "blank" /\ at' = "top"
  /\ messages' = Speak(messages, "control", {})
  /\ UNCHANGED <<disk, seq, live, ending, batch, owed, crashes>>

(* A cancelled turn dies at the transition that follows its answer: calls it
   has are in the conversation, and are never logged. *)
TransitionThrows ==
  /\ at = "responded" /\ ending = "cancelled" /\ at' = "closing"
  /\ UNCHANGED <<disk, seq, messages, live, ending, batch, owed, crashes>>

HandleText ==
  /\ at = "responded" /\ ending = "none" /\ hi < lo
  /\ ending' = "completed" /\ at' = "closing"
  /\ UNCHANGED <<disk, seq, messages, live, batch, owed, crashes>>

HandleCalls ==
  /\ \/ at = "responded" /\ ending = "none" /\ lo <= hi
     \/ at = "issuing" /\ pos <= hi
  /\ issued' = issued \cup {pos} /\ pos' = pos + 1
  /\ Write("tool.call", pos) /\ at' = "issuing"
  /\ UNCHANGED <<snapshot, messages, answered, turns, requests, ending, lo, hi, owed, crashes>>

(* executeBatch ran the calls, or answered those a cancellation came before. *)
BatchEnds ==
  /\ at = "issuing" /\ pos > hi
  /\ messages' = AnswerAll(messages, lo..hi)
  /\ answered' = answered \cup {lo} /\ pos' = lo + 1
  /\ Write("tool.result", lo) /\ at' = "answering"
  /\ UNCHANGED <<snapshot, issued, turns, requests, ending, lo, hi, owed, crashes>>

(* executeBatch throws (backend.enforce): no call of the batch is answered. *)
BatchThrows ==
  /\ at = "issuing" /\ pos > hi
  /\ Failing /\ at' = "closing"
  /\ UNCHANGED <<disk, seq, messages, live, batch, owed, crashes>>

LogResult ==
  /\ at = "answering" /\ pos <= hi
  /\ answered' = answered \cup {pos} /\ pos' = pos + 1
  /\ Write("tool.result", pos)
  /\ UNCHANGED <<snapshot, at, messages, issued, turns, requests, ending, lo, hi, owed, crashes>>

(* The step ends, or outcome.terminalFailure ends the turn. *)
EndStep ==
  /\ at = "answering" /\ pos > hi
  /\ \/ at' = "top" /\ UNCHANGED ending
     \/ at' = "closing" /\ Failing
  /\ UNCHANGED <<disk, seq, messages, live, batch, owed, crashes>>

-----------------------------------------------------------------------------
(* The end of runTurn.                                                     *)

(* closeOpenToolCalls: the results join the conversation at once, and are
   logged one by one, ids in the order of the calls. *)
CloseOpenToolCalls ==
  /\ at = "closing" /\ OpenCalls(messages) # {}
  /\ LET open == OpenCalls(messages)
     IN  /\ messages' = AnswerAll(messages, open)
         /\ answered' = answered \cup {Min(open)}
         /\ owed' = open \ {Min(open)}
         /\ Write("tool.synthetic_result", Min(open))
  /\ at' = "settling"
  /\ UNCHANGED <<snapshot, issued, turns, requests, ending, batch, crashes>>

LogSynthetic ==
  /\ at = "settling" /\ owed # {}
  /\ answered' = answered \cup {Min(owed)} /\ owed' = owed \ {Min(owed)}
  /\ Write("tool.synthetic_result", Min(owed))
  /\ UNCHANGED <<snapshot, at, messages, issued, turns, requests, ending, batch, crashes>>

LogOutcome ==
  /\ \/ at = "closing" /\ OpenCalls(messages) = {}
     \/ at = "settling" /\ owed = {}
  /\ Write(Ended[ending], 0) /\ at' = "ended"
  /\ UNCHANGED <<snapshot, messages, live, ending, batch, owed, crashes>>

EndTurn ==
  /\ at = "ended" /\ turns' = Append(turns, ending) /\ at' = "persisting"
  /\ UNCHANGED <<disk, seq, messages, issued, answered, requests, ending, batch, owed, crashes>>

(* Session.persistMetadata: a temporary file and a rename, so all or nothing. *)
PersistMetadata ==
  /\ at = "persisting" /\ snapshot' = requests /\ at' = "idle"
  /\ UNCHANGED <<file, seq, messages, live, ending, batch, owed, crashes>>

(* Session.cancel, at any await of a turn that has not ended. *)
Cancel ==
  /\ at \notin {"booting", "idle", "down"} /\ ending = "none" /\ ending' = "cancelled"
  /\ UNCHANGED <<disk, at, seq, messages, live, batch, owed, crashes>>

-----------------------------------------------------------------------------
(* Processes end and begin.                                                *)

(* What a process held is gone; hi stays, for ids are never given twice. *)
Forget ==
  /\ at' = "down" /\ seq' = 0 /\ messages' = << >>
  /\ issued' = {} /\ answered' = {} /\ turns' = << >> /\ requests' = 0
  /\ ending' = "none" /\ lo' = hi + 1 /\ pos' = hi + 1 /\ owed' = {}
  /\ UNCHANGED hi

(* shutdown persists once more. *)
Shutdown ==
  /\ at = "idle" /\ snapshot' = requests /\ Forget
  /\ UNCHANGED <<file, crashes>>

Crash ==
  /\ at # "down" /\ crashes < MaxCrashes /\ crashes' = crashes + 1
  /\ file' \in (IF at \in Writing THEN CutShort(file) ELSE {file})
  /\ Forget
  /\ UNCHANGED snapshot

(* Mutant of Resume: the gate's state is not seeded. *)
ResumeUnseeded ==
  /\ at = "down" /\ at' = "idle"
  /\ LET es == ReadBack(file)
     IN  /\ seq' = IF es = << >> THEN 0 ELSE Last(es).seq
         /\ messages' = Rebuilt(es)
  /\ requests' = snapshot
  /\ UNCHANGED <<disk, issued, answered, turns, ending, batch, owed, crashes>>

(* replaySession, replayTerminalState and the constructor of Session: the log
   is read again, usage comes from the snapshot, nothing is written. *)
Resume ==
  /\ at = "down" /\ at' = "idle"
  /\ LET es == ReadBack(file)
     IN  /\ seq' = IF es = << >> THEN 0 ELSE Last(es).seq
         /\ messages' = Rebuilt(es)
         /\ issued' = Calls(es) /\ answered' = Results(es) /\ turns' = Turns(es)
  /\ requests' = snapshot
  /\ UNCHANGED <<disk, ending, batch, owed, crashes>>

HearAnswer == \E n \in 0..MaxBatch, text \in 0..1, blank \in BOOLEAN : Hear(n, text, blank)

Next ==
  \/ Booted \/ RunTurn \/ EnterLoop \/ HeedCancel \/ OverBudget \/ SendRequest
  \/ HearTooLate \/ HearFailure \/ HearAnswer \/ Refuse \/ Nudge \/ TransitionThrows \/ HandleText
  \/ HandleCalls \/ BatchEnds \/ BatchThrows \/ LogResult \/ EndStep
  \/ CloseOpenToolCalls \/ LogSynthetic \/ LogOutcome \/ EndTurn \/ PersistMetadata
  \/ Cancel \/ Shutdown \/ Crash \/ Resume

Spec == Init /\ [][Next]_vars

-----------------------------------------------------------------------------
(* Properties.                                                             *)

(* Types; a turn that is being closed has an outcome to record. *)
TypeOK ==
  /\ at \in {"closing", "settling", "ended", "persisting"} => ending # "none"
  /\ \A i \in 1..Len(file) : file[i].state \in LineStates /\ file[i].event.seq \in Nat
  /\ snapshot \in Nat /\ requests \in Nat /\ seq \in Nat /\ crashes \in 0..MaxCrashes
  /\ at \in Places /\ ending \in DOMAIN Ended \cup {"none"}
  /\ issued \subseteq 1..hi /\ answered \subseteq 1..hi /\ owed \subseteq 1..hi
  /\ \A i \in 1..Len(turns) : turns[i] \in DOMAIN Ended
  /\ \A i \in 1..Len(messages) :
       messages[i].role \in {"user", "assistant", "tool", "control"} /\ messages[i].calls \subseteq 1..hi

(* What a session between two turns reports of itself is what its log says. *)
LogTells ==
  LET es == ReadBack(file)
  IN  turns = Turns(es) /\ issued = Calls(es) /\ answered = Results(es)

(* The replay gate over restarts (terminal-state.ts): as long as no line of the
   log is damaged, the state of a session between two turns, whichever process
   began it, is the one the log replays to. *)
ResumedGate == at = "idle" /\ Unbroken(file) => LogTells

(* Calls, results and inputs in their order, without texts, remarks and bounds
   between an answer's text and its calls. *)
Exchanged(xs, m) == IF m.role = "user" \/ m.calls # {} THEN Append(xs, m) ELSE xs

Exchanges(ms) ==
  LET exchanged[n \in 0..Len(ms)] == IF n = 0 THEN << >> ELSE Exchanged(exchanged[n - 1], ms[n])
  IN  exchanged[Len(ms)]

(* Resume gives back the conversation the process had, call by call and batch
   by batch (resume.ts): after any turn whose calls were all logged and answered
   in the log, a restart would lose no exchange and reorder none. *)
SameConversation ==
  LET es == ReadBack(file)
  IN  at = "idle" /\ Unbroken(file) /\ Calls(es) = Results(es)
      => Exchanges(Rebuilt(es)) = Exchanges(messages)

(* No call is without an answer when the model is asked or a turn is awaited,
   after any crash and whatever is left of the log (resume.ts, steps 5 and 6). *)
AllAnswered == at \in {"idle", "requesting"} => OpenCalls(messages) = {}

(* The events that are read back are numbered 1, 2, 3 and so on, across all the
   processes that wrote them (store.ts, appendNow and readEvents). *)
GaplessLog == LET es == ReadBack(file) IN \A i \in 1..Len(es) : es[i].seq = i

(* A session never counts more requests than its log, over any restart
   (session.ts, persistMetadata and the constructor): what the snapshot carries
   over is not counted twice, and is of before what a kill took from the log. *)
SnapshotBehind ==
  Unbroken(file) => requests <= CountOf(ReadBack(file), "model.request.started")

(* Violated: "The event log is the source of truth" (resume.ts:4), for a session
   that was resumed after a hard kill tore the last line, too. *)
LogIsTruth == at = "idle" => LogTells

(* The calls the tool messages right after message i answer. *)
AnsweredNext(ms, i) ==
  UNION {ms[k].calls : k \in {j \in i + 1..Len(ms) : \A l \in i + 1..j : ms[l].role = "tool"}}

(* Violated: what is sent to the provider is well formed, that is, tool messages
   come right after the message whose calls they answer, and answer them all. *)
WellFormed ==
  at = "requesting" =>
    \A i \in 1..Len(messages) :
      messages[i].role # "tool" => AnsweredNext(messages, i) = messages[i].calls
=============================================================================
