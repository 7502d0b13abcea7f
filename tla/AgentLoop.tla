------------------------------ MODULE AgentLoop ------------------------------
(***************************************************************************)
(* One session running its turns, one after another: Session.runTurn and   *)
(* Session.loop (session/session.ts), the turn state machine they drive    *)
(* (session/turn.ts), the loop budget (session/step.ts) and the batch of   *)
(* tool calls between two model requests (tools/runtime.ts).               *)
(*                                                                         *)
(* The program is single-threaded: an action is the code between two       *)
(* awaits, and `at' names the await the turn stands at.  The only other    *)
(* actor is the user, who may cancel while any await is pending, answer an *)
(* approval, and ask for a compaction between turns.                       *)
(*                                                                         *)
(* The event log is kept as what replayTerminalState makes of it (the      *)
(* variable `replay'); requests, issued, answered, compactions and         *)
(* outcomes are the live objects that terminalState() reads.               *)
(***************************************************************************)
EXTENDS Integers, Sequences, FiniteSets

CONSTANTS
  MaxSteps, MaxModelRequests, MaxToolCalls, MaxCost, \* the LoopBudget
  FailureThreshold,  \* maxRepeatedEquivalentFailures
  Fingerprints,      \* the classes FailureTracker.fingerprint tells apart
  ChildUsage,        \* what a delegated child may have spent: records of Usage
  MaxBatch,          \* bound: tool calls in one response
  ResponseCosts,     \* bound: what one model response may cost
  MaxTurns,          \* bound: turns of the session
  MaxCompactions     \* bound: compactions in total, for those asked for when idle

Usage == [requests : Nat, calls : Nat, cost : Nat]

ASSUME LimitsAssumption ==
  /\ MaxSteps \in Nat \ {0}
  /\ MaxModelRequests \in Nat \ {0}
  /\ MaxToolCalls \in Nat \ {0}
  /\ MaxCost \in Nat \ {0}
  /\ FailureThreshold \in Nat
  /\ MaxBatch \in Nat \ {0}
  /\ ResponseCosts \subseteq Nat /\ ResponseCosts # {}
  /\ ChildUsage \subseteq Usage /\ ChildUsage # {}
  /\ Fingerprints # {}
  /\ MaxTurns \in Nat
  /\ MaxCompactions \in Nat

VARIABLES
  turnState,   \* Turn.state of the current turn, "none" before the first
  error,       \* Turn.error: its code, or "none"
  aborted,     \* the turn's AbortSignal
  at,          \* the await the turn stands at
  reply,       \* the model response being handled
  lo, hi,      \* the latest batch of calls: the ids lo..hi (ids never repeat)
  pos,         \* the call of the batch being issued, run or answered
  open,        \* ContextEngine.openToolCalls: asked in the conversation, unanswered
  owed,        \* synthetic results in the conversation and not yet in the log
  issued,      \* Session.issuedToolCalls
  answered,    \* Session.answeredToolCalls
  outcomes,    \* Session.turnOutcomes
  requests,    \* Session.usage.modelRequests (the session's own)
  compactions, \* Session.compactionCount
  replay,      \* the fold of the event log
  budget,      \* LoopBudgetTracker: steps, requests, calls, cost
  charge,      \* Session.pendingCharge
  sent,        \* ghost: requests this turn sent itself
  spent,       \* ghost: what this turn's own responses cost
  failures,    \* ToolRuntime's FailureTracker, one for the whole session
  fatal        \* executeBatch's terminalFailure

turnVars == <<turnState, error, aborted, at>>
batchVars == <<lo, hi, pos, reply, fatal>>
talkVars == <<open, owed>>
liveVars == <<issued, answered, outcomes, requests, compactions>>
moneyVars == <<budget, charge, sent, spent>>

vars == <<turnState, error, aborted, at, reply, lo, hi, pos, open, owed,
          issued, answered, outcomes, requests, compactions, replay,
          budget, charge, sent, spent, failures, fatal>>

-----------------------------------------------------------------------------
(* The turn state machine (turn.ts).                                       *)

TerminalStates == {"completed", "failed", "cancelled"}

TurnStates == {"none", "queued", "preparing", "sampling", "executing_tools",
               "compacting", "verifying"} \cup TerminalStates

Transitions ==
  [s \in TurnStates |->
    (CASE s = "queued"          -> {"preparing"}
       [] s = "preparing"       -> {"sampling", "compacting"}
       [] s = "sampling"        -> {"executing_tools", "verifying", "compacting"}
       [] s = "executing_tools" -> {"preparing", "verifying"}
       [] s = "compacting"      -> {"preparing"}
       [] s = "verifying"       -> {"completed", "preparing"}
       [] OTHER                 -> {})
    \cup (IF s \in TerminalStates \cup {"none"} THEN {} ELSE {"failed", "cancelled"})]

IsTerminal == turnState \in TerminalStates

ErrorCodes == {"LOOP_BUDGET_EXCEEDED", "REPEATED_FAILURE", "PROVIDER_ERROR",
               "SANDBOX_ERROR", "INTERNAL_ERROR"}

(* Mutant of Fail: the error is stored before the terminal check. *)
FailStoresError(code) ==
  /\ turnState' = IF IsTerminal THEN turnState ELSE "failed"
  /\ error' = code

(* Turn.fail: nothing once the turn is terminal. *)
Fail(code) ==
  /\ turnState' = IF IsTerminal THEN turnState ELSE "failed"
  /\ error' = IF IsTerminal THEN error ELSE code

(* Turn.cancel: nothing once the turn is terminal. *)
CancelTurn == turnState' = IF IsTerminal THEN turnState ELSE "cancelled"

(* Turn.transition throws when the move is not in the table; runTurn's catch
   hands what was thrown to Turn.fail and goes on to end the turn. *)
CanTransitionTo(s) == s \in Transitions[turnState]

Throw(code) == Fail(code) /\ at' = "closing"

-----------------------------------------------------------------------------
(* The event log, as replayTerminalState folds it.                         *)

Outcome(state, code) == [state |-> state, error |-> code]

EmptyReplay == [turns |-> << >>, calls |-> {}, answered |-> {},
                requests |-> 0, compactions |-> 0]

Replayed(r, type, datum) ==
  CASE type = "model.request.started" -> [r EXCEPT !.requests = @ + 1]
    [] type = "tool.call" -> [r EXCEPT !.calls = @ \cup {datum}]
    [] type = "tool.result" -> [r EXCEPT !.answered = @ \cup {datum}]
    [] type = "tool.synthetic_result" -> [r EXCEPT !.answered = @ \cup {datum}]
    [] type = "compaction.boundary" -> [r EXCEPT !.compactions = @ + 1]
    [] type = "turn.completed" -> [r EXCEPT !.turns = Append(@, Outcome("completed", "none"))]
    [] type = "turn.cancelled" -> [r EXCEPT !.turns = Append(@, Outcome("cancelled", "none"))]
    [] type = "turn.failed" -> [r EXCEPT !.turns = Append(@, Outcome("failed", datum))]
    [] OTHER -> r

Log(type, datum) == replay' = Replayed(replay, type, datum)

-----------------------------------------------------------------------------
(* The loop budget (step.ts).                                              *)

NoUsage == [requests |-> 0, calls |-> 0, cost |-> 0]

(* Mutant of Plus: a child's usage is taken off. *)
PlusNegated(u, v) == [requests |-> u.requests - v.requests,
                      calls |-> u.calls - v.calls, cost |-> u.cost - v.cost]

Plus(u, v) == [requests |-> u.requests + v.requests,
               calls |-> u.calls + v.calls, cost |-> u.cost + v.cost]

FreshBudget == [steps |-> 0, requests |-> 0, calls |-> 0, cost |-> 0]

(* Mutant of Exceeded: a limit is over when passed, not when reached. *)
ExceededLate(b) ==
  b.steps > MaxSteps \/ b.requests > MaxModelRequests \/ b.calls > MaxToolCalls \/ b.cost > MaxCost

(* LoopBudgetTracker.check, but for the clock. *)
Exceeded(b) ==
  \/ b.steps >= MaxSteps
  \/ b.requests >= MaxModelRequests
  \/ b.calls >= MaxToolCalls
  \/ b.cost >= MaxCost

(* A step's end: what the children spent is charged, if they did anything. *)
Charged(b, c) ==
  IF c.requests > 0 \/ c.calls > 0
  THEN [b EXCEPT !.requests = @ + c.requests, !.calls = @ + c.calls, !.cost = @ + c.cost]
  ELSE b

-----------------------------------------------------------------------------
Init ==
  /\ turnState = "none" /\ error = "none" /\ aborted = FALSE /\ at = "idle"
  /\ lo = 1 /\ hi = 0 /\ pos = 1 /\ reply = "none" /\ fatal = FALSE
  /\ open = {} /\ owed = {}
  /\ issued = {} /\ answered = {} /\ outcomes = << >>
  /\ requests = 0 /\ compactions = 0 /\ replay = EmptyReplay
  /\ budget = FreshBudget /\ charge = NoUsage /\ sent = 0 /\ spent = 0
  /\ failures = [f \in Fingerprints |-> 0]

(* runTurn up to the loop: a fresh turn, signal and budget; pendingCharge and
   the failure counts are the session's and stay. *)
RunTurn ==
  /\ at = "idle" /\ Len(outcomes) < MaxTurns
  /\ turnState' = "queued" /\ error' = "none" /\ aborted' = FALSE
  /\ budget' = FreshBudget /\ sent' = 0 /\ spent' = 0 /\ fatal' = FALSE
  /\ at' = "started"
  /\ UNCHANGED <<reply, lo, hi, pos, charge, failures, replay>>
  /\ UNCHANGED <<talkVars, liveVars>>

(* The turn.started append and the UserPromptSubmit hook are over. *)
EnterLoop ==
  /\ at = "started"
  /\ at' = "looping"
  /\ UNCHANGED <<turnState, error, aborted, failures, replay>>
  /\ UNCHANGED <<batchVars, talkVars, liveVars, moneyVars>>

(* The top of the loop.  No await leads to "looping": nothing comes between. *)
TopOfLoop ==
  /\ at = "looping"
  /\ \E late \in BOOLEAN :
       IF IsTerminal
       THEN at' = "closing" /\ UNCHANGED <<turnState, error, replay>>
       ELSE IF aborted
       THEN CancelTurn /\ at' = "closing" /\ UNCHANGED <<error, replay>>
       ELSE IF Exceeded(budget) \/ late
       THEN /\ Log("budget.exceeded", 0) /\ at' = "overBudget"
            /\ UNCHANGED <<turnState, error>>
       ELSE /\ UNCHANGED replay
            /\ IF CanTransitionTo("preparing")
               THEN turnState' = "preparing" /\ at' = "prepared" /\ UNCHANGED error
               ELSE Throw("INTERNAL_ERROR")
  /\ UNCHANGED <<aborted, failures>>
  /\ UNCHANGED <<batchVars, talkVars, liveVars, moneyVars>>

(* Mutant of OverBudget: the event is logged and the turn not failed. *)
OverBudgetGoesOn ==
  /\ at = "overBudget"
  /\ at' = "looping"
  /\ UNCHANGED <<turnState, error, aborted, failures, replay>>
  /\ UNCHANGED <<batchVars, talkVars, liveVars, moneyVars>>

(* The budget.exceeded append is over. *)
OverBudget ==
  /\ at = "overBudget"
  /\ Throw("LOOP_BUDGET_EXCEEDED")
  /\ UNCHANGED <<aborted, failures, replay>>
  /\ UNCHANGED <<batchVars, talkVars, liveVars, moneyVars>>

(* Mutant of Compact: a compaction without its boundary event. *)
CompactUnlogged ==
  /\ compactions' = compactions + 1
  /\ UNCHANGED replay

(* runCompaction and its boundary event.  The cut never parts a call from its
   result, and no call is open when the loop compacts: `open' stays. *)
Compact ==
  /\ compactions' = compactions + 1
  /\ Log("compaction.boundary", 0)

(* freezeStep and the append of step.context_frozen. *)
Freeze == at' = "frozen"

(* The BeforeStep hook is over: maybeCompact, or straight to freezeStep. *)
MaybeCompact ==
  /\ at = "prepared"
  /\ \E tooLong \in BOOLEAN :
       IF ~tooLong
       THEN Freeze /\ UNCHANGED <<turnState, error, compactions, replay>>
       ELSE IF CanTransitionTo("compacting")
       THEN turnState' = "compacting" /\ at' = "compacted" /\ Compact /\ UNCHANGED error
       ELSE Throw("INTERNAL_ERROR") /\ UNCHANGED <<compactions, replay>>
  /\ UNCHANGED <<aborted, failures, issued, answered, outcomes, requests>>
  /\ UNCHANGED <<batchVars, talkVars, moneyVars>>

(* The boundary is logged: back to preparing, and freezeStep. *)
FreezeCompacted ==
  /\ at = "compacted"
  /\ IF CanTransitionTo("preparing")
     THEN turnState' = "preparing" /\ Freeze /\ UNCHANGED error
     ELSE Throw("INTERNAL_ERROR")
  /\ UNCHANGED <<aborted, failures, replay>>
  /\ UNCHANGED <<batchVars, talkVars, liveVars, moneyVars>>

(* sample: log model.request.started and send the request. *)
SendRequest ==
  /\ at = "frozen"
  /\ IF CanTransitionTo("sampling")
     THEN /\ turnState' = "sampling" /\ at' = "requesting"
          /\ Log("model.request.started", 0) /\ sent' = sent + 1
          /\ UNCHANGED error
     ELSE Throw("INTERNAL_ERROR") /\ UNCHANGED <<replay, sent>>
  /\ UNCHANGED <<aborted, failures, budget, charge, spent>>
  /\ UNCHANGED <<batchVars, talkVars, liveVars>>

-----------------------------------------------------------------------------
(* The model's answer.                                                     *)

Replies == {"text", "empty", "calls", "overflow", "error"}

(* A response r is in the conversation before its event is appended: n calls,
   numbered on from hi.  An error is not. *)
Hear(r, n, cost) ==
  /\ reply' = r
  /\ IF r \in {"overflow", "error"}
     THEN at' = "requestFailed" /\ UNCHANGED spent
     ELSE at' = "responded" /\ spent' = spent + cost
  /\ IF r = "calls"
     THEN lo' = hi + 1 /\ hi' = hi + n /\ open' = open \cup (hi + 1)..(hi + n)
     ELSE UNCHANGED <<lo, hi, open>>

(* sample returns; the request is counted whatever came of it. *)
Responds ==
  /\ at = "requesting"
  /\ requests' = requests + 1
  /\ budget' = [budget EXCEPT !.requests = @ + 1]
  /\ IF aborted
     THEN CancelTurn /\ at' = "closing" /\ UNCHANGED <<reply, lo, hi, open, spent>>
     ELSE /\ UNCHANGED turnState
          /\ \E r \in Replies, n \in 1..MaxBatch, cost \in ResponseCosts : Hear(r, n, cost)
  /\ UNCHANGED <<error, aborted, failures, replay, pos, fatal, owed>>
  /\ UNCHANGED <<issued, answered, outcomes, compactions, charge, sent>>

(* model.request.failed is logged. *)
RequestFailed ==
  /\ at = "requestFailed"
  /\ IF reply = "error"
     THEN Throw("PROVIDER_ERROR") /\ UNCHANGED <<compactions, replay>>
     ELSE IF CanTransitionTo("compacting")
     THEN turnState' = "compacting" /\ at' = "forced" /\ Compact /\ UNCHANGED error
     ELSE Throw("INTERNAL_ERROR") /\ UNCHANGED <<compactions, replay>>
  /\ UNCHANGED <<aborted, failures, issued, answered, outcomes, requests>>
  /\ UNCHANGED <<batchVars, talkVars, moneyVars>>

(* forceCompact's boundary is logged; context.pressure, and round again. *)
Pressure ==
  /\ at = "forced"
  /\ at' = "pressured" /\ Log("context.pressure", 0)
  /\ UNCHANGED <<turnState, error, aborted, failures>>
  /\ UNCHANGED <<batchVars, talkVars, liveVars, moneyVars>>

(* Mutant of Retry: back to preparing here as well as at the top of the loop. *)
RetryPrepares ==
  /\ at = "pressured"
  /\ IF CanTransitionTo("preparing")
     THEN turnState' = "preparing" /\ at' = "looping" /\ UNCHANGED error
     ELSE Throw("INTERNAL_ERROR")
  /\ UNCHANGED <<aborted, failures, replay>>
  /\ UNCHANGED <<batchVars, talkVars, liveVars, moneyVars>>

(* context.pressure is logged: the top of the loop makes the transition. *)
Retry ==
  /\ at = "pressured"
  /\ at' = "looping"
  /\ UNCHANGED <<turnState, error, aborted, failures, replay>>
  /\ UNCHANGED <<batchVars, talkVars, liveVars, moneyVars>>

(* Mutant of HandleText: the turn is completed without a look at its state. *)
HandleTextBlindly ==
  /\ at = "responded" /\ reply # "calls"
  /\ IF reply = "empty"
     THEN turnState' = "executing_tools" /\ at' = "looping"
     ELSE turnState' = "completed" /\ at' = "closing"
  /\ UNCHANGED <<error, aborted, failures, replay>>
  /\ UNCHANGED <<batchVars, talkVars, liveVars, moneyVars>>

(* model.request.completed is logged and the response has no tool call: an
   empty one goes round again, a text ends the turn. *)
HandleText ==
  /\ at = "responded" /\ reply # "calls"
  /\ IF reply = "empty"
     THEN IF CanTransitionTo("executing_tools")
          THEN turnState' = "executing_tools" /\ at' = "looping" /\ UNCHANGED error
          ELSE Throw("INTERNAL_ERROR")
     ELSE IF CanTransitionTo("verifying")
          THEN turnState' = "completed" /\ at' = "closing" /\ UNCHANGED error
          ELSE Throw("INTERNAL_ERROR")
  /\ UNCHANGED <<aborted, failures, replay>>
  /\ UNCHANGED <<batchVars, talkVars, liveVars, moneyVars>>

(* The first tool.call append of the batch lo..hi. *)
HandleCalls ==
  /\ at = "responded" /\ reply = "calls"
  /\ IF CanTransitionTo("executing_tools")
     THEN /\ turnState' = "executing_tools" /\ at' = "issuing" /\ UNCHANGED error
          /\ budget' = [budget EXCEPT !.calls = @ + (hi - lo + 1)]
          /\ issued' = issued \cup {lo} /\ Log("tool.call", lo) /\ pos' = lo + 1
     ELSE Throw("INTERNAL_ERROR") /\ UNCHANGED <<budget, issued, replay, pos>>
  /\ UNCHANGED <<aborted, failures, lo, hi, reply, fatal, charge, sent, spent>>
  /\ UNCHANGED <<talkVars, answered, outcomes, requests, compactions>>

-----------------------------------------------------------------------------
(* The batch of tool calls (session.ts for the events, executeBatch and    *)
(* executeOne in tools/runtime.ts for the calls).                          *)

(* The next tool.call append, or on to executeBatch when all are logged. *)
IssueCall ==
  /\ at = "issuing"
  /\ IF pos <= hi
     THEN /\ issued' = issued \cup {pos} /\ Log("tool.call", pos) /\ pos' = pos + 1
          /\ UNCHANGED at
     ELSE at' = "batch" /\ pos' = lo /\ UNCHANGED <<issued, replay>>
  /\ UNCHANGED <<turnState, error, aborted, failures, lo, hi, reply, fatal>>
  /\ UNCHANGED <<talkVars, answered, outcomes, requests, compactions, moneyVars>>

(* executeBatch's loop goes on to the call pos: its PreToolUse hook. *)
StartCall ==
  /\ at = "batch" /\ pos <= hi /\ ~aborted /\ ~fatal
  /\ at' = "resolving"
  /\ UNCHANGED <<turnState, error, aborted, failures, replay>>
  /\ UNCHANGED <<batchVars, talkVars, liveVars, moneyVars>>

(* The call has its result, good or bad; the failure is counted, and one too
   many ends the batch.  "batch" is also the await of the PostToolUse hook. *)
Result(isError) ==
  /\ at' = "batch" /\ pos' = pos + 1
  /\ IF isError
     THEN \E f \in Fingerprints :
            /\ failures' = [failures EXCEPT ![f] = @ + 1]
            /\ fatal' = IF failures'[f] > FailureThreshold THEN TRUE ELSE fatal
     ELSE UNCHANGED <<failures, fatal>>

(* The hook and tool.resolve are over: refused (unknown tool, bad arguments,
   policy), put to the user, or allowed. *)
Resolve ==
  /\ at = "resolving"
  /\ \/ Result(TRUE)
     \/ at' \in {"asking", "enforcing"} /\ UNCHANGED <<pos, failures, fatal>>
  /\ UNCHANGED <<turnState, error, aborted, replay, lo, hi, reply>>
  /\ UNCHANGED <<talkVars, liveVars, moneyVars>>

(* The user answers the approval.  The prompt is not told of a cancellation. *)
Answer ==
  /\ at = "asking"
  /\ \/ Result(TRUE)
     \/ at' = "enforcing" /\ UNCHANGED <<pos, failures, fatal>>
  /\ UNCHANGED <<turnState, error, aborted, replay, lo, hi, reply>>
  /\ UNCHANGED <<talkVars, liveVars, moneyVars>>

(* Secrets are leased and backend.enforce is over: a lease that failed is a
   failed call, an enforce that failed is thrown out of the batch; otherwise
   execution.execute is called.  A built-in tool looks at the signal before
   its own first await, an MCP tool or Delegate does not. *)
Execute ==
  /\ at = "enforcing"
  /\ \/ Result(TRUE) /\ UNCHANGED <<turnState, error>>
     \/ Throw("SANDBOX_ERROR") /\ UNCHANGED <<pos, failures, fatal>>
     \/ at' \in (IF aborted THEN {"running"} ELSE {"readying", "running"})
          /\ UNCHANGED <<turnState, error, pos, failures, fatal>>
  /\ UNCHANGED <<aborted, replay, lo, hi, reply>>
  /\ UNCHANGED <<talkVars, liveVars, moneyVars>>

(* A built-in's own preparations are over (Shell: the detector's snapshot) and
   it starts what it was asked to run, without another look at the signal. *)
Launch ==
  /\ at = "readying"
  /\ at' = "running"
  /\ UNCHANGED <<turnState, error, aborted, failures, replay>>
  /\ UNCHANGED <<batchVars, talkVars, liveVars, moneyVars>>

(* The tool returns or fails, aborted or not.  A Delegate has by now recorded
   what its child spent (recordDelegation). *)
ToolEnds ==
  /\ at = "running"
  /\ \E isError \in BOOLEAN : Result(isError)
  /\ \E u \in ChildUsage : charge' = Plus(charge, u)
  /\ UNCHANGED <<turnState, error, aborted, replay, lo, hi, reply>>
  /\ UNCHANGED <<talkVars, liveVars, budget, sent, spent>>

(* Mutant of BatchEnds: the results of a cancelled batch stay out of the
   conversation. *)
BatchEndsUnheard ==
  /\ at = "batch" /\ (pos > hi \/ aborted \/ fatal)
  /\ at' = "answering"
  /\ open' = IF aborted THEN open ELSE open \ lo..hi
  /\ answered' = answered \cup {lo} /\ Log("tool.result", lo) /\ pos' = lo + 1
  /\ UNCHANGED <<turnState, error, aborted, failures, lo, hi, reply, fatal, owed>>
  /\ UNCHANGED <<issued, outcomes, requests, compactions, moneyVars>>

(* executeBatch returns: every call of the batch has a result, the calls not
   reached a synthetic one, and appendToolResults closes them all.  The first
   tool.result append is under way. *)
BatchEnds ==
  /\ at = "batch" /\ (pos > hi \/ aborted \/ fatal)
  /\ at' = "answering"
  /\ open' = open \ lo..hi
  /\ answered' = answered \cup {lo} /\ Log("tool.result", lo) /\ pos' = lo + 1
  /\ UNCHANGED <<turnState, error, aborted, failures, lo, hi, reply, fatal, owed>>
  /\ UNCHANGED <<issued, outcomes, requests, compactions, moneyVars>>

(* The next tool.result append; after the last, the step ends. *)
LogResult ==
  /\ at = "answering" /\ pos <= hi
  /\ answered' = answered \cup {pos} /\ Log("tool.result", pos) /\ pos' = pos + 1
  /\ UNCHANGED <<turnState, error, aborted, at, failures, lo, hi, reply, fatal>>
  /\ UNCHANGED <<talkVars, issued, outcomes, requests, compactions, moneyVars>>

EndStep ==
  /\ at = "answering" /\ pos > hi
  /\ IF fatal
     THEN Throw("REPEATED_FAILURE") /\ UNCHANGED <<budget, charge>>
     ELSE IF aborted
     THEN CancelTurn /\ at' = "closing" /\ UNCHANGED <<error, budget, charge>>
     ELSE /\ at' = "looping"
          /\ budget' = [Charged(budget, charge) EXCEPT !.steps = @ + 1]
          /\ charge' = IF charge.requests > 0 \/ charge.calls > 0 THEN NoUsage ELSE charge
          /\ UNCHANGED <<turnState, error>>
  /\ UNCHANGED <<aborted, failures, replay, sent, spent>>
  /\ UNCHANGED <<batchVars, talkVars, liveVars>>

-----------------------------------------------------------------------------
(* The turn's end (runTurn after the loop).                                *)

(* Mutant of CloseOpenToolCalls: only for a cancelled turn. *)
CloseCancelledOnly ==
  /\ at = "closing"
  /\ IF aborted THEN owed' = open /\ open' = {} ELSE UNCHANGED talkVars
  /\ at' = "settling"
  /\ UNCHANGED <<turnState, error, aborted, failures, replay>>
  /\ UNCHANGED <<batchVars, liveVars, moneyVars>>

(* closeOpenToolCalls: the conversation is closed at once, the log call by
   call. *)
CloseOpenToolCalls ==
  /\ at = "closing"
  /\ owed' = open /\ open' = {}
  /\ at' = "settling"
  /\ UNCHANGED <<turnState, error, aborted, failures, replay>>
  /\ UNCHANGED <<batchVars, liveVars, moneyVars>>

LogSynthetic ==
  /\ at = "settling"
  /\ \E c \in owed :
       /\ owed' = owed \ {c}
       /\ answered' = answered \cup {c} /\ Log("tool.synthetic_result", c)
  /\ UNCHANGED <<turnState, error, aborted, at, failures, open>>
  /\ UNCHANGED <<batchVars, issued, outcomes, requests, compactions, moneyVars>>

(* The one place that logs how the turn ended. *)
LogOutcome ==
  /\ at = "settling" /\ owed = {}
  /\ IF turnState = "completed" THEN Log("turn.completed", "none")
     ELSE IF turnState = "cancelled" THEN Log("turn.cancelled", "none")
     ELSE IF turnState = "failed" THEN Log("turn.failed", error)
     ELSE UNCHANGED replay
  /\ at' = "ended"
  /\ UNCHANGED <<turnState, error, aborted, failures>>
  /\ UNCHANGED <<batchVars, talkVars, liveVars, moneyVars>>

EndTurn ==
  /\ at = "ended"
  /\ outcomes' = Append(outcomes, Outcome(turnState, error))
  /\ at' = "idle"
  /\ UNCHANGED <<turnState, error, aborted, failures, replay>>
  /\ UNCHANGED <<batchVars, talkVars, issued, answered, requests, compactions, moneyVars>>

-----------------------------------------------------------------------------
(* The user.                                                               *)

(* Session.cancel, while the turn stands at any await. *)
Cancel ==
  /\ at \notin {"idle", "looping"} /\ ~IsTerminal
  /\ aborted' = TRUE /\ CancelTurn
  /\ UNCHANGED <<error, at, failures, replay>>
  /\ UNCHANGED <<batchVars, talkVars, liveVars, moneyVars>>

(* /compact between turns (compactNow). *)
CompactNow ==
  /\ at = "idle" /\ compactions < MaxCompactions
  /\ Compact
  /\ UNCHANGED <<turnVars, failures, issued, answered, outcomes, requests>>
  /\ UNCHANGED <<batchVars, talkVars, moneyVars>>

-----------------------------------------------------------------------------
(* The session's own steps; everything but the user and the next prompt.   *)
Work ==
  \/ EnterLoop \/ TopOfLoop \/ OverBudget \/ MaybeCompact \/ FreezeCompacted
  \/ SendRequest \/ Responds \/ RequestFailed \/ Pressure \/ Retry
  \/ HandleText \/ HandleCalls \/ IssueCall \/ StartCall \/ Resolve \/ Execute
  \/ Launch \/ ToolEnds \/ BatchEnds \/ LogResult \/ EndStep
  \/ CloseOpenToolCalls \/ LogSynthetic \/ LogOutcome \/ EndTurn

Next == Work \/ RunTurn \/ Answer \/ Cancel \/ CompactNow

Spec == Init /\ [][Next]_vars

(* The event loop runs what is ready, a request and a tool have time limits;
   nobody has to answer a prompt, cancel, or start another turn. *)
FairSpec == Spec /\ WF_vars(Work)

-----------------------------------------------------------------------------
(* Properties.                                                             *)

Places == {"idle", "started", "looping", "overBudget", "prepared", "compacted",
           "frozen", "requesting", "requestFailed", "forced", "pressured",
           "responded", "issuing", "batch", "resolving", "asking", "enforcing",
           "readying", "running", "answering", "closing", "settling", "ended"}

Outcomes == [state : TurnStates, error : ErrorCodes \cup {"none"}]

Replays == [turns : Seq(Outcomes), calls : SUBSET Nat, answered : SUBSET Nat,
            requests : Nat, compactions : Nat]

Budgets == [steps : Nat, requests : Nat, calls : Nat, cost : Nat]

(* Every variable stays in its set; the calls are numbered 1..hi. *)
TypeOK ==
  /\ turnState \in TurnStates
  /\ error \in ErrorCodes \cup {"none"}
  /\ aborted \in BOOLEAN
  /\ at \in Places
  /\ reply \in Replies \cup {"none"}
  /\ lo \in Nat /\ hi \in Nat /\ pos \in Nat /\ lo <= hi + 1
  /\ open \subseteq Nat /\ owed \subseteq Nat
  /\ issued \subseteq Nat /\ answered \subseteq Nat
  /\ outcomes \in Seq(Outcomes)
  /\ requests \in Nat /\ compactions \in Nat
  /\ replay \in Replays
  /\ budget \in Budgets
  /\ charge \in Usage
  /\ sent \in Nat /\ spent \in Nat
  /\ failures \in [Fingerprints -> Nat]
  /\ fatal \in BOOLEAN

Live == [turns |-> outcomes, calls |-> issued, answered |-> answered,
         requests |-> requests, compactions |-> compactions]

(* The replay gate (terminal-state.ts): between turns, what the event log alone
   says of the session is what the live objects say, however each turn ended. *)
ReplayGate == at = "idle" => replay = Live

(* Invariant 1 of the kernel: when a turn is over no tool call is left without a
   result, neither in the conversation nor in the log. *)
NoDanglingCalls == at = "idle" => open = {} /\ replay.calls \subseteq replay.answered

Promise == INSTANCE TurnContract WITH
  Reasons <- ErrorCodes \ {"INTERNAL_ERROR"},
  phase <- CASE at = "idle" -> "idle" [] at = "requesting" -> "asking" [] OTHER -> "working",
  calls <- 1..hi,
  record <- outcomes

(* The loop keeps the contract of TurnContract: in particular a request is never
   sent with a call unanswered (providers refuse such a transcript), and a turn
   is recorded once, with a reason exactly when it failed, and an illegal move of
   the loop is never the reason. *)
KeepsPromise == Promise!Spec

(* A call gets one result: a synthetic one is never logged for a call that has
   its own, nor the other way round. *)
OneResultPerCall ==
  /\ owed \cap answered = {}
  /\ open \cap answered = {}
  /\ at = "answering" => pos..hi \cap answered = {}

(* A turn sends no more requests, ends no more steps and issues no more calls
   (but for the last response's) than its budget says, whatever the order of
   overflows, empty responses, batches and delegated charges. *)
BudgetHolds ==
  /\ sent <= MaxModelRequests
  /\ budget.steps <= MaxSteps
  /\ at = "requesting" => budget.calls < MaxToolCalls /\ budget.steps < MaxSteps

(* No path through the loop makes a move the state machine forbids, unless the
   user cancelled (then the throw changes nothing): the compact-and-retry paths
   used to. *)
NoInternalError == error # "INTERNAL_ERROR"

(* A turn the user cancelled is recorded as cancelled, and with no error,
   whatever was under way: never as failed by what it was doing, nor completed. *)
CancelWins ==
  aborted => /\ turnState = "cancelled" /\ error = "none"
             /\ at = "idle" => outcomes[Len(outcomes)] = Outcome("cancelled", "none")

(* A turn ends, or stands at a question to the user. *)
TurnEnds == at # "idle" ~> at \in {"idle", "asking"}

-----------------------------------------------------------------------------
(* Why the safety properties hold: together with TypeOK the five parts below *)
(* are inductive.                                                            *)

BatchPlaces == {"batch", "resolving", "asking", "enforcing", "readying", "running"}

(* Where the turn stands says what state it is in, unless it was cancelled; it
   has an error exactly when it failed. *)
Standing ==
  /\ (turnState = "failed") <=> (error # "none")
  /\ aborted => turnState = "cancelled"
  /\ at = "idle" => turnState \in TerminalStates \cup {"none"}
  /\ at \in {"closing", "settling", "ended"} => turnState \in TerminalStates
  /\ at = "started" => turnState \in {"queued", "cancelled"}
  /\ at \in {"looping", "overBudget"} =>
       turnState \in {"queued", "compacting", "executing_tools", "cancelled"}
  /\ at \in {"prepared", "frozen"} => turnState \in {"preparing", "cancelled"}
  /\ at \in {"compacted", "forced", "pressured"} => turnState \in {"compacting", "cancelled"}
  /\ at \in {"requesting", "responded", "requestFailed"} => turnState \in {"sampling", "cancelled"}
  /\ at \in {"issuing", "answering"} \cup BatchPlaces =>
       turnState \in {"executing_tools", "cancelled"}

(* The open calls are the batch being handled, and the calls owed a result are
   those the end of a turn found open. *)
Asked ==
  /\ lo >= 1
  /\ open \subseteq 1..hi /\ owed \subseteq 1..hi
  /\ issued \subseteq 1..hi /\ answered \subseteq 1..hi
  /\ at # "settling" => owed = {}
  /\ at \notin {"responded", "issuing", "closing"} \cup BatchPlaces => open = {}
  /\ at = "responded" => open = (IF reply = "calls" THEN lo..hi ELSE {})
  /\ at \in {"issuing"} \cup BatchPlaces => open = lo..hi
  /\ at = "responded" /\ reply = "calls" => lo <= hi
  /\ at \in {"issuing", "answering"} \cup BatchPlaces => lo <= hi /\ lo <= pos

(* Every issued call is answered, or open, or its result is on its way to the
   log; no answered call is any of these. *)
Coming == open \cup owed \cup (IF at = "answering" THEN pos..hi ELSE {})

Answers == issued \subseteq answered \cup Coming /\ Coming \cap answered = {}

(* Live and replayed agree at every point, but for the request under way and
   the outcome being recorded. *)
Agreement ==
  /\ replay.calls = issued /\ replay.answered = answered
  /\ replay.compactions = compactions
  /\ replay.requests = requests + (IF at = "requesting" THEN 1 ELSE 0)
  /\ replay.turns = IF at = "ended" THEN Append(outcomes, Outcome(turnState, error)) ELSE outcomes
  /\ at = "idle" /\ turnState # "none" =>
       outcomes # << >> /\ outcomes[Len(outcomes)] = Outcome(turnState, error)

(* From the check at the top of the loop to the request nothing is spent, and to
   the end of the step no step is. *)
Spending ==
  /\ sent <= MaxModelRequests /\ budget.steps <= MaxSteps
  /\ sent <= budget.requests + (IF at = "requesting" THEN 1 ELSE 0)
  /\ at \in {"prepared", "compacted", "frozen", "requesting"} =>
       budget.requests < MaxModelRequests /\ budget.calls < MaxToolCalls
  /\ at \in {"prepared", "compacted", "frozen", "requesting", "responded", "issuing",
             "answering"} \cup BatchPlaces => budget.steps < MaxSteps

(* What the loop preserves at every await, and what carries the properties above
   through all of them: where the turn stands, which calls are asked, how each is
   answered, how log and live state agree, and what has been spent. *)
Inductive == Standing /\ NoInternalError /\ Asked /\ Answers /\ Agreement /\ Spending

-----------------------------------------------------------------------------
(* What the documentation says and the code does not do.                   *)

(* turn.ts: starting a tool after cancelled is impossible. *)
NoToolAfterCancelled ==
  [][at # "running" /\ at' = "running" => ~aborted]_vars

(* step.ts, ADR-0030: max_cost_usd is what bounds what a turn can spend. *)
CostCeilingStops == [][at = "frozen" /\ at' = "requesting" => spent < MaxCost]_vars

(* session.ts: what a child spent is charged to the turn that delegated. *)
ChargeStaysInTurn == at = "idle" => charge = NoUsage
=============================================================================
