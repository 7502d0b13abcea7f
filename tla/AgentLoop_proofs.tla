--------------------------- MODULE AgentLoop_proofs ---------------------------
(***************************************************************************)
(* Theorems about AgentLoop, for every budget, batch size, child and number *)
(* of turns.  The inductive invariant is TypeOK /\ Inductive; its five parts *)
(* are carried over a step one by one, each lemma naming the parts it needs. *)
(***************************************************************************)
EXTENDS AgentLoop, TLAPS

-----------------------------------------------------------------------------
(* Helpers: the fold of the log, the budget, a call's result.              *)

(* What each event the loop logs does to the fold of the log. *)
LEMMA FoldOfCall ==
  ASSUME NEW r \in Replays, NEW d
  PROVE  /\ Replayed(r, "model.request.started", d) = [r EXCEPT !.requests = @ + 1]
         /\ Replayed(r, "tool.call", d) = [r EXCEPT !.calls = @ \cup {d}]
         /\ Replayed(r, "tool.result", d) = [r EXCEPT !.answered = @ \cup {d}]
         /\ Replayed(r, "tool.synthetic_result", d) = [r EXCEPT !.answered = @ \cup {d}]
         /\ Replayed(r, "compaction.boundary", d) = [r EXCEPT !.compactions = @ + 1]
  BY DEF Replayed

(* What the three events that end a turn do to the fold. *)
LEMMA FoldOfOutcome ==
  ASSUME NEW r \in Replays, NEW d
  PROVE  /\ Replayed(r, "turn.completed", d)
              = [r EXCEPT !.turns = Append(@, Outcome("completed", "none"))]
         /\ Replayed(r, "turn.cancelled", d)
              = [r EXCEPT !.turns = Append(@, Outcome("cancelled", "none"))]
         /\ Replayed(r, "turn.failed", d) = [r EXCEPT !.turns = Append(@, Outcome("failed", d))]
  BY DEF Replayed

(* The events the replay gate does not read leave the fold alone. *)
LEMMA FoldOfOther ==
  ASSUME NEW r \in Replays, NEW d
  PROVE  /\ Replayed(r, "budget.exceeded", d) = r
         /\ Replayed(r, "context.pressure", d) = r
  BY DEF Replayed

(* The fold of any event the loop logs is a fold again. *)
LEMMA FoldTyped ==
  ASSUME NEW r \in Replays, NEW d \in Nat, NEW e \in ErrorCodes \cup {"none"}, NEW x
  PROVE  /\ Replayed(r, "model.request.started", x) \in Replays
         /\ Replayed(r, "tool.call", d) \in Replays
         /\ Replayed(r, "tool.result", d) \in Replays
         /\ Replayed(r, "tool.synthetic_result", d) \in Replays
         /\ Replayed(r, "compaction.boundary", x) \in Replays
         /\ Replayed(r, "turn.completed", x) \in Replays
         /\ Replayed(r, "turn.cancelled", x) \in Replays
         /\ Replayed(r, "turn.failed", e) \in Replays
         /\ Replayed(r, "budget.exceeded", x) \in Replays
         /\ Replayed(r, "context.pressure", x) \in Replays
<1>1. \A n \in Nat : /\ [r EXCEPT !.requests = @ + 1] \in Replays
                     /\ [r EXCEPT !.compactions = @ + 1] \in Replays
                     /\ [r EXCEPT !.calls = @ \cup {n}] \in Replays
                     /\ [r EXCEPT !.answered = @ \cup {n}] \in Replays
  BY DEF Replays
<1>2. ASSUME NEW s \in {"completed", "cancelled", "failed"}, NEW c \in ErrorCodes \cup {"none"}
      PROVE  [r EXCEPT !.turns = Append(@, Outcome(s, c))] \in Replays
  <2>1. Outcome(s, c) \in Outcomes BY DEF Outcome, Outcomes, TurnStates, TerminalStates
  <2>2. Append(r.turns, Outcome(s, c)) \in Seq(Outcomes) BY <2>1 DEF Replays
  <2>3. QED BY <2>2 DEF Replays
<1>3. /\ Replayed(r, "model.request.started", x) \in Replays
      /\ Replayed(r, "compaction.boundary", x) \in Replays
      /\ Replayed(r, "tool.call", d) \in Replays
      /\ Replayed(r, "tool.result", d) \in Replays
      /\ Replayed(r, "tool.synthetic_result", d) \in Replays
  BY <1>1, FoldOfCall
<1>4. /\ Replayed(r, "turn.completed", x) \in Replays
      /\ Replayed(r, "turn.cancelled", x) \in Replays
      /\ Replayed(r, "turn.failed", e) \in Replays
  <2>1. [r EXCEPT !.turns = Append(@, Outcome("completed", "none"))] \in Replays BY <1>2
  <2>2. [r EXCEPT !.turns = Append(@, Outcome("cancelled", "none"))] \in Replays BY <1>2
  <2>3. [r EXCEPT !.turns = Append(@, Outcome("failed", e))] \in Replays BY <1>2
  <2>4. QED BY <2>1, <2>2, <2>3, FoldOfOutcome
<1>5. QED BY <1>3, <1>4, FoldOfOther

(* Charging the children's usage leaves a budget, and its steps as they were. *)
LEMMA ChargedTyped ==
  ASSUME NEW b \in Budgets, NEW u \in Usage
  PROVE  Charged(b, u) \in Budgets /\ [Charged(b, u) EXCEPT !.steps = @ + 1] \in Budgets
<1>1. b.requests + u.requests \in Nat /\ b.calls + u.calls \in Nat /\ b.cost + u.cost \in Nat
  BY DEF Budgets, Usage
<1>2. Charged(b, u) \in Budgets BY <1>1 DEF Charged, Budgets
<1>3. QED BY <1>2 DEF Budgets

(* The usage of several children is a usage. *)
LEMMA PlusTyped == ASSUME NEW u \in Usage, NEW v \in Usage PROVE Plus(u, v) \in Usage
  BY DEF Plus, Usage

(* A tool call's result keeps the failure counts and the batch typed. *)
LEMMA ResultTyped ==
  ASSUME TypeOK, Result(TRUE) \/ Result(FALSE)
  PROVE  /\ at' \in Places /\ pos' \in Nat
         /\ failures' \in [Fingerprints -> Nat] /\ fatal' \in BOOLEAN
<1>1. CASE Result(TRUE)
  <2>1. PICK f \in Fingerprints :
          /\ failures' = [failures EXCEPT ![f] = @ + 1]
          /\ fatal' = IF failures'[f] > FailureThreshold THEN TRUE ELSE fatal
    BY <1>1 DEF Result
  <2>2. failures' \in [Fingerprints -> Nat] BY <2>1 DEF TypeOK
  <2>3. fatal' \in BOOLEAN BY <2>1 DEF TypeOK
  <2>4. QED BY <1>1, <2>2, <2>3 DEF TypeOK, Result, Places
<1>2. CASE Result(FALSE) BY <1>2 DEF TypeOK, Result, Places
<1>3. QED BY <1>1, <1>2

(* Counting a step leaves a budget. *)
LEMMA StepsTyped ==
  ASSUME NEW b \in Budgets, NEW n \in Nat
  PROVE  [b EXCEPT !.calls = @ + n] \in Budgets /\ [b EXCEPT !.requests = @ + n] \in Budgets
  BY DEF Budgets

-----------------------------------------------------------------------------
(* Every variable stays in its set: TypeOK is an invariant. *)
THEOREM Typing == Spec => []TypeOK
<1>1. ASSUME Init PROVE TypeOK
  <2>1. replay \in Replays BY <1>1 DEF Init, EmptyReplay, Replays
  <2>2. budget \in Budgets /\ charge \in Usage
    BY <1>1 DEF Init, FreshBudget, Budgets, NoUsage, Usage
  <2>3. turnState \in TurnStates /\ at \in Places BY <1>1 DEF Init, TurnStates, Places
  <2>4. /\ failures \in [Fingerprints -> Nat] /\ outcomes \in Seq(Outcomes)
    BY <1>1 DEF Init
  <2>7. /\ error \in ErrorCodes \cup {"none"} /\ aborted \in BOOLEAN /\ fatal \in BOOLEAN
        /\ reply \in Replies \cup {"none"}
    BY <1>1 DEF Init
  <2>5. /\ lo \in Nat /\ hi \in Nat /\ pos \in Nat /\ lo <= hi + 1
        /\ open \subseteq Nat /\ owed \subseteq Nat
        /\ issued \subseteq Nat /\ answered \subseteq Nat
        /\ requests \in Nat /\ compactions \in Nat /\ sent \in Nat /\ spent \in Nat
    BY <1>1 DEF Init
  <2>6. QED BY <2>1, <2>2, <2>3, <2>4, <2>5, <2>7 DEF TypeOK
<1>2. ASSUME TypeOK, [Next]_vars PROVE TypeOK'
  <2> USE TypeOK DEF TypeOK, batchVars, talkVars, liveVars, moneyVars
  <2>s. /\ {"queued", "preparing", "sampling", "executing_tools", "compacting", "verifying",
            "completed", "failed", "cancelled"} \subseteq TurnStates
        /\ ErrorCodes \subseteq {"LOOP_BUDGET_EXCEEDED", "REPEATED_FAILURE", "PROVIDER_ERROR",
               "SANDBOX_ERROR", "INTERNAL_ERROR"}
        /\ {"LOOP_BUDGET_EXCEEDED", "REPEATED_FAILURE", "PROVIDER_ERROR",
               "SANDBOX_ERROR", "INTERNAL_ERROR"} \subseteq ErrorCodes
    BY DEF TurnStates, TerminalStates, ErrorCodes
  <2>t. \A code \in ErrorCodes : Throw(code) => /\ turnState' \in TurnStates
                                 /\ error' \in ErrorCodes \cup {"none"} /\ at' \in Places
    BY <2>s DEF Throw, Fail, Places
  <2>c. CancelTurn => turnState' \in TurnStates BY <2>s DEF CancelTurn
  <2>1. CASE RunTurn BY <2>1, <2>s DEF RunTurn, FreshBudget, Places, Budgets
  <2>2. CASE EnterLoop BY <2>2 DEF EnterLoop, Places
  <2>3. CASE TopOfLoop BY <2>3, <2>s, <2>t, <2>c, FoldTyped DEF TopOfLoop, Log, Places
  <2>4. CASE OverBudget BY <2>4, <2>s, <2>t DEF OverBudget
  <2>5. CASE MaybeCompact BY <2>5, <2>s, <2>t, FoldTyped DEF MaybeCompact, Compact, Freeze, Log,
    Places
  <2>6. CASE FreezeCompacted BY <2>6, <2>s, <2>t DEF FreezeCompacted, Freeze, Places
  <2>7. CASE SendRequest BY <2>7, <2>s, <2>t, FoldTyped DEF SendRequest, Log, Places
  <2>8. CASE Responds
    <3>1. budget' \in Budgets BY <2>8, StepsTyped DEF Responds
    <3>2. CASE aborted BY <2>8, <3>1, <3>2, <2>c DEF Responds, Places
    <3>3. CASE ~aborted
      <4>1. PICK r \in Replies, n \in 1..MaxBatch, cost \in ResponseCosts : Hear(r, n, cost)
        BY <2>8, <3>3 DEF Responds
      <4>2. n \in Nat /\ n >= 1 /\ cost \in Nat BY LimitsAssumption
      <4>3. (hi + 1)..(hi + n) \subseteq Nat BY <4>2
      <4>4. /\ lo' \in Nat /\ hi' \in Nat /\ lo' <= hi' + 1
        BY <4>1, <4>2 DEF Hear
      <4>5. open' \subseteq Nat BY <4>1, <4>3 DEF Hear
      <4>6. spent' \in Nat BY <4>1, <4>2 DEF Hear
      <4>7. at' \in Places /\ reply' \in Replies \cup {"none"} BY <4>1 DEF Hear, Places
      <4>8. turnState' = turnState /\ requests' \in Nat BY <2>8, <3>3 DEF Responds
      <4>9. UNCHANGED <<error, aborted, failures, replay, pos, fatal, owed,
                        issued, answered, outcomes, compactions, charge, sent>>
        BY <2>8 DEF Responds
      <4>10. QED BY <3>1, <4>4, <4>5, <4>6, <4>7, <4>8, <4>9
    <3>4. QED BY <3>2, <3>3
  <2>9. CASE RequestFailed BY <2>9, <2>s, <2>t, FoldTyped DEF RequestFailed, Compact, Log, Places
  <2>10. CASE Pressure BY <2>10, FoldTyped DEF Pressure, Log, Places
  <2>11. CASE Retry BY <2>11 DEF Retry, Places
  <2>12. CASE HandleText BY <2>12, <2>s, <2>t DEF HandleText, Places
  <2>13. CASE HandleCalls
    <3>1. hi - lo + 1 \in Nat OBVIOUS
    <3>2. [budget EXCEPT !.calls = @ + (hi - lo + 1)] \in Budgets BY <3>1, StepsTyped
    <3>3. CASE CanTransitionTo("executing_tools")
      <4>1. replay' \in Replays BY <2>13, <3>3, FoldTyped DEF HandleCalls, Log
      <4>2. issued \cup {lo} \subseteq Nat /\ lo + 1 \in Nat OBVIOUS
      <4>3. QED BY <2>13, <3>2, <3>3, <4>1, <4>2, <2>s DEF HandleCalls, Places
    <3>4. CASE ~CanTransitionTo("executing_tools")
      BY <2>13, <3>4, <2>t, <2>s DEF HandleCalls
    <3>5. QED BY <3>3, <3>4
  <2>14. CASE IssueCall
    <3>1. CASE pos <= hi
      <4>1. replay' \in Replays BY <2>14, <3>1, FoldTyped DEF IssueCall, Log
      <4>5. issued \cup {pos} \subseteq Nat /\ pos + 1 \in Nat OBVIOUS
      <4>2. issued' \subseteq Nat /\ pos' \in Nat BY <2>14, <3>1, <4>5 DEF IssueCall
      <4>3. UNCHANGED <<turnState, error, aborted, at, failures, lo, hi, reply, fatal>>
        BY <2>14, <3>1 DEF IssueCall
      <4>4. QED BY <2>14, <4>1, <4>2, <4>3 DEF IssueCall
    <3>2. CASE ~(pos <= hi) BY <2>14, <3>2 DEF IssueCall, Places
    <3>3. QED BY <3>1, <3>2
  <2>15. CASE StartCall BY <2>15 DEF StartCall, Places
  <2>res. Result(TRUE) \/ Result(FALSE) => /\ at' \in Places /\ pos' \in Nat
                             /\ failures' \in [Fingerprints -> Nat] /\ fatal' \in BOOLEAN
    BY ResultTyped
  <2>16. CASE Resolve BY <2>16, <2>res DEF Resolve, Places
  <2>17. CASE Answer BY <2>17, <2>res DEF Answer, Places
  <2>18. CASE Execute BY <2>18, <2>res, <2>s, <2>t DEF Execute, Places
  <2>19. CASE Launch BY <2>19 DEF Launch, Places
  <2>20. CASE ToolEnds BY <2>20, <2>res, PlusTyped, LimitsAssumption DEF ToolEnds
  <2>21. CASE BatchEnds BY <2>21, FoldTyped, SMTT(30) DEF BatchEnds, Log, Places
  <2>22. CASE LogResult
    <3>1. replay' \in Replays BY <2>22, FoldTyped DEF LogResult, Log
    <3>2. answered \cup {pos} \subseteq Nat /\ pos + 1 \in Nat OBVIOUS
    <3>3. QED BY <2>22, <3>1, <3>2 DEF LogResult
  <2>23. CASE EndStep BY <2>23, <2>s, <2>t, <2>c, ChargedTyped DEF EndStep, NoUsage, Usage, Places
  <2>24. CASE CloseOpenToolCalls BY <2>24 DEF CloseOpenToolCalls, Places
  <2>25. CASE LogSynthetic BY <2>25, FoldTyped DEF LogSynthetic, Log
  <2>26. CASE LogOutcome BY <2>26, <2>s, FoldTyped DEF LogOutcome, Outcome, Outcomes, Places, Log
  <2>27. CASE EndTurn BY <2>27 DEF EndTurn, Outcome, Outcomes, Places
  <2>28. CASE Cancel BY <2>28, <2>c DEF Cancel
  <2>29. CASE CompactNow BY <2>29, FoldTyped, SMTT(60) DEF CompactNow, Compact, turnVars, Log
  <2>30. CASE UNCHANGED vars BY <2>30 DEF vars
  <2>31. QED
    BY <1>2, <2>1, <2>2, <2>3, <2>4, <2>5, <2>6, <2>7, <2>8, <2>9, <2>10, <2>11, <2>12, <2>13,
       <2>14, <2>15, <2>16, <2>17, <2>18, <2>19, <2>20, <2>21, <2>22, <2>23, <2>24, <2>25,
       <2>26, <2>27, <2>28, <2>29, <2>30 DEF Next, Work
<1>3. QED BY <1>1, <1>2, PTL DEF Spec

-----------------------------------------------------------------------------
(* The transition table, read backwards. *)
LEMMA TransitionTable ==
  ASSUME TypeOK
  PROVE  /\ CanTransitionTo("preparing") <=>
              turnState \in {"queued", "executing_tools", "compacting", "verifying"}
         /\ CanTransitionTo("sampling") <=> turnState = "preparing"
         /\ CanTransitionTo("compacting") <=> turnState \in {"preparing", "sampling"}
         /\ CanTransitionTo("executing_tools") <=> turnState = "sampling"
         /\ CanTransitionTo("verifying") <=> turnState \in {"sampling", "executing_tools"}
  BY DEF CanTransitionTo, Transitions, TypeOK, TurnStates, TerminalStates

(* Where the turn stands still says its state after any step, and no step fails a
   turn that was not cancelled with an internal error. *)
LEMMA StandingStep == ASSUME TypeOK, Standing, NoInternalError,
  [Next]_vars PROVE Standing' /\ NoInternalError'
  <1> USE DEF Standing, NoInternalError, batchVars, talkVars, liveVars, moneyVars, TerminalStates,
  BatchPlaces
  <1>1. CASE RunTurn BY <1>1 DEF RunTurn
  <1>2. CASE EnterLoop BY <1>2 DEF EnterLoop
  <1>3. CASE TopOfLoop BY <1>3, TransitionTable DEF TopOfLoop, Throw, Fail, IsTerminal, CancelTurn
  <1>4. CASE OverBudget BY <1>4, TransitionTable DEF OverBudget, Throw, Fail, IsTerminal
  <1>5. CASE MaybeCompact BY <1>5, TransitionTable DEF MaybeCompact, Freeze, Throw, Fail, IsTerminal
  <1>6. CASE FreezeCompacted BY <1>6, TransitionTable DEF FreezeCompacted, Freeze, Throw, Fail,
  IsTerminal
  <1>7. CASE SendRequest BY <1>7, TransitionTable DEF SendRequest, Throw, Fail, IsTerminal
  <1>8. CASE Responds BY <1>8 DEF Responds, Hear, CancelTurn, IsTerminal
  <1>9. CASE RequestFailed BY <1>9, TransitionTable DEF RequestFailed, Throw, Fail, IsTerminal
  <1>10. CASE Pressure BY <1>10 DEF Pressure
  <1>11. CASE Retry BY <1>11 DEF Retry
  <1>12. CASE HandleText BY <1>12, TransitionTable DEF HandleText, Throw, Fail, IsTerminal
  <1>13. CASE HandleCalls BY <1>13, TransitionTable DEF HandleCalls, Throw, Fail, IsTerminal
  <1>14. CASE IssueCall BY <1>14 DEF IssueCall
  <1>15. CASE StartCall BY <1>15 DEF StartCall
  <1>16. CASE Resolve BY <1>16 DEF Resolve, Result
  <1>17. CASE Answer BY <1>17 DEF Answer, Result
  <1>18. CASE Execute BY <1>18 DEF Execute, Result, Throw, Fail, IsTerminal
  <1>19. CASE Launch BY <1>19 DEF Launch
  <1>20. CASE ToolEnds BY <1>20 DEF ToolEnds, Result
  <1>21. CASE BatchEnds BY <1>21 DEF BatchEnds
  <1>22. CASE LogResult BY <1>22 DEF LogResult
  <1>23. CASE EndStep BY <1>23 DEF EndStep, Throw, Fail, IsTerminal, CancelTurn
  <1>24. CASE CloseOpenToolCalls BY <1>24 DEF CloseOpenToolCalls
  <1>25. CASE LogSynthetic BY <1>25 DEF LogSynthetic
  <1>26. CASE LogOutcome BY <1>26 DEF LogOutcome
  <1>27. CASE EndTurn BY <1>27 DEF EndTurn
  <1>28. CASE Cancel BY <1>28 DEF Cancel, CancelTurn, IsTerminal
  <1>29. CASE CompactNow BY <1>29 DEF CompactNow, turnVars
  <1>30. CASE UNCHANGED vars BY <1>30 DEF vars
  <1>31. QED
    BY <1>1, <1>2, <1>3, <1>4, <1>5, <1>6, <1>7, <1>8, <1>9, <1>10, <1>11, <1>12, <1>13,
       <1>14, <1>15, <1>16, <1>17, <1>18, <1>19, <1>20, <1>21, <1>22, <1>23, <1>24, <1>25,
       <1>26, <1>27, <1>28, <1>29, <1>30 DEF Next, Work

(* The open calls stay the batch being handled. *)
LEMMA AskedStep ==
  ASSUME TypeOK, Asked, [Next]_vars
  PROVE  Asked'
<1> USE DEF Asked, BatchPlaces, batchVars, talkVars, liveVars, moneyVars
<1>t. lo \in Nat /\ hi \in Nat /\ pos \in Nat BY DEF TypeOK
<1>r. Result(TRUE) => at' = "batch" /\ pos' = pos + 1 BY DEF Result
<1>1. CASE RunTurn BY <1>1, <1>t DEF RunTurn
<1>2. CASE EnterLoop BY <1>2, <1>t DEF EnterLoop
<1>3. CASE TopOfLoop BY <1>3, <1>t DEF TopOfLoop, Throw
<1>4. CASE OverBudget BY <1>4, <1>t DEF OverBudget, Throw
<1>5. CASE MaybeCompact BY <1>5, <1>t DEF MaybeCompact, Throw, Freeze
<1>6. CASE FreezeCompacted BY <1>6, <1>t DEF FreezeCompacted, Throw, Freeze
<1>7. CASE SendRequest BY <1>7, <1>t DEF SendRequest, Throw
<1>8. CASE Responds
  <2>1. CASE aborted BY <1>8, <2>1, <1>t DEF Responds
  <2>2. CASE ~aborted
    <3>1. PICK r \in Replies, n \in 1..MaxBatch, cost \in ResponseCosts : Hear(r, n, cost)
      BY <1>8, <2>2 DEF Responds
    <3>2. n \in Nat /\ n >= 1 BY LimitsAssumption
    <3>3. open = {} /\ owed = {} /\ UNCHANGED <<pos, owed, issued, answered>> BY <1>8 DEF Responds
    <3>4. at' \in {"requestFailed",
      "responded"} /\ reply' = r /\ (at' = "requestFailed" => r # "calls") BY <3>1 DEF Hear
    <3>5. CASE r = "calls"
      <4>1. lo' = hi + 1 /\ hi' = hi + n /\ open' = lo'..hi' /\ at' = "responded" BY <3>1, <3>3,
      <3>5 DEF Hear
      <4>2. 1..hi \subseteq 1..hi' /\ open' \subseteq 1..hi' /\ lo' <= hi' /\ lo' >= 1 BY <4>1,
      <3>2, <1>t
      <4>3. QED BY <3>3, <3>4, <3>5, <4>1, <4>2
    <3>6. CASE r # "calls" BY <3>1, <3>3, <3>4, <3>6 DEF Hear
    <3>7. QED BY <3>5, <3>6
  <2>3. QED BY <2>1, <2>2
<1>9. CASE RequestFailed BY <1>9, <1>t DEF RequestFailed, Throw
<1>10. CASE Pressure BY <1>10, <1>t DEF Pressure
<1>11. CASE Retry BY <1>11, <1>t DEF Retry
<1>12. CASE HandleText BY <1>12, <1>t DEF HandleText, Throw
<1>13. CASE HandleCalls BY <1>13, <1>t DEF HandleCalls, Throw
<1>14. CASE IssueCall
  <2>1. CASE pos <= hi
    <3>1. issued' = issued \cup {pos} /\ pos' = pos + 1 /\ at' = "issuing" /\ at = "issuing"
      BY <1>14, <2>1 DEF IssueCall
    <3>2. pos \in lo..hi /\ pos \in 1..hi BY <2>1, <1>t, <1>14 DEF IssueCall
    <3>3. UNCHANGED <<lo, hi, reply, open, owed, answered>> BY <1>14 DEF IssueCall
    <3>4. QED BY <3>1, <3>2, <3>3, <1>t
  <2>2. CASE ~(pos <= hi)
    <3>1. at = "issuing" /\ at' = "batch" /\ pos' = lo /\ UNCHANGED <<lo, hi, open, owed, issued,
      answered>>
      BY <1>14, <2>2 DEF IssueCall
    <3>2. QED BY <3>1, <1>t
  <2>3. QED BY <2>1, <2>2
<1>15. CASE StartCall BY <1>15, <1>t DEF StartCall
<1>16. CASE Resolve
  <2>1. at' \in BatchPlaces /\ pos' \in {pos, pos + 1} BY <1>16, <1>r DEF Resolve
  <2>2. at \in BatchPlaces /\ UNCHANGED <<lo, hi, open, owed, issued,
    answered>> BY <1>16 DEF Resolve
  <2>3. lo <= pos' BY <2>1, <2>2, <1>t
  <2>4. QED BY <2>1, <2>2, <2>3
<1>17. CASE Answer
  <2>1. at' \in BatchPlaces /\ pos' \in {pos, pos + 1} BY <1>17, <1>r DEF Answer
  <2>2. at \in BatchPlaces /\ UNCHANGED <<lo, hi, open, owed, issued, answered>> BY <1>17 DEF Answer
  <2>3. lo <= pos' BY <2>1, <2>2, <1>t
  <2>4. QED BY <2>1, <2>2, <2>3
<1>18. CASE Execute
  <2>1. at' \in {"closing"} \cup BatchPlaces /\ pos' \in {pos, pos + 1} BY <1>18,
    <1>r DEF Execute, Throw
  <2>2. at \in BatchPlaces /\ UNCHANGED <<lo, hi, open, owed, issued,
    answered>> BY <1>18 DEF Execute
  <2>3. lo <= pos' BY <2>1, <2>2, <1>t
  <2>4. QED BY <2>1, <2>2, <2>3
<1>19. CASE Launch BY <1>19, <1>t DEF Launch
<1>20. CASE ToolEnds BY <1>20, <1>t DEF ToolEnds, Result
<1>21. CASE BatchEnds BY <1>21, <1>t DEF BatchEnds
<1>22. CASE LogResult BY <1>22, <1>t DEF LogResult
<1>23. CASE EndStep BY <1>23, <1>t DEF EndStep, Throw
<1>24. CASE CloseOpenToolCalls BY <1>24, <1>t DEF CloseOpenToolCalls
<1>25. CASE LogSynthetic BY <1>25, <1>t DEF LogSynthetic
<1>26. CASE LogOutcome BY <1>26, <1>t DEF LogOutcome
<1>27. CASE EndTurn BY <1>27, <1>t DEF EndTurn
<1>28. CASE Cancel BY <1>28, <1>t DEF Cancel
<1>29. CASE CompactNow BY <1>29, <1>t DEF CompactNow, turnVars
<1>30. CASE UNCHANGED vars BY <1>30 DEF vars
<1>31. QED
  BY <1>1, <1>2, <1>3, <1>4, <1>5, <1>6, <1>7, <1>8, <1>9, <1>10, <1>11, <1>12, <1>13, <1>14,
     <1>15, <1>16, <1>17, <1>18, <1>19, <1>20, <1>21, <1>22, <1>23, <1>24, <1>25, <1>26, <1>27,
     <1>28, <1>29, <1>30 DEF Next, Work

(* No issued call is lost on its way to an answer, none answered twice. *)
LEMMA AnswersStep ==
  ASSUME TypeOK, Asked, Answers, [Next]_vars
  PROVE  Answers'
<1> USE DEF Answers, Asked, Coming, BatchPlaces, batchVars, talkVars, liveVars, moneyVars
<1>t. lo \in Nat /\ hi \in Nat /\ pos \in Nat BY DEF TypeOK
<1>r. Result(TRUE) => at' = "batch" /\ pos' = pos + 1 BY DEF Result
<1>1. CASE RunTurn BY <1>1, <1>t DEF RunTurn
<1>2. CASE EnterLoop BY <1>2, <1>t DEF EnterLoop
<1>3. CASE TopOfLoop BY <1>3, <1>t DEF TopOfLoop, Throw
<1>4. CASE OverBudget BY <1>4, <1>t DEF OverBudget, Throw
<1>5. CASE MaybeCompact BY <1>5, <1>t DEF MaybeCompact, Throw, Freeze
<1>6. CASE FreezeCompacted BY <1>6, <1>t DEF FreezeCompacted, Throw, Freeze
<1>7. CASE SendRequest BY <1>7, <1>t DEF SendRequest, Throw
<1>8. CASE Responds BY <1>8, <1>t DEF Responds, Hear
<1>9. CASE RequestFailed BY <1>9, <1>t DEF RequestFailed, Throw
<1>10. CASE Pressure BY <1>10, <1>t DEF Pressure
<1>11. CASE Retry BY <1>11, <1>t DEF Retry
<1>12. CASE HandleText BY <1>12, <1>t DEF HandleText, Throw
<1>13. CASE HandleCalls BY <1>13, <1>t DEF HandleCalls, Throw
<1>14. CASE IssueCall
  <2>1. CASE pos <= hi
    <3>1. issued' = issued \cup {pos} /\ pos' = pos + 1 /\ at' = "issuing" /\ at = "issuing"
      BY <1>14, <2>1 DEF IssueCall
    <3>2. pos \in lo..hi /\ pos \in 1..hi BY <2>1, <1>t, <1>14 DEF IssueCall
    <3>3. UNCHANGED <<lo, hi, reply, open, owed, answered>> BY <1>14 DEF IssueCall
    <3>4. QED BY <3>1, <3>2, <3>3, <1>t
  <2>2. CASE ~(pos <= hi)
    <3>1. at = "issuing" /\ at' = "batch" /\ pos' = lo /\ UNCHANGED <<lo, hi, open, owed, issued,
      answered>>
      BY <1>14, <2>2 DEF IssueCall
    <3>2. QED BY <3>1, <1>t
  <2>3. QED BY <2>1, <2>2
<1>15. CASE StartCall BY <1>15, <1>t DEF StartCall
<1>16. CASE Resolve BY <1>16, <1>t DEF Resolve, Result
<1>17. CASE Answer BY <1>17, <1>t DEF Answer, Result
<1>18. CASE Execute BY <1>18, <1>t DEF Execute, Throw, Result
<1>19. CASE Launch BY <1>19, <1>t DEF Launch
<1>20. CASE ToolEnds BY <1>20, <1>t DEF ToolEnds, Result
<1>21. CASE BatchEnds BY <1>21, <1>t DEF BatchEnds
<1>22. CASE LogResult BY <1>22, <1>t DEF LogResult
<1>23. CASE EndStep BY <1>23, <1>t DEF EndStep, Throw
<1>24. CASE CloseOpenToolCalls BY <1>24, <1>t DEF CloseOpenToolCalls
<1>25. CASE LogSynthetic BY <1>25, <1>t DEF LogSynthetic
<1>26. CASE LogOutcome BY <1>26, <1>t DEF LogOutcome
<1>27. CASE EndTurn BY <1>27, <1>t DEF EndTurn
<1>28. CASE Cancel BY <1>28, <1>t DEF Cancel
<1>29. CASE CompactNow BY <1>29, <1>t DEF CompactNow, turnVars
<1>30. CASE UNCHANGED vars BY <1>30 DEF vars
<1>31. QED
  BY <1>1, <1>2, <1>3, <1>4, <1>5, <1>6, <1>7, <1>8, <1>9, <1>10, <1>11, <1>12, <1>13, <1>14,
     <1>15, <1>16, <1>17, <1>18, <1>19, <1>20, <1>21, <1>22, <1>23, <1>24, <1>25, <1>26, <1>27,
     <1>28, <1>29, <1>30 DEF Next, Work

(* The fold of model.request.started, field by field. *)
LEMMA FoldRequest ==
  ASSUME NEW r \in Replays, NEW d
  PROVE  /\ Replayed(r, "model.request.started", d).calls = r.calls
         /\ Replayed(r, "model.request.started", d).answered = r.answered
         /\ Replayed(r, "model.request.started", d).requests = r.requests + 1
         /\ Replayed(r, "model.request.started", d).compactions = r.compactions
         /\ Replayed(r, "model.request.started", d).turns = r.turns
  BY FoldOfCall DEF Replays

(* The fold of tool.call, field by field. *)
LEMMA FoldCall ==
  ASSUME NEW r \in Replays, NEW d
  PROVE  /\ Replayed(r, "tool.call", d).calls = r.calls \cup {d}
         /\ Replayed(r, "tool.call", d).answered = r.answered
         /\ Replayed(r, "tool.call", d).requests = r.requests
         /\ Replayed(r, "tool.call", d).compactions = r.compactions
         /\ Replayed(r, "tool.call", d).turns = r.turns
  BY FoldOfCall DEF Replays

(* The fold of tool.result, field by field. *)
LEMMA FoldResult ==
  ASSUME NEW r \in Replays, NEW d
  PROVE  /\ Replayed(r, "tool.result", d).calls = r.calls
         /\ Replayed(r, "tool.result", d).answered = r.answered \cup {d}
         /\ Replayed(r, "tool.result", d).requests = r.requests
         /\ Replayed(r, "tool.result", d).compactions = r.compactions
         /\ Replayed(r, "tool.result", d).turns = r.turns
  BY FoldOfCall DEF Replays

(* The fold of tool.synthetic_result, field by field. *)
LEMMA FoldSynthetic ==
  ASSUME NEW r \in Replays, NEW d
  PROVE  /\ Replayed(r, "tool.synthetic_result", d).calls = r.calls
         /\ Replayed(r, "tool.synthetic_result", d).answered = r.answered \cup {d}
         /\ Replayed(r, "tool.synthetic_result", d).requests = r.requests
         /\ Replayed(r, "tool.synthetic_result", d).compactions = r.compactions
         /\ Replayed(r, "tool.synthetic_result", d).turns = r.turns
  BY FoldOfCall DEF Replays

(* The fold of compaction.boundary, field by field. *)
LEMMA FoldCompaction ==
  ASSUME NEW r \in Replays, NEW d
  PROVE  /\ Replayed(r, "compaction.boundary", d).calls = r.calls
         /\ Replayed(r, "compaction.boundary", d).answered = r.answered
         /\ Replayed(r, "compaction.boundary", d).requests = r.requests
         /\ Replayed(r, "compaction.boundary", d).compactions = r.compactions + 1
         /\ Replayed(r, "compaction.boundary", d).turns = r.turns
  BY FoldOfCall DEF Replays

(* The fold of turn.completed, field by field. *)
LEMMA FoldCompleted ==
  ASSUME NEW r \in Replays, NEW d
  PROVE  /\ Replayed(r, "turn.completed", d).calls = r.calls
         /\ Replayed(r, "turn.completed", d).answered = r.answered
         /\ Replayed(r, "turn.completed", d).requests = r.requests
         /\ Replayed(r, "turn.completed", d).compactions = r.compactions
         /\ Replayed(r, "turn.completed", d).turns = Append(r.turns, Outcome("completed", "none"))
  BY FoldOfOutcome DEF Replays

(* The fold of turn.cancelled, field by field. *)
LEMMA FoldCancelled ==
  ASSUME NEW r \in Replays, NEW d
  PROVE  /\ Replayed(r, "turn.cancelled", d).calls = r.calls
         /\ Replayed(r, "turn.cancelled", d).answered = r.answered
         /\ Replayed(r, "turn.cancelled", d).requests = r.requests
         /\ Replayed(r, "turn.cancelled", d).compactions = r.compactions
         /\ Replayed(r, "turn.cancelled", d).turns = Append(r.turns, Outcome("cancelled", "none"))
  BY FoldOfOutcome DEF Replays

(* The fold of turn.failed, field by field. *)
LEMMA FoldFailed ==
  ASSUME NEW r \in Replays, NEW d
  PROVE  /\ Replayed(r, "turn.failed", d).calls = r.calls
         /\ Replayed(r, "turn.failed", d).answered = r.answered
         /\ Replayed(r, "turn.failed", d).requests = r.requests
         /\ Replayed(r, "turn.failed", d).compactions = r.compactions
         /\ Replayed(r, "turn.failed", d).turns = Append(r.turns, Outcome("failed", d))
  BY FoldOfOutcome DEF Replays

(* Live and replayed objects take every step together. *)
LEMMA AgreementStep ==
  ASSUME TypeOK, Standing, Agreement, [Next]_vars
  PROVE  Agreement'
<1> USE DEF Agreement, batchVars, talkVars, liveVars, moneyVars
<1>t. replay \in Replays /\ outcomes \in Seq(Outcomes) /\ requests \in Nat BY DEF TypeOK
<1>1. CASE RunTurn BY <1>1, <1>t DEF RunTurn
<1>2. CASE EnterLoop BY <1>2, <1>t DEF EnterLoop
<1>3. CASE TopOfLoop BY <1>3, <1>t, FoldOfOther DEF TopOfLoop, Throw, Log
<1>4. CASE OverBudget BY <1>4, <1>t DEF OverBudget, Throw
<1>5. CASE MaybeCompact BY <1>5, <1>t, FoldCompaction DEF MaybeCompact, Throw, Log, Compact, Freeze
<1>6. CASE FreezeCompacted BY <1>6, <1>t DEF FreezeCompacted, Throw, Freeze
<1>7. CASE SendRequest BY <1>7, <1>t, FoldRequest DEF SendRequest, Throw, Log
<1>8. CASE Responds BY <1>8, <1>t DEF Responds, Hear
<1>9. CASE RequestFailed BY <1>9, <1>t, FoldCompaction DEF RequestFailed, Throw, Log, Compact
<1>10. CASE Pressure BY <1>10, <1>t, FoldOfOther DEF Pressure, Log
<1>11. CASE Retry BY <1>11, <1>t DEF Retry
<1>12. CASE HandleText BY <1>12, <1>t DEF HandleText, Throw
<1>13. CASE HandleCalls
  <2>1. CASE CanTransitionTo("executing_tools")
    <3>1. replay' = Replayed(replay, "tool.call", lo) BY <1>13, <2>1 DEF HandleCalls, Log
    <3>2. /\ replay'.calls = issued \cup {lo} /\ replay'.answered = answered
          /\ replay'.requests = replay.requests /\ replay'.compactions = compactions
          /\ replay'.turns = replay.turns
      BY <3>1, <1>t, FoldCall
    <3>3. QED BY <1>13, <2>1, <3>2 DEF HandleCalls
  <2>2. CASE ~CanTransitionTo("executing_tools") BY <1>13, <2>2 DEF HandleCalls, Throw
  <2>3. QED BY <2>1, <2>2
<1>14. CASE IssueCall
  <2>1. CASE pos <= hi
    <3>1. replay' = Replayed(replay, "tool.call", pos) BY <1>14, <2>1 DEF IssueCall, Log
    <3>2. /\ replay'.calls = issued \cup {pos} /\ replay'.answered = answered
          /\ replay'.requests = replay.requests /\ replay'.compactions = compactions
          /\ replay'.turns = replay.turns
      BY <3>1, <1>t, FoldCall
    <3>3. QED BY <1>14, <2>1, <3>2 DEF IssueCall
  <2>2. CASE ~(pos <= hi) BY <1>14, <2>2 DEF IssueCall
  <2>3. QED BY <2>1, <2>2
<1>15. CASE StartCall BY <1>15, <1>t DEF StartCall
<1>16. CASE Resolve BY <1>16, <1>t DEF Resolve, Result
<1>17. CASE Answer BY <1>17, <1>t DEF Answer, Result
<1>18. CASE Execute BY <1>18, <1>t DEF Execute, Throw, Result
<1>19. CASE Launch BY <1>19, <1>t DEF Launch
<1>20. CASE ToolEnds BY <1>20, <1>t DEF ToolEnds, Result
<1>21. CASE BatchEnds BY <1>21, <1>t, FoldResult DEF BatchEnds, Log
<1>22. CASE LogResult BY <1>22, <1>t, FoldResult DEF LogResult, Log
<1>23. CASE EndStep BY <1>23, <1>t DEF EndStep, Throw
<1>24. CASE CloseOpenToolCalls BY <1>24, <1>t DEF CloseOpenToolCalls
<1>25. CASE LogSynthetic BY <1>25, <1>t, FoldSynthetic DEF LogSynthetic, Log
<1>26. CASE LogOutcome
  <2>1. turnState \in TerminalStates /\ (turnState = "failed" <=> error # "none") BY <1>26 DEF LogOutcome, Standing
  <2>2. replay'.turns = Append(replay.turns, Outcome(turnState, error))
        /\ replay'.calls = replay.calls /\ replay'.answered = replay.answered
        /\ replay'.requests = replay.requests /\ replay'.compactions = replay.compactions
    <3>1. CASE turnState = "completed" BY <1>26, <2>1, <3>1, <1>t, FoldCompleted DEF LogOutcome, Log
    <3>2. CASE turnState = "cancelled" BY <1>26, <2>1, <3>2, <1>t, FoldCancelled DEF LogOutcome, Log
    <3>3. CASE turnState = "failed" BY <1>26, <3>3, <1>t, FoldFailed DEF LogOutcome, Log
    <3>4. QED BY <2>1, <3>1, <3>2, <3>3 DEF TerminalStates
  <2>3. QED BY <1>26, <2>2 DEF LogOutcome
<1>27. CASE EndTurn BY <1>27, <1>t DEF EndTurn
<1>28. CASE Cancel
  <2>1. at # "ended" BY <1>28 DEF Cancel, Standing, IsTerminal
  <2>2. QED BY <1>28, <2>1 DEF Cancel
<1>29. CASE CompactNow BY <1>29, <1>t, FoldCompaction DEF CompactNow, Log, Compact, turnVars
<1>30. CASE UNCHANGED vars BY <1>30 DEF vars
<1>31. QED
  BY <1>1, <1>2, <1>3, <1>4, <1>5, <1>6, <1>7, <1>8, <1>9, <1>10, <1>11, <1>12, <1>13, <1>14,
     <1>15, <1>16, <1>17, <1>18, <1>19, <1>20, <1>21, <1>22, <1>23, <1>24, <1>25, <1>26, <1>27,
     <1>28, <1>29, <1>30 DEF Next, Work

(* A step spends nothing the check did not allow. *)
LEMMA SpendingStep ==
  ASSUME TypeOK, Spending, [Next]_vars
  PROVE  Spending'
<1> USE DEF Spending, BatchPlaces, batchVars, talkVars, liveVars, moneyVars
<1>t. budget \in Budgets /\ charge \in Usage /\ sent \in Nat BY DEF TypeOK
<1>1. CASE RunTurn
  <2>1. budget'.steps = 0 /\ budget'.requests = 0 /\ budget'.calls = 0 BY <1>1 DEF RunTurn,
    FreshBudget
  <2>2. QED BY <1>1, <2>1, LimitsAssumption DEF RunTurn
<1>2. CASE EnterLoop BY <1>2 DEF EnterLoop
<1>3. CASE TopOfLoop
  <2>1. at' = "prepared" => ~Exceeded(budget) BY <1>3 DEF TopOfLoop, Throw
  <2>2. at' = "prepared" => /\ budget.requests < MaxModelRequests
                            /\ budget.calls < MaxToolCalls /\ budget.steps < MaxSteps
    BY <2>1, <1>t, LimitsAssumption DEF Exceeded, Budgets
  <2>3. at' \in {"prepared", "overBudget", "closing"} BY <1>3 DEF TopOfLoop, Throw
  <2>4. QED BY <1>3, <2>2, <2>3 DEF TopOfLoop
<1>4. CASE OverBudget BY <1>4 DEF OverBudget, Throw
<1>5. CASE MaybeCompact BY <1>5 DEF MaybeCompact, Throw, Freeze
<1>6. CASE FreezeCompacted BY <1>6 DEF FreezeCompacted, Throw, Freeze
<1>7. CASE SendRequest
  <2>1. budget.requests \in Nat BY <1>t DEF Budgets
  <2>2. CASE CanTransitionTo("sampling") BY <1>7, <1>t, <2>1, <2>2, LimitsAssumption DEF SendRequest
  <2>3. CASE ~CanTransitionTo("sampling") BY <1>7, <2>3 DEF SendRequest, Throw
  <2>4. QED BY <2>2, <2>3
<1>8. CASE Responds
  <2>1. /\ budget'.requests = budget.requests + 1 /\ budget'.steps = budget.steps
        /\ budget.requests \in Nat
    BY <1>8, <1>t DEF Responds, Budgets
  <2>2. at' \in {"closing", "requestFailed", "responded"} /\ at = "requesting"
    BY <1>8 DEF Responds, Hear
  <2>3. QED BY <1>8, <2>1, <2>2, <1>t DEF Responds
<1>9. CASE RequestFailed BY <1>9 DEF RequestFailed, Throw
<1>10. CASE Pressure BY <1>10 DEF Pressure
<1>11. CASE Retry BY <1>11 DEF Retry
<1>12. CASE HandleText BY <1>12 DEF HandleText, Throw
<1>13. CASE HandleCalls
  <2>1. budget'.requests = budget.requests /\ budget'.steps = budget.steps
    BY <1>13, <1>t DEF HandleCalls, Budgets
  <2>2. QED BY <1>13, <2>1 DEF HandleCalls, Throw
<1>14. CASE IssueCall BY <1>14 DEF IssueCall
<1>15. CASE StartCall BY <1>15 DEF StartCall
<1>16. CASE Resolve BY <1>16 DEF Resolve, Result
<1>17. CASE Answer BY <1>17 DEF Answer, Result
<1>18. CASE Execute BY <1>18 DEF Execute, Throw, Result
<1>19. CASE Launch BY <1>19 DEF Launch
<1>20. CASE ToolEnds BY <1>20 DEF ToolEnds, Result
<1>21. CASE BatchEnds BY <1>21 DEF BatchEnds
<1>22. CASE LogResult BY <1>22 DEF LogResult
<1>23. CASE EndStep
  <2>1. /\ Charged(budget, charge) \in Budgets
        /\ Charged(budget, charge).steps = budget.steps
        /\ Charged(budget, charge).requests >= budget.requests
    <3>1. Charged(budget, charge) \in Budgets BY <1>t, ChargedTyped
    <3>2. CASE charge.requests > 0 \/ charge.calls > 0
      BY <3>1, <3>2, <1>t DEF Charged, Budgets, Usage
    <3>3. CASE ~(charge.requests > 0 \/ charge.calls > 0)
      BY <3>1, <3>3, <1>t DEF Charged, Budgets, Usage
    <3>4. QED BY <3>1, <3>2, <3>3
  <2>2. at = "answering" /\ at' \in {"closing", "looping"} /\ sent' = sent
    BY <1>23 DEF EndStep, Throw
  <2>3. CASE at' = "closing" BY <1>23, <2>2, <2>3 DEF EndStep
  <2>4. CASE at' = "looping"
    <3>1. budget' = [Charged(budget, charge) EXCEPT !.steps = @ + 1] BY <1>23, <2>4 DEF EndStep,
    Throw
    <3>2. budget'.steps = budget.steps + 1 /\ budget'.requests >= budget.requests
      BY <2>1, <3>1 DEF Budgets
    <3>3. budget.steps \in Nat /\ budget.requests \in Nat /\ budget'.requests \in Nat
      BY <2>1, <3>1, <1>t DEF Budgets
    <3>4. QED BY <2>2, <2>4, <3>2, <3>3, <1>t, LimitsAssumption
  <2>5. QED BY <2>2, <2>3, <2>4
<1>24. CASE CloseOpenToolCalls BY <1>24 DEF CloseOpenToolCalls
<1>25. CASE LogSynthetic BY <1>25 DEF LogSynthetic
<1>26. CASE LogOutcome BY <1>26 DEF LogOutcome
<1>27. CASE EndTurn BY <1>27 DEF EndTurn
<1>28. CASE Cancel BY <1>28 DEF Cancel
<1>29. CASE CompactNow BY <1>29 DEF CompactNow, turnVars
<1>30. CASE UNCHANGED vars BY <1>30 DEF vars
<1>31. QED
  BY <1>1, <1>2, <1>3, <1>4, <1>5, <1>6, <1>7, <1>8, <1>9, <1>10, <1>11, <1>12, <1>13, <1>14,
     <1>15, <1>16, <1>17, <1>18, <1>19, <1>20, <1>21, <1>22, <1>23, <1>24, <1>25, <1>26, <1>27,
     <1>28, <1>29, <1>30 DEF Next, Work

-----------------------------------------------------------------------------
(* The session starts inductive. *)
LEMMA InductiveInit == Init => Inductive
<1> SUFFICES ASSUME Init PROVE Inductive OBVIOUS
<1>1. Standing /\ NoInternalError BY DEF Init, Standing, NoInternalError, BatchPlaces
<1>2. Asked /\ Answers BY DEF Init, Asked, Answers, Coming, BatchPlaces
<1>3. Agreement BY DEF Init, Agreement, EmptyReplay
<1>4. Spending BY LimitsAssumption DEF Init, Spending, FreshBudget, BatchPlaces
<1>5. QED BY <1>1, <1>2, <1>3, <1>4 DEF Inductive

(* Every state of the session is an inductive one. *)
THEOREM Inductiveness == Spec => []Inductive
<1>1. ASSUME TypeOK, Inductive, [Next]_vars PROVE Inductive'
  BY <1>1, StandingStep, AskedStep, AnswersStep, AgreementStep, SpendingStep DEF Inductive
<1>2. QED BY <1>1, InductiveInit, Typing, PTL DEF Spec

(* Between turns the event log alone says of the session what the live objects
   say: the replay gate never fails. *)
THEOREM ReplayMatchesLive == Spec => []ReplayGate
<1>1. TypeOK /\ Inductive => ReplayGate
  <2> SUFFICES ASSUME TypeOK, Inductive, at = "idle" PROVE replay = Live
    BY DEF ReplayGate
  <2>1. replay \in Replays BY DEF TypeOK
  <2>2. /\ replay.turns = outcomes /\ replay.calls = issued /\ replay.answered = answered
        /\ replay.requests = requests + 0 /\ replay.compactions = compactions
    BY DEF Inductive, Agreement
  <2>3. requests + 0 = requests BY DEF TypeOK
  <2>4. QED BY <2>1, <2>2, <2>3 DEF Live, Replays
<1>2. QED BY <1>1, Typing, Inductiveness, PTL

(* When a turn is over no tool call is left without a result. *)
THEOREM EveryCallAnswered == Spec => []NoDanglingCalls
<1>1. Inductive => NoDanglingCalls
  BY DEF Inductive, Agreement, Asked, Answers, Coming, BatchPlaces, NoDanglingCalls
<1>2. QED BY <1>1, Inductiveness, PTL

(* No call gets both a real and a synthetic result. *)
THEOREM EveryCallAnsweredOnce == Spec => []OneResultPerCall
<1>1. Inductive => OneResultPerCall
  BY DEF Inductive, Answers, Coming, OneResultPerCall
<1>2. QED BY <1>1, Inductiveness, PTL

(* A turn's own requests and steps stay within its budget. *)
THEOREM BudgetIsKept == Spec => []BudgetHolds
<1>1. Inductive => BudgetHolds
  BY DEF Inductive, Spending, BudgetHolds, BatchPlaces
<1>2. QED BY <1>1, Inductiveness, PTL

(* No path through the loop makes an illegal transition in a turn that was not
   cancelled. *)
THEOREM NoIllegalMove == Spec => []NoInternalError
<1>1. Inductive => NoInternalError BY DEF Inductive
<1>2. QED BY <1>1, Inductiveness, PTL

(* A cancelled turn is recorded as cancelled. *)
THEOREM CancellationWins == Spec => []CancelWins
<1>1. Inductive => CancelWins
  BY DEF Inductive, Standing, Agreement, CancelWins, Outcome
<1>2. QED BY <1>1, Inductiveness, PTL

-----------------------------------------------------------------------------
(* Every step of the loop is a step of the contract, or none. *)
LEMMA PromiseStep ==
  ASSUME TypeOK, Standing, NoInternalError, Asked, [Next]_vars
  PROVE  [Promise!Next]_(Promise!vars)
<1> USE DEF Asked, BatchPlaces, batchVars, talkVars, liveVars, moneyVars
<1>t. lo \in Nat /\ hi \in Nat /\ pos \in Nat BY DEF TypeOK
<1>r. Result(TRUE) \/ Result(FALSE) => at' = "batch" BY DEF Result
<1> DEFINE Quiet == /\ UNCHANGED <<hi, open, outcomes>>
                    /\ at' # "idle" /\ at # "idle" /\ at' # "requesting" /\ at # "requesting"
<1>q. Quiet => UNCHANGED Promise!vars BY DEF Promise!vars
<1>e. Promise!Next => [Promise!Next]_(Promise!vars) OBVIOUS
<1>1. CASE RunTurn
  <2>1. Promise!Begin BY <1>1 DEF RunTurn, Promise!Begin
  <2>2. QED BY <2>1 DEF Promise!Next
<1>2. CASE EnterLoop BY <1>2, <1>q DEF EnterLoop
<1>3. CASE TopOfLoop BY <1>3, <1>q DEF TopOfLoop, Throw
<1>4. CASE OverBudget BY <1>4, <1>q DEF OverBudget, Throw
<1>5. CASE MaybeCompact BY <1>5, <1>q DEF MaybeCompact, Throw, Compact, Freeze
<1>6. CASE FreezeCompacted BY <1>6, <1>q DEF FreezeCompacted, Throw, Freeze
<1>7. CASE SendRequest
  <2>1. CASE CanTransitionTo("sampling")
    <3>1. Promise!Ask BY <1>7, <2>1 DEF SendRequest, Promise!Ask
    <3>2. QED BY <3>1 DEF Promise!Next
  <2>2. CASE ~CanTransitionTo("sampling") BY <1>7, <2>2, <1>q DEF SendRequest, Throw
  <2>3. QED BY <2>1, <2>2
<1>8. CASE Responds
  <2>1. at = "requesting" /\ at' \in {"closing", "requestFailed",
    "responded"} /\ open = {} /\ UNCHANGED outcomes
    BY <1>8 DEF Responds, Hear
  <2>2. 1..hi \subseteq 1..hi' /\ open' = 1..hi' \ 1..hi
    <3>1. CASE UNCHANGED <<hi, open>> BY <2>1, <3>1
    <3>2. CASE ~UNCHANGED <<hi, open>>
      <4>1. PICK n \in 1..MaxBatch : hi' = hi + n /\ open' = (hi + 1)..(hi + n)
        BY <1>8, <2>1, <3>2 DEF Responds, Hear
      <4>2. n \in Nat BY LimitsAssumption
      <4>3. QED BY <4>1, <4>2, <1>t
    <3>3. QED BY <3>1, <3>2
  <2>3. Promise!Hear BY <2>1, <2>2 DEF Promise!Hear
  <2>4. QED BY <2>3 DEF Promise!Next
<1>9. CASE RequestFailed BY <1>9, <1>q DEF RequestFailed, Throw, Compact
<1>10. CASE Pressure BY <1>10, <1>q DEF Pressure
<1>11. CASE Retry BY <1>11, <1>q DEF Retry
<1>12. CASE HandleText BY <1>12, <1>q DEF HandleText, Throw
<1>13. CASE HandleCalls BY <1>13, <1>q DEF HandleCalls, Throw
<1>14. CASE IssueCall BY <1>14, <1>q DEF IssueCall
<1>15. CASE StartCall BY <1>15, <1>q DEF StartCall
<1>16. CASE Resolve BY <1>16, <1>q, <1>r DEF Resolve
<1>17. CASE Answer BY <1>17, <1>q, <1>r DEF Answer
<1>18. CASE Execute BY <1>18, <1>q, <1>r DEF Execute, Throw
<1>19. CASE Launch BY <1>19, <1>q DEF Launch
<1>20. CASE ToolEnds BY <1>20, <1>q, <1>r DEF ToolEnds
<1>21. CASE BatchEnds
  <2>1. Promise!Close BY <1>21 DEF BatchEnds, Promise!Close
  <2>2. QED BY <2>1 DEF Promise!Next
<1>22. CASE LogResult BY <1>22, <1>q DEF LogResult
<1>23. CASE EndStep BY <1>23, <1>q DEF EndStep, Throw
<1>24. CASE CloseOpenToolCalls
  <2>1. Promise!Close BY <1>24 DEF CloseOpenToolCalls, Promise!Close
  <2>2. QED BY <2>1 DEF Promise!Next
<1>25. CASE LogSynthetic BY <1>25, <1>q DEF LogSynthetic
<1>26. CASE LogOutcome BY <1>26, <1>q DEF LogOutcome
<1>27. CASE EndTurn
  <2>1. Outcome(turnState, error) \in Promise!Endings
    BY <1>27 DEF EndTurn, Standing, NoInternalError, TerminalStates, TypeOK, Outcome, Promise!Endings
  <2>2. open = {} /\ at = "ended" /\ at' = "idle" /\ UNCHANGED <<hi, open>>
        /\ outcomes' = Append(outcomes, Outcome(turnState, error))
    BY <1>27 DEF EndTurn
  <2>3. Promise!End BY <2>1, <2>2 DEF Promise!End
  <2>4. QED BY <2>3 DEF Promise!Next
<1>28. CASE Cancel BY <1>28 DEF Cancel, Promise!vars
<1>29. CASE CompactNow
  <2>1. UNCHANGED Promise!vars BY <1>29 DEF CompactNow, turnVars, Promise!vars
  <2>2. QED BY <2>1
<1>30. CASE UNCHANGED vars BY <1>30 DEF vars, Promise!vars
<1>31. QED
  BY <1>1, <1>2, <1>3, <1>4, <1>5, <1>6, <1>7, <1>8, <1>9, <1>10, <1>11, <1>12, <1>13, <1>14,
     <1>15, <1>16, <1>17, <1>18, <1>19, <1>20, <1>21, <1>22, <1>23, <1>24, <1>25, <1>26, <1>27,
     <1>28, <1>29, <1>30 DEF Next, Work

(* The session starts as the contract does. *)
LEMMA PromiseInit == Init => Promise!Init
  BY DEF Init, Promise!Init

(* The agent loop implements TurnContract. *)
THEOREM LoopKeepsPromise == Spec => KeepsPromise
<1>1. TypeOK /\ Inductive /\ [Next]_vars => [Promise!Next]_(Promise!vars)
  BY PromiseStep DEF Inductive
<1>2. QED BY <1>1, PromiseInit, Typing, Inductiveness, PTL DEF Spec, KeepsPromise, Promise!Spec
=============================================================================
