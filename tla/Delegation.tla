------------------------------ MODULE Delegation ------------------------------
(***************************************************************************)
(* A turn that delegates: DelegationService.run (session/delegation.ts),   *)
(* the Delegate tool that calls it (tools/builtin/delegate.ts), what the   *)
(* agent definition grants (extensions/agents.ts), and the half of the     *)
(* session that pays for the children (Session.recordDelegation and the    *)
(* end of a step in session/session.ts).                                   *)
(*                                                                         *)
(* A batch runs its calls one after another, so at most one child of the   *)
(* root runs at a time.  The child is a Session of its own: of its loop,   *)
(* which AgentLoop has in full, only what costs budget, what ends it and   *)
(* its own attempts to delegate are kept.  The other actor is the user,    *)
(* who may cancel while any await is pending.                              *)
(***************************************************************************)
EXTENDS Integers, Sequences, FiniteSets, Functions, SequencesExt

CONSTANTS
  Agents,        \* the agents this project defines
  Stranger,      \* a name no agent has
  Tasks,         \* the tasks repeatKey tells apart
  RootTools,     \* what the parent's catalogue holds
  AgentTools,    \* per agent: the tools its definition asks for
  SkillTools,    \* per agent: what the skills it activates leave of a catalogue
  AgentLimit,    \* per agent: the least budget its definition and skills ask for
  Requests,      \* what the model may ask Delegate for: agent, task and budget
  RootBudget,    \* the turn's LoopBudget, and the root ceiling
  ChildBudget,   \* DEFAULT_CHILD_BUDGET
  Threshold,     \* maxRepeatedFailures
  MaxDepth,      \* maxDelegationDepth: the schema clamps it to 1
  MaxBatch,      \* bound: calls in one response of the parent's model
  MaxChildBatch, \* bound: calls in one response of a child's
  MaxTurns       \* bound: turns of the session

Spending == [steps : Int, requests : Int, calls : Int]
Names == Agents \cup {Stranger}

ASSUME DelegationAssumption ==
  /\ Agents # {} /\ Stranger \notin Agents /\ Tasks # {}
  /\ AgentTools \in [Agents -> SUBSET RootTools]
  /\ SkillTools \in [Agents -> SUBSET RootTools]
  /\ AgentLimit \in [Agents -> Spending]
  /\ Requests \subseteq [agent : Names, task : Tasks, asked : Spending]
  /\ RootBudget \in Spending /\ ChildBudget \in Spending
  /\ \A f \in DOMAIN RootBudget : RootBudget[f] > 0 /\ ChildBudget[f] > 0
  /\ Threshold \in Nat /\ MaxDepth \in {0, 1} /\ MaxBatch \in Nat \ {0} /\ MaxChildBatch \in Nat /\ MaxTurns \in Nat

VARIABLES
  at,         \* the await the parent's turn stands at
  aborted,    \* the signal of the parent's turn
  batch,      \* how many delegations of this response are still to be run
  frozen,     \* StepContext.loopBudget: what the tracker read when the step began
  spent,      \* the turn's LoopBudgetTracker
  charge,     \* Session.pendingCharge
  job,        \* the delegation in hand
  child,      \* its session
  listening,  \* the abort listener of run() is on the parent's signal
  repeats,    \* DelegationService.repeats
  events,     \* delegation.* events of the log, from this step on
  records,    \* DelegationService.finished, from this step on
  usage,      \* Session.usage: what children spent
  charged,    \* ghost: what all trackers were charged for children
  turnCost,   \* ghost: what this turn and its children spent
  missed,     \* ghost: the cancellation came before the listener
  turns       \* turns ended

parentVars == <<batch, frozen, spent, turnCost>>
moneyVars == <<charge, usage, charged>>
bookVars == <<repeats, events, records>>
vars == <<at, aborted, batch, frozen, spent, charge, job, child, listening,
          repeats, events, records, usage, charged, turnCost, missed, turns>>

-----------------------------------------------------------------------------
(* Budgets.                                                                *)

Zero == [steps |-> 0, requests |-> 0, calls |-> 0]

Plus(u, v) == [f \in DOMAIN u |-> u[f] + v[f]]

Least(budgets) == [f \in DOMAIN Zero |-> CHOOSE n \in {b[f] : b \in budgets} :
                                           \A b \in budgets : n <= b[f]]

(* remainingBudget of a tracker's snapshot: never below zero. *)
Remaining(used) ==
  [f \in DOMAIN Zero |-> IF RootBudget[f] > used[f] THEN RootBudget[f] - used[f] ELSE 0]

(* LoopBudgetTracker.check, but for the clock and the money. *)
Reached(used, limit) == \E f \in DOMAIN Zero : used[f] >= limit[f]

(* firstExhausted *)
Exhausted(budget) == \E f \in DOMAIN Zero : budget[f] <= 0

(* Mutant of Granted: what the parent has left is forgotten. *)
GrantedAfresh(r) == Least({ChildBudget, RootBudget, AgentLimit[r.agent], r.asked})

(* deriveChildScope's budget: the least of the child's default, what the frozen
   step has left, the root ceiling, the agent's and the request's. *)
Granted(r) ==
  Least({ChildBudget, Remaining(frozen), RootBudget, AgentLimit[r.agent], r.asked})

(* deriveSubagent and the skills it activates: both only take tools away. *)
ChildTools(r) == (RootTools \cap AgentTools[r.agent]) \cap SkillTools[r.agent]

-----------------------------------------------------------------------------
NoChild == [at |-> "none", state |-> "none", used |-> Zero, nested |-> 0]
NoRequest == [agent |-> Stranger, task |-> CHOOSE t \in Tasks : TRUE, asked |-> Zero]
NoJob == [id |-> 0, req |-> NoRequest, limit |-> Zero, status |-> "none"]

Statuses == {"completed", "failed", "cancelled", "budget_exceeded", "denied"}

Event(type, id, depth) == [type |-> type, id |-> id, depth |-> depth]

(* eventFor, and refuse's choice between its two events. *)
EventFor(status) ==
  CASE status = "completed" -> "completed"
    [] status = "cancelled" -> "cancelled"
    [] status = "denied"    -> "denied"
    [] OTHER                -> "failed"

RefusalEvent(status) == IF status = "cancelled" THEN "cancelled" ELSE "denied"

LogEvent(type, id, depth) == events' = Append(events, Event(type, id, depth))

(* newDelegationId: the delegations are numbered as they are asked for. *)
NewId == Cardinality({i \in DOMAIN events : events[i].type = "requested"}) + 1

(* record() and, through onRecord, Session.recordDelegation. *)
Recorded(id, status, cost) ==
  /\ records' = Append(records, [id |-> id, status |-> status, used |-> cost])
  /\ usage' = Plus(usage, cost)
  /\ charge' = Plus(charge, cost)

Init ==
  /\ at = "idle" /\ aborted = FALSE /\ batch = 0 /\ frozen = Zero
  /\ spent = Zero /\ charge = Zero /\ job = NoJob /\ child = NoChild
  /\ listening = FALSE /\ missed = FALSE /\ turns = 0
  /\ repeats = [k \in Names \X Tasks |-> 0] /\ events = << >> /\ records = << >>
  /\ usage = Zero /\ charged = Zero /\ turnCost = Zero

-----------------------------------------------------------------------------
(* The parent's turn.                                                      *)

(* runTurn: a new signal and tracker; pendingCharge is the session's. *)
StartTurn ==
  /\ at = "idle" /\ turns < MaxTurns
  /\ at' = "looping" /\ aborted' = FALSE /\ missed' = FALSE
  /\ spent' = Zero /\ turnCost' = Zero /\ frozen' = Zero
  /\ UNCHANGED <<batch, job, child, listening, turns, moneyVars, bookVars>>

EndTurn ==
  /\ at' = "idle" /\ turns' = turns + 1

(* Over budget, cancelled, or answered in words: the turn is over. *)
LeaveLoop ==
  /\ at = "looping"
  /\ EndTurn
  /\ UNCHANGED <<aborted, job, child, listening, missed, parentVars, moneyVars, bookVars>>

(* A step: the budget is frozen before the request, and the response brings a
   batch of delegations. *)
NextStep ==
  /\ at = "looping" /\ ~aborted /\ ~Reached(spent, RootBudget)
  /\ frozen' = spent
  /\ \E n \in 1..MaxBatch :
       /\ batch' = n
       /\ spent' = Plus(spent, [steps |-> 0, requests |-> 1, calls |-> n])
       /\ turnCost' = Plus(turnCost, [steps |-> 0, requests |-> 1, calls |-> n])
  /\ at' = "batch"
  /\ job' = NoJob /\ events' = << >> /\ records' = << >>
  /\ UNCHANGED <<aborted, child, listening, repeats, missed, turns, moneyVars>>

(* executeBatch takes the next call: Delegate's execute calls run(), which logs
   delegation.requested.  A cancelled batch answers its calls and runs none. *)
Dispatch ==
  /\ at = "batch" /\ ~aborted /\ batch > 0
  /\ \E r \in Requests : job' = [NoJob EXCEPT !.id = NewId, !.req = r]
  /\ batch' = batch - 1
  /\ LogEvent("requested", NewId, 1)
  /\ at' = "requesting"
  /\ UNCHANGED <<aborted, frozen, spent, child, listening, repeats, records, turnCost,
                 missed, turns, moneyVars>>

(* Mutant of EndStep: the charge is taken and stays. *)
EndStepUncleared ==
  /\ at = "batch" /\ (aborted \/ batch = 0)
  /\ batch' = 0
  /\ IF aborted
     THEN EndTurn /\ UNCHANGED <<spent, charge, charged, turnCost>>
     ELSE /\ at' = "looping" /\ UNCHANGED <<turns, charge>>
          /\ spent' = Plus(Plus(spent, charge), [Zero EXCEPT !.steps = 1])
          /\ turnCost' = Plus(turnCost, [Zero EXCEPT !.steps = 1])
          /\ charged' = Plus(charged, charge)
  /\ UNCHANGED <<aborted, frozen, job, child, listening, missed, usage, bookVars>>

(* The batch is answered: a cancelled turn ends here, another step pays for the
   children and goes round. *)
EndStep ==
  /\ at = "batch" /\ (aborted \/ batch = 0)
  /\ batch' = 0
  /\ IF aborted
     THEN EndTurn /\ UNCHANGED <<spent, charge, charged, turnCost>>
     ELSE /\ at' = "looping" /\ UNCHANGED turns
          /\ spent' = Plus(Plus(spent, charge), [Zero EXCEPT !.steps = 1])
          /\ turnCost' = Plus(turnCost, [Zero EXCEPT !.steps = 1])
          /\ charged' = Plus(charged, charge) /\ charge' = Zero
  /\ UNCHANGED <<aborted, frozen, job, child, listening, missed, usage, bookVars>>

(* A Delegate call that failed may be the one failure too many: executeBatch
   stops and the turn fails, and its children stay unpaid. *)
RepeatedFailure ==
  /\ at = "batch" /\ job.id > 0 /\ job.status # "completed"
  /\ EndTurn /\ batch' = 0
  /\ UNCHANGED <<aborted, frozen, spent, turnCost, job, child, listening, missed,
                 moneyVars, bookVars>>

(* Mutant of Cancel: nobody tells the child. *)
CancelParentOnly ==
  /\ at # "idle" /\ ~aborted
  /\ aborted' = TRUE /\ missed' = ~listening
  /\ UNCHANGED <<at, job, child, listening, turns, parentVars, moneyVars, bookVars>>

(* Session.cancel on the parent.  The listener, if it is there, cancels the
   child's turn; a turn that is over stays what it is. *)
Cancel ==
  /\ at # "idle" /\ ~aborted
  /\ aborted' = TRUE /\ missed' = ~listening
  /\ child' = IF listening /\ child.state = "running"
              THEN [child EXCEPT !.state = "cancelled"] ELSE child
  /\ UNCHANGED <<at, job, listening, turns, parentVars, moneyVars, bookVars>>

-----------------------------------------------------------------------------
(* DelegationService.run.                                                  *)

Key(r) == <<r.agent, r.task>>

(* Why run() refuses, in the order it looks. *)
Refusal(r, depth) ==
  CASE depth > MaxDepth -> "denied"
    [] r.agent \notin Agents -> "denied"
    [] repeats[Key(r)] > Threshold -> "denied"
    [] Exhausted(Granted(r)) -> "budget_exceeded"
    [] ChildTools(r) = {} -> "denied"
    [] aborted -> "cancelled"
    [] OTHER -> "none"

(* delegation.requested is logged; the refusal is logged in its turn. *)
Refuse ==
  /\ at = "requesting"
  /\ LET why == Refusal(job.req, 1)
     IN /\ why # "none"
        /\ job' = [job EXCEPT !.status = why]
        /\ LogEvent(RefusalEvent(why), job.id, 1)
  /\ at' = "refusing"
  /\ UNCHANGED <<aborted, child, listening, repeats, records, missed, turns,
                 parentVars, moneyVars>>

(* The refusal is logged: its record costs nothing. *)
Refused ==
  /\ at = "refusing"
  /\ Recorded(job.id, job.status, Zero)
  /\ at' = "batch"
  /\ UNCHANGED <<aborted, job, child, listening, repeats, events, charged, missed,
                 turns, parentVars>>

(* buildChild, and delegation.started is logged. *)
Admit ==
  /\ at = "requesting" /\ Refusal(job.req, 1) = "none"
  /\ job' = [job EXCEPT !.limit = Granted(job.req)]
  /\ LogEvent("started", job.id, 1)
  /\ at' = "starting"
  /\ UNCHANGED <<aborted, child, listening, repeats, records, missed, turns,
                 parentVars, moneyVars>>

(* Mutant of RunChild: a cancellation seen here starts no child, and nothing
   else. *)
RunChildUnlessAborted ==
  /\ at = "starting" /\ ~aborted
  /\ listening' = TRUE
  /\ child' = [NoChild EXCEPT !.at = "looping", !.state = "running"]
  /\ at' = "running"
  /\ UNCHANGED <<aborted, job, missed, turns, parentVars, moneyVars, bookVars>>

(* The listener goes on the signal, which may be aborted already and then never
   fires, and the child's runTurn begins. *)
RunChild ==
  /\ at = "starting"
  /\ listening' = TRUE
  /\ child' = [NoChild EXCEPT !.at = "looping", !.state = "running"]
  /\ at' = "running"
  /\ UNCHANGED <<aborted, job, missed, turns, parentVars, moneyVars, bookVars>>

(* statusOf, and before it the parent's signal. *)
StatusOf(state) ==
  CASE aborted -> "cancelled"
    [] ~aborted /\ state = "overBudget" -> "budget_exceeded"
    [] OTHER -> state

(* Mutant of ChildReturns: the closing event is left out. *)
ChildReturnsSilently ==
  /\ at = "running" /\ child.at = "done"
  /\ LET status == StatusOf(child.state)
     IN /\ job' = [job EXCEPT !.status = status]
        /\ repeats' = IF status = "completed" THEN repeats
                      ELSE [repeats EXCEPT ![Key(job.req)] = @ + 1]
  /\ at' = "closing"
  /\ UNCHANGED <<aborted, child, events, listening, records, missed, turns, parentVars, moneyVars>>

(* runTurn of the child returned: the outcome is judged, counted if it is not a
   success, and logged. *)
ChildReturns ==
  /\ at = "running" /\ child.at = "done"
  /\ LET status == StatusOf(child.state)
     IN /\ job' = [job EXCEPT !.status = status]
        /\ repeats' = IF status = "completed" THEN repeats
                      ELSE [repeats EXCEPT ![Key(job.req)] = @ + 1]
        /\ LogEvent(EventFor(status), job.id, 1)
  /\ at' = "closing"
  /\ UNCHANGED <<aborted, child, listening, records, missed, turns, parentVars, moneyVars>>

(* runTurn of the child threw, its first append or one of its last: failed, whatever the
   signal says, and not counted as a repeat. *)
ChildCrashes ==
  /\ at = "running" /\ child.at \in {"looping", "done"}
  /\ job' = [job EXCEPT !.status = "failed"]
  /\ LogEvent("failed", job.id, 1)
  /\ at' = "closing"
  /\ UNCHANGED <<aborted, child, listening, repeats, records, missed, turns, parentVars,
                 moneyVars>>

(* The closing event is logged: record, and the finally takes the listener off. *)
Close ==
  /\ at = "closing"
  /\ Recorded(job.id, job.status, [child.used EXCEPT !.steps = 0])
  /\ turnCost' = Plus(turnCost, [child.used EXCEPT !.steps = 0])
  /\ listening' = FALSE /\ child' = NoChild
  /\ at' = "batch"
  /\ UNCHANGED <<aborted, batch, frozen, spent, job, repeats, events, charged, missed, turns>>

-----------------------------------------------------------------------------
(* The child's turn.                                                       *)

Ended(state) == [child EXCEPT !.at = "done", !.state = IF @ = "running" THEN state ELSE @]

(* The top of its loop, up to the request. *)
ChildAsks ==
  /\ at = "running" /\ child.at = "looping"
  /\ child.state = "running" /\ ~Reached(child.used, job.limit)
  /\ child' = [child EXCEPT !.at = "asking"]
  /\ UNCHANGED <<at, aborted, job, listening, missed, turns, parentVars, moneyVars, bookVars>>

(* The top of its loop finds it cancelled, or at a limit: the clock's too. *)
ChildStops ==
  /\ at = "running" /\ child.at = "looping"
  /\ child' = Ended("overBudget")
  /\ UNCHANGED <<at, aborted, job, listening, missed, turns, parentVars, moneyVars, bookVars>>

(* An answer: words end it, an error too, an empty response goes round without
   a step, calls are run.  A cancelled child hears nothing of it. *)
ChildHears ==
  /\ at = "running" /\ child.at = "asking"
  /\ LET heard == [child EXCEPT !.used.requests = @ + 1]
     IN \/ child' = [heard EXCEPT !.at = "done", !.state = "cancelled"] /\ child.state = "cancelled"
        \/ /\ child.state = "running"
           /\ \/ \E end \in {"completed", "failed"} :
                   child' = [heard EXCEPT !.at = "done", !.state = end]
              \/ child' = [heard EXCEPT !.at = "looping"]
              \/ \E n \in 1..MaxChildBatch :
                   child' = [heard EXCEPT !.at = "batch", !.used.calls = @ + n]
  /\ UNCHANGED <<at, aborted, job, listening, missed, turns, parentVars, moneyVars, bookVars>>

(* One of its calls is a Delegate: run() with depth 2, at most once a
   child here. *)
ChildDelegates ==
  /\ at = "running" /\ child.at = "batch" /\ child.state = "running" /\ child.nested = 0
  /\ LogEvent("requested", NewId, 2)
  /\ child' = [child EXCEPT !.at = "nesting", !.nested = NewId]
  /\ UNCHANGED <<at, aborted, job, listening, repeats, records, missed, turns,
                 parentVars, moneyVars>>

(* Depth is looked at first, and 2 is too deep under every configuration. *)
ChildDenied ==
  /\ at = "running" /\ child.at = "nesting"
  /\ Refusal(NoRequest, 2) = "denied"
  /\ LogEvent("denied", child.nested, 2)
  /\ child' = [child EXCEPT !.at = "denied"]
  /\ UNCHANGED <<at, aborted, job, listening, repeats, records, missed, turns,
                 parentVars, moneyVars>>

(* The denial is logged: a record at no cost, kept with the root's. *)
ChildTold ==
  /\ at = "running" /\ child.at = "denied"
  /\ Recorded(child.nested, "denied", Zero)
  /\ child' = [child EXCEPT !.at = "batch"]
  /\ UNCHANGED <<at, aborted, job, listening, repeats, events, charged, missed, turns,
                 parentVars>>

(* Its batch is answered: a cancelled child ends, another goes round. *)
ChildSteps ==
  /\ at = "running" /\ child.at = "batch"
  /\ child' = IF child.state = "cancelled" THEN Ended("cancelled")
              ELSE [child EXCEPT !.at = "looping", !.used.steps = @ + 1]
  /\ UNCHANGED <<at, aborted, job, listening, missed, turns, parentVars, moneyVars, bookVars>>

Parent == StartTurn \/ LeaveLoop \/ NextStep \/ Dispatch \/ EndStep \/ RepeatedFailure
Service == Refuse \/ Refused \/ Admit \/ RunChild \/ ChildReturns \/ ChildCrashes \/ Close
Child == ChildAsks \/ ChildStops \/ ChildHears \/ ChildDelegates \/ ChildDenied \/ ChildTold \/ ChildSteps

Next == Parent \/ Service \/ Child \/ Cancel

(* What the program does by itself goes on: every await returns, the model
   answers or fails, and only a turn and its cancellation are the user's. *)
Fairness ==
  WF_vars(LeaveLoop \/ NextStep \/ Dispatch \/ EndStep \/ RepeatedFailure \/ Service \/ Child)

Spec == Init /\ [][Next]_vars /\ Fairness

-----------------------------------------------------------------------------
(* Properties.                                                             *)

Budgets == [DOMAIN Zero -> Nat]
ChildStates == {"none", "running", "completed", "failed", "cancelled", "overBudget"}

(* Every variable keeps its kind of value. *)
TypeOK ==
  /\ at \in {"idle", "looping", "batch", "requesting", "refusing", "starting", "running",
             "closing"}
  /\ aborted \in BOOLEAN /\ listening \in BOOLEAN /\ missed \in BOOLEAN
  /\ batch \in 0..MaxBatch
  /\ {frozen, spent, charge, usage, charged, turnCost, child.used} \subseteq Budgets
  /\ job.id \in Nat /\ job.req.agent \in Names /\ job.req.task \in Tasks
  /\ job.limit \in Spending /\ job.status \in Statuses \cup {"none"}
  /\ child.at \in {"none", "looping", "asking", "batch", "nesting", "denied", "done"}
  /\ child.state \in ChildStates /\ child.nested \in Nat
  /\ repeats \in [Names \X Tasks -> Nat] /\ turns \in 0..MaxTurns
  /\ \A i \in 1..Len(records) : records[i].status \in Statuses /\ records[i].used \in Budgets

(* What the log tells of one delegation, in order. *)
Tells(id, story) ==
  LET mine == {i \in DOMAIN events : events[i].id = id}
  IN /\ Cardinality(mine) = Len(story)
     /\ \A i \in mine : events[i].type = story[Cardinality({j \in mine : j <= i})]

(* A delegation that has its record was requested and then refused, or
   requested, started and closed, by the event its status stands for; every
   request has its record once the batch goes on, whatever was cancelled or
   denied in between (delegation.ts: the order of the appends in run). *)
StoriesWhole ==
  /\ \A i \in 1..Len(records) :
       LET r == records[i]
       IN \/ Tells(r.id, <<"requested", RefusalEvent(r.status)>>)
          \/ Tells(r.id, <<"requested", "started", EventFor(r.status)>>)
  /\ at \in {"idle", "looping", "batch"} =>
       {e.id : e \in Range(events)} = {r.id : r \in Range(records)}

(* What children spent is charged to a turn once, or still waits to be: over
   cancelled and failed turns nothing of it is lost or paid twice. *)
ChargedOnce == usage = Plus(charged, charge)

(* A turn and the children it dispatches may send more requests than the turn's
   budget, as all children of a batch are granted what was left when the step
   began, but never by more than one request and the grants of all but one. *)
OverspendBounded ==
  LET grant == Least({ChildBudget, RootBudget}).requests
  IN turnCost.requests <= RootBudget.requests + 1 + (MaxBatch - 1) * grant

(* The account of a turn and its children: nothing lost, nothing paid twice, and
   no more spent than batches and their snapshots explain. *)
ChargesRight == ChargedOnce /\ OverspendBounded

(* A child whose parent is cancelled under its listener sends no request any
   more (the abort listener in run). *)
CancelReachesChild ==
  [][child.at # "asking" /\ child'.at = "asking" => ~aborted \/ missed]_vars

(* No turn waits for a child for ever: what was begun or cancelled ends, the
   child that missed the cancellation too. *)
TurnEnds == at # "idle" ~> at = "idle"
=============================================================================
