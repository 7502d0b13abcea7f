-------------------------- MODULE Delegation_proofs --------------------------
(***************************************************************************)
(* Theorems about Delegation, for every budget, agent, request, batch size  *)
(* and number of turns: what a turn and its children may spend together,    *)
(* that a cancelled parent's child asks nothing more, and that the log      *)
(* tells every delegation whole.                                           *)
(***************************************************************************)
EXTENDS Delegation, FiniteSetTheorems, TLAPS

-----------------------------------------------------------------------------
(* Budgets.                                                                *)

Costs == [steps : Nat, requests : Nat, calls : Nat]

(* A budget as a function is a budget as a record. *)
LEMMA BudgetsAre == Budgets = Costs /\ DOMAIN Zero = {"steps", "requests", "calls"}
<1>1. DOMAIN Zero = {"steps", "requests", "calls"} BY DEF Zero
<1>2. ASSUME NEW u \in Budgets PROVE u \in Costs
  <2>1. u \in [{"steps", "requests", "calls"} -> Nat] BY <1>1, <1>2 DEF Budgets
  <2>2. QED BY <2>1 DEF Costs
<1>3. ASSUME NEW u \in Costs PROVE u \in Budgets
  <2>1. u \in [{"steps", "requests", "calls"} -> Nat] BY <1>3 DEF Costs
  <2>2. QED BY <2>1, <1>1 DEF Budgets
<1>4. QED BY <1>1, <1>2, <1>3

(* A sum of costs is taken field by field. *)
LEMMA PlusOf ==
  ASSUME NEW u \in Costs, NEW v \in Costs
  PROVE  /\ Plus(u, v) = [steps |-> u.steps + v.steps, requests |-> u.requests + v.requests,
                          calls |-> u.calls + v.calls]
         /\ Plus(u, v) \in Costs
  BY DEF Plus, Costs

(* Of five integers one is the least. *)
LEMMA SmallestOf ==
  ASSUME NEW a \in Int, NEW b \in Int, NEW c \in Int, NEW d \in Int, NEW e \in Int
  PROVE \E n \in {a, b, c, d, e} : \A m \in {a, b, c, d, e} : n <= m
<1>1. PICK p \in {a, b} : p <= a /\ p <= b OBVIOUS
<1>2. PICK q \in {p, c} : q <= p /\ q <= c OBVIOUS
<1>3. PICK r \in {q, d} : r <= q /\ r <= d OBVIOUS
<1>4. PICK s \in {r, e} : s <= r /\ s <= e OBVIOUS
<1>5. s <= a /\ s <= b /\ s <= c /\ s <= d /\ s <= e BY <1>1, <1>2, <1>3, <1>4
<1>6. s \in {a, b, c, d, e} BY <1>1, <1>2, <1>3, <1>4
<1>7. QED BY <1>5, <1>6

(* The least of five budgets is a budget no field of which exceeds theirs, and each
   field of which is one of theirs. *)
LEMMA LeastOf ==
  ASSUME NEW a \in Spending, NEW b \in Spending, NEW c \in Spending, NEW d \in Spending,
         NEW e \in Spending
  PROVE  /\ Least({a, b, c, d, e}) \in Spending
         /\ \A f \in DOMAIN Zero :
              /\ Least({a, b, c, d, e})[f] \in {x[f] : x \in {a, b, c, d, e}}
              /\ \A x \in {a, b, c, d, e} : Least({a, b, c, d, e})[f] <= x[f]
<1> DEFINE S == {a, b, c, d, e}
           N(f) == {x[f] : x \in S}
<1>1. DOMAIN Zero = {"steps", "requests", "calls"} BY DEF Zero
<1>2. ASSUME NEW f \in DOMAIN Zero
      PROVE Least(S)[f] \in Int /\ Least(S)[f] \in N(f) /\ \A x \in S : Least(S)[f] <= x[f]
  <2>1. a[f] \in Int /\ b[f] \in Int /\ c[f] \in Int /\ d[f] \in Int /\ e[f] \in Int
    BY <1>1 DEF Spending
  <2>2. N(f) = {a[f], b[f], c[f], d[f], e[f]} OBVIOUS
  <2>3. \E n \in N(f) : \A m \in N(f) : n <= m BY <2>1, <2>2, SmallestOf, SMTT(30)
  <2>4. Least(S)[f] = CHOOSE n \in N(f) : \A m \in S : n <= m[f] BY DEF Least
  <2>5. \E n \in N(f) : \A m \in S : n <= m[f] BY <2>3
  <2>6. Least(S)[f] \in N(f) /\ \A m \in S : Least(S)[f] <= m[f] BY <2>4, <2>5
  <2>7. QED BY <2>6, <2>1, <2>2
<1>3. Least(S) \in [DOMAIN Zero -> Int] BY <1>2 DEF Least
<1>4. Least(S) \in Spending BY <1>3, <1>1 DEF Spending
<1>5. QED BY <1>2, <1>4

(* What no child is ever granted more of: OverspendBounded's unit. *)
Grant == Least({ChildBudget, RootBudget})

(* It is never negative, and the least of the two. *)
LEMMA GrantOf == Grant.requests \in Nat /\ (Grant.requests = ChildBudget.requests \/ Grant.requests = RootBudget.requests)
                 /\ Grant.requests <= ChildBudget.requests /\ Grant.requests <= RootBudget.requests
<1>1. {ChildBudget, RootBudget} = {ChildBudget, RootBudget, RootBudget, RootBudget, RootBudget} OBVIOUS
<1>2. ChildBudget \in Spending /\ RootBudget \in Spending BY DelegationAssumption
<1>3. "requests" \in DOMAIN Zero BY DEF Zero
<1>4. Grant.requests \in {x.requests : x \in {ChildBudget, RootBudget}}
      /\ \A x \in {ChildBudget, RootBudget} : Grant.requests <= x.requests
  BY <1>1, <1>2, <1>3, LeastOf DEF Grant
<1>5. RootBudget.requests > 0 /\ ChildBudget.requests > 0
  <2>1. "requests" \in DOMAIN RootBudget BY <1>2 DEF Spending
  <2>2. QED BY <2>1, DelegationAssumption
<1>6. RootBudget.requests \in Int /\ ChildBudget.requests \in Int BY <1>2 DEF Spending
<1>7. QED BY <1>4, <1>5, <1>6

(* What is left of the root's budget is never negative. *)
LEMMA RemainingOf ==
  ASSUME NEW u \in Costs
  PROVE  /\ Remaining(u) \in Costs /\ Remaining(u) \in Spending
         /\ u.requests <= RootBudget.requests => Remaining(u).requests = RootBudget.requests - u.requests
<1>1. RootBudget \in Spending BY DelegationAssumption
<1>2. DOMAIN Zero = {"steps", "requests", "calls"} BY DEF Zero
<1>3. \A f \in DOMAIN Zero : Remaining(u)[f] = IF RootBudget[f] > u[f] THEN RootBudget[f] - u[f] ELSE 0
  BY DEF Remaining
<1>4. \A f \in DOMAIN Zero : RootBudget[f] \in Int /\ u[f] \in Nat
  BY <1>1, <1>2 DEF Costs, Spending
<1>5. Remaining(u) \in [DOMAIN Zero -> Nat] BY <1>4 DEF Remaining
<1>6. QED BY <1>1, <1>2, <1>3, <1>4, <1>5 DEF Costs, Spending

(* A child is granted no more than the unit, nor than the frozen step has left. *)
LEMMA GrantedOf ==
  ASSUME NEW r \in [agent : Agents, task : Tasks, asked : Spending], frozen \in Costs
  PROVE  /\ Granted(r) \in Spending
         /\ Granted(r).requests <= Grant.requests
         /\ Granted(r).requests <= Remaining(frozen).requests
<1>1. /\ ChildBudget \in Spending /\ Remaining(frozen) \in Spending /\ RootBudget \in Spending
      /\ AgentLimit[r.agent] \in Spending /\ r.asked \in Spending
  BY RemainingOf, DelegationAssumption
<1>2. "requests" \in DOMAIN Zero BY DEF Zero
<1>3. /\ Granted(r) \in Spending
      /\ Granted(r).requests <= ChildBudget.requests
      /\ Granted(r).requests <= RootBudget.requests
      /\ Granted(r).requests <= Remaining(frozen).requests
  <2>1. PICK a \in Spending, b \in Spending, c \in Spending, d \in Spending, e \in Spending :
          /\ a = ChildBudget /\ b = Remaining(frozen) /\ c = RootBudget
          /\ d = AgentLimit[r.agent] /\ e = r.asked
    BY <1>1
  <2>2. Granted(r) = Least({a, b, c, d, e}) BY <2>1 DEF Granted
  <2>3. /\ Least({a, b, c, d, e}) \in Spending
        /\ \A x \in {a, b, c, d, e} : Least({a, b, c, d, e})["requests"] <= x["requests"]
    BY <1>2, LeastOf, SMTT(30)
  <2>4. QED BY <2>1, <2>2, <2>3
<1>4. QED BY <1>3, GrantOf

-----------------------------------------------------------------------------
(* Typing.                                                                 *)

Asking == [agent : Names, task : Tasks, asked : Spending]
Jobs == [id : Nat, req : Asking, limit : Spending, status : Statuses \cup {"none"}]
ChildPlaces == {"none", "looping", "asking", "batch", "nesting", "denied", "done"}
Children == [at : ChildPlaces, state : ChildStates, used : Costs, nested : Nat]
Kinds == {"requested", "started", "completed", "failed", "cancelled", "denied"}
Entries == [type : Kinds, id : Nat, depth : Nat]
Accounts == [id : Nat, status : Statuses, used : Costs]

(* TypeOK, and the shape of what TypeOK only looks into; with it where a child is,
   and how it stands there. *)
Typed ==
  /\ at \in {"idle", "looping", "batch", "requesting", "refusing", "starting", "running", "closing"}
  /\ aborted \in BOOLEAN /\ listening \in BOOLEAN /\ missed \in BOOLEAN
  /\ batch \in 0..MaxBatch /\ turns \in 0..MaxTurns
  /\ frozen \in Costs /\ spent \in Costs /\ charge \in Costs /\ usage \in Costs
  /\ charged \in Costs /\ turnCost \in Costs
  /\ job \in Jobs /\ child \in Children
  /\ repeats \in [Names \X Tasks -> Nat]
  /\ events \in Seq(Entries) /\ records \in Seq(Accounts)

Standing ==
  /\ at \in {"running", "closing"} <=> child.at # "none"
  /\ at \in {"running", "closing"} <=> listening
  /\ child.at = "none" => child.state = "none"
  /\ child.at \in {"looping", "asking", "batch", "nesting", "denied"} => child.state \in {"running", "cancelled"}
  /\ child.at = "done" => child.state \in {"completed", "failed", "cancelled", "overBudget"}
  /\ at = "closing" => child.at \in {"looping", "done"}
  /\ at \in {"refusing", "closing"} => job.status \in Statuses
  /\ at = "refusing" => job.status \in {"denied", "budget_exceeded", "cancelled"}
  /\ at # "idle" => turns < MaxTurns

(* What is typed is TypeOK. *)
LEMMA TypedIsTypeOK == Typed => TypeOK
<1>1. SUFFICES ASSUME Typed PROVE TypeOK OBVIOUS
<1>2. Costs = Budgets BY BudgetsAre
<1>3. {frozen, spent, charge, usage, charged, turnCost, child.used} \subseteq Budgets
  BY <1>1, <1>2 DEF Typed, Children
<1>4. \A i \in 1..Len(records) : records[i].status \in Statuses /\ records[i].used \in Budgets
  <2>1. SUFFICES ASSUME NEW i \in 1..Len(records)
                 PROVE  records[i].status \in Statuses /\ records[i].used \in Budgets
    OBVIOUS
  <2>2. records[i] \in Accounts BY <1>1 DEF Typed
  <2>3. QED BY <2>2, <1>2 DEF Accounts
<1>5. QED BY <1>1, <1>3, <1>4 DEF Typed, TypeOK, Jobs, Asking, Children, ChildPlaces

(* The values the actions write have their types. *)
LEMMA ValuesTyped ==
  /\ Zero \in Costs /\ NoJob \in Jobs /\ NoRequest \in Asking /\ NoChild \in Children
  /\ [Zero EXCEPT !.steps = 1] \in Costs
  /\ \A n \in Nat : [steps |-> 0, requests |-> 1, calls |-> n] \in Costs
  /\ \A u \in Costs : [u EXCEPT !.steps = 0] \in Costs
  /\ \A r \in Requests : r \in Asking
<1>1. (CHOOSE t \in Tasks : TRUE) \in Tasks BY DelegationAssumption
<1>2. Zero \in Costs BY DEF Zero, Costs
<1>3. Zero \in Spending BY DEF Zero, Spending
<1>4. NoRequest \in Asking BY <1>1, <1>3 DEF NoRequest, Asking, Names
<1>5. NoJob \in Jobs BY <1>3, <1>4 DEF NoJob, Jobs
<1>6. NoChild \in Children BY <1>2 DEF NoChild, Children, ChildPlaces, ChildStates
<1>7. \A r \in Requests : r \in Asking BY DelegationAssumption DEF Asking
<1>8. QED BY <1>2, <1>4, <1>5, <1>6, <1>7 DEF Costs, Zero

(* What a child does is counted. *)
LEMMA CountedTyped ==
  ASSUME NEW u \in Costs, NEW n \in Nat
  PROVE  /\ [u EXCEPT !.requests = @ + n] \in Costs
         /\ [u EXCEPT !.calls = @ + n] \in Costs
         /\ [u EXCEPT !.steps = @ + n] \in Costs
<1>1. u.steps \in Nat /\ u.requests \in Nat /\ u.calls \in Nat BY DEF Costs
<1>2. u.steps + n \in Nat /\ u.requests + n \in Nat /\ u.calls + n \in Nat BY <1>1
<1>3. QED BY <1>2 DEF Costs

(* Delegations are numbered by naturals. *)
LEMMA NewIdTyped == ASSUME events \in Seq(Entries) PROVE NewId \in Nat \ {0}
<1> DEFINE R == {i \in DOMAIN events : events[i].type = "requested"}
<1>1. IsFiniteSet(DOMAIN events)
  <2>1. DOMAIN events = 1..Len(events) OBVIOUS
  <2>2. QED BY <2>1, FS_Interval
<1>2. IsFiniteSet(R) BY <1>1, FS_Subset
<1>3. Cardinality(R) \in Nat BY <1>2, FS_CardinalityType
<1>4. QED BY <1>3 DEF NewId

(* An event that is logged leaves a log; a record, a list of records and sums. *)
LEMMA LoggedTyped ==
  ASSUME Typed, NEW t \in Kinds, NEW n \in Nat, NEW d \in Nat, LogEvent(t, n, d)
  PROVE  events' \in Seq(Entries)
<1>1. Event(t, n, d) \in Entries BY DEF Event, Entries
<1>2. QED BY <1>1 DEF Typed, LogEvent

LEMMA RecordedTyped ==
  ASSUME Typed, NEW n \in Nat, NEW status \in Statuses, NEW cost \in Costs, Recorded(n, status, cost)
  PROVE  records' \in Seq(Accounts) /\ usage' \in Costs /\ charge' \in Costs
<1>1. [id |-> n, status |-> status, used |-> cost] \in Accounts BY DEF Accounts
<1>2. QED BY <1>1, PlusOf DEF Typed, Recorded

(* Every step keeps types and places. *)
LEMMA TypedStep ==
  ASSUME Typed, Standing, [Next]_vars
  PROVE  Typed' /\ Standing'
<1> USE DEF Typed, Standing, parentVars, moneyVars, bookVars
<1>z. /\ Zero \in Costs /\ NoJob \in Jobs /\ NoChild \in Children
      /\ [Zero EXCEPT !.steps = 1] \in Costs
  BY ValuesTyped
<1>n. MaxBatch \in Nat /\ MaxChildBatch \in Nat /\ MaxTurns \in Nat BY DelegationAssumption
<1>v. CASE UNCHANGED vars BY <1>v DEF vars
<1>1. CASE StartTurn
  BY <1>1, <1>z, <1>n DEF StartTurn
<1>2. CASE LeaveLoop
  BY <1>2, <1>z, <1>n DEF LeaveLoop, EndTurn
<1>3. CASE NextStep
  <2>1. PICK n \in 1..MaxBatch :
          /\ batch' = n
          /\ spent' = Plus(spent, [steps |-> 0, requests |-> 1, calls |-> n])
          /\ turnCost' = Plus(turnCost, [steps |-> 0, requests |-> 1, calls |-> n])
    BY <1>3 DEF NextStep
  <2>2. [steps |-> 0, requests |-> 1, calls |-> n] \in Costs BY DEF Costs
  <2>3. spent' \in Costs /\ turnCost' \in Costs BY <2>1, <2>2, PlusOf
  <2>4. batch' \in 0..MaxBatch BY <2>1, <1>n
  <2>5. QED BY <1>3, <1>z, <2>3, <2>4 DEF NextStep
<1>4. CASE Dispatch
  <2>1. PICK r \in Requests : job' = [NoJob EXCEPT !.id = NewId, !.req = r] BY <1>4 DEF Dispatch
  <2>2. r \in Asking BY DelegationAssumption DEF Asking
  <2>3. NewId \in Nat BY NewIdTyped
  <2>4. job' \in Jobs BY <2>1, <2>2, <2>3, <1>z DEF Jobs
  <2>5. events' \in Seq(Entries) BY <1>4, <2>3, LoggedTyped DEF Kinds, Dispatch
  <2>6. batch' \in 0..MaxBatch BY <1>4, <1>n DEF Dispatch
  <2>7. QED BY <1>4, <2>4, <2>5, <2>6 DEF Dispatch
<1>5. CASE EndStep
  <2>1. Plus(spent, charge) \in Costs BY PlusOf
  <2>2. /\ Plus(Plus(spent, charge), [Zero EXCEPT !.steps = 1]) \in Costs
        /\ Plus(turnCost, [Zero EXCEPT !.steps = 1]) \in Costs
        /\ Plus(charged, charge) \in Costs
    BY <2>1, <1>z, PlusOf
  <2>3. batch' \in 0..MaxBatch BY <1>5, <1>n DEF EndStep
  <2>4. CASE aborted BY <1>5, <1>n, <2>3, <2>4 DEF EndStep, EndTurn
  <2>5. CASE ~aborted BY <1>5, <1>z, <2>2, <2>3, <2>5 DEF EndStep
  <2>6. QED BY <2>4, <2>5
<1>6. CASE RepeatedFailure
  BY <1>6, <1>n DEF RepeatedFailure, EndTurn
<1>7. CASE Refuse
  <2>1. PICK why \in {"denied", "budget_exceeded", "cancelled"} :
          job' = [job EXCEPT !.status = why] /\ LogEvent(RefusalEvent(why), job.id, 1)
    <3>1. Refusal(job.req, 1) \in {"denied", "budget_exceeded", "cancelled", "none"} BY DEF Refusal
    <3>2. QED BY <1>7, <3>1 DEF Refuse
  <2>2. job' \in Jobs /\ job'.status = why BY <2>1 DEF Jobs, Statuses
  <2>3. job.id \in Nat /\ RefusalEvent(why) \in Kinds BY DEF Jobs, RefusalEvent, Kinds
  <2>4. events' \in Seq(Entries) BY <2>1, <2>3, LoggedTyped
  <2>5. QED BY <1>7, <2>1, <2>2, <2>4 DEF Refuse, Statuses
<1>8. CASE Refused
  <2>1. job.id \in Nat BY DEF Jobs
  <2>2. records' \in Seq(Accounts) /\ usage' \in Costs /\ charge' \in Costs
    BY <1>8, <1>z, <2>1, RecordedTyped DEF Refused
  <2>3. QED BY <1>8, <2>2 DEF Refused
<1>9. CASE Admit
  <2>1. job.req.agent \in Agents BY <1>9 DEF Admit, Refusal
  <2>2. job.req \in [agent : Agents, task : Tasks, asked : Spending]
    BY <2>1 DEF Jobs, Asking
  <2>3. Granted(job.req) \in Spending BY <2>2, GrantedOf
  <2>4. job' \in Jobs BY <1>9, <2>3 DEF Admit, Jobs
  <2>5. events' \in Seq(Entries) BY <1>9, LoggedTyped DEF Admit, Jobs, Kinds
  <2>6. QED BY <1>9, <2>4, <2>5 DEF Admit
<1>10. CASE RunChild
  <2>1. child' \in Children /\ child'.at = "looping" /\ child'.state = "running"
    BY <1>10, <1>z DEF RunChild, Children, ChildPlaces, ChildStates
  <2>2. QED BY <1>10, <2>1 DEF RunChild
<1>11. CASE ChildReturns
  <2>1. StatusOf(child.state) \in Statuses BY <1>11 DEF ChildReturns, StatusOf, Statuses
  <2>2. /\ job' = [job EXCEPT !.status = StatusOf(child.state)]
        /\ repeats' = IF StatusOf(child.state) = "completed" THEN repeats
                      ELSE [repeats EXCEPT ![Key(job.req)] = @ + 1]
        /\ LogEvent(EventFor(StatusOf(child.state)), job.id, 1)
    BY <1>11 DEF ChildReturns
  <2>3. job' \in Jobs /\ job'.status \in Statuses BY <2>1, <2>2 DEF Jobs
  <2>4. Key(job.req) \in Names \X Tasks BY DEF Jobs, Asking, Key
  <2>5. repeats' \in [Names \X Tasks -> Nat] BY <2>2, <2>4
  <2>6. EventFor(StatusOf(child.state)) \in Kinds BY DEF EventFor, Kinds
  <2>7. job.id \in Nat BY DEF Jobs
  <2>8. events' \in Seq(Entries) BY <2>2, <2>6, <2>7, LoggedTyped
  <2>9. QED BY <1>11, <2>3, <2>5, <2>8 DEF ChildReturns
<1>12. CASE ChildCrashes
  <2>1. job' \in Jobs /\ job'.status \in Statuses BY <1>12 DEF ChildCrashes, Jobs, Statuses
  <2>2. job.id \in Nat BY DEF Jobs
  <2>3. events' \in Seq(Entries) BY <1>12, <2>2, LoggedTyped DEF Kinds, ChildCrashes
  <2>4. QED BY <1>12, <2>1, <2>3 DEF ChildCrashes
<1>13. CASE Close
  <2>1. job.id \in Nat BY DEF Jobs
  <2>2. [child.used EXCEPT !.steps = 0] \in Costs BY DEF Children, Costs
  <2>3. records' \in Seq(Accounts) /\ usage' \in Costs /\ charge' \in Costs
    BY <1>13, <2>1, <2>2, RecordedTyped DEF Close
  <2>4. turnCost' \in Costs BY <1>13, <2>2, PlusOf DEF Close
  <2>5. QED BY <1>13, <1>z, <2>3, <2>4 DEF Close, NoChild
<1>14. CASE ChildAsks
  <2>1. child' \in Children BY <1>14 DEF ChildAsks, Children, ChildPlaces
  <2>2. QED BY <1>14, <2>1 DEF ChildAsks, Children
<1>15. CASE ChildStops
  <2>1. child' \in Children /\ child'.at = "done" /\ child'.state \in {"cancelled", "overBudget"}
    BY <1>15 DEF ChildStops, Ended, Children, ChildPlaces, ChildStates
  <2>2. QED BY <1>15, <2>1 DEF ChildStops
<1>16. CASE ChildHears
  <2>1. DEFINE heard == [child EXCEPT !.used.requests = @ + 1]
  <2>2. heard \in Children /\ heard.at = child.at /\ heard.state = child.state
    <3>1. child.used \in Costs BY DEF Children
    <3>2. [child.used EXCEPT !.requests = @ + 1] \in Costs BY <3>1, CountedTyped
    <3>3. heard = [child EXCEPT !.used = [child.used EXCEPT !.requests = @ + 1]] BY DEF Children
    <3>4. QED BY <3>2, <3>3 DEF Children
  <2>3. CASE child' = [heard EXCEPT !.at = "done", !.state = "cancelled"]
    <3>1. child' \in Children /\ child'.at = "done" /\ child'.state = "cancelled"
      BY <2>2, <2>3 DEF Children, ChildPlaces, ChildStates
    <3>2. QED BY <1>16, <3>1 DEF ChildHears
  <2>4. ASSUME NEW end \in {"completed", "failed"}, child' = [heard EXCEPT !.at = "done", !.state = end]
        PROVE Typed' /\ Standing'
    <3>1. child' \in Children /\ child'.at = "done" /\ child'.state = end
      BY <2>2, <2>4 DEF Children, ChildPlaces, ChildStates
    <3>2. QED BY <1>16, <3>1 DEF ChildHears
  <2>5. CASE child' = [heard EXCEPT !.at = "looping"]
    <3>1. child' \in Children /\ child'.at = "looping" /\ child'.state = child.state
      BY <2>2, <2>5 DEF Children, ChildPlaces, ChildStates
    <3>2. QED BY <1>16, <3>1 DEF ChildHears
  <2>6. ASSUME NEW n \in 1..MaxChildBatch, child' = [heard EXCEPT !.at = "batch", !.used.calls = @ + n]
        PROVE Typed' /\ Standing'
    <3>1. heard.used \in Costs BY <2>2 DEF Children
    <3>0. n \in Nat BY <1>n
    <3>2. [heard.used EXCEPT !.calls = @ + n] \in Costs BY <3>0, <3>1, CountedTyped
    <3>3. child' = [heard EXCEPT !.at = "batch", !.used = [heard.used EXCEPT !.calls = @ + n]] BY <2>6 DEF Children
    <3>4. child' \in Children /\ child'.at = "batch" /\ child'.state = child.state
      BY <2>2, <3>2, <3>3 DEF Children, ChildPlaces
    <3>5. QED BY <1>16, <3>4 DEF ChildHears
  <2>7. QED BY <1>16, <2>3, <2>4, <2>5, <2>6 DEF ChildHears
<1>17. CASE ChildDelegates
  <2>1. NewId \in Nat BY NewIdTyped
  <2>2. child' \in Children BY <1>17, <2>1 DEF ChildDelegates, Children, ChildPlaces
  <2>3. events' \in Seq(Entries) BY <1>17, <2>1, LoggedTyped DEF Kinds, ChildDelegates
  <2>4. QED BY <1>17, <2>2, <2>3 DEF ChildDelegates, Children
<1>18. CASE ChildDenied
  <2>1. child.nested \in Nat BY DEF Children
  <2>2. child' \in Children BY <1>18 DEF ChildDenied, Children, ChildPlaces
  <2>3. events' \in Seq(Entries) BY <1>18, <2>1, LoggedTyped DEF Kinds, ChildDenied
  <2>4. QED BY <1>18, <2>2, <2>3 DEF ChildDenied, Children
<1>19. CASE ChildTold
  <2>1. child.nested \in Nat BY DEF Children
  <2>2. child' \in Children BY <1>19 DEF ChildTold, Children, ChildPlaces
  <2>3. records' \in Seq(Accounts) /\ usage' \in Costs /\ charge' \in Costs
    BY <1>19, <1>z, <2>1, RecordedTyped DEF ChildTold, Statuses
  <2>4. QED BY <1>19, <2>2, <2>3 DEF ChildTold, Children
<1>20. CASE ChildSteps
  <2>1. CASE child.state = "cancelled"
    <3>1. child' \in Children /\ child'.at = "done" /\ child'.state = "cancelled"
      BY <1>20, <2>1 DEF ChildSteps, Ended, Children, ChildPlaces
    <3>2. QED BY <1>20, <3>1 DEF ChildSteps
  <2>2. CASE child.state # "cancelled"
    <3>1. child.used \in Costs /\ [child.used EXCEPT !.steps = @ + 1] \in Costs BY CountedTyped DEF Children
    <3>2. child' = [child EXCEPT !.at = "looping", !.used = [child.used EXCEPT !.steps = @ + 1]]
      BY <1>20, <2>2 DEF ChildSteps, Children
    <3>3. child' \in Children /\ child'.at = "looping" /\ child'.state = child.state
      BY <3>1, <3>2 DEF Children, ChildPlaces
    <3>4. QED BY <1>20, <3>3 DEF ChildSteps
  <2>3. QED BY <2>1, <2>2
<1>21. CASE Cancel
  <2>1. /\ child' \in Children /\ child'.at = child.at
        /\ child'.state = child.state \/ (child'.state = "cancelled" /\ child.state = "running")
    BY <1>21 DEF Cancel, Children, ChildStates
  <2>2. QED BY <1>21, <2>1 DEF Cancel
<1>22. QED
  BY <1>v, <1>1, <1>2, <1>3, <1>4, <1>5, <1>6, <1>7, <1>8, <1>9, <1>10, <1>11, <1>12, <1>13, <1>14, <1>15, <1>16, <1>17, <1>18, <1>19, <1>20, <1>21 DEF Next, Parent, Service, Child

(* At the start. *)
LEMMA TypedInit == Init => Typed /\ Standing
<1>1. SUFFICES ASSUME Init PROVE Typed /\ Standing OBVIOUS
<1>2. Zero \in Costs /\ NoJob \in Jobs /\ NoChild \in Children BY ValuesTyped
<1>3. MaxBatch \in Nat /\ MaxTurns \in Nat BY DelegationAssumption
<1>4. repeats \in [Names \X Tasks -> Nat] BY <1>1 DEF Init
<1>5. events \in Seq(Entries) /\ records \in Seq(Accounts) BY <1>1 DEF Init
<1>6. Typed
  <2>1. child \in Children /\ job \in Jobs BY <1>1, <1>2 DEF Init
  <2>2. batch \in 0..MaxBatch /\ turns \in 0..MaxTurns BY <1>1, <1>3 DEF Init
  <2>3. /\ frozen \in Costs /\ spent \in Costs /\ charge \in Costs /\ usage \in Costs
        /\ charged \in Costs /\ turnCost \in Costs
    BY <1>1, <1>2 DEF Init
  <2>4. /\ at = "idle"
        /\ aborted \in BOOLEAN /\ listening \in BOOLEAN /\ missed \in BOOLEAN
    BY <1>1 DEF Init
  <2>5. QED BY <1>4, <1>5, <2>1, <2>2, <2>3, <2>4 DEF Typed
<1>7. Standing BY <1>1 DEF Init, Standing, NoChild
<1>8. QED BY <1>6, <1>7

LEMMA AlwaysTyped == Spec => [](Typed /\ Standing)
<1>1. Typed /\ Standing /\ [Next]_vars => Typed' /\ Standing' BY TypedStep
<1>2. QED BY TypedInit, <1>1, PTL DEF Spec

(* Every variable keeps its kind of value, for every batch, budget and number of
   turns. *)
THEOREM Typing == Spec => []TypeOK
<1>1. Typed /\ Standing => TypeOK BY TypedIsTypeOK
<1>2. QED BY AlwaysTyped, <1>1, PTL

-----------------------------------------------------------------------------
(* A cancelled child.                                                      *)

(* A cancellation that a listener heard has reached the child, and one that comes
   before the listener is remembered as missed. *)
Listened ==
  /\ aborted /\ ~missed => child.state # "running"
  /\ at \in {"requesting", "refusing", "starting"} /\ aborted => missed

(* It stays so: no action sets a child running behind a cancellation it missed. *)
LEMMA ListenedStep ==
  ASSUME Typed, Standing, Listened, [Next]_vars
  PROVE  Listened'
<1> USE DEF Typed, Standing, Listened, parentVars, moneyVars, bookVars
<1>1. CASE UNCHANGED vars BY <1>1 DEF vars
<1>2. CASE Parent
  <2>1. CASE StartTurn BY <2>1 DEF StartTurn
  <2>2. CASE LeaveLoop BY <2>2 DEF LeaveLoop, EndTurn
  <2>3. CASE NextStep BY <2>3 DEF NextStep
  <2>4. CASE Dispatch BY <2>4 DEF Dispatch
  <2>5. CASE EndStep BY <2>5 DEF EndStep, EndTurn
  <2>6. CASE RepeatedFailure BY <2>6 DEF RepeatedFailure, EndTurn
  <2>7. QED BY <1>2, <2>1, <2>2, <2>3, <2>4, <2>5, <2>6 DEF Parent
<1>3. CASE Service
  <2>1. CASE Refuse BY <2>1 DEF Refuse
  <2>2. CASE Refused BY <2>2 DEF Refused
  <2>3. CASE Admit BY <2>3 DEF Admit, Refusal
  <2>4. CASE RunChild BY <2>4 DEF RunChild
  <2>5. CASE ChildReturns BY <2>5 DEF ChildReturns
  <2>6. CASE ChildCrashes BY <2>6 DEF ChildCrashes
  <2>7. CASE Close BY <2>7 DEF Close, NoChild
  <2>8. QED BY <1>3, <2>1, <2>2, <2>3, <2>4, <2>5, <2>6, <2>7 DEF Service
<1>4. CASE Child
  <2>1. child'.state = "running" => child.state = "running"
    <3>1. CASE ChildAsks BY <3>1 DEF ChildAsks, Children
    <3>2. CASE ChildStops BY <3>2 DEF ChildStops, Ended, Children
    <3>3. CASE ChildHears BY <3>3 DEF ChildHears, Children
    <3>4. CASE ChildDelegates BY <3>4 DEF ChildDelegates, Children
    <3>5. CASE ChildDenied BY <3>5 DEF ChildDenied, Children
    <3>6. CASE ChildTold BY <3>6 DEF ChildTold, Children
    <3>7. CASE ChildSteps BY <3>7 DEF ChildSteps, Ended, Children
    <3>8. QED BY <1>4, <3>1, <3>2, <3>3, <3>4, <3>5, <3>6, <3>7 DEF Child
  <2>2. UNCHANGED <<at, aborted, missed>>
    BY <1>4 DEF Child, ChildAsks, ChildStops, ChildHears, ChildDelegates, ChildDenied, ChildTold, ChildSteps
  <2>3. QED BY <2>1, <2>2
<1>5. CASE Cancel
  <2>1. listening => child'.state # "running" BY <1>5 DEF Cancel, Children
  <2>2. ~listening => missed' BY <1>5 DEF Cancel
  <2>3. at \notin {"running", "closing"} => ~listening OBVIOUS
  <2>4. QED BY <1>5, <2>1, <2>2, <2>3 DEF Cancel
<1>6. QED BY <1>1, <1>2, <1>3, <1>4, <1>5 DEF Next

(* A child whose parent is cancelled under its listener sends no request any more:
   the action property CancelReachesChild, for every number of turns and calls. *)
THEOREM CancelledChildAsksNothing == Spec => CancelReachesChild
<1>1. Init => Listened BY DEF Init, Listened, NoChild
<1>2. Typed /\ Standing /\ Listened /\ [Next]_vars => Listened' BY ListenedStep
<1>3. Spec => []Listened BY AlwaysTyped, <1>1, <1>2, PTL DEF Spec
<1>4. Typed /\ Standing /\ Listened /\ [Next]_vars
        => [child.at # "asking" /\ child'.at = "asking" => ~aborted \/ missed]_vars
  <2>1. SUFFICES ASSUME Typed, Standing, Listened, Next, child.at # "asking", child'.at = "asking"
                 PROVE  ~aborted \/ missed
    OBVIOUS
  <2>2. CASE ChildAsks BY <2>1, <2>2 DEF ChildAsks, Listened
  <2>3. CASE Parent \/ Refuse \/ Refused \/ Admit \/ ChildReturns \/ ChildCrashes
    <3>1. child' = child
      BY <2>3 DEF Parent, StartTurn, LeaveLoop, NextStep, Dispatch, EndStep, RepeatedFailure,
                  Refuse, Refused, Admit, ChildReturns, ChildCrashes
    <3>2. QED BY <2>1, <3>1
  <2>4. CASE RunChild
    <3>1. NoChild \in Children BY ValuesTyped
    <3>2. child'.at = "looping" BY <2>4, <3>1 DEF RunChild, Children
    <3>3. QED BY <2>1, <3>2
  <2>5. CASE Close BY <2>1, <2>5 DEF Close, NoChild
  <2>6. CASE ChildStops \/ ChildDelegates \/ ChildDenied \/ ChildTold \/ ChildSteps
    BY <2>1, <2>6 DEF ChildStops, ChildDelegates, ChildDenied, ChildTold, ChildSteps, Ended, Typed, Children
  <2>7. CASE ChildHears
    BY <2>1, <2>7 DEF ChildHears, Typed, Children
  <2>8. CASE Cancel BY <2>1, <2>8 DEF Cancel, Typed, Children
  <2>9. QED BY <2>1, <2>2, <2>3, <2>4, <2>5, <2>6, <2>7, <2>8 DEF Next, Service, Child
<1>5. QED BY AlwaysTyped, <1>3, <1>4, PTL DEF Spec, CancelReachesChild

-----------------------------------------------------------------------------
(* What a turn and its children spend.                                     *)

InBatch == {"batch", "requesting", "refusing", "starting", "running", "closing"}

(* What a child of this step can be granted at most, and how many children of
   this batch have not been counted yet. *)
Left == RootBudget.requests - frozen.requests
Share == IF Grant.requests <= Left THEN Grant.requests ELSE Left
Owing == IF at = "batch" THEN batch ELSE batch + 1

(* What the turn owes is in its tracker or waits to be charged; the request of the
   step and a share for each child still to be counted stay within the snapshot the
   step began with. *)
PaidFor ==
  /\ at # "idle" => turnCost.requests <= spent.requests + charge.requests
  /\ at = "looping" => turnCost.requests <= spent.requests
  /\ at \in InBatch =>
       /\ frozen.requests < RootBudget.requests
       /\ turnCost.requests + Owing * Share <= frozen.requests + 1 + MaxBatch * Share

(* A child is granted a share at most, and stays within it. *)
Within ==
  /\ at \in {"starting", "running", "closing"} =>
       0 < job.limit.requests /\ job.limit.requests <= Share
  /\ at \in {"running", "closing"} => child.used.requests <= job.limit.requests
  /\ child.at = "asking" => child.used.requests < job.limit.requests

Accounted == usage = Plus(charged, charge)

(* Multiplication by shares. *)
LEMMA Shares ==
  ASSUME NEW m \in Nat, NEW n \in Nat, NEW a \in Nat, NEW b \in Nat, a <= b, n >= 1
  PROVE  /\ m * a \in Nat /\ (m + 1) * a = m * a + a
         /\ n * a <= (n - 1) * b + a
<1>1. m * a \in Nat /\ (m + 1) * a = m * a + a OBVIOUS
<1>2. n * a = (n - 1) * a + a OBVIOUS
<1>3. (n - 1) * a <= (n - 1) * b OBVIOUS
<1>4. QED BY <1>1, <1>2, <1>3

(* More children cost no less. *)
LEMMA MoreShares ==
  ASSUME NEW m \in Nat, NEW n \in Nat, NEW a \in Nat, m <= n
  PROVE  m * a \in Nat /\ n * a \in Nat /\ m * a <= n * a
  OBVIOUS

(* The requests of a sum. *)
LEMMA PlusRequests ==
  \A u, v \in Costs : Plus(u, v).requests = u.requests + v.requests
  BY DEF Plus, Costs

(* What the budgets of a typed state are. *)
LEMMA RequestsAre ==
  ASSUME Typed
  PROVE  /\ frozen.requests \in Nat /\ spent.requests \in Nat /\ charge.requests \in Nat
         /\ turnCost.requests \in Nat /\ child.used.requests \in Nat
         /\ RootBudget.requests \in Int /\ RootBudget.requests > 0 /\ job.limit.requests \in Int
         /\ Grant.requests \in Nat /\ Share \in Int /\ Share <= Grant.requests /\ Share <= Left
         /\ MaxBatch \in Nat /\ MaxBatch >= 1 /\ batch \in Nat
<1>1. /\ frozen.requests \in Nat /\ spent.requests \in Nat /\ charge.requests \in Nat
      /\ turnCost.requests \in Nat
  BY DEF Typed, Costs
<1>2. child.used.requests \in Nat BY DEF Typed, Children, Costs
<1>3. job.limit.requests \in Int BY DEF Typed, Jobs, Spending
<1>4. RootBudget.requests \in Int /\ RootBudget.requests > 0
  <2>1. RootBudget \in Spending BY DelegationAssumption
  <2>2. "requests" \in DOMAIN RootBudget BY <2>1 DEF Spending
  <2>3. QED BY <2>1, <2>2, DelegationAssumption DEF Spending
<1>5. MaxBatch \in Nat /\ MaxBatch >= 1 /\ batch \in Nat BY DelegationAssumption DEF Typed
<1>6. Grant.requests \in Nat BY GrantOf
<1>7. QED BY <1>1, <1>2, <1>3, <1>4, <1>5, <1>6 DEF Share, Left

(* The account is kept: what one action adds to the cost of the turn it adds to
   what the turn will pay, and takes from what the batch still may cost. *)
LEMMA PaidForStep ==
  ASSUME Typed, Typed', Standing, Within, PaidFor, [Next]_vars
  PROVE  PaidFor'
<1> USE DEF PaidFor, Owing, InBatch, parentVars, moneyVars, bookVars
<1>a. /\ frozen.requests \in Nat /\ spent.requests \in Nat /\ charge.requests \in Nat
      /\ turnCost.requests \in Nat /\ child.used.requests \in Nat
      /\ RootBudget.requests \in Int /\ RootBudget.requests > 0 /\ job.limit.requests \in Int
      /\ Share \in Int /\ Share <= Left
      /\ MaxBatch \in Nat /\ MaxBatch >= 1 /\ batch \in Nat
  BY RequestsAre
<1>b. at \in InBatch => Share \in Nat BY <1>a, GrantOf DEF Share, Left
<1>c. frozen' = frozen => Share' = Share BY DEF Share, Left
<1>d. ASSUME UNCHANGED <<frozen, batch, spent, turnCost>>, charge'.requests = charge.requests,
             at' = at \/ (at \in InBatch \ {"batch"} /\ at' \in InBatch \ {"batch"})
      PROVE  PaidFor'
  BY <1>c, <1>d
<1>e. Zero \in Costs /\ Zero.requests = 0 BY ValuesTyped DEF Zero
<1>1. CASE UNCHANGED vars BY <1>1, <1>d DEF vars
<1>2. CASE StartTurn BY <1>2, <1>a, <1>e DEF StartTurn
<1>3. CASE LeaveLoop BY <1>3 DEF LeaveLoop, EndTurn
<1>4. CASE NextStep
  <2>1. PICK n \in 1..MaxBatch :
          /\ batch' = n
          /\ spent' = Plus(spent, [steps |-> 0, requests |-> 1, calls |-> n])
          /\ turnCost' = Plus(turnCost, [steps |-> 0, requests |-> 1, calls |-> n])
    BY <1>4 DEF NextStep
  <2>2. n \in Nat /\ n <= MaxBatch BY <1>a
  <2>3. [steps |-> 0, requests |-> 1, calls |-> n] \in Costs BY <2>2 DEF Costs
  <2>4. spent'.requests = spent.requests + 1 /\ turnCost'.requests = turnCost.requests + 1
    <3>1. spent \in Costs /\ turnCost \in Costs BY DEF Typed
    <3>2. QED BY <2>1, <2>3, <3>1, PlusRequests
  <2>5. spent.requests < RootBudget.requests
    <3>1. "requests" \in DOMAIN Zero BY DEF Zero
    <3>2. QED BY <1>4, <1>a, <3>1 DEF NextStep, Reached
  <2>6. frozen' = spent /\ at' = "batch" /\ charge' = charge /\ at = "looping" BY <1>4 DEF NextStep
  <2>7. Share' \in Nat BY <1>a, <2>5, <2>6, GrantOf DEF Share, Left
  <2>8. n * Share' <= MaxBatch * Share' /\ n * Share' \in Nat /\ MaxBatch * Share' \in Nat
    BY <2>2, <2>7, <1>a, MoreShares
  <2>10. Owing' = n BY <2>1, <2>6
  <2>11. frozen'.requests + 1 >= turnCost'.requests BY <2>4, <2>6, <1>a
  <2>12. turnCost'.requests + Owing' * Share' <= frozen'.requests + 1 + MaxBatch * Share'
    BY <2>8, <2>10, <2>11, <2>4, <2>6, <1>a
  <2>13. QED BY <2>4, <2>5, <2>6, <2>12, <1>a
<1>5. CASE Dispatch
  <2>1. Owing' = Owing BY <1>5, <1>a DEF Dispatch
  <2>2. QED BY <1>5, <1>c, <2>1 DEF Dispatch
<1>6. CASE EndStep
  <2>1. CASE aborted BY <1>6, <2>1 DEF EndStep, EndTurn
  <2>2. CASE ~aborted
    <3>1. PICK step \in Costs : step = [Zero EXCEPT !.steps = 1] /\ step.requests = 0
      BY ValuesTyped DEF Zero
    <3>2. /\ at' = "looping" /\ spent' = Plus(Plus(spent, charge), step)
          /\ turnCost' = Plus(turnCost, step) /\ charge' = Zero
      BY <1>6, <2>2, <3>1 DEF EndStep
    <3>3. spent \in Costs /\ charge \in Costs /\ turnCost \in Costs BY DEF Typed
    <3>8. Plus(spent, charge) \in Costs /\ Plus(spent, charge).requests = spent.requests + charge.requests
      BY <3>3, PlusOf, PlusRequests
    <3>4. spent'.requests = Plus(spent, charge).requests + step.requests BY <3>1, <3>2, <3>8, PlusRequests
    <3>5. turnCost'.requests = turnCost.requests + step.requests BY <3>1, <3>2, <3>3, PlusRequests
    <3>6. at # "idle" BY <1>6 DEF EndStep
    <3>7. QED BY <3>1, <3>2, <3>4, <3>5, <3>6, <3>8, <1>a, <1>e
  <2>3. QED BY <2>1, <2>2
<1>7. CASE RepeatedFailure BY <1>7 DEF RepeatedFailure, EndTurn
<1>8. CASE Refuse BY <1>8, <1>d DEF Refuse
<1>9. CASE Refused
  <2>1. charge'.requests = charge.requests
    <3>1. charge \in Costs /\ charge' = Plus(charge, Zero) BY <1>9 DEF Refused, Recorded, Typed
    <3>2. QED BY <3>1, <1>a, <1>e, PlusRequests
  <2>2. at = "refusing" /\ at' = "batch" /\ UNCHANGED <<batch, frozen, spent, turnCost>>
    BY <1>9 DEF Refused
  <2>3. Owing = Owing' + 1 /\ Owing' \in Nat BY <2>2, <1>a
  <2>4. Owing * Share = Owing' * Share + Share BY <2>2, <2>3, <1>a, <1>b
  <2>5. Owing' * Share \in Nat /\ MaxBatch * Share \in Nat BY <2>2, <2>3, <1>a, <1>b
  <2>6. QED BY <2>1, <2>2, <2>4, <2>5, <1>a, <1>b, <1>c
<1>10. CASE Admit BY <1>10, <1>d DEF Admit
<1>11. CASE RunChild BY <1>11, <1>d DEF RunChild
<1>12. CASE ChildReturns BY <1>12, <1>d DEF ChildReturns
<1>13. CASE ChildCrashes BY <1>13, <1>d DEF ChildCrashes
<1>14. CASE Close
  <2>1. PICK cost \in Costs : /\ cost = [child.used EXCEPT !.steps = 0]
                              /\ cost.requests = child.used.requests
    <3>1. child.used \in Costs BY DEF Typed, Children
    <3>2. /\ [child.used EXCEPT !.steps = 0] \in Costs
          /\ [child.used EXCEPT !.steps = 0].requests = child.used.requests
      BY <3>1 DEF Costs
    <3>3. QED BY <3>2
  <2>2. /\ charge'.requests = charge.requests + child.used.requests
        /\ turnCost'.requests = turnCost.requests + child.used.requests
    <3>1. charge \in Costs /\ turnCost \in Costs BY DEF Typed
    <3>2. charge' = Plus(charge, cost) /\ turnCost' = Plus(turnCost, cost)
      BY <1>14, <2>1 DEF Close, Recorded
    <3>3. QED BY <2>1, <3>1, <3>2, PlusRequests, ZenonT(40)
  <2>3. at = "closing" /\ at' = "batch" /\ UNCHANGED <<batch, frozen, spent>> BY <1>14 DEF Close
  <2>4. child.used.requests <= Share BY <2>3, <1>a DEF Within
  <2>5. Owing = Owing' + 1 /\ Owing' \in Nat BY <2>3, <1>a
  <2>6. Owing * Share = Owing' * Share + Share BY <2>3, <2>5, <1>a, <1>b
  <2>7. Owing' * Share \in Nat /\ MaxBatch * Share \in Nat BY <2>3, <2>5, <1>a, <1>b
  <2>8. QED BY <2>2, <2>3, <2>4, <2>6, <2>7, <1>a, <1>b, <1>c
<1>15. CASE Child
  <2>1. at = "running" /\ UNCHANGED <<at, frozen, batch, spent, turnCost>>
    BY <1>15 DEF Child, ChildAsks, ChildStops, ChildHears, ChildDelegates, ChildDenied, ChildTold, ChildSteps
  <2>2. charge'.requests = charge.requests
    <3>1. CASE ChildTold
      <4>1. charge \in Costs /\ charge' = Plus(charge, Zero) BY <3>1 DEF ChildTold, Recorded, Typed
      <4>2. QED BY <4>1, <1>a, <1>e, PlusRequests
    <3>2. CASE ~ChildTold
      BY <1>15, <3>2 DEF Child, ChildAsks, ChildStops, ChildHears, ChildDelegates, ChildDenied, ChildSteps
    <3>3. QED BY <3>1, <3>2
  <2>3. QED BY <2>1, <2>2, <1>d
<1>16. CASE Cancel BY <1>16, <1>d DEF Cancel
<1>17. QED
  BY <1>1, <1>2, <1>3, <1>4, <1>5, <1>6, <1>7, <1>8, <1>9, <1>10, <1>11, <1>12, <1>13, <1>14,
     <1>15, <1>16
  DEF Next, Parent, Service

(* A child is granted a share when it is admitted, and asks only below its limit. *)
LEMMA WithinStep ==
  ASSUME Typed, Standing, PaidFor, Within, [Next]_vars
  PROVE  Within'
<1> USE DEF Standing, Within, parentVars, moneyVars, bookVars
<1>a. /\ child.used.requests \in Nat /\ job.limit.requests \in Int /\ child \in Children
      /\ child.used \in Costs
  BY RequestsAre DEF Typed, Children
<1>c. frozen' = frozen => Share' = Share BY DEF Share, Left
<1>d. ASSUME UNCHANGED <<frozen, job, child>>, at' = at \/ at' \notin {"starting", "running", "closing"},
             child.at # "asking" \/ at' = at
      PROVE  Within'
  BY <1>c, <1>d
<1>e. NoChild \in Children /\ NoChild.used.requests = 0 BY ValuesTyped DEF NoChild, Zero
<1>1. CASE UNCHANGED vars BY <1>1, <1>d DEF vars
<1>2. CASE StartTurn BY <1>2 DEF StartTurn
<1>3. CASE LeaveLoop BY <1>3 DEF LeaveLoop, EndTurn
<1>4. CASE NextStep BY <1>4 DEF NextStep
<1>5. CASE Dispatch BY <1>5 DEF Dispatch
<1>6. CASE EndStep
  <2>1. at = "batch" /\ at' \in {"idle", "looping"} /\ child' = child BY <1>6 DEF EndStep, EndTurn
  <2>2. QED BY <2>1
<1>7. CASE RepeatedFailure BY <1>7 DEF RepeatedFailure, EndTurn
<1>8. CASE Refuse BY <1>8 DEF Refuse
<1>9. CASE Refused BY <1>9 DEF Refused
<1>10. CASE Admit
  <2>1. job.req.agent \in Agents /\ ~Exhausted(Granted(job.req)) BY <1>10 DEF Admit, Refusal
  <2>2. job.req \in [agent : Agents, task : Tasks, asked : Spending]
    BY <2>1 DEF Typed, Jobs, Asking
  <2>3. frozen \in Costs /\ frozen.requests < RootBudget.requests /\ RootBudget.requests \in Int
    BY <1>10, RequestsAre DEF Admit, PaidFor, InBatch, Typed
  <2>4. Remaining(frozen).requests = Left BY <2>3, RemainingOf DEF Left, Costs
  <2>5. Granted(job.req) \in Spending /\ Granted(job.req).requests <= Share
    BY <2>2, <2>3, <2>4, GrantedOf DEF Share
  <2>6. Granted(job.req).requests > 0
    <3>1. "requests" \in DOMAIN Zero BY DEF Zero
    <3>2. Granted(job.req).requests \in Int BY <2>5 DEF Spending
    <3>3. QED BY <2>1, <3>1, <3>2 DEF Exhausted
  <2>7. job'.limit = Granted(job.req) BY <1>10 DEF Admit, Typed, Jobs
  <2>8. at = "requesting" /\ at' = "starting" /\ UNCHANGED <<frozen, child>> BY <1>10 DEF Admit
  <2>9. QED BY <2>5, <2>6, <2>7, <2>8, <1>c
<1>11. CASE RunChild
  <2>1. child'.at = "looping" /\ child'.used.requests = 0 BY <1>11, <1>e DEF RunChild, Children
  <2>2. at = "starting" /\ at' = "running" /\ UNCHANGED <<frozen, job>> BY <1>11 DEF RunChild
  <2>3. QED BY <2>1, <2>2, <1>a, <1>c
<1>12. CASE ChildReturns
  <2>1. job'.limit = job.limit BY <1>12 DEF ChildReturns, Typed, Jobs
  <2>2. at = "running" /\ at' = "closing" /\ UNCHANGED <<frozen, child>> /\ child.at = "done"
    BY <1>12 DEF ChildReturns
  <2>3. QED BY <2>1, <2>2, <1>c
<1>13. CASE ChildCrashes
  <2>1. job'.limit = job.limit BY <1>13 DEF ChildCrashes, Typed, Jobs
  <2>2. at = "running" /\ at' = "closing" /\ UNCHANGED <<frozen, child>> BY <1>13 DEF ChildCrashes
  <2>3. QED BY <2>1, <2>2, <1>c
<1>14. CASE Close BY <1>14, <1>e DEF Close, NoChild
<1>15. CASE Child
  <2>1. at = "running" /\ UNCHANGED <<at, frozen, job>>
    BY <1>15 DEF Child, ChildAsks, ChildStops, ChildHears, ChildDelegates, ChildDenied, ChildTold, ChildSteps
  <2>2. /\ child'.used.requests <= job.limit.requests
        /\ child'.at = "asking" => child'.used.requests < job.limit.requests
    <3>1. CASE ChildAsks
      <4>1. "requests" \in DOMAIN Zero BY DEF Zero
      <4>2. child.used.requests < job.limit.requests
        BY <3>1, <4>1, <1>a DEF ChildAsks, Reached
      <4>3. child'.used = child.used BY <3>1, <1>a DEF ChildAsks, Children
      <4>4. QED BY <4>2, <4>3, <1>a
    <3>2. CASE ChildHears
      <4>1. child'.used.requests = child.used.requests + 1 /\ child'.at # "asking"
        <5>1. DEFINE asked == [child.used EXCEPT !.requests = @ + 1]
                     heard == [child EXCEPT !.used = asked]
        <5>2. asked \in Costs /\ asked.requests = child.used.requests + 1
          BY <1>a, CountedTyped DEF Costs
        <5>3. heard \in Children /\ heard.used = asked BY <5>2, <1>a DEF Children
        <5>4. heard = [child EXCEPT !.used.requests = @ + 1] BY <1>a DEF Children
        <5>5. \/ child' = [heard EXCEPT !.at = "done", !.state = "cancelled"]
              \/ \E end \in {"completed", "failed"} : child' = [heard EXCEPT !.at = "done", !.state = end]
              \/ child' = [heard EXCEPT !.at = "looping"]
              \/ \E n \in 1..MaxChildBatch : child' = [heard EXCEPT !.at = "batch", !.used.calls = @ + n]
          BY <3>2, <5>4 DEF ChildHears
        <5>6. ASSUME NEW n \in 1..MaxChildBatch, child' = [heard EXCEPT !.at = "batch", !.used.calls = @ + n]
              PROVE  child'.used.requests = asked.requests /\ child'.at = "batch"
          <6>1. n \in Nat BY DelegationAssumption
          <6>2. [asked EXCEPT !.calls = @ + n] \in Costs /\ [asked EXCEPT !.calls = @ + n].requests = asked.requests
            BY <5>2, <6>1, CountedTyped DEF Costs
          <6>3. child' = [heard EXCEPT !.at = "batch", !.used = [asked EXCEPT !.calls = @ + n]]
            BY <5>3, <5>6 DEF Children
          <6>4. QED BY <5>3, <6>2, <6>3 DEF Children
        <5>7. child'.used.requests = asked.requests /\ child'.at # "asking"
          BY <5>3, <5>5, <5>6 DEF Children
        <5>8. QED BY <5>2, <5>7
      <4>2. child.at = "asking" BY <3>2 DEF ChildHears
      <4>3. QED BY <4>1, <4>2, <1>a
    <3>3. CASE ~ChildAsks /\ ~ChildHears
      <4>1. child'.used.requests = child.used.requests /\ child'.at # "asking"
        <5>1. CASE ChildStops BY <5>1, <1>a DEF ChildStops, Ended, Children
        <5>2. CASE ChildDelegates BY <5>2, <1>a DEF ChildDelegates, Children
        <5>3. CASE ChildDenied BY <5>3, <1>a DEF ChildDenied, Children
        <5>4. CASE ChildTold BY <5>4, <1>a DEF ChildTold, Children
        <5>5. CASE ChildSteps
          <6>1. CASE child.state = "cancelled" BY <5>5, <6>1, <1>a DEF ChildSteps, Ended, Children
          <6>2. CASE child.state # "cancelled"
            <7>1. PICK used \in Costs : /\ used = [child.used EXCEPT !.steps = @ + 1]
                                        /\ used.requests = child.used.requests
              <8>1. [child.used EXCEPT !.steps = @ + 1] \in Costs BY <1>a, CountedTyped
              <8>2. [child.used EXCEPT !.steps = @ + 1].requests = child.used.requests BY <1>a DEF Costs
              <8>3. QED BY <8>1, <8>2
            <7>2. child' = [child EXCEPT !.at = "looping", !.used = used]
              BY <5>5, <6>2, <7>1, <1>a DEF ChildSteps, Children
            <7>3. QED BY <7>1, <7>2, <1>a DEF Children
          <6>3. QED BY <6>1, <6>2
        <5>6. QED BY <1>15, <3>3, <5>1, <5>2, <5>3, <5>4, <5>5 DEF Child
      <4>2. QED BY <2>1, <4>1
    <3>4. QED BY <3>1, <3>2, <3>3
  <2>3. QED BY <2>1, <2>2, <1>c
<1>16. CASE Cancel
  <2>1. child'.at = child.at /\ child'.used = child.used /\ UNCHANGED <<at, job, frozen>>
    BY <1>16, <1>a DEF Cancel, Children
  <2>2. QED BY <2>1, <1>c
<1>17. QED
  BY <1>1, <1>2, <1>3, <1>4, <1>5, <1>6, <1>7, <1>8, <1>9, <1>10, <1>11, <1>12, <1>13, <1>14,
     <1>15, <1>16
  DEF Next, Parent, Service

(* Sums of costs: nothing added, and the order of adding. *)
LEMMA PlusSums ==
  ASSUME NEW u \in Costs, NEW v \in Costs, NEW w \in Costs
  PROVE  Plus(u, Zero) = u /\ Plus(Plus(u, v), w) = Plus(u, Plus(v, w))
<1>1. Zero \in Costs /\ Zero.steps = 0 /\ Zero.requests = 0 /\ Zero.calls = 0
  BY ValuesTyped DEF Zero
<1>2. Plus(u, Zero) = u
  <2>1. Plus(u, Zero) = [steps |-> u.steps + 0, requests |-> u.requests + 0, calls |-> u.calls + 0]
    BY <1>1, PlusOf
  <2>2. QED BY <2>1 DEF Costs
<1>3. PICK a \in Costs, b \in Costs : a = Plus(u, v) /\ b = Plus(v, w) BY PlusOf
<1>4. /\ a.steps = u.steps + v.steps /\ b.steps = v.steps + w.steps
      /\ a.requests = u.requests + v.requests /\ b.requests = v.requests + w.requests
      /\ a.calls = u.calls + v.calls /\ b.calls = v.calls + w.calls
  <2>1. a = [steps |-> u.steps + v.steps, requests |-> u.requests + v.requests, calls |-> u.calls + v.calls]
    BY <1>3, PlusOf
  <2>2. b = [steps |-> v.steps + w.steps, requests |-> v.requests + w.requests, calls |-> v.calls + w.calls]
    BY <1>3, PlusOf
  <2>3. QED BY <2>1, <2>2
<1>5. Plus(a, w) = [steps |-> a.steps + w.steps, requests |-> a.requests + w.requests, calls |-> a.calls + w.calls]
  BY PlusOf
<1>6. Plus(u, b) = [steps |-> u.steps + b.steps, requests |-> u.requests + b.requests, calls |-> u.calls + b.calls]
  BY PlusOf
<1>7. a.steps + w.steps = u.steps + b.steps /\ a.requests + w.requests = u.requests + b.requests
      /\ a.calls + w.calls = u.calls + b.calls
  BY <1>4 DEF Costs
<1>8. QED BY <1>2, <1>3, <1>5, <1>6, <1>7

(* What is recorded is owed once, and what is charged is owed no more. *)
LEMMA AccountedStep ==
  ASSUME Typed, Accounted, [Next]_vars
  PROVE  Accounted'
<1> USE DEF Accounted, parentVars, moneyVars, bookVars
<1>a. usage \in Costs /\ charge \in Costs /\ charged \in Costs /\ Zero \in Costs
  BY ValuesTyped DEF Typed
<1>b. ASSUME NEW n, NEW status, NEW cost \in Costs, Recorded(n, status, cost), charged' = charged
      PROVE  Accounted'
  BY <1>a, <1>b, PlusSums DEF Recorded
<1>c. (UNCHANGED moneyVars) => Accounted' OBVIOUS
<1>1. CASE UNCHANGED vars BY <1>1, <1>c DEF vars
<1>2. CASE StartTurn \/ LeaveLoop \/ NextStep \/ Dispatch \/ RepeatedFailure
  BY <1>2, <1>c DEF StartTurn, LeaveLoop, NextStep, Dispatch, RepeatedFailure
<1>3. CASE EndStep
  <2>1. CASE aborted BY <1>3, <2>1 DEF EndStep
  <2>2. CASE ~aborted
    <3>1. usage' = usage /\ charged' = Plus(charged, charge) /\ charge' = Zero BY <1>3, <2>2 DEF EndStep
    <3>2. Plus(charged, charge) \in Costs BY <1>a, PlusOf
    <3>3. QED BY <1>a, <3>1, <3>2, PlusSums
  <2>3. QED BY <2>1, <2>2
<1>4. CASE Refuse \/ Admit \/ RunChild \/ ChildReturns \/ ChildCrashes
  BY <1>4, <1>c DEF Refuse, Admit, RunChild, ChildReturns, ChildCrashes
<1>5. CASE Refused BY <1>5, <1>a, <1>b DEF Refused
<1>6. CASE Close
  <2>1. [child.used EXCEPT !.steps = 0] \in Costs BY ValuesTyped DEF Typed, Children
  <2>2. QED BY <1>6, <1>b, <2>1 DEF Close
<1>7. CASE ChildTold BY <1>7, <1>a, <1>b DEF ChildTold
<1>8. CASE ChildAsks \/ ChildStops \/ ChildHears \/ ChildDelegates \/ ChildDenied \/ ChildSteps
  BY <1>8, <1>c DEF ChildAsks, ChildStops, ChildHears, ChildDelegates, ChildDenied, ChildSteps
<1>9. CASE Cancel BY <1>9, <1>c DEF Cancel
<1>10. QED
  BY <1>1, <1>2, <1>3, <1>4, <1>5, <1>6, <1>7, <1>8, <1>9 DEF Next, Parent, Service, Child

(* While a batch runs, the account and the shares it still owes give the bound. *)
LEMMA BoundInBatch == Typed /\ PaidFor /\ at \in InBatch => OverspendBounded
<1>1. SUFFICES ASSUME Typed, PaidFor, at \in InBatch PROVE OverspendBounded OBVIOUS
<1>2. /\ turnCost.requests \in Nat /\ frozen.requests \in Nat /\ RootBudget.requests \in Int
      /\ Grant.requests \in Nat /\ Share \in Int /\ Share <= Grant.requests /\ Share <= Left
      /\ MaxBatch \in Nat /\ MaxBatch >= 1 /\ batch \in Nat
  BY <1>1, RequestsAre
<1>3. Share \in Nat /\ Owing \in Nat
  BY <1>1, <1>2 DEF PaidFor, Share, Left, Owing
<1>4. Owing * Share \in Nat BY <1>3, MoreShares
<1>5. MaxBatch * Share <= (MaxBatch - 1) * Grant.requests + Share BY <1>2, <1>3, Shares
<1>6. MaxBatch * Share \in Nat BY <1>2, <1>3, MoreShares
<1>7. (MaxBatch - 1) * Grant.requests \in Int BY <1>2
<1>8. turnCost.requests + Owing * Share <= frozen.requests + 1 + MaxBatch * Share
  BY <1>1 DEF PaidFor
<1>9. turnCost.requests <= RootBudget.requests + 1 + (MaxBatch - 1) * Grant.requests
  BY <1>2, <1>4, <1>5, <1>6, <1>7, <1>8 DEF Left
<1>10. QED BY <1>9 DEF OverspendBounded, Grant

(* Elsewhere a turn costs what it did, or has only begun. *)
LEMMA BoundStep ==
  ASSUME Typed, OverspendBounded, (at \in InBatch => OverspendBounded)', [Next]_vars
  PROVE  OverspendBounded'
<1>1. CASE at' \in InBatch BY <1>1
<1>2. CASE at' \notin InBatch
  <2>1. turnCost'.requests \in {0, turnCost.requests}
    <3> USE DEF parentVars, moneyVars, bookVars, InBatch
    <3>1. CASE UNCHANGED vars BY <3>1 DEF vars
    <3>2. CASE StartTurn BY <3>2 DEF StartTurn, Zero
    <3>3. CASE LeaveLoop \/ Dispatch \/ RepeatedFailure
      BY <3>3 DEF LeaveLoop, Dispatch, RepeatedFailure
    <3>4. CASE NextStep \/ Close BY <1>2, <3>4 DEF NextStep, Close
    <3>5. CASE EndStep
      <4>1. CASE aborted BY <3>5, <4>1 DEF EndStep
      <4>2. CASE ~aborted
        <5>1. PICK step \in Costs : step = [Zero EXCEPT !.steps = 1] /\ step.requests = 0
          BY ValuesTyped DEF Zero
        <5>2. turnCost' = Plus(turnCost, step) BY <3>5, <4>2, <5>1 DEF EndStep
        <5>3. turnCost'.requests = turnCost.requests + step.requests
          BY <5>2, PlusRequests DEF Typed
        <5>4. turnCost.requests \in Nat BY RequestsAre
        <5>5. QED BY <5>1, <5>3, <5>4
      <4>3. QED BY <4>1, <4>2
    <3>6. CASE Refuse \/ Refused \/ Admit \/ RunChild \/ ChildReturns \/ ChildCrashes \/ Child \/ Cancel
      BY <3>6 DEF Refuse, Refused, Admit, RunChild, ChildReturns, ChildCrashes, Cancel, Child,
                  ChildAsks, ChildStops, ChildHears, ChildDelegates, ChildDenied, ChildTold, ChildSteps
    <3>7. QED BY <3>1, <3>2, <3>3, <3>4, <3>5, <3>6 DEF Next, Parent, Service
  <2>2. /\ RootBudget.requests \in Int /\ RootBudget.requests > 0 /\ Grant.requests \in Nat
        /\ MaxBatch \in Nat /\ MaxBatch >= 1 /\ turnCost.requests \in Nat
    BY RequestsAre
  <2>3. (MaxBatch - 1) * Grant.requests \in Nat
    <3>1. MaxBatch - 1 \in Nat BY <2>2
    <3>2. QED BY <2>2, <3>1, MoreShares
  <2>4. turnCost.requests <= RootBudget.requests + 1 + (MaxBatch - 1) * Grant.requests
    BY DEF OverspendBounded, Grant
  <2>5. turnCost'.requests <= RootBudget.requests + 1 + (MaxBatch - 1) * Grant.requests
    BY <2>1, <2>2, <2>3, <2>4
  <2>6. QED BY <2>5 DEF OverspendBounded, Grant
<1>3. QED BY <1>1, <1>2

(* The account of a turn and its children, for every budget, grant and batch:
   nothing is lost or paid twice, and a turn overspends by one request and the
   grants of all but one child at most. *)
THEOREM ChargesStayRight == Spec => []ChargesRight
<1>1. Init => Accounted /\ PaidFor /\ Within /\ OverspendBounded
  <2>1. SUFFICES ASSUME Init PROVE Accounted /\ PaidFor /\ Within /\ OverspendBounded OBVIOUS
  <2>2. Accounted
    <3>1. Zero \in Costs BY ValuesTyped
    <3>2. QED BY <2>1, <3>1, PlusSums DEF Init, Accounted
  <2>3. PaidFor /\ Within BY <2>1 DEF Init, PaidFor, Within, InBatch, NoChild
  <2>4. OverspendBounded
    <3>1. Typed BY <2>1, TypedInit
    <3>2. /\ RootBudget.requests \in Int /\ RootBudget.requests > 0 /\ Grant.requests \in Nat
          /\ MaxBatch \in Nat /\ MaxBatch >= 1
      BY <3>1, RequestsAre
    <3>3. MaxBatch - 1 \in Nat BY <3>2
    <3>4. (MaxBatch - 1) * Grant.requests \in Nat BY <3>2, <3>3, MoreShares
    <3>5. turnCost.requests = 0 BY <2>1 DEF Init, Zero
    <3>6. turnCost.requests <= RootBudget.requests + 1 + (MaxBatch - 1) * Grant.requests
      BY <3>2, <3>4, <3>5
    <3>7. QED BY <3>6 DEF OverspendBounded, Grant
  <2>5. QED BY <2>2, <2>3, <2>4
<1>2. Typed /\ Accounted /\ [Next]_vars => Accounted' BY AccountedStep
<1>3. Typed /\ Typed' /\ Standing /\ Within /\ PaidFor /\ [Next]_vars => PaidFor' /\ Within'
  BY PaidForStep, WithinStep
<1>4. Spec => [](Accounted /\ PaidFor /\ Within) BY AlwaysTyped, <1>1, <1>2, <1>3, PTL DEF Spec
<1>5. Spec => [](at \in InBatch => OverspendBounded) BY AlwaysTyped, <1>4, BoundInBatch, PTL
<1>6. Typed /\ OverspendBounded /\ (at \in InBatch => OverspendBounded)' /\ [Next]_vars => OverspendBounded'
  BY BoundStep
<1>7. Spec => []OverspendBounded BY AlwaysTyped, <1>1, <1>5, <1>6, PTL DEF Spec
<1>8. Accounted /\ OverspendBounded => ChargesRight BY DEF Accounted, ChargesRight, ChargedOnce
<1>9. QED BY <1>4, <1>7, <1>8, PTL

-----------------------------------------------------------------------------
(* What the log tells.                                                     *)

(* The log's delegations, how many it has asked for, and Tells of any log. *)
Ids(log) == {log[i].id : i \in DOMAIN log}
Asked(log) == Cardinality({i \in DOMAIN log : log[i].type = "requested"})
Mine(log, id) == {i \in DOMAIN log : log[i].id = id}
Upto(log, id, i) == {j \in Mine(log, id) : j <= i}
TellsIn(log, id, story) ==
  /\ Cardinality(Mine(log, id)) = Len(story)
  /\ \A i \in Mine(log, id) : log[i].type = story[Cardinality(Upto(log, id, i))]

(* Sets of positions of a log are finite. *)
LEMMA PlacesFinite ==
  ASSUME NEW log \in Seq(Entries), NEW S, S \subseteq DOMAIN log
  PROVE  IsFiniteSet(S) /\ Cardinality(S) \in Nat
<1>1. IsFiniteSet(1..Len(log)) BY FS_Interval
<1>2. IsFiniteSet(S) BY <1>1, FS_Subset
<1>3. QED BY <1>2, FS_CardinalityType

(* Another event is one more position. *)
LEMMA PlacesGrow ==
  ASSUME NEW log \in Seq(Entries), NEW e \in Entries
  PROVE  /\ DOMAIN Append(log, e) = DOMAIN log \cup {Len(log) + 1}
         /\ Len(log) + 1 \notin DOMAIN log
         /\ Append(log, e)[Len(log) + 1] = e
         /\ \A i \in DOMAIN log : Append(log, e)[i] = log[i] /\ i <= Len(log) /\ i \in Nat
         /\ \A S : S \subseteq DOMAIN log => Cardinality(S \cup {Len(log) + 1}) = Cardinality(S) + 1
<1>1. \A S : S \subseteq DOMAIN log => Cardinality(S \cup {Len(log) + 1}) = Cardinality(S) + 1
  <2>1. SUFFICES ASSUME NEW S, S \subseteq DOMAIN log
                 PROVE  Cardinality(S \cup {Len(log) + 1}) = Cardinality(S) + 1
    OBVIOUS
  <2>2. IsFiniteSet(S) BY <2>1, PlacesFinite
  <2>3. Len(log) + 1 \notin S BY <2>1
  <2>4. QED BY <2>2, <2>3, FS_AddElement
<1>2. QED BY <1>1

(* It names one delegation, and asks for one more or not. *)
LEMMA IdsGrow ==
  ASSUME NEW log \in Seq(Entries), NEW e \in Entries
  PROVE  /\ Ids(Append(log, e)) = Ids(log) \cup {e.id}
         /\ Asked(log) \in Nat
         /\ Asked(Append(log, e)) = IF e.type = "requested" THEN Asked(log) + 1 ELSE Asked(log)
<1> DEFINE new == Append(log, e)
           R == {i \in DOMAIN log : log[i].type = "requested"}
<1>1. Ids(new) = Ids(log) \cup {e.id} BY PlacesGrow DEF Ids
<1>2. R \subseteq DOMAIN log OBVIOUS
<1>3. Asked(log) \in Nat BY <1>2, PlacesFinite DEF Asked
<1>4. {i \in DOMAIN new : new[i].type = "requested"} =
        IF e.type = "requested" THEN R \cup {Len(log) + 1} ELSE R
  BY PlacesGrow
<1>5. Cardinality(R \cup {Len(log) + 1}) = Cardinality(R) + 1 BY <1>2, PlacesGrow
<1>6. QED BY <1>1, <1>3, <1>4, <1>5 DEF Asked

(* What is told of another delegation stays as it is. *)
LEMMA OthersTold ==
  ASSUME NEW log \in Seq(Entries), NEW e \in Entries, NEW id, id # e.id, NEW story,
         TellsIn(log, id, story)
  PROVE  TellsIn(Append(log, e), id, story)
<1>1. Mine(Append(log, e), id) = Mine(log, id) BY PlacesGrow DEF Mine
<1>2. \A i \in Mine(log, id) : Append(log, e)[i] = log[i] BY PlacesGrow DEF Mine
<1>3. \A i : Upto(Append(log, e), id, i) = Upto(log, id, i) BY <1>1 DEF Upto
<1>4. QED BY <1>1, <1>2, <1>3 DEF TellsIn

(* The story of its own delegation is one event longer. *)
LEMMA OwnTold ==
  ASSUME NEW log \in Seq(Entries), NEW e \in Entries, NEW story \in Seq(Kinds),
         TellsIn(log, e.id, story)
  PROVE  TellsIn(Append(log, e), e.id, Append(story, e.type))
<1> DEFINE new == Append(log, e)
           last == Len(log) + 1
           M == Mine(log, e.id)
<1>1. M \subseteq DOMAIN log BY DEF Mine
<1>2. Mine(new, e.id) = M \cup {last} BY PlacesGrow DEF Mine
<1>3. Cardinality(M) = Len(story) BY DEF TellsIn
<1>4. Cardinality(Mine(new, e.id)) = Len(story) + 1 BY <1>1, <1>2, <1>3, PlacesGrow
<1>5. e.type \in Kinds BY DEF Entries
<1>6. Len(Append(story, e.type)) = Len(story) + 1 BY <1>5
<1>7. ASSUME NEW i \in M
      PROVE  new[i].type = Append(story, e.type)[Cardinality(Upto(new, e.id, i))]
  <2>1. i \in DOMAIN log /\ i <= Len(log) /\ i \in Nat /\ new[i] = log[i] BY <1>1, PlacesGrow
  <2>2. Upto(new, e.id, i) = Upto(log, e.id, i) BY <1>2, <2>1 DEF Upto
  <2>3. Upto(log, e.id, i) \subseteq M BY DEF Upto
  <2>4. Cardinality(Upto(log, e.id, i)) <= Cardinality(M) /\ Cardinality(Upto(log, e.id, i)) \in Nat
    BY <1>1, <2>3, PlacesFinite, FS_Subset
  <2>5. Cardinality(Upto(log, e.id, i)) # 0
    <3>1. i \in Upto(log, e.id, i) BY <2>1 DEF Upto
    <3>2. IsFiniteSet(Upto(log, e.id, i)) BY <1>1, <2>3, PlacesFinite
    <3>3. QED BY <3>1, <3>2, FS_EmptySet
  <2>6. Cardinality(Upto(log, e.id, i)) \in 1..Len(story) BY <1>3, <2>4, <2>5
  <2>7. log[i].type = story[Cardinality(Upto(log, e.id, i))] BY DEF TellsIn
  <2>8. QED BY <1>5, <2>1, <2>2, <2>6, <2>7
<1>8. new[last].type = Append(story, e.type)[Cardinality(Upto(new, e.id, last))]
  <2>1. Upto(new, e.id, last) = M \cup {last} BY <1>1, <1>2, PlacesGrow DEF Upto
  <2>2. Cardinality(Upto(new, e.id, last)) = Len(story) + 1 BY <2>1, <1>1, <1>3, PlacesGrow
  <2>3. new[last] = e BY PlacesGrow
  <2>4. QED BY <1>5, <2>2, <2>3
<1>9. QED BY <1>2, <1>4, <1>6, <1>7, <1>8 DEF TellsIn

(* A log that does not name a delegation tells nothing of it. *)
LEMMA NothingTold == ASSUME NEW log, NEW id, id \notin Ids(log) PROVE TellsIn(log, id, << >>)
<1>1. Mine(log, id) = {} BY DEF Mine, Ids
<1>2. Cardinality({}) = 0 BY FS_EmptySet
<1>3. QED BY <1>1, <1>2 DEF TellsIn

(* The delegations that wait for their record, and what is told of them so far. *)
Working == at \in InBatch \ {"batch"}
Nesting == child.at \in {"nesting", "denied"}

JobStory ==
  CASE at = "requesting" -> <<"requested">>
    [] at = "refusing" -> <<"requested", RefusalEvent(job.status)>>
    [] at \in {"starting", "running"} -> <<"requested", "started">>
    [] OTHER -> <<"requested", "started", EventFor(job.status)>>
NestedStory == IF child.at = "nesting" THEN <<"requested">> ELSE <<"requested", "denied">>

Told(log, r) ==
  \/ TellsIn(log, r.id, <<"requested", RefusalEvent(r.status)>>)
  \/ TellsIn(log, r.id, <<"requested", "started", EventFor(r.status)>>)

RecordIds(list) == {list[i].id : i \in DOMAIN list}

(* Delegations are numbered in the order they are asked for; one that has its record
   is told whole; one that has none is told as far as its run has come. *)
Telling ==
  /\ \A n \in Ids(events) : n \in Nat /\ n <= Asked(events)
  /\ \A i \in DOMAIN records : Told(events, records[i])
  /\ \A n \in Ids(events) : n \in RecordIds(records) \/ (Working /\ n = job.id) \/ (Nesting /\ n = child.nested)
  /\ RecordIds(records) \subseteq Ids(events)
  /\ Working => /\ job.id \in Ids(events) \ RecordIds(records)
                /\ TellsIn(events, job.id, JobStory)
  /\ Nesting => /\ child.nested \in Ids(events) \ RecordIds(records)
                /\ child.nested # job.id
                /\ TellsIn(events, child.nested, NestedStory)

(* Another record is one more delegation told. *)
LEMMA RecordsGrow ==
  ASSUME NEW list \in Seq(Accounts), NEW r \in Accounts
  PROVE  /\ RecordIds(Append(list, r)) = RecordIds(list) \cup {r.id}
         /\ \A i \in DOMAIN Append(list, r) :
              Append(list, r)[i] = r \/ (i \in DOMAIN list /\ Append(list, r)[i] = list[i])
<1>1. /\ DOMAIN Append(list, r) = DOMAIN list \cup {Len(list) + 1}
      /\ Append(list, r)[Len(list) + 1] = r
      /\ \A i \in DOMAIN list : Append(list, r)[i] = list[i]
  OBVIOUS
<1>2. QED BY <1>1 DEF RecordIds

(* A delegation is asked for: it is new, and all that is told is that. *)
LEMMA AskedFor ==
  ASSUME Typed, Telling, NEW d \in Nat, LogEvent("requested", NewId, d)
  PROVE  /\ Asked(events) \in Nat /\ NewId = Asked(events) + 1
         /\ NewId \in Nat /\ NewId \notin Ids(events) /\ NewId \notin RecordIds(records)
         /\ Ids(events') = Ids(events) \cup {NewId} /\ Asked(events') = NewId
         /\ TellsIn(events', NewId, <<"requested">>)
         /\ \A id \in Ids(events) : \A story : TellsIn(events, id, story) => TellsIn(events', id, story)
<1>1. events \in Seq(Entries) BY DEF Typed
<1>2. NewId = Asked(events) + 1 BY DEF NewId, Asked
<1>3. Asked(events) \in Nat
  <2>1. {i \in DOMAIN events : events[i].type = "requested"} \subseteq DOMAIN events OBVIOUS
  <2>2. QED BY <1>1, <2>1, PlacesFinite DEF Asked
<1>4. NewId \in Nat /\ NewId \notin Ids(events) BY <1>2, <1>3 DEF Telling
<1>5. NewId \notin RecordIds(records) BY <1>4 DEF Telling
<1>6. PICK e \in Entries : e.type = "requested" /\ e.id = NewId /\ events' = Append(events, e)
  BY <1>4 DEF LogEvent, Event, Entries, Kinds
<1>7. Ids(events') = Ids(events) \cup {NewId} /\ Asked(events') = NewId
  BY <1>1, <1>2, <1>6, IdsGrow
<1>8. TellsIn(events', NewId, <<"requested">>)
  <2>1. TellsIn(events, e.id, << >>) BY <1>4, <1>6, NothingTold
  <2>2. TellsIn(Append(events, e), e.id, Append(<< >>, e.type))
    <3>1. << >> \in Seq(Kinds) OBVIOUS
    <3>2. QED BY <1>1, <2>1, <3>1, OwnTold
  <2>3. Append(<< >>, "requested") = <<"requested">> OBVIOUS
  <2>4. QED BY <1>6, <2>2, <2>3
<1>9. ASSUME NEW id \in Ids(events), NEW story, TellsIn(events, id, story)
      PROVE  TellsIn(events', id, story)
  BY <1>1, <1>4, <1>6, <1>9, OthersTold
<1>10. QED BY <1>2, <1>3, <1>4, <1>5, <1>7, <1>8, <1>9

(* An event of a delegation under way makes its story longer and no other. *)
LEMMA ToldMore ==
  ASSUME Typed, Telling, NEW t \in Kinds \ {"requested"}, NEW n \in Ids(events), NEW d \in Nat,
         LogEvent(t, n, d)
  PROVE  /\ Ids(events') = Ids(events) /\ Asked(events') = Asked(events)
         /\ \A story \in Seq(Kinds) : TellsIn(events, n, story) => TellsIn(events', n, Append(story, t))
         /\ \A id, story : id # n /\ TellsIn(events, id, story) => TellsIn(events', id, story)
<1>1. events \in Seq(Entries) BY DEF Typed
<1>2. n \in Nat BY DEF Telling
<1>3. PICK e \in Entries : e.type = t /\ e.id = n /\ events' = Append(events, e)
  BY <1>2 DEF LogEvent, Event, Entries
<1>4. Ids(events') = Ids(events) /\ Asked(events') = Asked(events)
  <2>1. /\ Ids(Append(events, e)) = Ids(events) \cup {e.id}
        /\ Asked(Append(events, e)) = IF e.type = "requested" THEN Asked(events) + 1 ELSE Asked(events)
    BY <1>1, IdsGrow
  <2>2. e.type # "requested" /\ e.id \in Ids(events) BY <1>3
  <2>3. QED BY <1>3, <2>1, <2>2
<1>5. ASSUME NEW story \in Seq(Kinds), TellsIn(events, n, story)
      PROVE  TellsIn(events', n, Append(story, t))
  BY <1>1, <1>3, <1>5, OwnTold
<1>6. ASSUME NEW id, NEW story, id # n, TellsIn(events, id, story)
      PROVE  TellsIn(events', id, story)
  BY <1>1, <1>3, <1>6, OthersTold
<1>7. QED BY <1>4, <1>5, <1>6

(* Records told stay told while their delegations are not the one told of. *)
LEMMA RecordsStayTold ==
  ASSUME Telling, UNCHANGED records, NEW n, n \notin RecordIds(records),
         \A id \in Ids(events) : \A story : id # n /\ TellsIn(events, id, story) => TellsIn(events', id, story)
  PROVE  \A i \in DOMAIN records' : Told(events', records'[i])
<1>1. SUFFICES ASSUME NEW i \in DOMAIN records PROVE Told(events', records[i]) OBVIOUS
<1>2. records[i].id \in RecordIds(records) BY DEF RecordIds
<1>3. records[i].id \in Ids(events) /\ records[i].id # n BY <1>2 DEF Telling
<1>4. Told(events, records[i]) BY DEF Telling
<1>5. QED BY <1>3, <1>4 DEF Told

(* The telling goes on. *)
LEMMA TellingStep ==
  ASSUME Typed, Standing, Telling, [Next]_vars
  PROVE  Telling'
<1> USE DEF parentVars, moneyVars, bookVars
<1>a. job \in Jobs /\ child \in Children /\ events \in Seq(Entries) /\ records \in Seq(Accounts)
  BY DEF Typed
<1>b. Nesting => at = "running" BY DEF Nesting, Standing
<1>c. ASSUME UNCHANGED <<events, records>>,
             Working' <=> Working, Working => job'.id = job.id /\ JobStory' = JobStory,
             Nesting' <=> Nesting, Nesting => child'.nested = child.nested /\ NestedStory' = NestedStory
      PROVE  Telling'
  <2>1. Nesting => Working BY <1>b DEF Working, InBatch
  <2>2. QED BY <1>c, <2>1 DEF Telling
<1>d. ASSUME NEW t \in Kinds \ {"requested"}, LogEvent(t, job.id, 1), UNCHANGED records,
             Working, Working', job'.id = job.id, ~Nesting, ~Nesting',
             JobStory \in Seq(Kinds), JobStory' = Append(JobStory, t)
      PROVE  Telling'
  <2>1. job.id \in Ids(events) /\ job.id \notin RecordIds(records) /\ TellsIn(events, job.id, JobStory)
    BY <1>d DEF Telling
  <2>2. /\ Ids(events') = Ids(events) /\ Asked(events') = Asked(events)
        /\ \A story \in Seq(Kinds) : TellsIn(events, job.id, story) => TellsIn(events', job.id, Append(story, t))
        /\ \A id, story : id # job.id /\ TellsIn(events, id, story) => TellsIn(events', id, story)
    BY <1>d, <2>1, ToldMore
  <2>3. TellsIn(events', job'.id, JobStory') BY <1>d, <2>1, <2>2
  <2>4. \A i \in DOMAIN records' : Told(events', records'[i]) BY <1>d, <2>1, <2>2, RecordsStayTold
  <2>5. QED BY <1>d, <2>1, <2>2, <2>3, <2>4 DEF Telling
<1>e. ASSUME NEW status \in Statuses, NEW cost \in Costs, Recorded(job.id, status, cost), UNCHANGED events,
             Working, ~Working', ~Nesting, ~Nesting',
             \/ JobStory = <<"requested", RefusalEvent(status)>>
             \/ JobStory = <<"requested", "started", EventFor(status)>>
      PROVE  Telling'
  <2>1. PICK r \in Accounts : r.id = job.id /\ r.status = status /\ records' = Append(records, r)
    BY <1>a, <1>e DEF Recorded, Accounts, Jobs
  <2>2. /\ RecordIds(records') = RecordIds(records) \cup {job.id}
        /\ \A i \in DOMAIN records' :
             records'[i] = r \/ (i \in DOMAIN records /\ records'[i] = records[i])
    BY <1>a, <2>1, RecordsGrow
  <2>3. job.id \in Ids(events) /\ TellsIn(events, job.id, JobStory) BY <1>e DEF Telling
  <2>4. Told(events, r) BY <1>e, <2>1, <2>3 DEF Told
  <2>5. \A i \in DOMAIN records' : Told(events', records'[i]) BY <1>e, <2>2, <2>4 DEF Telling
  <2>6. QED BY <1>e, <2>2, <2>3, <2>5 DEF Telling
<1>1. CASE UNCHANGED vars BY <1>1, <1>c DEF vars, Working, JobStory, Nesting, NestedStory
<1>2. CASE StartTurn \/ LeaveLoop \/ RepeatedFailure
  <2>1. ~Working /\ ~Working' /\ UNCHANGED <<events, records, child>>
    BY <1>2 DEF StartTurn, LeaveLoop, RepeatedFailure, EndTurn, Working, InBatch
  <2>2. QED BY <1>c, <2>1 DEF Nesting, NestedStory
<1>3. CASE NextStep
  <2>1. events' = << >> /\ records' = << >> /\ at = "looping" /\ at' = "batch" /\ child' = child
    BY <1>3 DEF NextStep
  <2>2. Ids(events') = {} /\ RecordIds(records') = {} BY <2>1 DEF Ids, RecordIds
  <2>3. ~Working' /\ ~Nesting' BY <1>b, <2>1 DEF Working, Nesting, InBatch
  <2>4. QED BY <2>1, <2>2, <2>3 DEF Telling
<1>4. CASE Dispatch
  <2>1. LogEvent("requested", NewId, 1) /\ UNCHANGED <<records, child>> /\ at = "batch" /\ at' = "requesting"
    BY <1>4 DEF Dispatch
  <2>2. job'.id = NewId BY <1>4, ValuesTyped DEF Dispatch, Jobs
  <2>3. ~Working /\ ~Nesting /\ ~Nesting' BY <1>b, <2>1 DEF Working, Nesting, InBatch
  <2>4. /\ Asked(events) \in Nat /\ NewId = Asked(events) + 1
        /\ NewId \in Nat /\ NewId \notin Ids(events) /\ NewId \notin RecordIds(records)
        /\ Ids(events') = Ids(events) \cup {NewId} /\ Asked(events') = NewId
        /\ TellsIn(events', NewId, <<"requested">>)
        /\ \A id \in Ids(events) : \A story : TellsIn(events, id, story) => TellsIn(events', id, story)
    BY <2>1, AskedFor
  <2>5. JobStory' = <<"requested">> /\ Working' BY <2>1 DEF JobStory, Working, InBatch
  <2>6. \A i \in DOMAIN records' : Told(events', records'[i])
    BY <2>1, <2>4, RecordsStayTold
  <2>7. \A n \in Ids(events') : n \in Nat /\ n <= Asked(events') BY <2>4 DEF Telling
  <2>8. QED BY <2>1, <2>2, <2>3, <2>4, <2>5, <2>6, <2>7 DEF Telling
<1>5. CASE EndStep
  <2>1. at = "batch" /\ at' \in {"idle", "looping"} /\ UNCHANGED <<events, records, child>>
    BY <1>5 DEF EndStep, EndTurn
  <2>2. ~Working /\ ~Working' BY <2>1 DEF Working, InBatch
  <2>3. QED BY <1>c, <2>1, <2>2 DEF Nesting, NestedStory
<1>6. CASE Refuse
  <2>1. PICK why \in {"denied", "budget_exceeded", "cancelled"} :
          job' = [job EXCEPT !.status = why] /\ LogEvent(RefusalEvent(why), job.id, 1)
    <3>1. Refusal(job.req, 1) \in {"denied", "budget_exceeded", "cancelled", "none"} BY DEF Refusal
    <3>2. QED BY <1>6, <3>1 DEF Refuse
  <2>2. RefusalEvent(why) \in Kinds \ {"requested"} BY DEF RefusalEvent, Kinds
  <2>3. job'.id = job.id /\ job'.status = why BY <1>a, <2>1 DEF Jobs
  <2>4. at = "requesting" /\ at' = "refusing" /\ UNCHANGED <<records, child>> BY <1>6 DEF Refuse
  <2>5. JobStory = <<"requested">> /\ JobStory' = <<"requested", RefusalEvent(why)>>
    BY <2>3, <2>4 DEF JobStory
  <2>6. JobStory \in Seq(Kinds) /\ JobStory' = Append(JobStory, RefusalEvent(why))
    BY <2>2, <2>5 DEF Kinds
  <2>7. Working /\ Working' /\ ~Nesting /\ ~Nesting' BY <1>b, <2>4 DEF Working, Nesting, InBatch
  <2>8. QED BY <1>d, <2>1, <2>2, <2>3, <2>4, <2>6, <2>7
<1>7. CASE Refused
  <2>1. /\ Recorded(job.id, job.status, Zero) /\ at = "refusing" /\ at' = "batch"
        /\ UNCHANGED <<events, child>>
    BY <1>7 DEF Refused
  <2>2. job.status \in Statuses /\ Zero \in Costs BY <2>1, ValuesTyped DEF Standing
  <2>3. JobStory = <<"requested", RefusalEvent(job.status)>> BY <2>1 DEF JobStory
  <2>4. Working /\ ~Working' /\ ~Nesting /\ ~Nesting' BY <1>b, <2>1 DEF Working, Nesting, InBatch
  <2>5. QED BY <1>e, <2>1, <2>2, <2>3, <2>4
<1>8. CASE Admit
  <2>1. /\ LogEvent("started", job.id, 1) /\ at = "requesting" /\ at' = "starting"
        /\ UNCHANGED <<records, child>> /\ job'.id = job.id
    BY <1>8, <1>a DEF Admit, Jobs
  <2>2. JobStory = <<"requested">> /\ JobStory' = <<"requested", "started">> BY <2>1 DEF JobStory
  <2>3. "started" \in Kinds \ {"requested"} BY DEF Kinds
  <2>4. JobStory \in Seq(Kinds) /\ JobStory' = Append(JobStory, "started") BY <2>2 DEF Kinds
  <2>5. Working /\ Working' /\ ~Nesting /\ ~Nesting' BY <1>b, <2>1 DEF Working, Nesting, InBatch
  <2>6. QED BY <1>d, <2>1, <2>3, <2>4, <2>5
<1>9. CASE RunChild
  <2>1. at = "starting" /\ at' = "running" /\ UNCHANGED <<events, records, job>> BY <1>9 DEF RunChild
  <2>2. child'.at = "looping" BY <1>9, ValuesTyped DEF RunChild, Children
  <2>3. Working /\ Working' /\ JobStory' = JobStory BY <2>1 DEF Working, JobStory, InBatch
  <2>4. ~Nesting /\ ~Nesting' BY <1>b, <2>1, <2>2 DEF Nesting
  <2>5. QED BY <1>c, <2>1, <2>3, <2>4
<1>10. CASE ChildReturns \/ ChildCrashes
  <2>1. PICK status \in Statuses :
          /\ job' = [job EXCEPT !.status = status] /\ LogEvent(EventFor(status), job.id, 1)
          /\ at = "running" /\ at' = "closing" /\ UNCHANGED <<records, child>>
          /\ child.at \in {"looping", "done"}
    <3>1. CASE ChildReturns
      <4>1. StatusOf(child.state) \in Statuses BY <3>1 DEF ChildReturns, StatusOf, Statuses, Standing
      <4>2. QED BY <3>1, <4>1 DEF ChildReturns
    <3>2. CASE ChildCrashes
      <4>1. EventFor("failed") = "failed" /\ "failed" \in Statuses BY DEF EventFor, Statuses
      <4>2. QED BY <3>2, <4>1 DEF ChildCrashes
    <3>3. QED BY <1>10, <3>1, <3>2
  <2>2. EventFor(status) \in Kinds \ {"requested"} BY DEF EventFor, Kinds
  <2>3. job'.id = job.id /\ job'.status = status BY <1>a, <2>1 DEF Jobs
  <2>4. JobStory = <<"requested", "started">> /\ JobStory' = <<"requested", "started", EventFor(status)>>
    BY <2>1, <2>3 DEF JobStory
  <2>5. JobStory \in Seq(Kinds) /\ JobStory' = Append(JobStory, EventFor(status))
    BY <2>2, <2>4 DEF Kinds
  <2>6. Working /\ Working' /\ ~Nesting /\ ~Nesting' BY <2>1 DEF Working, Nesting, InBatch
  <2>7. QED BY <1>d, <2>1, <2>2, <2>3, <2>5, <2>6
<1>11. CASE Close
  <2>1. /\ Recorded(job.id, job.status, [child.used EXCEPT !.steps = 0])
        /\ at = "closing" /\ at' = "batch" /\ UNCHANGED events /\ child' = NoChild
    BY <1>11 DEF Close
  <2>2. job.status \in Statuses /\ [child.used EXCEPT !.steps = 0] \in Costs
    BY <1>a, <2>1, ValuesTyped DEF Standing, Children
  <2>3. JobStory = <<"requested", "started", EventFor(job.status)>> BY <2>1 DEF JobStory
  <2>4. Working /\ ~Working' /\ ~Nesting /\ ~Nesting'
    BY <1>b, <2>1 DEF Working, Nesting, NoChild, InBatch
  <2>5. QED BY <1>e, <2>1, <2>2, <2>3, <2>4
<1>12. CASE ChildAsks \/ ChildStops \/ ChildHears \/ ChildSteps
  <2>1. at = "running" /\ at' = at /\ UNCHANGED <<events, records, job>>
        /\ child.at \in {"looping", "asking", "batch"}
    BY <1>12 DEF ChildAsks, ChildStops, ChildHears, ChildSteps
  <2>2. child'.at \notin {"nesting", "denied"}
    <3>1. CASE ChildAsks BY <3>1, <1>a DEF ChildAsks, Children
    <3>2. CASE ChildStops BY <3>2, <1>a DEF ChildStops, Ended, Children
    <3>3. CASE ChildHears BY <3>3, <1>a DEF ChildHears, Children
    <3>4. CASE ChildSteps BY <3>4, <1>a DEF ChildSteps, Ended, Children
    <3>5. QED BY <1>12, <3>1, <3>2, <3>3, <3>4
  <2>3. ~Nesting /\ ~Nesting' /\ (Working' <=> Working) /\ JobStory' = JobStory
    BY <2>1, <2>2 DEF Nesting, Working, JobStory
  <2>4. QED BY <1>c, <2>1, <2>3
<1>13. CASE ChildDelegates
  <2>1. /\ LogEvent("requested", NewId, 2) /\ UNCHANGED <<records, job, at>> /\ at = "running"
        /\ child.at = "batch"
    BY <1>13 DEF ChildDelegates
  <2>2. child'.at = "nesting" /\ child'.nested = NewId BY <1>13, <1>a DEF ChildDelegates, Children
  <2>3. Working /\ Working' /\ ~Nesting /\ Nesting' BY <2>1, <2>2 DEF Working, Nesting, InBatch
  <2>4. /\ Asked(events) \in Nat /\ NewId = Asked(events) + 1
        /\ NewId \in Nat /\ NewId \notin Ids(events) /\ NewId \notin RecordIds(records)
        /\ Ids(events') = Ids(events) \cup {NewId} /\ Asked(events') = NewId
        /\ TellsIn(events', NewId, <<"requested">>)
        /\ \A id \in Ids(events) : \A story : TellsIn(events, id, story) => TellsIn(events', id, story)
    BY <2>1, AskedFor
  <2>5. JobStory' = JobStory /\ NestedStory' = <<"requested">> BY <2>1, <2>2 DEF JobStory, NestedStory
  <2>6. \A i \in DOMAIN records' : Told(events', records'[i]) BY <2>1, <2>4, RecordsStayTold
  <2>7. \A n \in Ids(events') : n \in Nat /\ n <= Asked(events') BY <2>4 DEF Telling
  <2>8. job.id \in Ids(events) \ RecordIds(records) /\ TellsIn(events, job.id, JobStory)
    BY <2>3 DEF Telling
  <2>9. QED BY <2>1, <2>2, <2>3, <2>4, <2>5, <2>6, <2>7, <2>8 DEF Telling
<1>14. CASE ChildDenied
  <2>1. /\ LogEvent("denied", child.nested, 2) /\ UNCHANGED <<records, job, at>> /\ at = "running"
        /\ child.at = "nesting"
    BY <1>14 DEF ChildDenied
  <2>2. child'.at = "denied" /\ child'.nested = child.nested BY <1>14, <1>a DEF ChildDenied, Children
  <2>3. Working /\ Working' /\ Nesting /\ Nesting' BY <2>1, <2>2 DEF Working, Nesting, InBatch
  <2>4. /\ child.nested \in Ids(events) /\ child.nested \notin RecordIds(records)
        /\ child.nested # job.id /\ TellsIn(events, child.nested, <<"requested">>)
        /\ job.id \in Ids(events) \ RecordIds(records) /\ TellsIn(events, job.id, JobStory)
    BY <2>1, <2>3 DEF Telling, NestedStory
  <2>5. "denied" \in Kinds \ {"requested"} BY DEF Kinds
  <2>6. /\ Ids(events') = Ids(events) /\ Asked(events') = Asked(events)
        /\ \A story \in Seq(Kinds) :
             TellsIn(events, child.nested, story) => TellsIn(events', child.nested, Append(story, "denied"))
        /\ \A id, story : id # child.nested /\ TellsIn(events, id, story) => TellsIn(events', id, story)
    BY <2>1, <2>4, <2>5, ToldMore
  <2>7. NestedStory = <<"requested">> /\ NestedStory' = <<"requested", "denied">> /\ JobStory' = JobStory
    BY <2>1, <2>2 DEF JobStory, NestedStory
  <2>8. TellsIn(events', child.nested, NestedStory')
    <3>1. NestedStory \in Seq(Kinds) /\ NestedStory' = Append(NestedStory, "denied")
      BY <2>7 DEF Kinds
    <3>2. QED BY <2>4, <2>6, <2>7, <3>1
  <2>9. \A i \in DOMAIN records' : Told(events', records'[i]) BY <2>1, <2>4, <2>6, RecordsStayTold
  <2>10. TellsIn(events', job.id, JobStory) BY <2>4, <2>6
  <2>11. QED BY <2>1, <2>2, <2>3, <2>4, <2>6, <2>7, <2>8, <2>9, <2>10 DEF Telling
<1>15. CASE ChildTold
  <2>1. /\ Recorded(child.nested, "denied", Zero) /\ UNCHANGED <<events, job, at>> /\ at = "running"
        /\ child.at = "denied"
    BY <1>15 DEF ChildTold
  <2>2. child'.at = "batch" BY <1>15, <1>a DEF ChildTold, Children
  <2>3. Working /\ Working' /\ Nesting /\ ~Nesting' BY <2>1, <2>2 DEF Working, Nesting, InBatch
  <2>4. /\ child.nested \in Ids(events) /\ child.nested # job.id
        /\ TellsIn(events, child.nested, <<"requested", "denied">>)
        /\ job.id \in Ids(events) \ RecordIds(records) /\ TellsIn(events, job.id, JobStory)
    BY <2>1, <2>3 DEF Telling, NestedStory
  <2>5. PICK r \in Accounts : r.id = child.nested /\ r.status = "denied" /\ records' = Append(records, r)
    <3>1. Zero \in Costs /\ "denied" \in Statuses /\ child.nested \in Nat
      BY <1>a, ValuesTyped DEF Statuses, Children
    <3>2. [id |-> child.nested, status |-> "denied", used |-> Zero] \in Accounts BY <3>1 DEF Accounts
    <3>3. QED BY <2>1, <3>2 DEF Recorded
  <2>6. /\ RecordIds(records') = RecordIds(records) \cup {child.nested}
        /\ \A i \in DOMAIN records' :
             records'[i] = r \/ (i \in DOMAIN records /\ records'[i] = records[i])
    BY <1>a, <2>5, RecordsGrow
  <2>7. Told(events, r) BY <2>4, <2>5 DEF Told, RefusalEvent
  <2>8. \A i \in DOMAIN records' : Told(events', records'[i]) BY <2>1, <2>6, <2>7 DEF Telling
  <2>9. JobStory' = JobStory BY <2>1 DEF JobStory
  <2>10. QED BY <2>1, <2>3, <2>4, <2>6, <2>8, <2>9 DEF Telling
<1>16. CASE Cancel
  <2>1. /\ UNCHANGED <<at, job, events, records>> /\ child'.at = child.at /\ child'.nested = child.nested
    BY <1>16, <1>a DEF Cancel, Children
  <2>2. QED BY <1>c, <2>1 DEF Working, Nesting, JobStory, NestedStory
<1>17. QED
  BY <1>1, <1>2, <1>3, <1>4, <1>5, <1>6, <1>7, <1>8, <1>9, <1>10, <1>11, <1>12, <1>13, <1>14,
     <1>15, <1>16
  DEF Next, Parent, Service, Child

(* Every delegation's story is whole, for every number of children, cancellations
   and denials. *)
THEOREM StoriesStayWhole == Spec => []StoriesWhole
<1>1. Init => Telling
  <2>1. SUFFICES ASSUME Init PROVE Telling OBVIOUS
  <2>2. Ids(events) = {} /\ RecordIds(records) = {} BY <2>1 DEF Init, Ids, RecordIds
  <2>3. ~Working /\ ~Nesting BY <2>1 DEF Init, NoChild, Working, Nesting, InBatch
  <2>4. QED BY <2>1, <2>2, <2>3 DEF Init, Telling
<1>2. Typed /\ Standing /\ Telling /\ [Next]_vars => Telling' BY TellingStep
<1>3. Typed /\ Standing /\ Telling => StoriesWhole
  <2>1. SUFFICES ASSUME Typed, Standing, Telling PROVE StoriesWhole OBVIOUS
  <2>2. \A id, story : TellsIn(events, id, story) => Tells(id, story)
    BY DEF TellsIn, Tells, Mine, Upto
  <2>3. \A i \in 1..Len(records) :
          \/ Tells(records[i].id, <<"requested", RefusalEvent(records[i].status)>>)
          \/ Tells(records[i].id, <<"requested", "started", EventFor(records[i].status)>>)
    BY <2>1, <2>2 DEF Telling, Told, Typed
  <2>4. ASSUME at \in {"idle", "looping", "batch"}
        PROVE  {e.id : e \in Range(events)} = {r.id : r \in Range(records)}
    <3>1. ~Working /\ ~Nesting BY <2>1, <2>4 DEF Working, Nesting, Standing, InBatch
    <3>2. Ids(events) = RecordIds(records) BY <2>1, <3>1 DEF Telling
    <3>3. {e.id : e \in Range(events)} = Ids(events) BY DEF Ids, Range
    <3>4. {r.id : r \in Range(records)} = RecordIds(records) BY DEF RecordIds, Range
    <3>5. QED BY <3>2, <3>3, <3>4
  <2>5. QED BY <2>3, <2>4 DEF StoriesWhole
<1>4. QED BY AlwaysTyped, <1>1, <1>2, <1>3, PTL DEF Spec

=============================================================================
