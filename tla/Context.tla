------------------------------- MODULE Context -------------------------------
(* The conversation a model is shown and what compaction makes of it          *)
(* (context/compaction.ts, context-engine.ts, projector.ts; session.ts,       *)
(* maybeCompact, forceCompact, compactNow, runCompaction).                     *)
(*                                                                           *)
(* A message is what the properties tell apart: who it is from, the requests   *)
(* of the user it states, the calls it makes and answers, what it shows of     *)
(* their outcome, and a length. One call per response, each Read of a path of  *)
(* its own.                                                                   *)
EXTENDS Integers, Sequences, FiniteSets, SequencesExt, FiniteSetsExt

CONSTANTS Window,               \* usable tokens: usableContextTokens
          Large,                \* the length of a large result, the others' is 1
          NameLength,           \* what the projector counts for a call's name
          PreserveExchanges,    \* requests of the user kept word for word
          NamedAsks,            \* requests a summary names
          Resumed,              \* conversations a session may start with
          MaxTurns,             \* bound: requests of the user
          MaxSteps,             \* bound: model requests of one turn
          MaxIssued,            \* bound: calls
          MaxNotes              \* bound: control messages and injections

ASSUME ContextAssumption ==
  {Window, Large, NameLength, PreserveExchanges, NamedAsks, MaxTurns, MaxSteps, MaxIssued, MaxNotes}
    \subseteq Nat

VARIABLES
  at,               \* where the turn stands
  child,            \* a delegated session
  repeats,          \* the server numbers its calls from 1 in every response
  history,          \* ContextEngine.messages
  receipts,         \* the reads the freshness ledger holds
  delegations,      \* the delegations the session recorded
  turns,            \* requests of the user so far
  steps,            \* model requests of the turn
  issued,           \* calls so far: the current one is number `issued`
  notes             \* bound: control messages and injections so far

contextVars == <<at, child, repeats, history, receipts, delegations, turns, steps, issued, notes>>

Kinds == {"user", "note", "assistant", "tool", "summary", "anchors"}
Sizes == {"plain", "large", "clipped"}
Numbers == 1..MaxIssued

Message == [kind : Kinds, asks : SUBSET (1..MaxTurns), calls : SUBSET Numbers,
            results : SUBSET Numbers, shows : SUBSET Numbers, size : Sizes]

TypeOK ==
  /\ at \in {"idle", "preparing", "requesting", "executing"}
  /\ child \in BOOLEAN /\ repeats \in BOOLEAN
  /\ history \in Seq(Message)
  /\ receipts \subseteq Numbers /\ delegations \subseteq Numbers
  /\ turns \in 0..MaxTurns /\ steps \in 0..MaxSteps
  /\ issued \in Numbers \cup {0} /\ notes \in 0..MaxNotes

Plain(kind) == [kind |-> kind, asks |-> {}, calls |-> {}, results |-> {}, shows |-> {},
                size |-> "plain"]

User(turn)        == [Plain("user") EXCEPT !.asks = {turn}]
Assistant(ids)    == [Plain("assistant") EXCEPT !.calls = ids]
Result(ids, told) == [Plain("tool") EXCEPT !.results = ids, !.shows = told]

\* A control result or an injection, if there is one.
Note == {<<>>} \cup IF notes < MaxNotes THEN {<<Plain("note")>>} ELSE {}
Noted(note) == notes' = notes + Len(note)

-----------------------------------------------------------------------------
(* compact(): a pure function of a history.                                  *)

Length(m) == IF m.size = "large" THEN Large ELSE 1
Tokens(h) == FoldLeft(LAMBDA sum, m : sum + Length(m), 0, h)

(* The projector counts a call's name with its arguments, compaction does not. *)
Projected(h) == Tokens(h) + NameLength * Cardinality({i \in DOMAIN h : h[i].calls # {}})

IdsOf(h, field) == UNION {h[i][field] : i \in DOMAIN h}

(* What resume hands over: every call is answered, after it, and has a number of *)
(* its own.                                                                  *)
ASSUME ResumedAssumption ==
  \A h \in Resumed :
    /\ h \in Seq(Message)
    /\ IdsOf(h, "calls") = 1..Cardinality(IdsOf(h, "calls"))
    /\ \A i \in DOMAIN h :
         /\ \A id \in h[i].results : \E j \in 1..(i - 1) : id \in h[j].calls
         /\ h[i].calls \subseteq IdsOf(h, "results")
         /\ \A j \in DOMAIN h \ {i} : h[i].calls \cap h[j].calls = {}

(* No call among the first b messages is answered after them. *)
Closed(h, b) ==
  IdsOf(SubSeq(h, 1, b), "calls") \cap IdsOf(SubSeq(h, b + 1, Len(h)), "results") = {}

\* Mutant of SnapToClosure: a request of the user is taken for a boundary of exchanges.
SnapToNothing(h, start) == start

(* The loop goes back to the earliest call that is answered later, again and   *)
(* again: it ends at the last closed boundary.                                *)
SnapToClosure(h, start) == Max({b \in 0..start : Closed(h, b)})

(* The last requests of the user. *)
LastAsked(h) ==
  LET users == {i \in DOMAIN h : h[i].kind = "user"}
  IN  {i \in users : Cardinality({j \in users : j >= i}) <= PreserveExchanges}

(* How many messages are the head: those before the last requests. *)
TailStart(h) ==
  IF LastAsked(h) = {} THEN 0 ELSE SnapToClosure(h, Min(LastAsked(h)) - 1)

\* Mutant of Clip: the tail is clipped as well.
ClipAll(h, b) ==
  [i \in DOMAIN h |-> IF h[i].size = "large" THEN [h[i] EXCEPT !.size = "clipped"] ELSE h[i]]

(* L0: large results of the head become short ones. *)
Clip(h, b) ==
  [i \in DOMAIN h |-> IF i <= b /\ h[i].size = "large" THEN [h[i] EXCEPT !.size = "clipped"]
                      ELSE h[i]]

(* L2: structuralSummary names requests of the user, and not those an earlier  *)
(* summary named.                                                            *)
Summary(head) ==
  LET asked == UNION {head[i].asks : i \in {j \in DOMAIN head : head[j].kind = "user"}}
  IN  [Plain("summary") EXCEPT
         !.asks = {t \in asked : Cardinality({u \in asked : u > t}) < NamedAsks}]

(* L3: what is still in force, if anything: the delegated work. *)
Anchors == IF delegations = {} THEN <<>> ELSE <<[Plain("anchors") EXCEPT !.shows = delegations]>>

Compact(h, budget) ==
  LET b == TailStart(h)
      clipped == Clip(h, b)
  IN  IF Tokens(clipped) <= budget \/ b = 0 THEN clipped
      ELSE <<Summary(SubSeq(clipped, 1, b))>> \o Anchors \o SubSeq(clipped, b + 1, Len(h))

-----------------------------------------------------------------------------
\* Mutant of RunCompaction: receipts go only when messages do.
RunCompactionSparing(h, budget) ==
  /\ history' = Compact(h, budget)
  /\ receipts' = IF Len(history') < Len(h) THEN {} ELSE receipts

(* Receipts predate the summary: all of them go. *)
RunCompaction(h, budget) ==
  /\ history' = Compact(h, budget)
  /\ receipts' = {}

Forced == (Window * 6) \div 10

ContextInit ==
  /\ at = "idle"
  /\ child \in BOOLEAN /\ repeats \in BOOLEAN
  /\ history \in IF child THEN {<<>>} ELSE {<<>>} \cup Resumed
  /\ receipts = {} /\ delegations = {}
  /\ turns = Cardinality(IdsOf(history, "asks"))
  /\ issued = Cardinality(IdsOf(history, "calls"))
  /\ steps = 0 /\ notes = 0

(* runTurn: a request of the user, or a brief from the parent session, which is *)
(* an injection; hooks may add to it.                                         *)
BeginTurn ==
  /\ at = "idle"
  /\ turns < (IF child THEN 1 ELSE MaxTurns)
  /\ \E note \in Note :
       /\ history' = Append(history, IF child THEN Plain("note") ELSE User(turns + 1)) \o note
       /\ Noted(note)
  /\ turns' = turns + 1
  /\ steps' = 0
  /\ at' = "preparing"
  /\ UNCHANGED <<child, repeats, receipts, delegations, issued>>

(* The top of the loop: hooks of the step, maybeCompact, and the request. It is *)
(* sent over the window too: only a fact tells the model of it.               *)
BeginStep ==
  /\ at = "preparing"
  /\ steps < MaxSteps
  /\ \E note \in Note :
       LET h == history \o note
       IN  /\ IF Projected(h) > Window
              THEN RunCompaction(h, Window)
              ELSE history' = h /\ UNCHANGED receipts
           /\ Noted(note)
  /\ steps' = steps + 1
  /\ at' = "requesting"
  /\ UNCHANGED <<child, repeats, delegations, turns, issued>>

(* The answer has no call: the turn ends, unless the answer was empty. *)
Answer ==
  /\ at = "requesting"
  /\ \/ history' = Append(history, Assistant({})) /\ at' = "idle" /\ UNCHANGED notes
     \/ \E note \in Note \ {<<>>} :
          history' = history \o note /\ Noted(note) /\ at' = "preparing"
  /\ UNCHANGED <<child, repeats, receipts, delegations, turns, steps, issued>>

(* The answer has a call. Its id is the server's: a new one, or the first again. *)
IdOf(number) == IF repeats THEN 1 ELSE number

Call ==
  /\ at = "requesting" /\ issued < MaxIssued
  /\ issued' = issued + 1
  /\ history' = Append(history, Assistant({IdOf(issued + 1)}))
  /\ at' = "executing"
  /\ UNCHANGED <<child, repeats, receipts, delegations, turns, steps, notes>>

(* The provider says the request is too long: compact whatever the estimate. *)
Overflow ==
  /\ at = "requesting"
  /\ RunCompaction(history, Forced)
  /\ at' = "preparing"
  /\ UNCHANGED <<child, repeats, delegations, turns, steps, issued, notes>>

(* The call is answered: a Read leaves a receipt, Delegate a record. What hooks *)
(* of the call inject comes before its result.                                *)
Execute ==
  /\ at = "executing"
  /\ \E tool \in {"read", "delegate", "other"}, size \in {"plain", "large"}, note \in Note :
       /\ tool = "other" => size = "plain"
       /\ history' = Append(history \o note, [Result({IdOf(issued)}, {issued}) EXCEPT !.size = size])
       /\ Noted(note)
       /\ receipts' = IF tool = "read" THEN receipts \cup {issued} ELSE receipts
       /\ delegations' = IF tool = "delegate" THEN delegations \cup {issued} ELSE delegations
  /\ at' = "preparing"
  /\ UNCHANGED <<child, repeats, turns, steps, issued>>

(* Cancelled, failed or out of budget: closeOpenToolCalls answers the calls     *)
(* whose id no result has.                                                   *)
EndTurn ==
  /\ at \in {"preparing", "requesting", "executing"}
  /\ LET open == IdsOf(history, "calls") \ IdsOf(history, "results")
     IN  history' = IF open = {} THEN history ELSE Append(history, Result(open, {}))
  /\ at' = "idle"
  /\ UNCHANGED <<child, repeats, receipts, delegations, turns, steps, issued, notes>>

(* /compact, between turns, and the note that tells the model. *)
CompactNow ==
  /\ at = "idle" /\ ~child
  /\ \E note \in Note \ {<<>>} :
       /\ receipts' = {}
       /\ history' = Compact(history, Forced) \o note
       /\ Noted(note)
  /\ UNCHANGED <<at, child, repeats, delegations, turns, steps, issued>>

ContextNext == BeginTurn \/ BeginStep \/ Answer \/ Call \/ Overflow \/ Execute \/ EndTurn \/ CompactNow

ContextSpec == ContextInit /\ [][ContextNext]_contextVars

-----------------------------------------------------------------------------
(* No result is shown without the call it answers, and no call without its    *)
(* result once the turn goes on: a compaction parts no exchange ("Dropping one *)
(* half would silently violate invariant 1"), of a resumed conversation either. *)
(* Where a server repeats its ids, a call may be left without: another call of *)
(* the same id has been answered, and nothing tells the two apart.            *)
ExchangesWhole ==
  \A i \in DOMAIN history :
    /\ \A id \in history[i].results : \E j \in 1..(i - 1) : id \in history[j].calls
    /\ at # "executing" /\ ~repeats => history[i].calls \subseteq IdsOf(history, "results")

(* A receipt in the ledger is of a Read whose result the model still sees in   *)
(* full: no compaction leaves one "to authorise an edit against content that   *)
(* was compacted away".                                                      *)
ReceiptsSeen ==
  \A r \in receipts : \E i \in DOMAIN history : r \in history[i].shows /\ history[i].size # "clipped"

(* What a compaction must not part: a call and its result, a receipt and what  *)
(* was read.                                                                 *)
ConversationSound == ExchangesWhole /\ ReceiptsSeen

Recent(h) == SubSeq(h, Min(LastAsked(h) \cup {Len(h) + 1}), Len(h))

(* A step that makes the history shorter or clips it leaves what was said      *)
(* since the last PreserveExchanges requests of the user as it was, and every  *)
(* delegation of the session told: the tail of compact is kept "verbatim".     *)
CompactionKeeps ==
  [][\/ IsPrefix(history, history')
     \/ /\ \E i \in 0..Len(history') : IsPrefix(Recent(history), SubSeq(history', i + 1, Len(history')))
        /\ delegations \subseteq IdsOf(history', "shows")]_contextVars
=============================================================================
