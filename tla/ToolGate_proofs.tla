--------------------------- MODULE ToolGate_proofs ---------------------------
(***************************************************************************)
(* Theorems about ToolGate, for every set of calls, skills and profiles:   *)
(* that no call is executed past a denial or without the answer a layer    *)
(* asks for, that plan mode and the parent's policy hold, and that a       *)
(* credential is redacted exactly as long as it is registered or leased.   *)
(***************************************************************************)
EXTENDS ToolGate, FiniteSetTheorems, TLAPS

-----------------------------------------------------------------------------
(* Votes.                                                                  *)

Actions == {"allow", "ask", "deny", "hard_deny"}

(* The strictest of some actions is one of them, and no other is stricter. *)
LEMMA StrictestOf ==
  ASSUME NEW S, S \subseteq Actions, S # {}
  PROVE  Strictest(S) \in S /\ \A b \in S : Strictness[Strictest(S)] >= Strictness[b]
<1>1. /\ Strictness["allow"] = 0 /\ Strictness["ask"] = 1
      /\ Strictness["deny"] = 2 /\ Strictness["hard_deny"] = 3
  BY DEF Strictness
<1>2. \E a \in S : \A b \in S : Strictness[a] >= Strictness[b]
  <2>1. CASE "hard_deny" \in S BY <1>1, <2>1 DEF Actions
  <2>2. CASE "hard_deny" \notin S /\ "deny" \in S BY <1>1, <2>2 DEF Actions
  <2>3. CASE S \cap {"hard_deny", "deny"} = {} /\ "ask" \in S BY <1>1, <2>3 DEF Actions
  <2>4. CASE S \cap {"hard_deny", "deny", "ask"} = {}
    <3>1. S = {"allow"} BY <2>4 DEF Actions
    <3>2. QED BY <1>1, <3>1
  <2>5. QED BY <2>1, <2>2, <2>3, <2>4
<1>3. QED BY <1>2 DEF Strictest

(* A denial among the votes is not outvoted, nor is a question by a permission. *)
LEMMA StrictestDenies ==
  ASSUME NEW S, S \subseteq Actions, S # {}
  PROVE  /\ S \cap {"deny", "hard_deny"} # {} => Strictest(S) \in {"deny", "hard_deny"}
         /\ "ask" \in S => Strictest(S) # "allow"
         /\ Strictest(S) \in Actions
<1>1. /\ Strictness["allow"] = 0 /\ Strictness["ask"] = 1
      /\ Strictness["deny"] = 2 /\ Strictness["hard_deny"] = 3
  BY DEF Strictness
<1>2. Strictest(S) \in S /\ \A b \in S : Strictness[Strictest(S)] >= Strictness[b] BY StrictestOf
<1>3. Strictest(S) \in Actions BY <1>2
<1>4. S \cap {"deny", "hard_deny"} # {} => Strictest(S) \in {"deny", "hard_deny"}
  <2>1. ASSUME NEW b \in S, b \in {"deny", "hard_deny"}, Strictest(S) \in {"allow", "ask"}
        PROVE  FALSE
    <3>1. Strictness[Strictest(S)] >= Strictness[b] BY <1>2
    <3>2. Strictness[b] >= 2 /\ Strictness[Strictest(S)] <= 1 BY <1>1, <2>1
    <3>3. Strictness[b] \in Int /\ Strictness[Strictest(S)] \in Int BY <1>1, <2>1
    <3>4. QED BY <3>1, <3>2, <3>3
  <2>2. QED BY <1>3, <2>1 DEF Actions
<1>5. "ask" \in S => Strictest(S) # "allow" BY <1>1, <1>2
<1>6. QED BY <1>3, <1>4, <1>5

(* The scores a rule of a profile may have. *)
Scores == {Bare, WorkspaceGlob, ScratchGlob, LockfileGlob, GitScore, SearchScore, DevScore,
           InstallScore, ShellScore}

LEMMA ScoresAreIntegers == Scores \subseteq Int
  BY RootAssumption DEF Scores, Bare, WorkspaceGlob, ScratchGlob, LockfileGlob, GitScore, SearchScore,
     DevScore, InstallScore, ShellScore

(* One number more keeps a greatest. *)
LEMMA OneMore ==
  ASSUME NEW S, S \subseteq Int, NEW T, NEW m \in Int,
         S \cap T # {} => \E g \in S \cap T : \A n \in S \cap T : g >= n
  PROVE  S \cap (T \cup {m}) # {} => \E g \in S \cap (T \cup {m}) : \A n \in S \cap (T \cup {m}) : g >= n
<1>1. SUFFICES ASSUME S \cap (T \cup {m}) # {}
               PROVE  \E g \in S \cap (T \cup {m}) : \A n \in S \cap (T \cup {m}) : g >= n
  OBVIOUS
<1>2. CASE m \notin S BY <1>1, <1>2
<1>3. CASE m \in S /\ S \cap T = {} BY <1>3
<1>4. CASE m \in S /\ S \cap T # {}
  <2>1. PICK g \in S \cap T : \A n \in S \cap T : g >= n BY <1>4
  <2>2. CASE g >= m BY <2>1, <2>2
  <2>3. CASE ~(g >= m)
    <3>1. \A n \in S \cap (T \cup {m}) : m >= n BY <2>1, <2>3
    <3>2. QED BY <1>4, <3>1
  <2>4. QED BY <2>2, <2>3
<1>5. QED BY <1>2, <1>3, <1>4

(* Some scores have a greatest. *)
LEMMA GreatestScore ==
  ASSUME NEW S, S \subseteq Scores, S # {}
  PROVE  \E g \in S : \A n \in S : g >= n
<1> DEFINE Has(T) == S \cap T # {} => \E g \in S \cap T : \A n \in S \cap T : g >= n
<1>1. S \subseteq Int BY ScoresAreIntegers
<1>2. /\ Bare \in Int /\ WorkspaceGlob \in Int /\ ScratchGlob \in Int /\ LockfileGlob \in Int /\ GitScore \in Int
      /\ SearchScore \in Int /\ DevScore \in Int /\ InstallScore \in Int /\ ShellScore \in Int
  BY ScoresAreIntegers DEF Scores
<1>3. Has({}) OBVIOUS
<1>4. \A T : \A m \in Int : Has(T) => Has(T \cup {m}) BY <1>1, OneMore
<1> HIDE DEF Has
<1>5. Has(({} \cup {Bare}) \cup {WorkspaceGlob}) BY <1>2, <1>3, <1>4
<1>6. Has(((({} \cup {Bare}) \cup {WorkspaceGlob}) \cup {ScratchGlob}) \cup {LockfileGlob}) BY <1>2, <1>4, <1>5
<1>7. Has((((((({} \cup {Bare}) \cup {WorkspaceGlob}) \cup {ScratchGlob}) \cup {LockfileGlob}) \cup {GitScore})
             \cup {SearchScore}) \cup {DevScore})
  BY <1>2, <1>4, <1>6
<1>8. Has((((((((({} \cup {Bare}) \cup {WorkspaceGlob}) \cup {ScratchGlob}) \cup {LockfileGlob}) \cup {GitScore})
              \cup {SearchScore}) \cup {DevScore}) \cup {InstallScore}) \cup {ShellScore})
  BY <1>2, <1>4, <1>7
<1>9. (((((((({} \cup {Bare}) \cup {WorkspaceGlob}) \cup {ScratchGlob}) \cup {LockfileGlob}) \cup {GitScore})
              \cup {SearchScore}) \cup {DevScore}) \cup {InstallScore}) \cup {ShellScore} = Scores
  BY DEF Scores
<1>10. Has(Scores) BY <1>8, <1>9
<1>11. S \cap Scores = S OBVIOUS
<1>12. QED BY <1>10, <1>11 DEF Has

(* Every rule of a profile has one of the actions and one of the scores. *)
LEMMA RulesAre ==
  ASSUME NEW name
  PROVE  /\ Profile(name).fallback \in Actions
         /\ \A r \in Profile(name).rules : r.action \in Actions /\ r.score \in Scores
<1> USE DEF Rule, Always, Scores, Actions
<1>1. \A r \in SharedRules : r.action \in Actions /\ r.score \in Scores BY DEF SharedRules
<1>2. \A r \in NoMutation : r.action \in Actions /\ r.score \in Scores BY DEF NoMutation
<1>3. \A r \in ReadOnlyRules : r.action \in Actions /\ r.score \in Scores BY <1>1, <1>2 DEF ReadOnlyRules
<1>4. \A r \in ReviewRules : r.action \in Actions /\ r.score \in Scores BY <1>1, <1>2 DEF ReviewRules
<1>5. \A r \in WorkspaceDevRules : r.action \in Actions /\ r.score \in Scores BY <1>1 DEF WorkspaceDevRules
<1>6. CASE name = "read-only" BY <1>3, <1>6 DEF Profile
<1>7. CASE name = "review" BY <1>4, <1>7 DEF Profile
<1>8. CASE name = "workspace-dev" BY <1>5, <1>8 DEF Profile
<1>9. CASE name \notin {"read-only", "review", "workspace-dev"}
  <2>1. Profile(name) = [fallback |-> "deny", rules |-> {}] BY <1>9 DEF Profile
  <2>2. QED BY <2>1
<1>10. QED BY <1>6, <1>7, <1>8, <1>9

(* A profile answers every access with one action, and if all its rules on the
   access say the same, with that. *)
LEMMA EvaluateOf ==
  ASSUME NEW name, NEW access
  PROVE  /\ EvaluateProfile(name, access) \in Actions
         /\ (/\ Profile(name).fallback = "deny"
             /\ \A r \in Profile(name).rules : r.cap = access.cap => r.action = "deny")
              => EvaluateProfile(name, access) = "deny"
<1> DEFINE matching == {r \in Profile(name).rules : r.cap = access.cap /\ access.at \in r.at}
           best == {r \in matching : \A s \in matching : r.score >= s.score}
           said == {r.action : r \in best}
<1>1. \A r \in matching : r.action \in Actions /\ r.score \in Scores BY RulesAre
<1>2. CASE matching = {}
  <2>1. EvaluateProfile(name, access) = Profile(name).fallback BY <1>2 DEF EvaluateProfile
  <2>2. QED BY <2>1, RulesAre
<1>3. CASE matching # {}
  <2>1. PICK g \in {r.score : r \in matching} : \A n \in {r.score : r \in matching} : g >= n
    <3>1. {r.score : r \in matching} \subseteq Scores BY <1>1
    <3>2. {r.score : r \in matching} # {} BY <1>3
    <3>3. QED BY <3>1, <3>2, GreatestScore
  <2>2. best # {} BY <2>1
  <2>3. said \subseteq Actions /\ said # {} BY <1>1, <2>2
  <2>4. Strictest(said) \in said BY <2>3, StrictestOf
  <2>5. EvaluateProfile(name, access)
          = IF \E r \in matching : r.action = "hard_deny" THEN "hard_deny" ELSE Strictest(said)
    BY <1>3 DEF EvaluateProfile
  <2>6. (\A r \in Profile(name).rules : r.cap = access.cap => r.action = "deny")
          => (~ \E r \in matching : r.action = "hard_deny") /\ said \subseteq {"deny"}
    OBVIOUS
  <2>7. QED BY <2>3, <2>4, <2>5, <2>6 DEF Actions
<1>4. QED BY <1>2, <1>3

(* The read-only profile denies what plan mode must not do. *)
LEMMA ReadOnlyDenies ==
  ASSUME NEW access, access.cap \in PlanDenied
  PROVE  EvaluateProfile("read-only", access) = "deny"
<1>1. Profile("read-only") = [fallback |-> "deny", rules |-> ReadOnlyRules] BY DEF Profile
<1>2. \A r \in SharedRules : r.cap \notin PlanDenied BY DEF SharedRules, Rule, Always, PlanDenied
<1>3. \A r \in NoMutation : r.cap \in PlanDenied => r.action = "deny"
  BY DEF NoMutation, Rule, Always, PlanDenied
<1>4. \A r \in ReadOnlyRules : r.cap \in PlanDenied => r.action = "deny"
  BY <1>2, <1>3 DEF ReadOnlyRules, Rule, PlanDenied
<1>5. QED BY <1>1, <1>4, EvaluateOf

-----------------------------------------------------------------------------
(* Types.                                                                  *)

Names == {BaseProfile, AgentProfile, "read-only", "none"} \cup {s.profile : s \in Skills}
Policies == (SUBSET Names) \ {{}}
Resolving == [at : {"resolved"}, call : Calls]
Deciding == [at : {"asking", "prompted", "leasing", "executing"}, call : Calls,
             decisions : Seq(Actions), under : Policies, mode : Modes,
             answer : {"none", "user", "mode"}]
Flights == {NoCall} \cup Resolving \cup Deciding
Offspring == [engine : Policies, parent : Policies, mode : Modes]
Subjects == {ApprovalSubject(c) : c \in Calls}

(* TypeOK but for the counts, which need the leases, and with it what a flight and
   a child are. *)
Typed ==
  /\ running \in BOOLEAN /\ mode \in Modes
  /\ \A e \in skills : e.scope \in {"turn", "run"} /\ e.profile \in Names
  /\ layers = Narrowing(skills, mode) \/ layers = {}
  /\ catalogue \subseteq Tools
  /\ DOMAIN approvals \subseteq Subjects
  /\ child = NoChild \/ \E c \in Offspring : child = <<c>>
  /\ flight \in [Runtimes -> Flights]
  /\ leases \in [Runtimes -> SUBSET Refs]
  /\ literals \in [DOMAIN Registered -> Int]

(* A child lives in a Delegate call of the root, and its own calls in the child. *)
Standing ==
  /\ child # NoChild <=> flight["root"].at = "executing" /\ flight["root"].call.tool = "Delegate"
  /\ child = NoChild => flight["child"] = NoCall
  /\ flight["child"] # NoCall => flight["child"].call.tool \in ChildTools
  /\ \A r \in Runtimes : flight[r].at \notin {"leasing", "executing"} => leases[r] = {}

(* A flight is told by where it is. *)
LEMMA FlightsAre ==
  ASSUME NEW f \in Flights
  PROVE  /\ f.at = "none" <=> f = NoCall
         /\ f.at = "resolved" => f \in Resolving
         /\ f.at \in {"asking", "prompted", "leasing", "executing"} => f \in Deciding
         /\ f # NoCall => f.call \in Calls
  BY DEF Flights, Resolving, Deciding, NoCall

(* The layers in force and what a child is built with are profiles, and there is
   always one. *)
LEMMA PoliciesTyped ==
  ASSUME Typed
  PROVE  /\ layers \subseteq Names
         /\ ActivePolicy("root") \in Policies
         /\ child # NoChild => child[1] \in Offspring
<1>1. Narrowing(skills, mode) \subseteq Names BY DEF Typed, Narrowing, Names
<1>2. layers \subseteq Names BY <1>1 DEF Typed
<1>3. ActivePolicy("root") = {BaseProfile} \cup layers BY DEF ActivePolicy
<1>4. ActivePolicy("root") \in Policies BY <1>2, <1>3 DEF Policies, Names
<1>5. child # NoChild => child[1] \in Offspring BY DEF Typed
<1>6. QED BY <1>2, <1>4, <1>5

(* An engine with a layer answers, and what it lets pass no layer denied, and no
   layer asked about unless the question is put or an answer was kept. *)
LEMMA DecideOf ==
  ASSUME NEW engine, engine # {}, NEW access
  PROVE  /\ Decide(engine, access) \in Actions
         /\ Decide(engine, access) \notin {"deny", "hard_deny"} =>
              /\ ~SystemHardDeny(access)
              /\ {EvaluateProfile(p, access) : p \in engine} \cap {"deny", "hard_deny"} = {}
              /\ "ask" \in {EvaluateProfile(p, access) : p \in engine} =>
                   Decide(engine, access) = "ask" \/ SubjectKeyOf(access) \in DOMAIN approvals
<1> DEFINE votes == {EvaluateProfile(p, access) : p \in engine}
           key == SubjectKeyOf(access)
<1>1. votes \subseteq Actions /\ votes # {} BY EvaluateOf
<1>2. PICK strictest \in Actions : strictest = Strictest(votes) BY <1>1, StrictestDenies
<1>3. /\ votes \cap {"deny", "hard_deny"} # {} => strictest \in {"deny", "hard_deny"}
      /\ "ask" \in votes => strictest # "allow"
  BY <1>1, <1>2, StrictestDenies
<1>4. Decide(engine, access) =
        IF SystemHardDeny(access) THEN "hard_deny"
        ELSE IF strictest = "ask" /\ key \in DOMAIN approvals
               THEN IF approvals[key] THEN "allow" ELSE "deny"
        ELSE strictest
  BY <1>2 DEF Decide
<1> HIDE DEF votes, key
<1>5. Decide(engine, access) \in Actions BY <1>2, <1>4 DEF Actions
<1>6. Decide(engine, access) \notin {"deny", "hard_deny"} =>
        /\ ~SystemHardDeny(access) /\ votes \cap {"deny", "hard_deny"} = {}
        /\ "ask" \in votes => Decide(engine, access) = "ask" \/ key \in DOMAIN approvals
  BY <1>2, <1>3, <1>4 DEF Actions
<1>7. QED BY <1>5, <1>6 DEF votes, key

(* The decisions of a batch are a sequence of actions. *)
LEMMA BatchOf ==
  ASSUME NEW engine, engine # {}, NEW c \in Calls
  PROVE  /\ DecideBatch(engine, c) \in Seq(Actions)
         /\ DOMAIN DecideBatch(engine, c) = DOMAIN c.accesses
         /\ \A i \in DOMAIN c.accesses : DecideBatch(engine, c)[i] = Decide(engine, c.accesses[i])
<1>1. c.accesses \in Seq([cap : Capabilities, at : STRING]) BY CallsAssumption
<1>2. PICK n \in Nat : DOMAIN c.accesses = 1..n
  <2>1. Len(c.accesses) \in Nat /\ DOMAIN c.accesses = 1..Len(c.accesses) BY <1>1
  <2>2. QED BY <2>1
<1>3. DecideBatch(engine, c) \in [1..n -> Actions] BY <1>2, DecideOf DEF DecideBatch
<1>4. DecideBatch(engine, c) \in Seq(Actions) BY <1>3
<1>5. QED BY <1>4 DEF DecideBatch

(* A skill's entry is an entry, and the layers are derived from what is in force. *)
LEMMA ApplyTyped ==
  ASSUME Typed, NEW s \in Skills, NEW scope \in {"turn", "run"}, ApplySkill(s, scope)
  PROVE  /\ \A e \in skills' : e.scope \in {"turn", "run"} /\ e.profile \in Names
         /\ layers' = Narrowing(skills', mode)
<1> DEFINE entry == [name |-> s.name, tools |-> s.tools, profile |-> s.profile, scope |-> scope]
<1>1. entry.scope \in {"turn", "run"} /\ entry.profile \in Names BY DEF Names
<1>2. skills' = skills \/ skills' = skills \cup {entry} BY DEF ApplySkill
<1>3. QED BY <1>1, <1>2 DEF Typed, ApplySkill

(* A call that is decided is refused, or goes on with what was decided. *)
LEMMA DecidedTyped ==
  ASSUME Typed, Standing, NEW r \in Runtimes, DecideCall(r)
  PROVE  \/ flight' = [flight EXCEPT ![r] = NoCall]
         \/ \E f \in Deciding :
              /\ flight' = [flight EXCEPT ![r] = f]
              /\ f.call = flight[r].call /\ f.under = ActivePolicy(r) /\ f.mode = mode
              /\ f.decisions = DecideBatch(ActivePolicy(r), f.call) /\ ~Blocked(f.decisions)
              /\ f.at = IF \E i \in DOMAIN f.decisions : f.decisions[i] = "ask" THEN "asking" ELSE "leasing"
<1>1. flight[r] \in Resolving /\ flight[r].call \in Calls
  <2>1. flight[r] \in Flights BY DEF Typed
  <2>2. flight[r] \in Resolving BY <2>1, FlightsAre DEF DecideCall
  <2>3. QED BY <2>2 DEF Resolving
<1>2. ActivePolicy(r) \in Policies
  <2>1. CASE r = "root" BY <2>1, PoliciesTyped
  <2>2. CASE r = "child"
    <3>1. child # NoChild BY <1>1, <2>2 DEF Standing, Resolving, NoCall
    <3>2. child[1] \in Offspring BY <3>1, PoliciesTyped
    <3>3. ActivePolicy(r) = child[1].engine BY <2>2 DEF ActivePolicy
    <3>4. QED BY <3>2, <3>3 DEF Offspring
  <2>3. QED BY <2>1, <2>2 DEF Runtimes
<1>3. PICK c \in Calls : c = flight[r].call BY <1>1
<1>4. PICK engine \in Policies : engine = ActivePolicy(r) BY <1>2
<1>5. PICK decisions \in Seq(Actions) : decisions = DecideBatch(engine, c)
  <2>1. engine # {} BY DEF Policies
  <2>2. DecideBatch(engine, c) \in Seq(Actions) BY <2>1, BatchOf
  <2>3. QED BY <2>2
<1>6. CASE Blocked(decisions) BY <1>3, <1>4, <1>5, <1>6 DEF DecideCall
<1>7. CASE ~Blocked(decisions)
  <2>1. PICK place \in {"asking", "leasing"} :
          place = IF \E i \in DOMAIN decisions : decisions[i] = "ask" THEN "asking" ELSE "leasing"
    OBVIOUS
  <2>2. DEFINE f == [at |-> place, call |-> c, decisions |-> decisions, under |-> engine,
                     mode |-> mode, answer |-> "none"]
  <2>3. f \in Deciding BY DEF Deciding, Typed
  <2>4. flight' = [flight EXCEPT ![r] = f] BY <1>3, <1>4, <1>5, <1>7, <2>1 DEF DecideCall
  <2>5. QED BY <1>3, <1>4, <1>5, <1>7, <2>1, <2>3, <2>4
<1>8. QED BY <1>6, <1>7

(* Another place or answer is a flight of the same call, decided as it was. *)
LEMMA MovedTyped ==
  ASSUME NEW f \in Deciding, NEW place \in {"asking", "prompted", "leasing", "executing"},
         NEW answer \in {"none", "user", "mode"}
  PROVE  /\ [f EXCEPT !.at = place] \in Deciding
         /\ [f EXCEPT !.at = place, !.answer = answer] \in Deciding
  BY DEF Deciding

(* Every step keeps types and places. *)
LEMMA TypedStep ==
  ASSUME Typed, Standing, [Next]_vars
  PROVE  Typed' /\ Standing'
<1> USE DEF Typed, Standing
<1>a. "root" \in Runtimes /\ "child" \in Runtimes BY DEF Runtimes
<1>b. NoCall \in Flights /\ NoCall.at = "none" BY DEF Flights, NoCall
<1>c. \A r \in Runtimes : flight[r] \in Flights OBVIOUS
<1>d. ASSUME NEW r \in Runtimes PROVE Release(r) => /\ leases' \in [Runtimes -> SUBSET Refs]
                                                    /\ leases' = [leases EXCEPT ![r] = {}]
                                                    /\ literals' \in [DOMAIN Registered -> Int]
  <2>1. SUFFICES ASSUME Release(r) PROVE literals' \in [DOMAIN Registered -> Int] BY DEF Release
  <2>2. \A v \in DOMAIN literals : Cardinality({s \in leases[r] : Credential[s] = v}) \in Nat
    <3>1. ASSUME NEW v PROVE Cardinality({s \in leases[r] : Credential[s] = v}) \in Nat
      <4>1. IsFiniteSet(Refs) BY SecretsAssumption DEF Refs
      <4>2. {s \in leases[r] : Credential[s] = v} \subseteq Refs OBVIOUS
      <4>3. QED BY <4>1, <4>2, FS_Subset, FS_CardinalityType
    <3>2. QED BY <3>1
  <2>3. QED BY <2>1, <2>2 DEF Release
<1>1. CASE UNCHANGED vars BY <1>1 DEF vars
<1>2. CASE SetApprovalMode BY <1>2 DEF SetApprovalMode
<1>3. CASE ActivateByCommand
  <2>1. PICK s \in Skills, scope \in {"turn", "run"} : ApplySkill(s, scope) BY <1>3 DEF ActivateByCommand
  <2>2. (\A e \in skills' : e.scope \in {"turn", "run"} /\ e.profile \in Names)
        /\ layers' = Narrowing(skills', mode)
    BY <2>1, ApplyTyped
  <2>3. QED BY <1>3, <2>2 DEF ActivateByCommand
<1>4. CASE ResetApprovals BY <1>4 DEF ResetApprovals
<1>5. CASE FreezeStep BY <1>5 DEF FreezeStep, EffectiveTools
<1>6. CASE EndTurn
  <2>1. layers' = Narrowing(skills', mode) \/ layers' = {} BY <1>6 DEF EndTurn
  <2>2. QED BY <1>6, <2>1 DEF EndTurn
<1>7. ASSUME NEW r \in Runtimes, Resolve(r) PROVE Typed' /\ Standing'
  <2>1. PICK c \in Calls : c.tool \in Offered(r) /\ flight' = [flight EXCEPT ![r] = [at |-> "resolved", call |-> c]]
    BY <1>7 DEF Resolve
  <2>2. [at |-> "resolved", call |-> c] \in Flights BY DEF Flights, Resolving
  <2>3. flight' \in [Runtimes -> Flights] BY <2>1, <2>2
  <2>4. flight[r] = NoCall /\ (r = "child" => child # NoChild) BY <1>7 DEF Resolve
  <2>5. UNCHANGED <<running, mode, skills, layers, catalogue, approvals, child, leases, literals>>
    BY <1>7 DEF Resolve
  <2>6. Typed' BY <2>3, <2>5
  <2>7. flight'[r].at = "resolved" /\ flight'[r].call = c /\ \A q \in Runtimes \ {r} : flight'[q] = flight[q]
    BY <2>1
  <2>8. Standing'
    <3>1. r = "child" => c.tool \in ChildTools BY <2>1 DEF Offered
    <3>2. QED BY <1>a, <1>b, <2>4, <2>5, <2>7, <3>1 DEF Runtimes
  <2>9. QED BY <2>6, <2>8
<1>8. ASSUME NEW r \in Runtimes, DecideCall(r) PROVE Typed' /\ Standing'
  <2>1. PICK f \in {NoCall} \cup Deciding :
          /\ flight' = [flight EXCEPT ![r] = f]
          /\ f # NoCall => f.call = flight[r].call /\ f.at \in {"asking", "leasing"}
    BY <1>8, DecidedTyped
  <2>2. flight' \in [Runtimes -> Flights] BY <2>1 DEF Flights
  <2>3. UNCHANGED <<running, mode, skills, layers, catalogue, approvals, child, leases, literals>>
        /\ flight[r].at = "resolved"
    BY <1>8 DEF DecideCall
  <2>4. flight'[r] = f /\ \A q \in Runtimes \ {r} : flight'[q] = flight[q] BY <2>1
  <2>5. f.at # "executing" BY <2>1, <1>b
  <2>6. QED BY <1>a, <1>b, <2>1, <2>2, <2>3, <2>4, <2>5 DEF Runtimes
<1>9. ASSUME NEW r \in Runtimes, Request(r) PROVE Typed' /\ Standing'
  <2>1. flight[r] \in Deciding /\ flight[r].at = "asking" BY <1>9, <1>c, FlightsAre DEF Request
  <2>2. PICK f \in Deciding : /\ flight' = [flight EXCEPT ![r] = f]
                              /\ f.call = flight[r].call /\ f.at \in {"leasing", "prompted"}
    <3>1. /\ [flight[r] EXCEPT !.at = "leasing", !.answer = "mode"] \in Deciding
          /\ [flight[r] EXCEPT !.at = "prompted"] \in Deciding
      BY <2>1, MovedTyped
    <3>2. QED BY <1>9, <2>1, <3>1 DEF Request, Deciding
  <2>3. flight' \in [Runtimes -> Flights] BY <2>2 DEF Flights
  <2>4. UNCHANGED <<running, mode, skills, layers, catalogue, approvals, child, leases, literals>>
    BY <1>9 DEF Request
  <2>5. flight'[r] = f /\ \A q \in Runtimes \ {r} : flight'[q] = flight[q] BY <2>2
  <2>6. f # NoCall /\ flight[r] # NoCall BY <1>b, <2>1, <2>2
  <2>7. QED BY <1>a, <1>b, <2>1, <2>2, <2>3, <2>4, <2>5, <2>6 DEF Runtimes
<1>10. ASSUME NEW r \in Runtimes, Answer(r) PROVE Typed' /\ Standing'
  <2>1. flight[r] \in Deciding /\ flight[r].at = "prompted" /\ flight[r].call \in Calls
    BY <1>10, <1>c, FlightsAre DEF Answer, Deciding
  <2>2. PICK f \in {NoCall} \cup Deciding :
          /\ flight' = [flight EXCEPT ![r] = f]
          /\ f # NoCall => f.call = flight[r].call /\ f.at = "leasing"
    <3>1. [flight[r] EXCEPT !.at = "leasing", !.answer = "user"] \in Deciding BY <2>1, MovedTyped
    <3>2. QED BY <1>10, <2>1, <3>1 DEF Answer, Deciding
  <2>3. flight' \in [Runtimes -> Flights] BY <2>2 DEF Flights
  <2>4. UNCHANGED <<running, mode, skills, layers, catalogue, child, leases, literals>>
    BY <1>10 DEF Answer
  <2>5. DOMAIN approvals' \subseteq Subjects
    <3>1. ApprovalSubject(flight[r].call) \in Subjects BY <2>1 DEF Subjects
    <3>2. approvals' = approvals \/ DOMAIN approvals' = DOMAIN approvals \cup {ApprovalSubject(flight[r].call)}
      BY <1>10 DEF Answer, Recorded
    <3>3. QED BY <3>1, <3>2
  <2>6. flight'[r] = f /\ \A q \in Runtimes \ {r} : flight'[q] = flight[q] BY <2>2
  <2>7. f.at # "executing" /\ flight[r] # NoCall BY <1>b, <2>1, <2>2
  <2>8. QED BY <1>a, <1>b, <2>1, <2>2, <2>3, <2>4, <2>5, <2>6, <2>7 DEF Runtimes
<1>11. ASSUME NEW r \in Runtimes, TakeLease(r) PROVE Typed' /\ Standing'
  <2>1. PICK s \in SecretsOf(flight[r].call) \ leases[r] :
          /\ leases' = [leases EXCEPT ![r] = @ \cup {s}]
          /\ literals' = [literals EXCEPT ![Credential[s]] = @ + 1]
    BY <1>11 DEF TakeLease
  <2>2. flight[r] \in Deciding /\ flight[r].at = "leasing" /\ flight[r].call \in Calls
    BY <1>11, <1>c, FlightsAre DEF TakeLease, Deciding
  <2>3. s \in Refs BY <2>1, <2>2, CallsAssumption DEF SecretsOf, Refs
  <2>4. leases' \in [Runtimes -> SUBSET Refs] BY <2>1, <2>3
  <2>5. literals' \in [DOMAIN Registered -> Int]
    <3>1. Credential[s] \in DOMAIN Registered BY <2>3, SecretsAssumption DEF Refs
    <3>2. literals[Credential[s]] + 1 \in Int BY <3>1
    <3>3. QED BY <2>1, <3>1, <3>2
  <2>6. UNCHANGED <<running, mode, skills, layers, catalogue, approvals, child, flight>>
    BY <1>11 DEF TakeLease
  <2>7. \A q \in Runtimes : q = r \/ leases'[q] = leases[q] BY <2>1
  <2>8. QED BY <2>2, <2>4, <2>5, <2>6, <2>7
<1>12. ASSUME NEW r \in Runtimes, LeaseFails(r) PROVE Typed' /\ Standing'
  <2>1. flight' = [flight EXCEPT ![r] = NoCall] /\ flight[r].at = "leasing" /\ Release(r)
    BY <1>12 DEF LeaseFails
  <2>2. flight' \in [Runtimes -> Flights] BY <1>b, <2>1
  <2>3. UNCHANGED <<running, mode, skills, layers, catalogue, approvals, child>>
    BY <1>12 DEF LeaseFails
  <2>4. flight'[r] = NoCall /\ \A q \in Runtimes \ {r} : flight'[q] = flight[q] BY <2>1
  <2>5. leases'[r] = {} /\ \A q \in Runtimes \ {r} : leases'[q] = leases[q] BY <1>d, <2>1
  <2>6. QED BY <1>a, <1>b, <1>d, <2>1, <2>2, <2>3, <2>4, <2>5 DEF Runtimes
<1>13. ASSUME NEW r \in Runtimes, Execute(r) PROVE Typed' /\ Standing'
  <2>1. flight[r] \in Deciding /\ flight[r].at = "leasing" /\ flight[r] # NoCall
    BY <1>13, <1>b, <1>c, FlightsAre DEF Execute
  <2>2. PICK f \in Deciding : /\ flight' = [flight EXCEPT ![r] = f]
                              /\ f.call = flight[r].call /\ f.at = "executing"
    <3>1. [flight[r] EXCEPT !.at = "executing"] \in Deciding BY <2>1, MovedTyped
    <3>2. flight' = [flight EXCEPT ![r] = [flight[r] EXCEPT !.at = "executing"]] BY <1>13 DEF Execute
    <3>3. QED BY <2>1, <3>1, <3>2 DEF Deciding
  <2>3. flight' \in [Runtimes -> Flights] BY <2>2 DEF Flights
  <2>4. UNCHANGED <<running, mode, catalogue, approvals, leases, literals>> BY <1>13 DEF Execute
  <2>5. flight'[r] = f /\ (\A q \in Runtimes \ {r} : flight'[q] = flight[q]) /\ f # NoCall
    BY <1>b, <2>2
  <2>6. /\ \A e \in skills' : e.scope \in {"turn", "run"} /\ e.profile \in Names
        /\ layers' = Narrowing(skills', mode) \/ layers' = {}
    <3>1. CASE flight[r].call.tool = "Skill"
      <4>1. PICK s \in Skills, scope \in {"turn", "run"} : ApplySkill(s, scope) BY <1>13, <3>1 DEF Execute
      <4>2. QED BY <4>1, ApplyTyped
    <3>2. CASE flight[r].call.tool # "Skill" BY <1>13, <3>2 DEF Execute
    <3>3. QED BY <3>1, <3>2
  <2>7. CASE flight[r].call.tool = "Delegate"
    <3>1. r = "root" BY <2>1, <2>7, ChildToolsAssumption DEF Runtimes
    <3>2. PICK c \in Offspring : child' = <<c>>
      <4>1. ActivePolicy("root") \in Policies BY PoliciesTyped
      <4>2. ChildPolicy \in Policies BY <4>1 DEF ChildPolicy, Policies, Names
      <4>3. [engine |-> ChildPolicy, parent |-> ActivePolicy("root"), mode |-> mode] \in Offspring
        BY <4>1, <4>2 DEF Offspring
      <4>4. QED BY <1>13, <2>7, <4>3 DEF Execute
    <3>3. child' # NoChild BY <3>2 DEF NoChild
    <3>4. Typed' BY <2>3, <2>4, <2>6, <3>2
    <3>5. flight["child"] = NoCall BY <2>1, <3>1
    <3>6. Standing' BY <1>a, <2>2, <2>4, <2>5, <2>7, <3>1, <3>3, <3>5 DEF Runtimes
    <3>7. QED BY <3>4, <3>6
  <2>8. CASE flight[r].call.tool # "Delegate"
    <3>1. child' = child BY <1>13, <2>8 DEF Execute
    <3>2. Typed' BY <2>3, <2>4, <2>6, <3>1
    <3>3. Standing' BY <1>a, <2>1, <2>2, <2>4, <2>5, <2>8, <3>1 DEF Runtimes
    <3>4. QED BY <3>2, <3>3
  <2>9. QED BY <2>7, <2>8
<1>14. ASSUME NEW r \in Runtimes, Settle(r) PROVE Typed' /\ Standing'
  <2>1. /\ flight' = [flight EXCEPT ![r] = NoCall] /\ flight[r].at = "executing" /\ Release(r)
        /\ UNCHANGED <<running, mode, skills, layers, catalogue, approvals>>
        /\ flight[r].call.tool = "Delegate" => flight["child"] = NoCall
    BY <1>14 DEF Settle
  <2>2. flight' \in [Runtimes -> Flights] BY <1>b, <2>1
  <2>3. flight'[r] = NoCall /\ \A q \in Runtimes \ {r} : flight'[q] = flight[q] BY <2>1
  <2>4. leases'[r] = {} /\ \A q \in Runtimes \ {r} : leases'[q] = leases[q] BY <1>d, <2>1
  <2>5. flight[r] # NoCall BY <1>b, <2>1
  <2>6. child' = IF flight[r].call.tool = "Delegate" THEN NoChild ELSE child BY <1>14 DEF Settle
  <2>7. r = "child" => child' = child BY <2>5, <2>6, ChildToolsAssumption
  <2>8. Typed' BY <1>d, <2>1, <2>2, <2>6
  <2>9. Standing' BY <1>a, <1>b, <2>1, <2>3, <2>4, <2>5, <2>6, <2>7 DEF Runtimes
  <2>10. QED BY <2>8, <2>9
<1>15. QED
  BY <1>1, <1>2, <1>3, <1>4, <1>5, <1>6, <1>7, <1>8, <1>9, <1>10, <1>11, <1>12, <1>13, <1>14 DEF Next

(* At the start. *)
LEMMA TypedInit == Init => Typed /\ Standing
<1>1. SUFFICES ASSUME Init PROVE Typed /\ Standing OBVIOUS
<1>2. NoCall \in Flights /\ NoCall.at = "none" BY DEF Flights, NoCall
<1>3. "root" \in Runtimes /\ "child" \in Runtimes BY DEF Runtimes
<1>4. mode \in Modes BY <1>1, StartModesAssumption DEF Init, Modes
<1>5. flight \in [Runtimes -> Flights] /\ leases \in [Runtimes -> SUBSET Refs] BY <1>1, <1>2 DEF Init
<1>6. literals \in [DOMAIN Registered -> Int] BY <1>1, SecretsAssumption DEF Init
<1>7. DOMAIN approvals = {} BY <1>1 DEF Init
<1>8. Typed BY <1>1, <1>4, <1>5, <1>6, <1>7 DEF Init, Typed
<1>9. Standing BY <1>1, <1>2, <1>3 DEF Init, Standing
<1>10. QED BY <1>8, <1>9

LEMMA AlwaysTyped == Spec => [](Typed /\ Standing)
<1>1. Typed /\ Standing /\ [Next]_vars => Typed' /\ Standing' BY TypedStep
<1>2. QED BY TypedInit, <1>1, PTL DEF Spec

-----------------------------------------------------------------------------
(* What is decided, and under what.                                        *)

LEMMA MemberOf ==
  ASSUME NEW S, NEW s \in Seq(S), NEW i \in DOMAIN s
  PROVE  s[i] \in S
  OBVIOUS

(* A kept answer is found only under the subject it was given for: the key a
   decision looks up is a subject of another call for no call. *)
LEMMA SubjectsAgree ==
  ASSUME NEW c \in Calls, NEW i \in DOMAIN c.accesses, SubjectKeyOf(c.accesses[i]) \in Subjects
  PROVE  ApprovalSubject(c) = SubjectKeyOf(c.accesses[i])
<1>1. PICK d \in Calls : SubjectKeyOf(c.accesses[i]) = ApprovalSubject(d) BY DEF Subjects
<1>2. c.accesses[i].cap \in Capabilities
  <2>1. c.accesses \in Seq([cap : Capabilities, at : STRING]) BY CallsAssumption
  <2>2. c.accesses[i] \in [cap : Capabilities, at : STRING] BY <2>1, MemberOf
  <2>3. QED BY <2>2
<1>3. CASE d.tool \notin {"Delegate", "Mcp"}
  <2>1. c.accesses[i].cap = d.tool BY <1>1, <1>3 DEF ApprovalSubject, SubjectKeyOf
  <2>2. QED BY <1>2, <2>1, CallsAssumption
<1>4. CASE d.tool \in {"Delegate", "Mcp"}
  <2>1. 1 \in DOMAIN d.accesses BY <1>4, CallsAssumption
  <2>2. c.accesses[i].cap = d.accesses[1].cap BY <1>1, <1>4 DEF ApprovalSubject, SubjectKeyOf
  <2>3. d.accesses[1].cap \in {"agent.invoke", "mcp.invoke"} BY <1>4, <2>1, CallsAssumption
  <2>4. c.tool \in {"Delegate", "Mcp"} BY <2>2, <2>3, CallsAssumption
  <2>5. i = 1
    <3>1. c.accesses \in Seq([cap : Capabilities, at : STRING]) /\ Len(c.accesses) = 1
      BY <2>4, CallsAssumption
    <3>2. QED BY <3>1
  <2>6. QED BY <2>4, <2>5 DEF ApprovalSubject
<1>5. QED BY <1>3, <1>4

(* What was decided of a call that is under way: nothing denied for good, nothing a
   layer of the time denies, and what a layer asks is asked or was answered. *)
DecidedCall(f) ==
  /\ DOMAIN f.decisions = DOMAIN f.call.accesses
  /\ \A i \in DOMAIN f.decisions :
       /\ ~SystemHardDeny(f.call.accesses[i])
       /\ {EvaluateProfile(p, f.call.accesses[i]) : p \in f.under} \cap {"deny", "hard_deny"} = {}
       /\ "ask" \in {EvaluateProfile(p, f.call.accesses[i]) : p \in f.under} =>
            f.decisions[i] = "ask" \/ ApprovalSubject(f.call) = SubjectKeyOf(f.call.accesses[i])
  /\ f.at \in {"leasing", "executing"} /\ (\E i \in DOMAIN f.decisions : f.decisions[i] = "ask")
       => f.answer \in {"user", "mode"}

Decided == \A r \in Runtimes : flight[r] \in Deciding => DecidedCall(flight[r])

(* What a child is built with holds its parent's policy, and its calls are decided
   under it. *)
Descended ==
  /\ child # NoChild => child[1].parent \subseteq child[1].engine
  /\ flight["child"] \in Deciding => flight["child"].under = child[1].engine

(* The flight of one runtime after a step: none, a call just resolved or decided, or
   the call it was, under what it was. *)
LEMMA FlightStep ==
  ASSUME Typed, Standing, [Next]_vars, NEW r \in Runtimes
  PROVE  \/ flight'[r] \notin Deciding
         \/ DecideCall(r) /\ flight' = [flight EXCEPT ![r] = flight'[r]]
         \/ /\ flight[r] \in Deciding /\ flight'[r] \in Deciding
            /\ flight'[r].call = flight[r].call /\ flight'[r].decisions = flight[r].decisions
            /\ flight'[r].under = flight[r].under /\ flight'[r].mode = flight[r].mode
            /\ \/ flight'[r].answer = flight[r].answer
                  /\ (flight'[r].at \in {"leasing", "executing"} <=> flight[r].at \in {"leasing", "executing"})
               \/ flight'[r].answer \in {"user", "mode"}
<1>a. \A q \in Runtimes : flight[q] \in Flights BY DEF Typed
<1>b. NoCall \notin Deciding /\ NoCall.at = "none" BY DEF NoCall, Deciding
<1>c. \A q : flight' = [flight EXCEPT ![q] = NoCall] => (q = r => flight'[r] = NoCall) /\ (q # r => flight'[r] = flight[r])
  BY DEF Typed
<1>d. flight'[r] = flight[r] => (flight'[r] \notin Deciding \/ (flight[r] \in Deciding /\ flight'[r] \in Deciding))
  OBVIOUS
<1>1. CASE UNCHANGED vars \/ SetApprovalMode \/ ActivateByCommand \/ ResetApprovals \/ FreezeStep \/ EndTurn
  <2>1. flight' = flight
    BY <1>1 DEF vars, SetApprovalMode, ActivateByCommand, ResetApprovals, FreezeStep, EndTurn
  <2>2. QED BY <2>1
<1>2. ASSUME NEW q \in Runtimes, Resolve(q)
      PROVE  (q = r => flight'[r] \notin Deciding) /\ (q # r => flight'[r] = flight[r])
  <2>1. PICK c \in Calls : flight' = [flight EXCEPT ![q] = [at |-> "resolved", call |-> c]]
    BY <1>2 DEF Resolve
  <2>2. [at |-> "resolved", call |-> c] \notin Deciding BY DEF Deciding
  <2>3. QED BY <2>1, <2>2 DEF Typed
<1>3. ASSUME NEW q \in Runtimes, DecideCall(q)
      PROVE  (q # r => flight'[r] = flight[r]) /\ flight' = [flight EXCEPT ![q] = flight'[q]]
  <2>1. PICK f : flight' = [flight EXCEPT ![q] = f] BY <1>3 DEF DecideCall
  <2>2. QED BY <2>1 DEF Typed
<1>4. ASSUME NEW q \in Runtimes, Request(q)
      PROVE  /\ q # r => flight'[r] = flight[r]
             /\ q = r => /\ flight[r] \in Deciding
                         /\ \/ flight'[r] = [flight[r] EXCEPT !.at = "leasing", !.answer = "mode"]
                            \/ flight'[r] = [flight[r] EXCEPT !.at = "prompted"]
                         /\ flight[r].at = "asking"
  <2>1. PICK f : flight' = [flight EXCEPT ![q] = f]
                 /\ f \in {[flight[q] EXCEPT !.at = "leasing", !.answer = "mode"], [flight[q] EXCEPT !.at = "prompted"]}
    BY <1>4 DEF Request, Typed
  <2>2. flight[q].at = "asking" BY <1>4 DEF Request
  <2>3. flight[q] \in Deciding BY <1>a, <2>2, FlightsAre
  <2>4. QED BY <2>1, <2>2, <2>3 DEF Typed
<1>5. ASSUME NEW q \in Runtimes, Answer(q)
      PROVE  /\ q # r => flight'[r] = flight[r]
             /\ q = r => /\ flight[r] \in Deciding
                         /\ \/ flight'[r] = [flight[r] EXCEPT !.at = "leasing", !.answer = "user"]
                            \/ flight'[r] = NoCall
  <2>1. PICK f : flight' = [flight EXCEPT ![q] = f]
                 /\ f \in {[flight[q] EXCEPT !.at = "leasing", !.answer = "user"], NoCall}
    BY <1>5 DEF Answer, Typed
  <2>2. flight[q].at = "prompted" BY <1>5 DEF Answer
  <2>3. flight[q] \in Deciding BY <1>a, <2>2, FlightsAre
  <2>4. QED BY <2>1, <2>3 DEF Typed
<1>6. ASSUME NEW q \in Runtimes, TakeLease(q) PROVE flight' = flight BY <1>6 DEF TakeLease
<1>7. ASSUME NEW q \in Runtimes, LeaseFails(q) \/ Settle(q)
      PROVE  (q = r => flight'[r] = NoCall) /\ (q # r => flight'[r] = flight[r])
  BY <1>7 DEF LeaseFails, Settle, Typed
<1>8. ASSUME NEW q \in Runtimes, Execute(q)
      PROVE  /\ q # r => flight'[r] = flight[r]
             /\ q = r => /\ flight[r] \in Deciding /\ flight[r].at = "leasing"
                         /\ flight'[r] = [flight[r] EXCEPT !.at = "executing"]
  <2>1. flight' = [flight EXCEPT ![q] = [flight[q] EXCEPT !.at = "executing"]] /\ flight[q].at = "leasing"
    BY <1>8 DEF Execute
  <2>2. flight[q] \in Deciding BY <1>a, <2>1, FlightsAre
  <2>3. QED BY <2>1, <2>2 DEF Typed
<1>9. ASSUME flight[r] \in Deciding,
             \/ /\ flight[r].at = "asking"
                /\ \/ flight'[r] = [flight[r] EXCEPT !.at = "leasing", !.answer = "mode"]
                   \/ flight'[r] = [flight[r] EXCEPT !.at = "prompted"]
             \/ flight'[r] = [flight[r] EXCEPT !.at = "leasing", !.answer = "user"]
             \/ flight[r].at = "leasing" /\ flight'[r] = [flight[r] EXCEPT !.at = "executing"]
      PROVE  /\ flight'[r] \in Deciding
             /\ flight'[r].call = flight[r].call /\ flight'[r].decisions = flight[r].decisions
             /\ flight'[r].under = flight[r].under /\ flight'[r].mode = flight[r].mode
             /\ \/ flight'[r].answer = flight[r].answer
                   /\ (flight'[r].at \in {"leasing", "executing"} <=> flight[r].at \in {"leasing", "executing"})
                \/ flight'[r].answer \in {"user", "mode"}
  BY <1>9 DEF Deciding
<1>10. CASE \E q \in Runtimes : Resolve(q) BY <1>2, <1>10
<1>11. CASE \E q \in Runtimes : DecideCall(q) BY <1>3, <1>11
<1>12. CASE \E q \in Runtimes : Request(q) BY <1>4, <1>9, <1>12
<1>13. CASE \E q \in Runtimes : Answer(q) BY <1>b, <1>5, <1>9, <1>13
<1>14. CASE \E q \in Runtimes : TakeLease(q) BY <1>6, <1>14
<1>15. CASE \E q \in Runtimes : LeaseFails(q) \/ Settle(q) BY <1>b, <1>7, <1>15
<1>16. CASE \E q \in Runtimes : Execute(q) BY <1>8, <1>9, <1>16
<1>17. QED BY <1>1, <1>10, <1>11, <1>12, <1>13, <1>14, <1>15, <1>16 DEF Next

(* What was decided stays decided, until the call is over. *)
LEMMA DecidedStep ==
  ASSUME Typed, Standing, Decided, [Next]_vars
  PROVE  Decided'
<1>1. SUFFICES ASSUME NEW r \in Runtimes, flight'[r] \in Deciding PROVE DecidedCall(flight'[r])
  BY DEF Decided
<1>2. CASE DecideCall(r)
  <2>1. PICK f \in Deciding :
          /\ flight' = [flight EXCEPT ![r] = f]
          /\ f.under = ActivePolicy(r) /\ f.decisions = DecideBatch(ActivePolicy(r), f.call)
          /\ ~Blocked(f.decisions)
          /\ f.at = IF \E i \in DOMAIN f.decisions : f.decisions[i] = "ask" THEN "asking" ELSE "leasing"
    <3>1. flight' # [flight EXCEPT ![r] = NoCall]
      <4>1. NoCall \notin Deciding BY DEF NoCall, Deciding
      <4>2. QED BY <1>1, <4>1 DEF Typed
    <3>2. QED BY <1>2, <3>1, DecidedTyped
  <2>2. flight'[r] = f BY <2>1 DEF Typed
  <2>3. f.call \in Calls /\ f.under # {} BY DEF Deciding, Policies
  <2>4. DOMAIN f.decisions = DOMAIN f.call.accesses BY <2>1, <2>3, BatchOf
  <2>5. ASSUME NEW i \in DOMAIN f.decisions
        PROVE  /\ ~SystemHardDeny(f.call.accesses[i])
               /\ {EvaluateProfile(p, f.call.accesses[i]) : p \in f.under} \cap {"deny", "hard_deny"} = {}
               /\ "ask" \in {EvaluateProfile(p, f.call.accesses[i]) : p \in f.under} =>
                    f.decisions[i] = "ask" \/ ApprovalSubject(f.call) = SubjectKeyOf(f.call.accesses[i])
    <3>1. f.decisions[i] = Decide(f.under, f.call.accesses[i]) BY <2>1, <2>3, <2>4, BatchOf
    <3>2. f.decisions[i] \notin {"deny", "hard_deny"} BY <2>1 DEF Blocked
    <3>3. SubjectKeyOf(f.call.accesses[i]) \in DOMAIN approvals =>
            ApprovalSubject(f.call) = SubjectKeyOf(f.call.accesses[i])
      BY <2>3, <2>4, SubjectsAgree DEF Typed
    <3>4. QED BY <2>3, <3>1, <3>2, <3>3, DecideOf
  <2>6. QED BY <2>1, <2>2, <2>4, <2>5 DEF DecidedCall
<1>3. CASE ~DecideCall(r)
  <2>1. /\ flight[r] \in Deciding
        /\ flight'[r].call = flight[r].call /\ flight'[r].decisions = flight[r].decisions
        /\ flight'[r].under = flight[r].under
        /\ \/ flight'[r].answer = flight[r].answer
              /\ (flight'[r].at \in {"leasing", "executing"} <=> flight[r].at \in {"leasing", "executing"})
           \/ flight'[r].answer \in {"user", "mode"}
    BY <1>1, <1>3, FlightStep
  <2>2. DecidedCall(flight[r]) BY <2>1 DEF Decided
  <2>3. QED BY <2>1, <2>2 DEF DecidedCall
<1>4. QED BY <1>2, <1>3

(* Whatever the layers, the mode and the kept answers do meanwhile, no call executes
   past a denial or without the answer a layer asks for. *)
THEOREM NothingPastADeny == Spec => []NeverPastADeny
<1>1. Init => Decided
  <2>1. NoCall \notin Deciding BY DEF NoCall, Deciding
  <2>2. QED BY <2>1 DEF Init, Decided
<1>2. Typed /\ Standing /\ Decided /\ [Next]_vars => Decided' BY DecidedStep
<1>3. Spec => []Decided BY AlwaysTyped, <1>1, <1>2, PTL DEF Spec
<1>4. Typed /\ Decided => NeverPastADeny
  <2>1. SUFFICES ASSUME Typed, Decided, NEW r \in Runtimes, Executing(r), NEW a \in AccessesOf(r)
                 PROVE  LET votes == {EvaluateProfile(p, a) : p \in flight[r].under}
                        IN /\ ~SystemHardDeny(a)
                           /\ votes \cap {"deny", "hard_deny"} = {}
                           /\ "ask" \in votes =>
                                \/ flight[r].answer \in {"user", "mode"}
                                \/ ApprovalSubject(flight[r].call) = SubjectKeyOf(a)
    BY DEF NeverPastADeny
  <2>2. flight[r] \in Deciding /\ flight[r].at = "executing"
    <3>1. flight[r] \in Flights BY <2>1 DEF Typed
    <3>2. QED BY <2>1, <3>1, FlightsAre DEF Executing
  <2>3. DecidedCall(flight[r]) BY <2>1, <2>2 DEF Decided
  <2>4. PICK i \in DOMAIN flight[r].call.accesses : a = flight[r].call.accesses[i] BY <2>1 DEF AccessesOf
  <2>5. QED BY <2>2, <2>3, <2>4 DEF DecidedCall
<1>5. QED BY AlwaysTyped, <1>3, <1>4, PTL

-----------------------------------------------------------------------------
(* Plan mode and children.                                                 *)

(* A call decided, or a child built, in plan mode has the read-only layer under it. *)
Planned ==
  /\ layers = Narrowing(skills, mode)
  /\ flight["root"] \in Deciding /\ flight["root"].mode = "plan" => "read-only" \in flight["root"].under
  /\ child # NoChild /\ child[1].mode = "plan" => "read-only" \in child[1].engine

(* The layers of a mode, whatever the skills. *)
LEMMA PlanNarrows ==
  Planned /\ mode = "plan" => "read-only" \in ActivePolicy("root")
  BY DEF Planned, Narrowing, ActivePolicy

(* What a step does to the child. *)
LEMMA ChildStep ==
  ASSUME Typed, Standing, [Next]_vars
  PROVE  \/ child' = child
         \/ child' = NoChild
         \/ /\ child' = <<[engine |-> ChildPolicy, parent |-> ActivePolicy("root"), mode |-> mode]>>
            /\ flight["child"] = NoCall /\ flight'["child"] = NoCall
<1>1. ASSUME NEW r \in Runtimes, Execute(r), child' # child
      PROVE  /\ child' = <<[engine |-> ChildPolicy, parent |-> ActivePolicy("root"), mode |-> mode]>>
             /\ flight["child"] = NoCall /\ flight'["child"] = NoCall
  <2>1. /\ flight[r].call.tool = "Delegate" /\ flight[r].at = "leasing"
        /\ child' = <<[engine |-> ChildPolicy, parent |-> ActivePolicy("root"), mode |-> mode]>>
        /\ flight' = [flight EXCEPT ![r] = [flight[r] EXCEPT !.at = "executing"]]
    BY <1>1 DEF Execute
  <2>2. flight[r] # NoCall BY <2>1 DEF NoCall
  <2>3. r = "root" BY <2>1, <2>2, ChildToolsAssumption DEF Standing, Runtimes
  <2>4. flight["child"] = NoCall BY <2>1, <2>3 DEF Standing
  <2>5. "child" \in Runtimes BY DEF Runtimes
  <2>6. QED BY <2>1, <2>3, <2>4, <2>5 DEF Typed
<1>2. (\E r \in Runtimes : Settle(r)) => child' \in {child, NoChild} BY DEF Settle
<1>3. CASE ~(\E r \in Runtimes : Execute(r)) /\ ~(\E r \in Runtimes : Settle(r))
  BY <1>3 DEF Next, vars, SetApprovalMode, ActivateByCommand, ResetApprovals, FreezeStep, EndTurn, Resolve,
              DecideCall, Request, Answer, TakeLease, LeaseFails
<1>4. QED BY <1>1, <1>2, <1>3

(* A child stays within its parent's policy of the moment it was built. *)
LEMMA DescendedStep ==
  ASSUME Typed, Standing, Descended, [Next]_vars
  PROVE  Descended'
<1>a. "child" \in Runtimes BY DEF Runtimes
<1>b. NoCall \notin Deciding BY DEF NoCall, Deciding
<1>1. child' # NoChild => child'[1].parent \subseteq child'[1].engine
  BY ChildStep DEF Descended, ChildPolicy
<1>2. ASSUME flight'["child"] \in Deciding PROVE flight'["child"].under = child'[1].engine
  <2>1. CASE DecideCall("child")
    <3>1. child' = child BY <2>1 DEF DecideCall
    <3>2. flight' # [flight EXCEPT !["child"] = NoCall] BY <1>a, <1>b, <1>2 DEF Typed
    <3>3. PICK f : flight' = [flight EXCEPT !["child"] = f] /\ f.under = ActivePolicy("child")
      BY <1>a, <2>1, <3>2, DecidedTyped
    <3>4. flight'["child"] = f BY <1>a, <3>3 DEF Typed
    <3>5. QED BY <3>1, <3>3, <3>4 DEF ActivePolicy
  <2>2. CASE ~DecideCall("child")
    <3>1. flight["child"] \in Deciding /\ flight'["child"].under = flight["child"].under
      BY <1>a, <1>2, <2>2, FlightStep
    <3>2. flight["child"] # NoCall /\ flight'["child"] # NoCall BY <1>b, <1>2, <3>1
    <3>3. child' = child
      <4>1. child' # NoChild BY <3>2, TypedStep DEF Standing
      <4>2. QED BY <3>2, <4>1, ChildStep
    <3>4. QED BY <3>1, <3>3 DEF Descended
  <2>3. QED BY <2>1, <2>2
<1>3. QED BY <1>1, <1>2 DEF Descended

LEMMA AlwaysDescended == Spec => []Descended
<1>1. Init => Descended
  <2>1. NoCall \notin Deciding BY DEF NoCall, Deciding
  <2>2. "child" \in Runtimes BY DEF Runtimes
  <2>3. QED BY <2>1, <2>2 DEF Init, Descended
<1>2. Typed /\ Standing /\ Descended /\ [Next]_vars => Descended' BY DescendedStep
<1>3. QED BY AlwaysTyped, <1>1, <1>2, PTL DEF Spec

(* Plan mode stays under what was decided and built in it. *)
LEMMA PlannedStep ==
  ASSUME Typed, Standing, Planned, [Next]_vars
  PROVE  Planned'
<1>a. "root" \in Runtimes BY DEF Runtimes
<1>b. NoCall \notin Deciding BY DEF NoCall, Deciding
<1>1. layers' = Narrowing(skills', mode')
  <2>1. layers = Narrowing(skills, mode) BY DEF Planned
  <2>2. CASE SetApprovalMode
    <3>1. skills' = skills /\ layers' = Narrowing(skills, mode') BY <2>2 DEF SetApprovalMode
    <3>2. QED BY <3>1
  <2>3. CASE ActivateByCommand
    <3>1. mode' = mode /\ layers' = Narrowing(skills', mode) BY <2>3 DEF ActivateByCommand, ApplySkill
    <3>2. QED BY <3>1
  <2>4. CASE EndTurn
    <3>1. mode' = mode /\ layers' = IF skills' = skills THEN layers ELSE Narrowing(skills', mode)
      BY <2>4 DEF EndTurn
    <3>2. QED BY <2>1, <3>1
  <2>5. ASSUME NEW r \in Runtimes, Execute(r) PROVE layers' = Narrowing(skills', mode')
    <3>1. mode' = mode /\ (layers' = Narrowing(skills', mode) \/ UNCHANGED <<skills, layers>>)
      BY <2>5 DEF Execute, ApplySkill
    <3>2. QED BY <2>1, <3>1
  <2>6. CASE ~SetApprovalMode /\ ~ActivateByCommand /\ ~EndTurn /\ ~(\E r \in Runtimes : Execute(r))
    <3>1. UNCHANGED <<layers, skills, mode>>
      BY <2>6 DEF Next, vars, ResetApprovals, FreezeStep, Resolve, DecideCall, Request, Answer, TakeLease,
                  LeaseFails, Settle
    <3>2. QED BY <2>1, <3>1
  <2>7. QED BY <2>2, <2>3, <2>4, <2>5, <2>6
<1>2. ASSUME flight'["root"] \in Deciding, flight'["root"].mode = "plan"
      PROVE  "read-only" \in flight'["root"].under
  <2>1. CASE DecideCall("root")
    <3>1. flight' # [flight EXCEPT !["root"] = NoCall] BY <1>a, <1>b, <1>2 DEF Typed
    <3>2. PICK f : /\ flight' = [flight EXCEPT !["root"] = f]
                   /\ f.under = ActivePolicy("root") /\ f.mode = mode
      BY <1>a, <2>1, <3>1, DecidedTyped
    <3>3. flight'["root"] = f BY <1>a, <3>2 DEF Typed
    <3>4. QED BY <1>2, <3>2, <3>3, PlanNarrows
  <2>2. CASE ~DecideCall("root")
    <3>1. /\ flight["root"] \in Deciding /\ flight'["root"].under = flight["root"].under
          /\ flight'["root"].mode = flight["root"].mode
      BY <1>a, <1>2, <2>2, FlightStep
    <3>2. QED BY <1>2, <3>1 DEF Planned
  <2>3. QED BY <2>1, <2>2
<1>3. ASSUME child' # NoChild, child'[1].mode = "plan" PROVE "read-only" \in child'[1].engine
  <2>1. CASE child' = child BY <1>3, <2>1 DEF Planned
  <2>2. CASE child' = <<[engine |-> ChildPolicy, parent |-> ActivePolicy("root"), mode |-> mode]>>
    <3>1. mode = "plan" /\ child'[1].engine = ChildPolicy BY <1>3, <2>2
    <3>2. QED BY <3>1, PlanNarrows DEF ChildPolicy
  <2>3. QED BY <1>3, <2>1, <2>2, ChildStep
<1>4. QED BY <1>1, <1>2, <1>3 DEF Planned

(* A call executing has been decided. *)
LEMMA ExecutingDecided ==
  ASSUME Typed, NEW r \in Runtimes, Executing(r)
  PROVE  flight[r] \in Deciding /\ flight[r] # NoCall
<1>1. flight[r] \in Flights /\ flight[r].at = "executing" BY DEF Typed, Executing
<1>2. QED BY <1>1, FlightsAre

(* No call that was decided in plan mode, and none of a child that was built in it,
   mutates anything when it executes, however the session goes on: where the session
   does not start in plan mode, which derives no layer. *)
THEOREM PlanModeHolds ==
  ASSUME "plan" \notin StartModes
  PROVE  Spec => []PlanHolds
<1>1. Init => Planned
  <2>1. SUFFICES ASSUME Init PROVE Planned OBVIOUS
  <2>2. NoCall \notin Deciding BY DEF NoCall, Deciding
  <2>3. "root" \in Runtimes BY DEF Runtimes
  <2>4. mode # "plan" /\ skills = {} /\ layers = {} BY <2>1 DEF Init
  <2>5. Narrowing(skills, mode) = {} BY <2>4 DEF Narrowing
  <2>6. QED BY <2>1, <2>2, <2>3, <2>4, <2>5 DEF Init, Planned
<1>2. Typed /\ Standing /\ Planned /\ [Next]_vars => Planned' BY PlannedStep
<1>3. Spec => []Planned BY AlwaysTyped, <1>1, <1>2, PTL DEF Spec
<1>4. Typed /\ Standing /\ Planned /\ Descended /\ NeverPastADeny => PlanHolds
  <2>1. SUFFICES ASSUME Typed, Standing, Planned, Descended, NeverPastADeny, NEW r \in Runtimes, Executing(r),
                        (IF r = "root" THEN flight[r].mode ELSE child[1].mode) = "plan",
                        NEW a \in AccessesOf(r), a.cap \in PlanDenied
                 PROVE  FALSE
    BY DEF PlanHolds
  <2>2. flight[r] \in Deciding /\ flight[r] # NoCall BY <2>1, ExecutingDecided
  <2>3. "read-only" \in flight[r].under
    <3>1. CASE r = "root" BY <2>1, <2>2, <3>1 DEF Planned
    <3>2. CASE r = "child"
      <4>1. child # NoChild BY <2>1, <2>2, <3>2 DEF Standing
      <4>2. QED BY <2>1, <2>2, <3>2, <4>1 DEF Planned, Descended
    <3>3. QED BY <3>1, <3>2 DEF Runtimes
  <2>4. EvaluateProfile("read-only", a) = "deny" BY <2>1, ReadOnlyDenies
  <2>5. {EvaluateProfile(p, a) : p \in flight[r].under} \cap {"deny", "hard_deny"} = {}
    BY <2>1 DEF NeverPastADeny
  <2>6. QED BY <2>3, <2>4, <2>5
<1>5. QED BY AlwaysTyped, AlwaysDescended, NothingPastADeny, <1>3, <1>4, PTL

(* A child does nothing its parent's policy refused when it delegated, and nothing
   that policy asks about without an answer. *)
THEOREM ChildStaysWithinParent == Spec => []ChildWithinParent
<1>1. Typed /\ Standing /\ Descended /\ NeverPastADeny => ChildWithinParent
  <2>1. SUFFICES ASSUME Typed, Standing, Descended, NeverPastADeny, Executing("child"),
                        NEW a \in AccessesOf("child")
                 PROVE  LET votes == {EvaluateProfile(p, a) : p \in child[1].parent}
                        IN /\ votes \cap {"deny", "hard_deny"} = {}
                           /\ "ask" \in votes =>
                                \/ flight["child"].answer \in {"user", "mode"}
                                \/ ApprovalSubject(flight["child"].call) = SubjectKeyOf(a)
    BY DEF ChildWithinParent
  <2>2. "child" \in Runtimes BY DEF Runtimes
  <2>3. flight["child"] \in Deciding /\ flight["child"] # NoCall BY <2>1, <2>2, ExecutingDecided
  <2>4. child[1].parent \subseteq flight["child"].under
    <3>1. child # NoChild BY <2>1, <2>3 DEF Standing
    <3>2. QED BY <2>1, <2>3, <3>1 DEF Descended
  <2>5. {EvaluateProfile(p, a) : p \in child[1].parent} \subseteq {EvaluateProfile(p, a) : p \in flight["child"].under}
    BY <2>4
  <2>6. /\ {EvaluateProfile(p, a) : p \in flight["child"].under} \cap {"deny", "hard_deny"} = {}
        /\ "ask" \in {EvaluateProfile(p, a) : p \in flight["child"].under} =>
             \/ flight["child"].answer \in {"user", "mode"}
             \/ ApprovalSubject(flight["child"].call) = SubjectKeyOf(a)
    BY <2>1, <2>2 DEF NeverPastADeny
  <2>7. QED BY <2>5, <2>6
<1>2. QED BY AlwaysTyped, AlwaysDescended, NothingPastADeny, <1>1, PTL

-----------------------------------------------------------------------------
(* Leases.                                                                 *)

(* The holders of a credential: the leases of the root's call, and of the child's. *)
HeldBy(held, r, v) == {s \in held[r] : Credential[s] = v}

LEMMA Tagged ==
  ASSUME NEW t, NEW S, IsFiniteSet(S)
  PROVE  IsFiniteSet({t} \X S) /\ Cardinality({t} \X S) = Cardinality(S)
<1>1. IsFiniteSet({t}) /\ Cardinality({t}) = 1 BY FS_Singleton
<1>2. IsFiniteSet({t} \X S) /\ Cardinality({t} \X S) = Cardinality({t}) * Cardinality(S)
  BY <1>1, FS_Product
<1>3. Cardinality(S) \in Nat BY FS_CardinalityType
<1>4. QED BY <1>1, <1>2, <1>3

LEMMA Apart ==
  ASSUME NEW S, IsFiniteSet(S), NEW T, IsFiniteSet(T), S \cap T = {}
  PROVE  Cardinality(S \cup T) = Cardinality(S) + Cardinality(T)
<1>1. Cardinality(S \cup T) = Cardinality(S) + Cardinality(T) - Cardinality(S \cap T) BY FS_Union
<1>2. Cardinality(S \cap T) = 0 BY FS_EmptySet
<1>3. Cardinality(S) \in Nat /\ Cardinality(T) \in Nat BY FS_CardinalityType
<1>4. QED BY <1>1, <1>2, <1>3

LEMMA HoldersByRuntime ==
  ASSUME NEW held \in [Runtimes -> SUBSET Refs], NEW v
  PROVE  /\ IsFiniteSet(HeldBy(held, "root", v)) /\ IsFiniteSet(HeldBy(held, "child", v))
         /\ Cardinality(HoldersOf(held, v)) =
              Cardinality(HeldBy(held, "root", v)) + Cardinality(HeldBy(held, "child", v))
<1> DEFINE R == HeldBy(held, "root", v)
           C == HeldBy(held, "child", v)
<1>1. IsFiniteSet(Refs) BY SecretsAssumption DEF Refs
<1>2. R \subseteq Refs /\ C \subseteq Refs BY DEF HeldBy, Runtimes
<1>3. IsFiniteSet(R) /\ IsFiniteSet(C) BY <1>1, <1>2, FS_Subset
<1>5. IsFiniteSet({"root"} \X R) /\ Cardinality({"root"} \X R) = Cardinality(R)
  BY <1>3, Tagged
<1>6. IsFiniteSet({"child"} \X C) /\ Cardinality({"child"} \X C) = Cardinality(C)
  BY <1>3, Tagged
<1>7. HoldersOf(held, v) = ({"root"} \X R) \cup ({"child"} \X C)
  BY DEF HoldersOf, HeldBy, Runtimes
<1>8. ({"root"} \X R) \cap ({"child"} \X C) = {} OBVIOUS
<1>9. Cardinality(({"root"} \X R) \cup ({"child"} \X C)) = Cardinality({"root"} \X R) + Cardinality({"child"} \X C)
  BY <1>5, <1>6, <1>8, Apart
<1>10. QED BY <1>3, <1>5, <1>6, <1>7, <1>9

(* What a lease adds to the holders of its credential, and what a release takes away. *)
LEMMA Leased ==
  ASSUME NEW held \in [Runtimes -> SUBSET Refs], NEW r \in Runtimes, NEW s \in Refs, s \notin held[r], NEW v,
         NEW after \in [Runtimes -> SUBSET Refs], after[r] = held[r] \cup {s},
         \A q \in Runtimes \ {r} : after[q] = held[q]
  PROVE  /\ Credential[s] = v => Cardinality(HoldersOf(after, v)) = Cardinality(HoldersOf(held, v)) + 1
         /\ Credential[s] # v => Cardinality(HoldersOf(after, v)) = Cardinality(HoldersOf(held, v))
<1>1. ASSUME NEW q \in Runtimes, q # r PROVE HeldBy(after, q, v) = HeldBy(held, q, v)
  BY <1>1 DEF HeldBy
<1>2. /\ Credential[s] = v => HeldBy(after, r, v) = HeldBy(held, r, v) \cup {s}
      /\ Credential[s] # v => HeldBy(after, r, v) = HeldBy(held, r, v)
  BY DEF HeldBy
<1>3. s \notin HeldBy(held, r, v) BY DEF HeldBy
<1>4. \A q \in Runtimes : IsFiniteSet(HeldBy(held, q, v)) /\ Cardinality(HeldBy(held, q, v)) \in Nat
  BY HoldersByRuntime, FS_CardinalityType DEF Runtimes
<1>5. Cardinality(HeldBy(held, r, v) \cup {s}) = Cardinality(HeldBy(held, r, v)) + 1
  BY <1>3, <1>4, FS_AddElement
<1>6. Cardinality(HoldersOf(held, v)) = Cardinality(HeldBy(held, "root", v)) + Cardinality(HeldBy(held, "child", v))
  BY HoldersByRuntime
<1>7. Cardinality(HoldersOf(after, v)) = Cardinality(HeldBy(after, "root", v)) + Cardinality(HeldBy(after, "child", v))
  BY HoldersByRuntime
<1>8. "root" \in Runtimes /\ "child" \in Runtimes /\ r \in {"root", "child"} BY DEF Runtimes
<1>9. CASE Credential[s] = v
  <2>1. Cardinality(HeldBy(after, r, v)) = Cardinality(HeldBy(held, r, v)) + 1 BY <1>2, <1>5, <1>9
  <2>2. QED BY <1>1, <1>4, <1>6, <1>7, <1>8, <1>9, <2>1
<1>10. CASE Credential[s] # v
  <2>1. HeldBy(after, r, v) = HeldBy(held, r, v) BY <1>2, <1>10
  <2>2. QED BY <1>1, <1>6, <1>7, <1>8, <1>10, <2>1
<1>11. QED BY <1>9, <1>10

LEMMA Released ==
  ASSUME NEW held \in [Runtimes -> SUBSET Refs], NEW r \in Runtimes, NEW v
  PROVE  Cardinality(HoldersOf([held EXCEPT ![r] = {}], v)) =
           Cardinality(HoldersOf(held, v)) - Cardinality(HeldBy(held, r, v))
<1>1. PICK after : after = [held EXCEPT ![r] = {}] OBVIOUS
<1>2. after \in [Runtimes -> SUBSET Refs] BY <1>1
<1>3. ASSUME NEW q \in Runtimes, q # r PROVE HeldBy(after, q, v) = HeldBy(held, q, v)
  BY <1>1, <1>3 DEF HeldBy
<1>4. HeldBy(after, r, v) = {} BY <1>1 DEF HeldBy
<1>5. \A q \in Runtimes : Cardinality(HeldBy(held, q, v)) \in Nat
  BY HoldersByRuntime, FS_CardinalityType DEF Runtimes
<1>6. Cardinality(HeldBy(after, r, v)) = 0 BY <1>4, FS_EmptySet
<1>7. Cardinality(HoldersOf(held, v)) = Cardinality(HeldBy(held, "root", v)) + Cardinality(HeldBy(held, "child", v))
  BY HoldersByRuntime
<1>8. Cardinality(HoldersOf(after, v)) = Cardinality(HeldBy(after, "root", v)) + Cardinality(HeldBy(after, "child", v))
  BY <1>2, HoldersByRuntime
<1>9. "root" \in Runtimes /\ "child" \in Runtimes /\ r \in {"root", "child"} BY DEF Runtimes
<1>10. Cardinality(HoldersOf(after, v)) = Cardinality(HoldersOf(held, v)) - Cardinality(HeldBy(held, r, v))
  BY <1>3, <1>5, <1>6, <1>7, <1>8, <1>9
<1>11. QED BY <1>1, <1>10

(* Every credential is known as often as it is registered or leased. *)
Counted == \A v \in DOMAIN literals : literals[v] = Registered[v] + Cardinality(HoldersOf(leases, v))

LEMMA HoldersCounted ==
  ASSUME Typed, NEW v
  PROVE  Cardinality(HoldersOf(leases, v)) \in Nat
<1>1. leases \in [Runtimes -> SUBSET Refs] BY DEF Typed
<1>2. /\ IsFiniteSet(HeldBy(leases, "root", v)) /\ IsFiniteSet(HeldBy(leases, "child", v))
      /\ Cardinality(HoldersOf(leases, v)) =
           Cardinality(HeldBy(leases, "root", v)) + Cardinality(HeldBy(leases, "child", v))
  BY <1>1, HoldersByRuntime
<1>3. Cardinality(HeldBy(leases, "root", v)) \in Nat /\ Cardinality(HeldBy(leases, "child", v)) \in Nat
  BY <1>2, FS_CardinalityType
<1>4. QED BY <1>2, <1>3

LEMMA CountedStep ==
  ASSUME Typed, Counted, [Next]_vars
  PROVE  Counted'
<1>a. leases \in [Runtimes -> SUBSET Refs] /\ literals \in [DOMAIN Registered -> Int] BY DEF Typed
<1>b. \A v \in DOMAIN Registered : Registered[v] \in Nat BY SecretsAssumption
<1>1. CASE UNCHANGED <<leases, literals>>
  BY <1>1 DEF Counted
<1>2. ASSUME NEW r \in Runtimes, TakeLease(r) PROVE Counted'
  <2>1. PICK s \in SecretsOf(flight[r].call) \ leases[r] :
          /\ leases' = [leases EXCEPT ![r] = leases[r] \cup {s}]
          /\ literals' = [literals EXCEPT ![Credential[s]] = literals[Credential[s]] + 1]
    BY <1>2, <1>a DEF TakeLease
  <2>2. s \in Refs
    <3>1. flight[r].at = "leasing" /\ flight[r] \in Flights BY <1>2 DEF TakeLease, Typed
    <3>2. flight[r].call \in Calls BY <3>1, FlightsAre DEF Deciding
    <3>3. PICK i \in DOMAIN flight[r].call.accesses :
            flight[r].call.accesses[i].cap = "secret.use" /\ s = flight[r].call.accesses[i].at
      BY <2>1 DEF SecretsOf
    <3>4. QED BY <3>2, <3>3, CallsAssumption DEF Refs
  <2>3. DOMAIN literals' = DOMAIN literals BY <2>1
  <2>4. ASSUME NEW v \in DOMAIN literals PROVE literals'[v] = Registered[v] + Cardinality(HoldersOf(leases', v))
    <3>1. /\ Credential[s] = v => Cardinality(HoldersOf(leases', v)) = Cardinality(HoldersOf(leases, v)) + 1
          /\ Credential[s] # v => Cardinality(HoldersOf(leases', v)) = Cardinality(HoldersOf(leases, v))
      <4>1. /\ leases' \in [Runtimes -> SUBSET Refs] /\ leases'[r] = leases[r] \cup {s}
            /\ \A q \in Runtimes \ {r} : leases'[q] = leases[q]
        BY <1>a, <2>1, <2>2
      <4>2. s \notin leases[r] BY <2>1
      <4>3. QED BY <1>a, <2>2, <4>1, <4>2, Leased
    <3>2. /\ Credential[s] = v => literals'[v] = literals[v] + 1
          /\ Credential[s] # v => literals'[v] = literals[v]
      BY <1>a, <2>1, <2>4
    <3>3. literals[v] = Registered[v] + Cardinality(HoldersOf(leases, v)) BY <2>4 DEF Counted
    <3>4. Cardinality(HoldersOf(leases, v)) \in Nat BY HoldersCounted
    <3>5. Registered[v] \in Nat BY <1>a, <1>b, <2>4
    <3>6. QED BY <3>1, <3>2, <3>3, <3>4, <3>5
  <2>5. QED BY <2>3, <2>4 DEF Counted
<1>3. ASSUME NEW r \in Runtimes, Release(r) PROVE Counted'
  <2>1. leases' = [leases EXCEPT ![r] = {}] BY <1>3 DEF Release
  <2>2. literals' = [v \in DOMAIN literals |-> literals[v] - Cardinality(HeldBy(leases, r, v))]
    BY <1>3 DEF Release, HeldBy
  <2>3. ASSUME NEW v \in DOMAIN literals PROVE literals'[v] = Registered[v] + Cardinality(HoldersOf(leases', v))
    <3>1. Cardinality(HoldersOf(leases', v)) = Cardinality(HoldersOf(leases, v)) - Cardinality(HeldBy(leases, r, v))
      BY <1>a, <2>1, Released
    <3>2. literals'[v] = literals[v] - Cardinality(HeldBy(leases, r, v)) BY <2>2, <2>3
    <3>3. literals[v] = Registered[v] + Cardinality(HoldersOf(leases, v)) BY <2>3 DEF Counted
    <3>4. Cardinality(HoldersOf(leases, v)) \in Nat BY HoldersCounted
    <3>5. Registered[v] \in Nat BY <1>a, <1>b, <2>3
    <3>6. Cardinality(HeldBy(leases, r, v)) \in Nat BY <1>a, HoldersByRuntime, FS_CardinalityType DEF Runtimes
    <3>7. QED BY <3>1, <3>2, <3>3, <3>4, <3>5, <3>6
  <2>4. DOMAIN literals' = DOMAIN literals BY <2>2
  <2>5. QED BY <2>3, <2>4 DEF Counted
<1>4. CASE \E r \in Runtimes : LeaseFails(r) \/ Settle(r) BY <1>3, <1>4 DEF LeaseFails, Settle
<1>5. CASE \E r \in Runtimes : TakeLease(r) BY <1>2, <1>5
<1>6. CASE ~(\E r \in Runtimes : TakeLease(r) \/ LeaseFails(r) \/ Settle(r))
  <2>1. UNCHANGED <<leases, literals>>
    BY <1>6 DEF Next, vars, SetApprovalMode, ActivateByCommand, ResetApprovals, FreezeStep, EndTurn, Resolve,
                DecideCall, Request, Answer, Execute
  <2>2. QED BY <1>1, <2>1
<1>7. QED BY <1>4, <1>5, <1>6

LEMMA AlwaysCounted == Spec => []Counted
<1>1. Init => Counted
  <2>1. SUFFICES ASSUME Init, NEW v \in DOMAIN literals
                 PROVE  literals[v] = Registered[v] + Cardinality(HoldersOf(leases, v))
    BY DEF Counted
  <2>2. HoldersOf(leases, v) = {} BY <2>1 DEF Init, HoldersOf
  <2>3. Cardinality(HoldersOf(leases, v)) = 0 BY <2>2, FS_EmptySet
  <2>4. literals[v] = Registered[v] /\ Registered[v] \in Nat BY <2>1, SecretsAssumption DEF Init
  <2>5. QED BY <2>3, <2>4
<1>2. Typed /\ Counted /\ [Next]_vars => Counted' BY CountedStep
<1>3. QED BY AlwaysTyped, <1>1, <1>2, PTL DEF Spec

(* A credential stays known to the redactor as long as anything holds it, and a call
   that is over holds nothing, whichever way the calls of the two runtimes cross. *)
THEOREM LeasesStayCovered == Spec => []LeasesCovered
<1>1. Typed /\ Standing /\ Counted => LeasesCovered
  <2>1. NoCall.at = "none" BY DEF NoCall
  <2>2. QED BY <2>1 DEF Standing, Counted, LeasesCovered
<1>2. QED BY AlwaysTyped, AlwaysCounted, <1>1, PTL

(* Every variable keeps its type: the counts never go negative. *)
THEOREM Typing == Spec => []TypeOK
<1>1. Typed /\ Standing /\ Counted => TypeOK
  <2>1. SUFFICES ASSUME Typed, Standing, Counted PROVE TypeOK OBVIOUS
  <2>2. literals \in [DOMAIN Registered -> Nat]
    <3>1. ASSUME NEW v \in DOMAIN Registered PROVE literals[v] \in Nat
      <4>1. literals[v] = Registered[v] + Cardinality(HoldersOf(leases, v)) BY <2>1, <3>1 DEF Counted, Typed
      <4>2. Registered[v] \in Nat BY <3>1, SecretsAssumption
      <4>3. Cardinality(HoldersOf(leases, v)) \in Nat BY <2>1, HoldersCounted
      <4>4. QED BY <4>1, <4>2, <4>3
    <3>2. QED BY <2>1, <3>1 DEF Typed
  <2>3. QED BY <2>1, <2>2 DEF TypeOK, Typed, Standing, Executing, Subjects
<1>2. QED BY AlwaysTyped, AlwaysCounted, <1>1, PTL
=============================================================================
