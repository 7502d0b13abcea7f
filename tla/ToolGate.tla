------------------------------ MODULE ToolGate ------------------------------
(***************************************************************************)
(* The gate every tool call passes: the policy engine and its profiles     *)
(* (src/policy), the approval modes and session approvals, the narrowing   *)
(* by skills and by plan mode (session.ts), and the awaits of              *)
(* ToolRuntime.executeOne between the decision and the effect              *)
(* (tools/runtime.ts): the question to the user, one lease per secret, the *)
(* execution.  A delegated child has a gate of its own whose policy was    *)
(* derived from the parent's when it was built; the mode, the session      *)
(* approvals and the secrets are shared.                                   *)
(*                                                                         *)
(* An access is [cap, at]: its capability and the class of its target (a   *)
(* place for a path, a class of program for a command).  A rule keeps its  *)
(* action, its capability, the classes its pattern matches and the score   *)
(* policy-engine.ts computes for that pattern.                             *)
(***************************************************************************)
EXTENDS Integers, Sequences, FiniteSets

CONSTANTS
  Calls,        \* the calls a model may make: [tool, accesses]
  ChildTools,   \* the tools of the agent a child runs as
  Skills,       \* the project's skills: [name, tools, profile]
  BaseProfile,  \* the session's profile
  AgentProfile, \* the profile the agent asks for
  RootLength,   \* the number of characters of the workspace root's path
  Registered,   \* how often the broker registered each credential as a literal
  Credential,   \* the value each secret reference resolves to
  StartModes,   \* the modes the configuration may start a session in
  MaxApprovals  \* bound: how many subjects are answered for the session

ASSUME StartModesAssumption == StartModes \subseteq {"plan", "manual", "accept-edits", "auto"}
ASSUME RootAssumption == RootLength \in Nat \ {0}
ASSUME ChildToolsAssumption == ChildTools \cap {"Delegate", "Skill"} = {}

Capabilities ==
  {"file.read", "file.read_to_model", "file.write", "file.delete", "process.exec",
   "network.connect", "secret.use", "env.read", "vcs.mutate", "remote.connect",
   "agent.invoke", "mcp.invoke"}

\* No tool has the name of a capability; Delegate and an MCP tool declare one
\* access each, of a capability no other tool declares.
ASSUME CallsAssumption ==
  \A c \in Calls :
    /\ c.accesses \in Seq([cap : Capabilities, at : STRING])
    /\ c.tool \notin Capabilities
    /\ c.tool \in {"Delegate", "Mcp"} => Len(c.accesses) = 1
    /\ \A i \in DOMAIN c.accesses :
         /\ c.accesses[i].cap = "agent.invoke" <=> c.tool = "Delegate"
         /\ c.accesses[i].cap = "mcp.invoke" <=> c.tool = "Mcp"
         /\ c.accesses[i].cap = "secret.use" => c.accesses[i].at \in DOMAIN Credential
ASSUME SecretsAssumption ==
  /\ IsFiniteSet(DOMAIN Credential)
  /\ Credential \in [DOMAIN Credential -> DOMAIN Registered]
  /\ Registered \in [DOMAIN Registered -> Nat]

VARIABLES
  running,    \* a turn is running
  mode,       \* ApprovalModeState.current
  skills,     \* skillEntries: [name, tools, profile, scope]
  layers,     \* the narrowing layers set on the root's ToolRuntime, as profiles
  catalogue,  \* the tools frozen into the root's step
  approvals,  \* SessionApprovalStore: a function from subject keys to BOOLEAN
  child,      \* the running child: the layers it was built with, or NoChild
  flight,     \* the call each runtime is working on, or NoCall
  leases,     \* the secret leases each runtime's call holds, a set of references
  literals    \* Redactor.literals: the reference count of each credential

vars == <<running, mode, skills, layers, catalogue, approvals, child, flight,
          leases, literals>>

Runtimes == {"root", "child"}
Modes == {"plan", "manual", "accept-edits", "auto"}
Refs == DOMAIN Credential
Tools == {c.tool : c \in Calls}
NoCall == [at |-> "none"]
NoChild == <<>>

-----------------------------------------------------------------------------
(* Profiles.                                                               *)

Strictness == [allow |-> 0, ask |-> 1, deny |-> 2, hard_deny |-> 3]

Strictest(actions) ==
  CHOOSE a \in actions : \A b \in actions : Strictness[a] >= Strictness[b]

InWorkspace == {"source", "lockfile", "scratch", "secret", "kernel-policy"}

\* The programs of DEV_EXECUTABLES: git, the search tools and the package
\* managers are among them.
DevPrograms == {"git-read", "search", "dev", "install"}
AnyPlace == {"source", "lockfile", "scratch", "secret", "kernel-policy",
             "outside", "credential", "system"}

\* specificity(): literal text counts for a pattern, alternatives and
\* wildcards against it; a rule without a pattern loses to every other.
Bare == -1000
WorkspaceGlob == 20 + RootLength - 2 - 12
ScratchGlob == 20 + RootLength + 14 - 12
LockfileGlob == 20 + 18 - 12
GitScore == 32
SearchScore == 15
DevScore == 20 - 47
InstallScore == 25
ShellScore == 12

Rule(action, cap, at, score) == [action |-> action, cap |-> cap, at |-> at, score |-> score]
Always(action, cap, at) == Rule(action, cap, at, Bare)

SharedRules ==
  {Rule("allow", "file.read", InWorkspace, WorkspaceGlob),
   Rule("allow", "file.read_to_model", InWorkspace, WorkspaceGlob),
   Always("ask", "file.read", AnyPlace), Always("ask", "file.read_to_model", AnyPlace),
   Rule("allow", "process.exec", {"git-read"}, GitScore),
   Rule("allow", "process.exec", {"search"}, SearchScore),
   Always("allow", "agent.invoke", {"agent"})}

NoMutation ==
  {Always("deny", "file.write", AnyPlace), Always("deny", "file.delete", AnyPlace),
   Always("deny", "network.connect", {"host"}), Always("deny", "vcs.mutate", {"history"}),
   Always("deny", "secret.use", Refs), Always("deny", "mcp.invoke", {"server"}),
   Rule("deny", "process.exec", {"shell"}, ShellScore),
   Always("ask", "remote.connect", {"remote"})}

ReadOnlyRules ==
  SharedRules \cup NoMutation \cup {Rule("ask", "process.exec", DevPrograms, DevScore)}

ReviewRules ==
  SharedRules \cup NoMutation \cup
  {Rule("allow", "process.exec", DevPrograms, DevScore),
   Rule("deny", "process.exec", {"install"}, InstallScore),
   Rule("allow", "file.write", {"scratch"}, ScratchGlob)}

WorkspaceDevRules ==
  SharedRules \cup
  {Rule("allow", "file.write", InWorkspace, WorkspaceGlob),
   Rule("allow", "file.write", {"scratch"}, ScratchGlob),
   Rule("ask", "file.write", {"lockfile"}, LockfileGlob),
   Always("ask", "file.write", AnyPlace),
   Rule("allow", "file.delete", {"scratch"}, ScratchGlob),
   Always("ask", "file.delete", AnyPlace),
   Rule("allow", "process.exec", DevPrograms, DevScore),
   Rule("ask", "process.exec", {"install"}, InstallScore),
   Rule("ask", "process.exec", {"shell"}, ShellScore),
   Always("ask", "process.exec", DevPrograms \cup {"shell", "unknown"}),
   Always("ask", "network.connect", {"host"}), Always("ask", "vcs.mutate", {"history"}),
   Always("ask", "secret.use", Refs), Always("ask", "remote.connect", {"remote"}),
   Always("ask", "env.read", {"environment"}), Always("ask", "mcp.invoke", {"server"})}

\* buildProfile; an unknown name becomes the profile that denies everything.
Profile(name) ==
  CASE name = "read-only"     -> [fallback |-> "deny", rules |-> ReadOnlyRules]
    [] name = "review"        -> [fallback |-> "deny", rules |-> ReviewRules]
    [] name = "workspace-dev" -> [fallback |-> "ask", rules |-> WorkspaceDevRules]
    [] OTHER                  -> [fallback |-> "deny", rules |-> {}]

\* The most specific matching rule, the stricter one on a tie.
EvaluateProfile(name, access) ==
  LET matching == {r \in Profile(name).rules : r.cap = access.cap /\ access.at \in r.at}
      best     == {r \in matching : \A s \in matching : r.score >= s.score}
  IN IF matching = {} THEN Profile(name).fallback
     ELSE IF \E r \in matching : r.action = "hard_deny" THEN "hard_deny"
     ELSE Strictest({r.action : r \in best})

-----------------------------------------------------------------------------
(* The accesses each tool's resolve() declares, by the class of its target. *)

Access(cap, at) == [cap |-> cap, at |-> at]
Call(tool, accesses) == [tool |-> tool, accesses |-> accesses]

ReadCall(at) == Call("Read", <<Access("file.read_to_model", at)>>)
GlobCall(at) == Call("Glob", <<Access("file.read", at)>>)

GrepCall(at, hasRipgrep) ==
  Call("Grep", <<Access("file.read_to_model", at)>>
               \o IF hasRipgrep THEN <<Access("process.exec", "search")>> ELSE <<>>)

GitDiffCall(at) ==
  Call("GitDiff", <<Access("process.exec", "git-read"), Access("file.read_to_model", at)>>)

\* An overwrite and a replacement also read what is there.
WriteCall(at, existed) ==
  Call("Write", <<Access("file.write", at)>>
                \o IF existed THEN <<Access("file.read", at)>> ELSE <<>>)

EditCall(at) == Call("Edit", <<Access("file.write", at), Access("file.read", at)>>)
DeleteCall(at) == Call("Delete", <<Access("file.delete", at), Access("file.read", at)>>)
MoveCall(from, to) == Call("Move", <<Access("file.delete", from), Access("file.write", to)>>)

\* Undoing a creation deletes the file, undoing anything else writes it back.
UndoCall(at, created) ==
  Call("Undo", <<Access("file.read", at), Access(IF created THEN "file.delete" ELSE "file.write", at)>>)

\* The program, the paths its arguments name, the network and the credentials.
ShellCall(program, paths, network, refs) ==
  Call("Shell", <<Access("process.exec", program)>>
                \o [i \in DOMAIN paths |-> Access("file.read_to_model", paths[i])]
                \o (IF network THEN <<Access("network.connect", "host")>> ELSE <<>>)
                \o [i \in DOMAIN refs |-> Access("secret.use", refs[i])])

WebFetchCall == Call("WebFetch", <<Access("network.connect", "host")>>)
McpCall == Call("Mcp", <<Access("mcp.invoke", "server")>>)
DelegateCall == Call("Delegate", <<Access("agent.invoke", "agent")>>)
SkillCall == Call("Skill", <<>>)

-----------------------------------------------------------------------------
(* The policy engine.                                                      *)

\* ProtectedPaths: what may not be read, read into the model's context or
\* changed.
ProtectedPath(access) ==
  \/ access.cap = "file.read_to_model" /\ access.at \in {"secret", "credential", "system"}
  \/ access.cap = "file.read" /\ access.at \in {"credential", "system"}
  \/ /\ access.cap \in {"file.write", "file.delete"}
     /\ access.at \in {"kernel-policy", "secret", "credential", "system"}

\* Protected paths, privilege escalation and the host environment: no layer,
\* approval or mode reaches these.
SystemHardDeny(access) ==
  \/ ProtectedPath(access)
  \/ access.cap = "process.exec" /\ access.at = "sudo"
  \/ access.cap = "env.read"

\* subjectKeyOf: what a session's answer is looked up by.
SubjectKeyOf(access) == <<access.cap, access.at>>

\* ToolExecution.approvalSubject.key: what a session's answer is recorded
\* under.  Only the tools that name their access as the subject agree with
\* SubjectKeyOf; the others put the tool's name in front of the target.
ApprovalSubject(call) ==
  IF call.tool \in {"Delegate", "Mcp"} THEN SubjectKeyOf(call.accesses[1])
  ELSE <<call.tool, IF call.accesses = <<>> THEN "" ELSE call.accesses[1].at>>

\* Mutant of Decide: the kept answer is looked at before the layers.
DecideKept(engine, access) ==
  LET votes == {EvaluateProfile(p, access) : p \in engine}
      key   == SubjectKeyOf(access)
  IN IF SystemHardDeny(access) THEN "hard_deny"
     ELSE IF key \in DOMAIN approvals THEN IF approvals[key] THEN "allow" ELSE "deny"
     ELSE Strictest(votes)

\* decide: the strictest vote over the layers; an answer kept for the session
\* is looked at only where that vote is to ask.
Decide(engine, access) ==
  LET votes == {EvaluateProfile(p, access) : p \in engine}
      key   == SubjectKeyOf(access)
  IN IF SystemHardDeny(access) THEN "hard_deny"
     ELSE IF Strictest(votes) = "ask" /\ key \in DOMAIN approvals
            THEN IF approvals[key] THEN "allow" ELSE "deny"
     ELSE Strictest(votes)

DecideBatch(engine, call) ==
  [i \in DOMAIN call.accesses |-> Decide(engine, call.accesses[i])]

\* Mutant of Blocked: only the first access is looked at.
BlockedFirst(decisions) ==
  decisions # <<>> /\ decisions[1] \in {"deny", "hard_deny"}

\* The calls a decision blocks and the capabilities it asks about.
Blocked(decisions) == \E i \in DOMAIN decisions : decisions[i] \in {"deny", "hard_deny"}

Pending(f) == {f.call.accesses[i].cap : i \in {j \in DOMAIN f.decisions : f.decisions[j] = "ask"}}

\* The layers of the runtime: the session's profile narrowed by the active
\* layers, or what the child was built with.
ActivePolicy(r) == IF r = "root" THEN {BaseProfile} \cup layers ELSE child[1].engine

\* AUTO_ANSWERED: what a mode answers without asking the user.
AutoAnswered(m) ==
  CASE m = "accept-edits" -> {"file.write"}
    [] m = "auto"         -> {"file.write", "file.delete", "process.exec"}
    [] OTHER              -> {}

-----------------------------------------------------------------------------
(* The session: modes, skills and steps.                                   *)

\* recomputeNarrowing: the layers follow from the skills in force and the mode.
Narrowing(entries, m) ==
  {e.profile : e \in {x \in entries : x.profile # "none"}}
  \cup IF m = "plan" THEN {"read-only"} ELSE {}

EffectiveTools(entries) == {t \in Tools : \A e \in entries : t \in e.tools}

\* The constructor of Session refreshes the overlays and derives no layer, not
\* even where the configuration starts the session in plan mode.
Init ==
  /\ running = FALSE
  /\ mode \in StartModes
  /\ skills = {}
  /\ layers = {}
  /\ catalogue = {}
  /\ approvals = <<>>
  /\ child = NoChild
  /\ flight = [r \in Runtimes |-> NoCall]
  /\ leases = [r \in Runtimes |-> {}]
  /\ literals = Registered

\* Session.setApprovalMode, at once whatever is running.
SetApprovalMode ==
  /\ \E m \in Modes \ {mode} : mode' = m /\ layers' = Narrowing(skills, m)
  /\ UNCHANGED <<running, skills, catalogue, approvals, child, flight, leases, literals>>

\* applySkillActivation: a name already active is not added again.
ApplySkill(s, scope) ==
  LET entry == [name |-> s.name, tools |-> s.tools, profile |-> s.profile, scope |-> scope]
  IN /\ skills' = IF \E e \in skills : e.name = s.name THEN skills ELSE skills \cup {entry}
     /\ layers' = Narrowing(skills', mode)

\* A skill activated by a command, between two turns.
ActivateByCommand ==
  /\ ~running
  /\ \E s \in Skills, scope \in {"turn", "run"} : ApplySkill(s, scope)
  /\ UNCHANGED <<running, mode, catalogue, approvals, child, flight, leases, literals>>

\* /permissions reset-session.
ResetApprovals ==
  /\ ~running
  /\ approvals' = <<>>
  /\ UNCHANGED <<running, mode, skills, layers, catalogue, child, flight, leases, literals>>

\* freezeStep, in a turn that runs or that starts here: the catalogue of a
\* step is fixed when it starts.
FreezeStep ==
  /\ flight["root"] = NoCall
  /\ running' = TRUE
  /\ catalogue' = EffectiveTools(skills)
  /\ UNCHANGED <<mode, skills, layers, approvals, child, flight, leases, literals>>

\* The end of a turn: expireTurnScopedSkills, which derives the layers anew
\* only if a skill expires.
EndTurn ==
  /\ running
  /\ flight["root"] = NoCall
  /\ running' = FALSE
  /\ catalogue' = {}
  /\ skills' = {e \in skills : e.scope # "turn"}
  /\ layers' = IF skills' = skills THEN layers ELSE Narrowing(skills', mode)
  /\ UNCHANGED <<mode, approvals, child, flight, leases, literals>>

-----------------------------------------------------------------------------
(* One call through executeOne.                                            *)

Offered(r) == IF r = "root" THEN catalogue ELSE ChildTools

\* The call is in the step's catalogue and its arguments are valid; a call
\* that is not gets its error and changes nothing.  tool.resolve is awaited.
Resolve(r) ==
  /\ running
  /\ flight[r] = NoCall
  /\ r = "child" => child # NoChild
  /\ \E c \in Calls :
       /\ c.tool \in Offered(r)
       /\ flight' = [flight EXCEPT ![r] = [at |-> "resolved", call |-> c]]
  /\ UNCHANGED <<running, mode, skills, layers, catalogue, approvals, child, leases, literals>>

\* The decision is taken with the policy in force now and kept.  "under" notes
\* the policy and the mode it was taken under.
DecideCall(r) ==
  /\ flight[r].at = "resolved"
  /\ LET f         == flight[r]
         decisions == DecideBatch(ActivePolicy(r), f.call)
         asking    == \E i \in DOMAIN decisions : decisions[i] = "ask"
     IN flight' = [flight EXCEPT ![r] =
          IF Blocked(decisions) THEN NoCall
          ELSE [at |-> IF asking THEN "asking" ELSE "leasing", call |-> f.call,
                decisions |-> decisions, under |-> ActivePolicy(r), mode |-> mode,
                answer |-> "none"]]
  /\ UNCHANGED <<running, mode, skills, layers, catalogue, approvals, child, leases, literals>>

\* The PermissionRequest hook was awaited: ModeGatedPrompter.request looks at
\* the mode of this moment and answers, or hands the question to the user.
Request(r) ==
  /\ flight[r].at = "asking"
  /\ flight' = [flight EXCEPT ![r] =
       IF Pending(@) \subseteq AutoAnswered(mode)
         THEN [@ EXCEPT !.at = "leasing", !.answer = "mode"]
         ELSE [@ EXCEPT !.at = "prompted"]]
  /\ UNCHANGED <<running, mode, skills, layers, catalogue, approvals, child, leases, literals>>

Recorded(key, granted) ==
  [k \in DOMAIN approvals \cup {key} |-> IF k = key THEN granted ELSE approvals[k]]

\* The user's answer, for this call or for the session.
Answer(r) ==
  /\ flight[r].at = "prompted"
  /\ \E granted \in BOOLEAN, scope \in {"once", "session"} :
       /\ \/ scope = "once" /\ UNCHANGED approvals
          \/ /\ scope = "session"
             /\ approvals' = Recorded(ApprovalSubject(flight[r].call), granted)
             /\ Cardinality(DOMAIN approvals') <= MaxApprovals
       /\ flight' = [flight EXCEPT ![r] =
            IF granted THEN [@ EXCEPT !.at = "leasing", !.answer = "user"] ELSE NoCall]
  /\ UNCHANGED <<running, mode, skills, layers, catalogue, child, leases, literals>>

\* The references of the call's secret.use accesses, in order.
SecretsOf(call) == {call.accesses[i].at : i \in {j \in DOMAIN call.accesses :
                                                   call.accesses[j].cap = "secret.use"}}

HoldersOf(held, v) == {p \in Runtimes \X Refs : p[2] \in held[p[1]] /\ Credential[p[2]] = v}

\* SecretLease.release: each lease takes one from its credential's count.
Release(r) ==
  /\ leases' = [leases EXCEPT ![r] = {}]
  /\ literals' = [v \in DOMAIN literals |->
                    literals[v] - Cardinality({s \in leases[r] : Credential[s] = v})]

\* secrets.resolve for the next reference: a lease registers its credential
\* with the redactor.
TakeLease(r) ==
  /\ flight[r].at = "leasing"
  /\ \E s \in SecretsOf(flight[r].call) \ leases[r] :
       /\ leases' = [leases EXCEPT ![r] = @ \cup {s}]
       /\ literals' = [literals EXCEPT ![Credential[s]] = @ + 1]
  /\ UNCHANGED <<running, mode, skills, layers, catalogue, approvals, child, flight>>

\* Mutant of LeaseFails: the leases already taken are kept.
LeaseFailsHolding(r) ==
  /\ flight[r].at = "leasing"
  /\ SecretsOf(flight[r].call) \ leases[r] # {}
  /\ flight' = [flight EXCEPT ![r] = NoCall]
  /\ UNCHANGED <<running, mode, skills, layers, catalogue, approvals, child, leases, literals>>

\* The credential cannot be read: the leases already taken are given back.
LeaseFails(r) ==
  /\ flight[r].at = "leasing"
  /\ SecretsOf(flight[r].call) \ leases[r] # {}
  /\ Release(r)
  /\ flight' = [flight EXCEPT ![r] = NoCall]
  /\ UNCHANGED <<running, mode, skills, layers, catalogue, approvals, child>>

\* Mutant of ChildPolicy: the child starts from the session's profile.
ChildPolicyOfSession == {BaseProfile, AgentProfile}

\* deriveSubagent: the child's policy is the parent's of this moment, narrowed
\* by the agent's profile.
ChildPolicy == ActivePolicy("root") \cup {AgentProfile}

\* The sandbox is planned and execute is called.  A Delegate call builds its
\* child; a Skill call activates a skill.  plan and the enforce of each of the
\* four backends build objects and throw nothing, so no call ends between its
\* leases and the try that disposes of them.
Execute(r) ==
  /\ flight[r].at = "leasing"
  /\ SecretsOf(flight[r].call) \subseteq leases[r]
  /\ flight' = [flight EXCEPT ![r].at = "executing"]
  /\ IF flight[r].call.tool = "Skill"
       THEN (\E s \in Skills, scope \in {"turn", "run"} : ApplySkill(s, scope))
       ELSE UNCHANGED <<skills, layers>>
  /\ child' = IF flight[r].call.tool = "Delegate"
                THEN <<[engine |-> ChildPolicy, parent |-> ActivePolicy("root"), mode |-> mode]>>
                ELSE child
  /\ UNCHANGED <<running, mode, catalogue, approvals, leases, literals>>

\* The call returns or throws; executor.dispose() releases its leases either way.
Settle(r) ==
  /\ flight[r].at = "executing"
  /\ flight[r].call.tool = "Delegate" => flight["child"] = NoCall
  /\ Release(r)
  /\ flight' = [flight EXCEPT ![r] = NoCall]
  /\ child' = IF flight[r].call.tool = "Delegate" THEN NoChild ELSE child
  /\ UNCHANGED <<running, mode, skills, layers, catalogue, approvals>>

Next ==
  \/ SetApprovalMode
  \/ ActivateByCommand
  \/ ResetApprovals
  \/ FreezeStep
  \/ EndTurn
  \/ \E r \in Runtimes : Resolve(r)
  \/ \E r \in Runtimes : DecideCall(r)
  \/ \E r \in Runtimes : Request(r)
  \/ \E r \in Runtimes : Answer(r)
  \/ \E r \in Runtimes : TakeLease(r)
  \/ \E r \in Runtimes : LeaseFails(r)
  \/ \E r \in Runtimes : Execute(r)
  \/ \E r \in Runtimes : Settle(r)

Spec == Init /\ [][Next]_vars

-----------------------------------------------------------------------------
(* Properties.                                                             *)

Executing(r) == flight[r].at = "executing"

AccessesOf(r) == {flight[r].call.accesses[i] : i \in DOMAIN flight[r].call.accesses}

\* Every variable has its type: the kept answers are a partial function, a
\* child lives only inside a Delegate call, and the counts never go negative.
TypeOK ==
  /\ running \in BOOLEAN
  /\ mode \in Modes
  /\ \A e \in skills : e.scope \in {"turn", "run"}
  /\ layers \in {Narrowing(skills, mode), {}}
  /\ catalogue \subseteq Tools
  /\ DOMAIN approvals \subseteq {ApprovalSubject(c) : c \in Calls}
  /\ child # NoChild <=> Executing("root") /\ flight["root"].call.tool = "Delegate"
  /\ child = NoChild => flight["child"] = NoCall
  /\ leases \in [Runtimes -> SUBSET Refs]
  /\ literals \in [DOMAIN Registered -> Nat]

\* Whatever the layers, the mode and the kept answers did meanwhile, a call
\* that executes touches nothing that is denied for good, nothing a layer in
\* force when it was decided denies, and where a layer asks somebody said yes:
\* the user, the mode of the moment the question came up, or an answer kept
\* for the session under exactly that access.
NeverPastADeny ==
  \A r \in Runtimes : Executing(r) =>
    \A a \in AccessesOf(r) :
      LET votes == {EvaluateProfile(p, a) : p \in flight[r].under}
      IN /\ ~SystemHardDeny(a)
         /\ votes \cap {"deny", "hard_deny"} = {}
         /\ "ask" \in votes =>
              \/ flight[r].answer \in {"user", "mode"}
              \/ ApprovalSubject(flight[r].call) = SubjectKeyOf(a)

PlanDenied == {"file.write", "file.delete", "network.connect", "vcs.mutate", "mcp.invoke"}

\* Plan mode: a call decided in plan mode, or made by a child built in plan
\* mode, neither writes, deletes, connects nor calls an external tool,
\* whatever was approved earlier in the session, whichever skills came and
\* went and whatever mode the question is answered in. ("A read-only layer
\* intersected into the engine makes mutation `deny` rather than `ask`".) It
\* does not hold where the session starts in plan mode: PlanAtStart.cfg.
PlanHolds ==
  \A r \in Runtimes :
    Executing(r) /\ (IF r = "root" THEN flight[r].mode ELSE child[1].mode) = "plan"
      => \A a \in AccessesOf(r) : a.cap \notin PlanDenied

\* A child never does what its parent's policy refused when it delegated, and
\* what the parent would have had to ask for is not done without an answer.
ChildWithinParent ==
  Executing("child") =>
    \A a \in AccessesOf("child") :
      LET votes == {EvaluateProfile(p, a) : p \in child[1].parent}
      IN /\ votes \cap {"deny", "hard_deny"} = {}
         /\ "ask" \in votes =>
              \/ flight["child"].answer \in {"user", "mode"}
              \/ ApprovalSubject(flight["child"].call) = SubjectKeyOf(a)

\* The redactor knows a credential exactly as long as it is registered or
\* leased: two leases of one value do not take each other's redaction away,
\* and a call that is over, refused or failed half way leaves nothing behind.
LeasesCovered ==
  /\ \A v \in DOMAIN literals : literals[v] = Registered[v] + Cardinality(HoldersOf(leases, v))
  /\ \A r \in Runtimes : flight[r] = NoCall => leases[r] = {}

\* One answer per subject (contract.ts: two calls with the same key share one
\* approval): a call whose subject was answered for the session is not put to
\* the user again.
OneAnswerPerSubject ==
  [][\A r \in Runtimes :
       flight[r].at = "asking" /\ flight'[r].at = "prompted"
         => ApprovalSubject(flight[r].call) \notin DOMAIN approvals]_vars

=============================================================================
