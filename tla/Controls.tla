------------------------------ MODULE Controls ------------------------------
(* The controls of a session: the commands of the control plane that change it *)
(* (control/control-plane.ts), what they tell the model, and how the session    *)
(* takes the changes up: at once, at the next step or in the next turn          *)
(* (session.ts, kernel.ts, main.ts, extensions/skills.ts).                      *)
(*                                                                           *)
(* The terminal runs commands at its prompt. A session accepts a model and a    *)
(* skill at any time and stages them while a request is under way. What the     *)
(* narrowing does to the policy is ToolGate's.                                  *)
EXTENDS Naturals, FiniteSets, FiniteSetsExt

CONSTANTS Toolbox,        \* the tools of the session
          SkillFiles,     \* what discovery found: [tools, steps] per name
          Models,         \* the aliases that resolve
          Efforts,        \* the reasoning levels
          Objectives,     \* what /goal set may be given
          Criteria,       \* what /goal criteria may be given
          Ceiling,        \* the session's budget per turn: [steps, calls]
          Overrides,      \* what the flags of /loop start may say
          Configured,     \* [mode, model, effort] of the configuration
          Unset,
          MaxTyped,    \* bound: changes by the user in one process
          MaxRestarts     \* bound

VARIABLES
  stage,       \* where the turn stands
  chosen,      \* [mode, model, effort, loop] in force
  pendingModel,\* a model staged for the next step
  goal,        \* ContextEngine.goal
  active,      \* skillEntries: [name, scope, allowed, steps]
  staged,      \* pendingSkillEntries
  offered,     \* effectiveTools
  overlays,    \* the skills whose instructions the projector shows
  catalogue,   \* the tools frozen into the step
  ceiling,     \* the budget of the turn
  spent,       \* steps of the turn
  heard,       \* the last control message on each subject the model can still see
  saved,       \* [model, goal] of the metadata file
  typed, restarts \* bounds

controlsVars == <<stage, chosen, pendingModel, goal, active, staged, offered, overlays, catalogue,
                  ceiling, spent, heard, saved, typed, restarts>>

sessionVars == <<active, staged, offered, overlays>>
turnVars == <<catalogue, ceiling, spent>>

ApprovalModes == <<"plan", "manual", "accept-edits", "auto">>
Scopes == {"turn", "run"}
Statuses == {"active", "paused"}
Goals == [objective : Objectives, criteria : SUBSET Criteria, status : Statuses]
Subjects == {"mode", "model", "effort", "loop", "objective", "status"}

ASSUME ControlsAssumption ==
  /\ \A s \in DOMAIN SkillFiles :
       SkillFiles[s].tools \subseteq Toolbox /\ SkillFiles[s].steps \in Nat \cup {Unset}
  /\ Ceiling \in [DOMAIN Ceiling -> Nat] /\ "steps" \in DOMAIN Ceiling
  /\ \A asked \in Overrides :
       DOMAIN asked \subseteq DOMAIN Ceiling /\ asked \in [DOMAIN asked -> Nat]
  /\ Configured \in [mode : {"plan", "manual", "accept-edits", "auto"}, model : Models,
                      effort : Efforts \cup {Unset}]
  /\ Unset \notin Models /\ Unset \notin Overrides /\ Unset \notin Nat /\ Unset \notin Goals
  /\ MaxTyped \in Nat /\ MaxRestarts \in Nat

-----------------------------------------------------------------------------
(* Pure parts.                                                                 *)

\* cycleApprovalMode
Cycled(mode) ==
  LET i == CHOOSE i \in DOMAIN ApprovalModes : ApprovalModes[i] = mode
  IN ApprovalModes[(i % 4) + 1]

\* applyCeiling: the ceiling, narrowed where a field says less.
Clamp(asked) ==
  [f \in DOMAIN Ceiling |-> IF f \in DOMAIN asked THEN Min({asked[f], Ceiling[f]}) ELSE Ceiling[f]]

\* budgetOverride: what /loop and the limits of the skills say together.
Narrowest(loop, entries) ==
  LET limits == {e.steps : e \in {x \in entries : x.steps # Unset}}
      said   == IF loop = Unset THEN <<>> ELSE loop
  IN IF limits = {} THEN said
     ELSE [f \in DOMAIN said \cup {"steps"} |->
             IF f = "steps" THEN Min(limits \cup (IF f \in DOMAIN said THEN {said[f]} ELSE {}))
             ELSE said[f]]

\* recomputeNarrowing: from the baseline every time.
Permitted(entries) == {t \in Toolbox : \A e \in entries : t \in e.allowed}
NamesOf(entries) == {e.name : e \in entries}

\* activateSkill: of the tools the session has at this moment those the file
\* names, and its limit where it is below the session's.
Activated(name, scope) ==
  [name |-> name, scope |-> scope, allowed |-> offered \cap SkillFiles[name].tools,
   steps |-> IF SkillFiles[name].steps = Unset THEN Unset
             ELSE Min({SkillFiles[name].steps, Ceiling.steps})]

\* appendControlResult: the message about a subject takes the place of an older
\* one in what the model knows.
Tell(news) == heard' = [s \in DOMAIN news \cup DOMAIN heard |->
                          IF s \in DOMAIN news THEN news[s] ELSE heard[s]]
On(subject, value) == [s \in {subject} |-> value]

ControlsInit ==
  /\ stage = "prompt"
  /\ chosen = [mode |-> Configured.mode, model |-> Configured.model, effort |-> Configured.effort,
               loop |-> Unset]
  /\ pendingModel = Unset /\ goal = Unset
  /\ active = {} /\ staged = {} /\ offered = Toolbox /\ overlays = {}
  /\ catalogue = {} /\ ceiling = Ceiling /\ spent = 0
  /\ heard = <<>>
  /\ saved = [model |-> Configured.model, goal |-> Unset]
  /\ typed = 0 /\ restarts = 0

-----------------------------------------------------------------------------
(* Commands. One that is refused (an unknown name, a missing argument, /remote   *)
(* connect, which nothing implements) changes nothing and tells the model        *)
(* nothing.                                                                    *)

AtPrompt ==
  /\ stage = "prompt"
  /\ typed < MaxTyped
  /\ typed' = typed + 1

Anytime ==
  /\ typed < MaxTyped
  /\ typed' = typed + 1

\* /mode: applyApprovalMode, which also says so where nothing changes.
ModeCommand ==
  /\ AtPrompt
  /\ \E mode \in {"plan", "auto"} : chosen' = [chosen EXCEPT !.mode = mode] /\ Tell(On("mode", mode))
  /\ UNCHANGED <<stage, pendingModel, goal, sessionVars, turnVars, saved, restarts>>

\* Mutant of ShiftTab: the keystroke changes the mode and tells nobody.
ShiftTabSilent ==
  /\ AtPrompt
  /\ chosen' = [chosen EXCEPT !.mode = Cycled(@)]
  /\ UNCHANGED <<stage, pendingModel, goal, sessionVars, turnVars, heard, saved, restarts>>

\* Shift-Tab in the line editor: the next mode, through applyApprovalMode too,
\* and a message of its own to the model.
ShiftTab ==
  /\ AtPrompt
  /\ chosen' = [chosen EXCEPT !.mode = Cycled(@)]
  /\ Tell(On("mode", chosen'.mode))
  /\ UNCHANGED <<stage, pendingModel, goal, sessionVars, turnVars, saved, restarts>>

\* /effort
ChangeEffort ==
  /\ AtPrompt
  /\ \E effort \in Efforts \cup {Unset} :
       /\ chosen' = [chosen EXCEPT !.effort = effort]
       /\ Tell(On("effort", effort))
  /\ UNCHANGED <<stage, pendingModel, goal, sessionVars, turnVars, saved, restarts>>

\* /model use: staged while a request is under way, at once otherwise.
UseModel ==
  /\ Anytime
  /\ \E alias \in Models :
       /\ Tell(On("model", alias))
       /\ IF stage = "sampling"
            THEN pendingModel' = alias /\ UNCHANGED chosen
            ELSE pendingModel' = Unset /\ chosen' = [chosen EXCEPT !.model = alias]
  /\ UNCHANGED <<stage, goal, sessionVars, turnVars, saved, restarts>>

\* parseLoopFlags: one limit that is not positive refuses the command.
LoopFlags == {asked \in Overrides : \A f \in DOMAIN asked : asked[f] > 0}

\* /loop start and /loop stop: for the turns to come.
ChangeLoop ==
  /\ AtPrompt
  /\ \/ \E asked \in LoopFlags :
          chosen' = [chosen EXCEPT !.loop = asked] /\ Tell(On("loop", "on"))
     \/ chosen' = [chosen EXCEPT !.loop = Unset] /\ Tell(On("loop", "off"))
  /\ UNCHANGED <<stage, pendingModel, goal, sessionVars, turnVars, saved, restarts>>

\* /goal set keeps the criteria of the goal it replaces.
SetGoal ==
  /\ AtPrompt
  /\ \E objective \in Objectives :
       /\ goal' = [objective |-> objective, status |-> "active",
                   criteria |-> IF goal = Unset THEN {} ELSE goal.criteria]
       /\ Tell([s \in {"objective", "status"} |-> goal'[s]])
  /\ UNCHANGED <<stage, chosen, pendingModel, sessionVars, turnVars, saved, restarts>>

\* /goal criteria, /goal pause and /goal resume: only of a goal there is.
AmendGoal ==
  /\ AtPrompt
  /\ goal # Unset
  /\ \/ \E criterion \in Criteria :
          goal' = [goal EXCEPT !.criteria = @ \cup {criterion}] /\ UNCHANGED heard
     \/ \E status \in Statuses :
          goal' = [goal EXCEPT !.status = status] /\ Tell(On("status", status))
  /\ UNCHANGED <<stage, chosen, pendingModel, sessionVars, turnVars, saved, restarts>>

\* /goal clear
ClearGoal ==
  /\ AtPrompt
  /\ goal' = Unset
  /\ Tell([s \in {"objective", "status"} |-> Unset])
  /\ UNCHANGED <<stage, chosen, pendingModel, sessionVars, turnVars, saved, restarts>>

\* applySkillActivation: a name that is active or staged is not added again,
\* whatever scope is asked for; staged while sampling.
Activate(name, scope) ==
  LET new == IF name \in NamesOf(active \cup staged) THEN {} ELSE {Activated(name, scope)}
  IN IF stage = "sampling"
       THEN staged' = staged \cup new /\ UNCHANGED <<active, offered, overlays>>
       ELSE /\ active' = active \cup staged \cup new
            /\ staged' = {}
            /\ offered' = Permitted(active')
            /\ overlays' = NamesOf(active')

\* /skills use
UseSkill ==
  /\ Anytime
  /\ \E name \in DOMAIN SkillFiles, scope \in Scopes : Activate(name, scope)
  /\ UNCHANGED <<stage, chosen, pendingModel, goal, turnVars, heard, saved, restarts>>

\* /compact at the prompt, and what a compaction during a turn leaves: the
\* control messages are summarised with the rest.
Forget == heard' = <<>>

CompactCommand ==
  /\ AtPrompt
  /\ Forget
  /\ UNCHANGED <<stage, chosen, pendingModel, goal, sessionVars, turnVars, saved, restarts>>

-----------------------------------------------------------------------------
(* A turn.                                                                     *)

\* runTurn: the budget is narrowed by what is in force or staged now.
StartTurn ==
  /\ stage = "prompt"
  /\ ceiling' = Clamp(Narrowest(chosen.loop, active \cup staged))
  /\ spent' = 0
  /\ stage' = "preparing"
  /\ UNCHANGED <<chosen, pendingModel, goal, sessionVars, catalogue, heard, saved, typed,
                 restarts>>

\* The top of the loop: what was staged is taken up and the step frozen, unless
\* the budget is spent.
PrepareStep ==
  /\ stage = "preparing"
  /\ spent < ceiling.steps
  /\ chosen' = IF pendingModel = Unset THEN chosen ELSE [chosen EXCEPT !.model = pendingModel]
  /\ pendingModel' = Unset
  /\ active' = active \cup staged
  /\ staged' = {}
  /\ IF staged = {} THEN UNCHANGED <<offered, overlays, ceiling>>
     ELSE /\ offered' = Permitted(active')
          /\ overlays' = NamesOf(active')
          /\ ceiling' = Clamp(Narrowest(chosen.loop, active'))
  /\ catalogue' = offered'
  /\ Forget \/ UNCHANGED heard
  /\ spent' = spent + 1
  /\ stage' = "sampling"
  /\ UNCHANGED <<goal, saved, typed, restarts>>

\* The answer: calls, or the end of the turn; or the turn is cancelled, fails or
\* has spent its budget.
Proceed ==
  /\ \/ stage = "sampling" /\ stage' \in {"tools", "ending"}
     \/ stage = "tools" /\ stage' \in {"preparing", "ending"}
     \/ stage = "preparing" /\ spent >= ceiling.steps /\ stage' = "ending"
  /\ UNCHANGED <<chosen, pendingModel, goal, sessionVars, turnVars, heard, saved, typed, restarts>>

\* The Skill tool, in a batch of calls: not sampling, so at once.
SkillTool ==
  /\ stage = "tools"
  /\ "Skill" \in catalogue
  /\ \E name \in DOMAIN SkillFiles, scope \in Scopes : Activate(name, scope)
  /\ UNCHANGED <<stage, chosen, pendingModel, goal, turnVars, heard, saved, typed, restarts>>

\* persistMetadata: a goal that was cleared leaves the one that was there.
Saved == [model |-> chosen.model, goal |-> IF goal = Unset THEN saved.goal ELSE goal]

\* Mutant of FinishTurn: the skills go and what was derived from them stays.
FinishTurnStale ==
  /\ stage = "ending"
  /\ active' = {e \in active : e.scope # "turn"}
  /\ catalogue' = {}
  /\ saved' = Saved
  /\ stage' = "prompt"
  /\ UNCHANGED <<chosen, pendingModel, goal, staged, offered, overlays, ceiling, spent, heard,
                 typed, restarts>>

\* The end of runTurn: expireTurnScopedSkills and persistMetadata.
FinishTurn ==
  /\ stage = "ending"
  /\ active' = {e \in active : e.scope # "turn"}
  /\ IF active' = active THEN UNCHANGED <<offered, overlays>>
     ELSE offered' = Permitted(active') /\ overlays' = NamesOf(active')
  /\ catalogue' = {}
  /\ saved' = Saved
  /\ stage' = "prompt"
  /\ UNCHANGED <<chosen, pendingModel, goal, staged, ceiling, spent, heard, typed, restarts>>

\* The process ends, by /exit or without a word, and another resumes the
\* session: the conversation without its control messages, the recorded model,
\* and neither the goal nor anything else that was chosen.
Resume ==
  /\ restarts < MaxRestarts
  /\ saved' \in IF stage = "prompt" THEN {Saved, saved} ELSE {saved}
  /\ restarts' = restarts + 1 /\ typed' = 0
  /\ stage' = "prompt"
  /\ chosen' = [mode |-> Configured.mode, model |-> saved'.model, effort |-> Configured.effort,
                loop |-> Unset]
  /\ pendingModel' = Unset /\ goal' = Unset
  /\ active' = {} /\ staged' = {} /\ offered' = Toolbox /\ overlays' = {}
  /\ catalogue' = {} /\ ceiling' = Ceiling /\ spent' = 0
  /\ heard' = <<>>

ControlsNext ==
  \/ ModeCommand \/ ShiftTab \/ ChangeEffort \/ UseModel \/ ChangeLoop
  \/ SetGoal \/ AmendGoal \/ ClearGoal \/ UseSkill \/ CompactCommand
  \/ StartTurn \/ PrepareStep \/ Proceed \/ SkillTool \/ FinishTurn
  \/ Resume

ControlsSpec == ControlsInit /\ [][ControlsNext]_controlsVars

-----------------------------------------------------------------------------
(* Properties.                                                                 *)

ControlsTypeOK ==
  /\ stage \in {"prompt", "preparing", "sampling", "tools", "ending"}
  /\ chosen.model \in Models /\ chosen.effort \in Efforts \cup {Unset}
  /\ chosen.loop \in LoopFlags \cup {Unset} /\ pendingModel \in Models \cup {Unset}
  /\ goal \in Goals \cup {Unset} /\ saved.goal \in Goals \cup {Unset}
  /\ \A e \in active \cup staged : e.scope \in Scopes /\ e.allowed \subseteq Toolbox
  /\ offered \subseteq Toolbox /\ catalogue \subseteq Toolbox
  /\ DOMAIN heard \subseteq Subjects

\* A skill "can only narrow": whatever came and went, and in which order, a step
\* is offered no tool that a skill in force does not name, the instructions the
\* model reads are those of the skills in force, and no skill lifts the limit of
\* a turn over the session's or over that of /loop. (That a skill lowers it is
\* not stated: the limit of one the model activates is never applied, because
\* nothing is staged then and PrepareStep narrows only for what is staged.)
NarrowingHolds ==
  /\ \A e \in active : offered \subseteq SkillFiles[e.name].tools
  /\ offered = Permitted(active)
  /\ overlays = NamesOf(active)
  /\ stage # "prompt" =>
       /\ \A f \in DOMAIN Ceiling : ceiling[f] <= Ceiling[f]
       /\ chosen.loop # Unset =>
            \A f \in DOMAIN chosen.loop : ceiling[f] <= chosen.loop[f]

Value(subject) ==
  CASE subject = "loop" -> IF chosen.loop = Unset THEN "off" ELSE "on"
    [] subject \in {"objective", "status"} -> IF goal = Unset THEN Unset ELSE goal[subject]
    [] OTHER -> chosen[subject]

\* When a request is made, what the model was last told of the mode, the model,
\* the effort, the budget and the goal, as far as it can still see it, is what
\* is in force: a mode the model is not told about "is a model that keeps
\* proposing edits plan mode will deny".
ToldWhatIsInForce ==
  [][stage = "preparing" /\ stage' = "sampling"
       => \A s \in DOMAIN heard' : heard'[s] = Value(s)']_controlsVars

\* "a resumed session silently forgot what it was doing" is what the event for
\* a goal is there to prevent (session.ts, setGoal). It does not hold: nothing
\* that resumes a session sets its goal.
GoalSurvives == [][restarts' > restarts => goal' = goal]_controlsVars
=============================================================================
