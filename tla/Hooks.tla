------------------------------- MODULE Hooks --------------------------------
(* The project's hooks (extensions/hooks.ts) and the places a session fires them  *)
(* from (session/session.ts, tools/runtime.ts, kernel.ts): each of an event's      *)
(* hooks is decided by policy, run to its end, written to the log and, if it asks  *)
(* for that, told to the model.                                                *)
EXTENDS Naturals, Sequences, SequencesExt, FiniteSets

CONSTANTS HookFiles,          \* what hooks.toml may hold: sequences of entries
          Tools,              \* names of tools
          MaxHookTurns, MaxHookSteps, MaxCalls  \* bounds

Events == {"SessionStart", "UserPromptSubmit", "BeforeStep", "PreToolUse", "PostToolUse",
           "PermissionRequest", "TurnEnd", "SessionEnd"}
TrustedHooks == {"PreModelRequest", "PreNetworkEgress", "PreTelemetryExport", "PreSecretInjection"}

\* An entry: its event, the tools its matcher names (all, without one), whether
\* what it prints is injected, whether it has a command.
ASSUME HookFilesAssumption ==
  \A f \in HookFiles : \A i \in DOMAIN f :
    f[i].event \in STRING /\ f[i].tools \subseteq Tools /\ f[i].matcher \in BOOLEAN
    /\ f[i].inject \in BOOLEAN /\ f[i].command \in BOOLEAN

VARIABLES hooks,     \* those that were loaded
          place,        \* where the session is
          firing,    \* the event that is fired, "" for none
          queue,     \* its hooks that are still to run: indices into hooks
          outcomes,  \* of those that did
          running,   \* the hook whose process runs, 0 for none
          todo,      \* the calls of the step that are still to run
          tool,      \* the one that is
          told,      \* the conversation: "user", "call", "result", "note" and the hooks that it is from
          logged,    \* hook.executed, in order
          began,     \* hooks whose process was started
          halted,    \* the turn was cancelled
          hookTurns, hookSteps

hookVars == <<hooks, place, firing, queue, outcomes, running, todo, tool, told, logged, began, halted, hookTurns, hookSteps>>

-----------------------------------------------------------------------------
(* parseHookTable: a name that is the kernel's is refused loudly, an unknown one  *)
(* and an entry without a command are left out.                                 *)
Loaded(file) == SelectSeq(file, LAMBDA h : h.event \in Events /\ h.command)

\* forEvent: a matcher asks for a tool.
Matching(event, name) ==
  SelectSeq([i \in DOMAIN hooks |-> i],
            LAMBDA i : hooks[i].event = event /\ (hooks[i].matcher => name \in hooks[i].tools))

NoTool == ""
Spoken(kind, who) == [kind |-> kind, by |-> who]

HooksInit ==
  /\ hooks \in {Loaded(f) : f \in HookFiles}
  /\ place = "starting" /\ firing = "SessionStart" /\ queue = Matching("SessionStart", NoTool)
  /\ outcomes = <<>> /\ running = 0 /\ todo = <<>> /\ tool = NoTool /\ told = <<>> /\ logged = <<>>
  /\ began = <<>> /\ halted = FALSE /\ hookTurns = 0 /\ hookSteps = 0

\* runHooks is awaited: the session goes on when it is back. It never fails.
Quiet == firing = ""
Fire(event, name) == firing' = event /\ queue' = Matching(event, name)
StillQuiet == UNCHANGED <<firing, queue>>
KeepRun == UNCHANGED <<hooks, outcomes, running, logged, began>>

-----------------------------------------------------------------------------
(* HookRunner.run.                                                             *)

Outcome(i, ran) == [hook |-> i, ran |-> ran]
Unmoved == UNCHANGED <<hooks, place, todo, tool, halted, hookTurns, hookSteps>>

\* Denied, or to be asked, which a hook never may: reported, not run.
Blocked ==
  /\ queue # <<>> /\ running = 0
  /\ outcomes' = Append(outcomes, Outcome(Head(queue), FALSE)) /\ queue' = Tail(queue)
  /\ UNCHANGED <<firing, running, told, logged, began>> /\ Unmoved

\* Allowed: the profile is enforced and the process starts. No signal is passed:
\* a turn that is cancelled waits for it.
HookStarts ==
  /\ queue # <<>> /\ running = 0 /\ running' = Head(queue) /\ queue' = Tail(queue)
  /\ began' = Append(began, Head(queue))
  /\ UNCHANGED <<firing, outcomes, told, logged>> /\ Unmoved

\* enforce throws, outside the try: what the event's other hooks did is forgotten.
EnforceThrows ==
  /\ queue # <<>> /\ running = 0
  /\ firing' = "" /\ queue' = <<>> /\ outcomes' = <<>>
  /\ UNCHANGED <<running, told, logged, began>> /\ Unmoved

\* The process ended, or exec threw: its time was over, or it never ran.
HookEnds ==
  /\ running # 0 /\ running' = 0
  /\ \E ran \in BOOLEAN : outcomes' = Append(outcomes, Outcome(running, ran))
  /\ UNCHANGED <<firing, queue, told, logged, began>> /\ Unmoved

\* renderHookOutput: those that ran, print something and are to be injected.
Useful(os) == {os[i].hook : i \in {j \in DOMAIN os : os[j].ran /\ hooks[os[j].hook].inject}}
Injected(who) == IF who = {} THEN told ELSE Append(told, Spoken("note", who))
Logged(os) == logged \o [i \in DOMAIN os |-> os[i].hook]

\* Mutant of Report: the model is told first.
ReportTellingFirst ==
  /\ ~Quiet /\ queue = <<>> /\ running = 0
  /\ firing' = "" /\ outcomes' = <<>> /\ told' = Injected(Useful(outcomes))
  /\ \E n \in 0..Len(outcomes) : logged' = Logged(SubSeq(outcomes, 1, n))
  /\ UNCHANGED <<queue, running, began>> /\ Unmoved

\* runHooks: each outcome is appended to the log, then the model is told. An
\* append that fails ends it, and the session goes on.
Report ==
  /\ ~Quiet /\ queue = <<>> /\ running = 0
  /\ firing' = "" /\ outcomes' = <<>>
  /\ \/ logged' = Logged(outcomes)
        /\ \E who \in {{}, Useful(outcomes)} : told' = Injected(who)
     \/ \E n \in 0..(Len(outcomes) - 1) : logged' = Logged(SubSeq(outcomes, 1, n)) /\ UNCHANGED told
  /\ UNCHANGED <<queue, running, began>> /\ Unmoved

-----------------------------------------------------------------------------
(* The session around it.                                                      *)

\* SessionStart is over.
Ready ==
  /\ place = "starting" /\ Quiet /\ place' = "idle" /\ StillQuiet /\ KeepRun
  /\ UNCHANGED <<todo, tool, told, halted, hookTurns, hookSteps>>

\* runTurn, for something a user says.
Submit ==
  /\ place = "idle" /\ hookTurns < MaxHookTurns /\ hookTurns' = hookTurns + 1 /\ hookSteps' = 0
  /\ place' = "preparing" /\ told' = Append(told, Spoken("user", {})) /\ halted' = FALSE
  /\ Fire("UserPromptSubmit", NoTool) /\ KeepRun /\ UNCHANGED <<todo, tool>>

\* The loop looks at the signal, then fires BeforeStep.
NextStep ==
  /\ place = "preparing" /\ Quiet /\ hookSteps < MaxHookSteps /\ ~halted /\ hookSteps' = hookSteps + 1
  /\ place' = "sampling" /\ Fire("BeforeStep", NoTool) /\ KeepRun
  /\ UNCHANGED <<todo, tool, told, halted, hookTurns>>

\* The answer has calls.
Sampled ==
  /\ place = "sampling" /\ Quiet /\ ~halted /\ place' = "batch" /\ told' = Append(told, Spoken("call", {}))
  /\ todo' \in UNION {[1..n -> Tools] : n \in 1..MaxCalls}
  /\ StillQuiet /\ KeepRun /\ UNCHANGED <<tool, halted, hookTurns, hookSteps>>

\* executeBatch: after a cancellation the remaining calls are answered unrun.
PreToolUse ==
  /\ place = "batch" /\ Quiet /\ todo # <<>> /\ ~halted
  /\ tool' = Head(todo) /\ todo' = Tail(todo) /\ place' = "resolving" /\ Fire("PreToolUse", Head(todo))
  /\ KeepRun /\ UNCHANGED <<told, halted, hookTurns, hookSteps>>

\* executeOne has to ask.
PermissionRequest ==
  /\ place = "resolving" /\ Quiet /\ place' = "asking" /\ Fire("PermissionRequest", tool)
  /\ KeepRun /\ UNCHANGED <<todo, tool, told, halted, hookTurns, hookSteps>>

\* Whatever the outcome was.
PostToolUse ==
  /\ place \in {"resolving", "asking"} /\ Quiet /\ place' = "batch" /\ Fire("PostToolUse", tool) /\ tool' = NoTool
  /\ KeepRun /\ UNCHANGED <<todo, told, halted, hookTurns, hookSteps>>

\* appendToolResults: those of the whole step, in one message.
BatchDone ==
  /\ place = "batch" /\ Quiet /\ (todo = <<>> \/ halted) /\ todo' = <<>> /\ place' = "preparing"
  /\ told' = Append(told, Spoken("result", {}))
  /\ StillQuiet /\ KeepRun /\ UNCHANGED <<tool, halted, hookTurns, hookSteps>>

\* Completed, failed or cancelled.
EndHookedTurn ==
  /\ place \in {"preparing", "sampling"} /\ Quiet /\ place' = "idle" /\ Fire("TurnEnd", NoTool)
  /\ KeepRun /\ UNCHANGED <<todo, tool, told, halted, hookTurns, hookSteps>>

CancelTurn ==
  /\ place \in {"preparing", "sampling", "batch", "resolving", "asking"} /\ ~halted /\ halted' = TRUE
  /\ StillQuiet /\ KeepRun /\ UNCHANGED <<place, todo, tool, told, hookTurns, hookSteps>>

\* shutdown.
EndSession ==
  /\ place = "idle" /\ Quiet /\ place' = "over" /\ Fire("SessionEnd", NoTool)
  /\ KeepRun /\ UNCHANGED <<todo, tool, told, halted, hookTurns, hookSteps>>

HooksNext ==
  \/ Blocked \/ HookStarts \/ EnforceThrows \/ HookEnds \/ Report
  \/ Ready \/ Submit \/ NextStep \/ Sampled \/ PreToolUse \/ PermissionRequest \/ PostToolUse
  \/ BatchDone \/ EndHookedTurn \/ CancelTurn \/ EndSession

HooksSpec == HooksInit /\ [][HooksNext]_hookVars

-----------------------------------------------------------------------------

HooksTypeOK ==
  /\ firing \in Events \cup {""} /\ queue \in Seq(DOMAIN hooks) /\ running \in {0} \cup DOMAIN hooks
  /\ \A i \in DOMAIN hooks : hooks[i].event \notin TrustedHooks

Times(i, s) == Cardinality({j \in DOMAIN s : s[j] = i})
TimesTold(i) == Cardinality({j \in DOMAIN told : i \in told[j].by})

\* Whatever fails between them, the model is never told of what a hook printed
\* without the log holding that the hook ran, as often as it is told; and a hook
\* that was refused has told it nothing.
ToldIsLogged == \A i \in DOMAIN hooks : TimesTold(i) <= Times(i, logged) /\ TimesTold(i) <= Times(i, began)

\* "Every run is audited" (session.ts). Not those of an event one of whose hooks
\* cannot be confined, nor what an append that fails leaves out.
EveryRunAudited == Quiet => \A i \in DOMAIN hooks : Times(i, began) <= Times(i, logged)

\* The answers of a step's calls come right after the message that has them, which
\* an injection of PreToolUse, PermissionRequest or PostToolUse prevents.
AnswersAdjacent == \A i \in 1..(Len(told) - 1) : told[i].kind = "call" => told[i + 1].kind = "result"
=============================================================================
