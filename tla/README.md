# MyCoder in TLA+

MyCoder is a command-line coding agent: a kernel that asks a language model what to do, runs the tools it asks
for under a policy, and records every step in an event log from which a session can be audited and resumed. The
modules here model the kernel's own logic (TypeScript under `src/`) and the services it drives, check it on small
instances with TLC, and prove with TLAPS, for every value of the constants, each safety property that the runs check.

All paths below are relative to the repository.

## The system

| Component | State it keeps | Operations | Behaviour that is hard to test | What makes it correct |
|---|---|---|---|---|
| **Agent loop** `session/session.ts`, `turn.ts`, `step.ts` | the turn's state, its budget, the conversation, call ids issued and answered, outcomes of turns, usage | `runTurn`, `loop`, `sample`, `maybeCompact`, `closeOpenToolCalls`, `cancel`, `recordDelegation` | a cancellation at any `await`; overflow, compaction and retry; empty answers; children that charge the budget | every call answered once; a turn ends once, as what the user and the loop decided; the limits hold; turns end |
| **Tool runtime** `tools/runtime.ts` | leases, failure counts, narrowing layers | `executeBatch`, `executeOne` | signal, policy and mode are read before awaits and used after them; a throw in mid-batch | one result per call, in order; nothing starts once cancelled; leases are returned |
| **Replay gate** `session/terminal-state.ts` | none | `replayTerminalState`, `compareTerminalStates` | live state and log are written at different awaits | between turns the two agree |
| **Event log** `session/store.ts` | `events.jsonl`, `session.json`, sequence numbers, write chains | `append`, `readEvents`, `saveMetadata` | a kill in an append; a torn line; appends behind it | what is acknowledged can be read back, in order, without gaps |
| **Resume** `session/resume.ts`, `kernel.ts` | the rebuilt conversation and counters | `replaySession`, seeding of `Session` | a crash between any two events; several restarts | the same conversation, nothing open, counts that agree with the log |
| **Delegation** `session/delegation.ts` | running children, depth, records | `run`, `buildChild`, lifecycle events | an abort between the look at the signal and the listener; two children and one budget | a child ends with its parent and never spends more than the parent has |
| **Context and compaction** `context/` | messages, facts, boundary | `append*`, `compact`, `findTailStart` | a cut between a call and its result | exchanges stay whole; the result fits or says it does not |
| **Freshness and edits** `edit/edit-engine.ts`, `context/freshness.ts`, `edit/atomic-write.ts` | receipts, writes in progress, journal | plan, apply, `beginWrite`/`endWrite` | files that change between plan and apply | no edit over bytes the model has not seen |
| **Journal and undo** `edit/undo-engine.ts`, `journal-log.ts`, `tools/builtin/undo.ts` | entries, what is undone | `planUndo`, `applyUndo`, `rebuildJournal` | undo of undo, chains of edits and moves, drift | an undo restores exactly what an entry recorded, or refuses |
| **Policy and approvals** `policy/` | layers, session approvals, mode | `decideBatch`, `ModeGatedPrompter.request` | a mode or an approval that changes while a call waits | a layer only narrows; plan mode never writes |
| **Model runtime** `model/runtime.ts`, `model/adapters/` | attempts, watchdogs | `generate`, `streamWithRetry`, `collectModelEvents` | a time limit against an answer, a retry after a partial stream | one whole answer per request; cancellation is never retried |
| **Execution backends** `execution/` | processes, snapshots | `exec`, `enforce` | exit, time limit, abort and escalation race | a process ends and is reported once |
| **MCP client** `mcp/` | server states, pending requests, frozen catalogue | handshake, call, restart, disable | a late answer, a restart with another catalogue | a disabled server stays disabled; each request settles once |
| **Secrets** `security/secret-broker.ts`, `redactor.ts` | leases, active values | lease, release, redact | two leases of one value | a leased value is redacted |
| **Hooks and skills** `extensions/` | active skills, staged activations, hooks | activate, expire, run | activation in a cancelled turn, overlapping scopes, one of several hooks that fails | a skill only narrows, and expires; what a hook told the model is in the log |
| **Control plane** `control/control-plane.ts` | none | slash commands | a change between two requests, with compactions and restarts | what the model was last told is in force |
| **Egress gate and proxy** `security/egress*` | open connections, audits | send, connect, tunnel | a name that changes between decision and dial, limits with awaits | what is dialled or sent was granted and checked |
| **Sandbox** `execution/sandbox.ts`, `linux-native/` | launcher, manifest, protected files | build, scan, plan, apply | files that appear after the scan, links, a launcher of another revision | a command touches what its profile says |
| **Configuration** `config/` | layers, key files | createKernel, setup-credential | a file that changes while it is read | a checkout sets nothing that is the user's alone, and no larger limit; keys are checked and protected |
| **Line editor, terminal, renderer** `cli/` | buffer, undo, raw mode, rows drawn, held lines | a key, a redraw, an event of the session | keys with no prompt, windows that change, answers cut anywhere, signals | the terminal is put back; nothing is lost, doubled or erased |
| **Built-in tools** `tools/builtin/` | none of their own | resolve, execute | what is decided in resolve and used in execute | in Files, Execution, ToolGate, WebFetch |
| **Utilities** `util/` | none | | pure helpers | unit tests |

How they interact: the terminal (or a script) calls `Session.runTurn` and, at any time, `Session.cancel`. The loop
projects the context, asks the model runtime and hands the calls of the answer to the tool runtime, one batch at a
time; the tool runtime asks policy, prompter, leases and backend for each call in turn. A delegating call builds a
child `Session` in the same process, which writes to the same log with its `delegationId`. Everything is recorded by
`Session.append`, which awaits the store. All of it runs on one JavaScript thread: **an interleaving is a point where
the code awaits**, and an action of these modules is the code from one await to the next.

## Modules

    TurnContract     what a session promises of its turns (abstract)
       ^ implemented by
    AgentLoop        session/session.ts, turn.ts, step.ts, tools/runtime.ts
       ^ EXTENDS
    MCAgentLoop      what children spend

    EventLog         the file events.jsonl and what a kill leaves of it
       ^ EXTENDS
    Recovery         a session over several processes: write, crash, resume

    Delegation       a turn that delegates: parent, children, budget, cancellation
    ToolGate         policy, modes, skills, approvals, leases around one call
    Files            files, receipts, edits, journal, undo, the rebuilt journal

    TurnSignal       the turn's AbortSignal, shared by
       ^ EXTENDS
    ModelRequest     McpServers       Execution
       ^ EXTENDS        ^                ^
    Services         a session that starts, uses, cancels and closes all three

    EgressProxy   Sandbox   Configuration   Context   Controls
    Screen   Viewport   WebFetch   Hooks   ShellChanges
    LineEditor
       ^ EXTENDS
    Terminal

    MCParts          all of these, one at a time

    MCDelegation, MCToolGate, MCFiles, MCServices, MCParts (with MCViewport and MCFetch) give each its instance.

    AgentLoop_proofs, Delegation_proofs, ToolGate_proofs, Files_proofs, Services_proofs
                     theorems about the module of that name and what it composes
    Recovery_proofs  about Recovery and EventLog
    Session_proofs   about Configuration, Controls, Hooks, Terminal, Viewport, Screen, EgressProxy, WebFetch
    Workload_proofs  about Context, ShellChanges and Sandbox

AgentLoop sees a request, a tool call and a child as one await each, with every outcome they may have. The modules
further down open those awaits: ModelRequest is what happens in `requesting`, ToolGate and Files in `batch` ..
`running`, Execution and McpServers in `running`, Delegation in a `running` Delegate call. They are checked
separately: a product of them has too many states, and what they share is only the turn's signal (`TurnSignal`),
the charge a child leaves (`charge` in AgentLoop and Delegation) and the policy a child gets. The last eleven parts read
nothing that another writes while they run; `MCParts` has all their variables and a variable `moving` that says, from
the initial state on, which of them moves, so that one run checks them all and a state of one never multiplies with
those of another.

### AgentLoop

One session, any number of turns. `at` is the await the turn stands at; each action is the code up to the next one.

| `at` | code | actions that leave it |
|---|---|---|
| `idle` | no turn | `RunTurn`, `CompactNow` |
| `started` | `append('turn.started')`, prompt hooks | `EnterLoop` |
| `looping` | no await: top of `while` | `TopOfLoop`, `OverBudget` |
| `prepared`, `compacted`, `frozen` | `BeforeStep` hooks; `append('compaction.boundary')`; `append('step.context_frozen')` | `MaybeCompact`, `FreezeCompacted`, `SendRequest` |
| `requesting` | `modelRuntime.generate` | `Responds` |
| `requestFailed`, `forced`, `pressured` | appends of the failure and of a forced compaction | `RequestFailed`, `Pressure`, `Retry` |
| `responded` | `append('model.request.completed')` | `HandleText`, `HandleCalls` |
| `issuing` | `append('tool.call')` | `IssueCall`, `StartCall` |
| `batch` .. `running` | hook, resolve, approval, enforce, execute of one call | `StartCall`, `Resolve`, `Answer`, `Execute`, `Launch`, `ToolEnds`, `BatchEnds` |
| `answering` | `append('tool.result')` | `LogResult`, `EndStep` |
| `closing`, `settling`, `ended` | `closeOpenToolCalls`, the outcome, `TurnEnd` hooks | `CloseOpenToolCalls`, `LogSynthetic`, `LogOutcome`, `EndTurn` |

Calls are numbered in the order the model makes them, so a batch is `lo..hi`. The conversation is kept as the set
`open` of calls without a result. The log is kept as `replay`, the fold `replayTerminalState` computes of it
(`Replayed` is one step of that fold): the live variables `issued`, `answered`, `outcomes`, `requests`, `compactions`
are updated where the code updates them, `replay` where it appends. `sent` and `spent` are ghosts that read what the
budget should have counted. `Cancel` may happen at every await of a turn; it makes the turn `cancelled` at once, as
`Turn.cancel` does, and whatever the loop does next runs into `isTerminal`, `signal.aborted` or a forbidden
transition, modelled by `Throw` and `Fail`.

`TurnContract` is the abstract machine a caller may rely on: begin, ask, hear, close, end, with what may never happen
left out of it. `KeepsPromise` is the refinement, with `calls <- 1..hi` and `record <- outcomes`.

Taken for granted in AgentLoop: tool call ids are fresh (see the hazard at `model/adapters/openai-chat.ts:123`);
appends do not fail; `runTurn` is not entered twice; compaction never parts a call from its result. The wall-clock
limit may be found exceeded at the top of any round (`late` in `TopOfLoop`). Staged model changes are left out, and so
are skills that narrow the limits in mid-turn.

### EventLog and Recovery

`EventLog` has no variables. A file is a sequence of lines in one of five states; `Appended` writes where the file
ends, even in the middle of a line, as `appendFile` does; `CutShort` is the set of files a kill can leave of one with
an append under way: the line whole, without its newline, in part, or not at all; `ReadBack` is `readEvents`, which
stops at the first line that does not parse.

`Recovery` runs the same loop, as far as it writes, over several processes. `Writing` names the places with an append
under way, where `Crash` may cut the file short. The actions are named as in AgentLoop. `messages` is the conversation
as the engine holds it: role, and the calls made or answered. `Resume` is `replaySession` (`Rebuilt`, a fold of
`Retold`), `replayTerminalState` (`Turns`, `Calls`, `Results`) and the constructor of `Session`. Left out: the events
resume does not read, limits, compaction (a resumed session then holds the longer history, and says so), delegation,
messages of reasoning only, and more than one process at a time.

### Delegation

The root's turn as far as it pays (`StartTurn`, `NextStep`, `EndStep`, ...), `DelegationService.run` as a chain of its
awaits, and the child's own turn.

| `at` | code in `session/delegation.ts` | actions that leave it |
|---|---|---|
| `batch` | `executeBatch` between two calls | `Dispatch`, `EndStep`, `RepeatedFailure` |
| `requesting` | append of `delegation.requested` | `Refuse`, `Admit` |
| `refusing` | append of the refusal | `Refused` |
| `starting` | append of `delegation.started` | `RunChild` |
| `running` | `child.runTurn` | `ChildAsks` .. `ChildSteps`, `ChildReturns`, `ChildCrashes` |
| `closing` | append of the closing event | `Close` |

`Refusal` is the order in which `run` looks for reasons, `Granted` the minimum of `deriveChildScope`, `StatusOf` the
reading of the child's turn. A child's own delegation is one more lifecycle in the same log, refused for its depth
(`ChildDelegates`, `ChildDenied`, `ChildTold`): the configuration schema clamps `maxDelegationDepth` to 1. `charged`,
`turnCost` and `missed` are ghosts. The clock is a choice (`ChildStops`) and money is left to AgentLoop.

### ToolGate

One call at a time in the root and in one child. `flight[r].at` is the await of `executeOne`: `resolved` after
`tool.resolve`, `asking` at the `PermissionRequest` hook, `prompted` at the user's answer, `leasing` between two leases,
`executing`. `DecideCall` takes the decision from the policy of that moment and everything later uses it. `Profile`
(`ReadOnlyRules`, `ReviewRules`, `WorkspaceDevRules`) are the built-in profiles as sets of rules with the score
`specificity` gives them; `EvaluateProfile`, `Decide` and `SystemHardDeny` are the engine; one operator per tool
(`WriteCall`, `MoveCall`, ...) says which accesses it declares. `layers` follows from skills and mode
(`Narrowing`), a child's policy is derived once (`ChildPolicy`). The mode may change at any moment: the terminal
only lets the user switch between prompts, but `Session.setApprovalMode` itself can be called any time, and the
property must not depend on who calls it. Left out: skills in a child, policies of hooks, the expiry of a lease, the
signal (AgentLoop has it), the plan of the sandbox. Between the leases and the `try` that gives them back, `executeOne`
plans and enforces (`runtime.ts:673-682`); no planner and no `enforce` of the four backends throws, so `Execute` has no
outcome for it.

### Files

One file operation in hand (`op`), because a batch runs its calls one after another, and somebody else who writes at
any await (`Outside`: editors, shell commands, MCP servers). A hash is the content itself. `receipts` is the ledger;
`Plan...` and `Recheck`, `Apply` are the two looks of the edit engine; `Move`, `Link`, `Moved` the awaits of a move;
`PlanUndo` (with `Project`, the projection of a plan's earlier steps), `ReadPriors`, `UndoStep`, `UndoEnds` an undo, of
the model or of the operator. `Crash` loses ledger and call and rebuilds the journal from the part of it that reached
the log, each entry as `journal-log.ts` keeps it (`Durable`: a diff in which something was redacted is not kept).
Left out: the text of diffs and the search for the place of a replacement, protected paths (ToolGate), the creation of
parent directories, and the gap between `stat` and `readFile`, which are one look here. An undo's rename is one step.

### Services

ModelRequest, McpServers and Execution each have a variable for where the code stands (`request`, `asked`, `exec`) and
extend `TurnSignal`, whose `aborted` is the signal all three listen to. `Services` puts them in one session: the
kernel is created, servers are attached, a turn uses one operation at a time (`Idle`), `Cancel` runs every listener at
once, the session closes. The next-state relation of a part is a disjunct of that of the whole, with the other parts
unchanged.

- *ModelRequest*: `BeginAttempt` .. `SleepEnds` are the awaits of `generate` and of the loop in `streamWithRetry`;
  `WatchdogFires` may fire at any of them; `Record`, `StreamCloses` and `StreamBreaks` are what a provider's stream may
  hold, through the adapter of an OpenAI-compatible server or another one; `turn` is the fold of `collectModelEvents`. The
  reasons a provider gives for the end of an answer are abstracted to `completed` and `tool_calls`.
- *McpServers*: `McpService.start` attaches one server after another (`Attach`, `AttachFails`), a request is written
  (`Written`) and then waited for (`Answer`, `TimesOut`, `OnMcpAbort`), a process dies or floods its output whenever it
  likes. `crashed` is a rejection nobody handles: Node ends the process, and so nothing moves any more.
- *Execution*: a command on one of four backends: in a container with its snapshot, private network, proxy, docker client
  and reaping; as a local process, with what it leaves in the background (`background`); the same under the Linux
  launcher; or behind an ssh client, where a cancelled command may live on at the other end (`Detached`;
  `docs/threat-model.md:173` says so). Stdio servers are refused on the container and ssh backends. `Refuse` is a removal
  the docker daemon does not carry out. `other` is a second kernel on the same machine while this one collects orphans,
  with time in minutes; the time limit of its command is one of `TimeLimits` (`other.limit`).

### The eleven parts

- *EgressProxy*: one handler per connection. A host is a name and a way to spell it; `normalizeHost` (`NormalizeHost`) takes the
  spellings of a name to one host and refuses malformed ones; addresses are their scope. Head, decision, resolution, dial
  and TLS identity are a step each, because the code awaits between them, and the limit on connections is read at the
  first.
- *Sandbox*: paths are sequences of names, the disk a kind for each. `buildSandbox` compiles, hashes and writes the
  manifest in steps while the source changes; the session scans for protected files when it starts and plans each
  command from that scan; a container gets mounts, the launcher a plan it applies, the local backend the kernel's own
  checks. The disk may change after the scan (`changes`).
- *Configuration*: a layer is a partial function of keys, so that "absent" differs from every value. `createKernel` reads the
  user's file, finds the project's, reads it, merges, reads permissions, chooses a model and resolves credentials, each
  after an await in which somebody may change a file, and `setup-credential` may write one.
- *Context*: a message is who it is from, what it asks, calls, answers and shows, and how long it is. `compact` with all its
  levels (`Clip`, `SnapToClosure`, the summary, anchors), the two token estimates that disagree about names, automatic
  compaction before a request, forced compaction after an overflow, `/compact`. Hooks may inject a note between a
  call and its result.
- *Controls*: `/mode`, `/effort`, `/model`, `/loop`, `/goal`, `/skills use`, the Skill tool and a resume: what is in force,
  what is staged while a request is under way, and `heard`, the last control message on each subject that the
  conversation still shows.
- *LineEditor* and *Terminal*: the editor's state after each key, lines as lengths (`EditorSound` is what the next key relies
  on), and who has the terminal: `doing` is the prompt, the turn, the approval menu, the typed reason or the way out;
  readline is external.
- *Screen*: the spinner, the markdown stream, which holds table lines back until it knows the table's width, the reasoning
  stream and the tool lines. `screen.row` is what the cursor's row holds; `shown` is the answer as it was printed. A line
  is a number and a kind; a delta may cut a line anywhere.
- *Viewport*: the rows of the input (`RowsOf`, `Cursor`), the slice of them that is drawn (`View`), the lines that go out
  (`Painted`), on which row the terminal's cursor is left (`parked`) and on which the editor believes it is (`kept`), while
  input, mode and window change between redraws. The terminal is external: it breaks a line that is wider than its window
  (`Heights`) and, when it is resized, breaks all of them anew and takes the cursor along, or does not (`reflows`).
  `Resized` changes columns and rows alike; the editor reads both again at the next draw, and takes a size that is too
  small for an unknown one (`ToldColumns`, `ToldRows`). `strayed` and `clearing` are ghosts: how far below the block's
  first row the last redraw, or the last clearing, began.
- *WebFetch*: from `resolve` through grant, lookup, gate and body to what the model is told. `SendFetch` and `Post` are the
  gate's checks in their order; the address the socket reaches is looked up again by the system and may differ from the
  one that was checked (`reached`), which `GateKept` does not hide: it speaks of the addresses looked at. A url is its
  scheme, host and credentials, and whether its path or query holds a secret (`secret`), which nothing looks at.
- *Hooks*: the hooks of each event, one after the other: policy, `enforce` (which may throw), the process, the append of
  `hook.executed`, the note to the model. They fire inside a batch, between the calls of one message and their results.
- *ShellChanges*: the two looks at the workspace around a shell command, by `git status` (`Status`, external) or by a walk, folder
  by folder, each of which a signal, the limit or a failure may cut short while the command and others write, stage
  and commit; `Diff` of the two, and who is told. A write may leave size and time as they were. `was` and `is` are
  ghosts: what each look really took in.

## Runs

| Run | Checks | Shows |
|---|---|---|
| `agent_loop` (`AgentLoop.cfg`) | `ReplayGate`, `NoDanglingCalls`, `OneResultPerCall`, `BudgetHolds`, `CancelWins`, `KeepsPromise`, `TurnEnds` | they hold in two turns with every way a step can go; the contract's reasons leave `INTERNAL_ERROR` out, so `KeepsPromise` says too that no forbidden transition is tried |
| `tool_after_cancelled` | `NoToolAfterCancelled` | **violated**: a tool starts in a turn that is already cancelled |
| `recovery` (`Recovery.cfg`) | `ResumedGate`, `SameConversation`, `AllAnswered` | they hold over clean restarts and a kill at any await |
| `torn_log` | `LogIsTruth` | **violated**: what is written behind a torn line is lost to later resumes |
| `resumed_order` | `WellFormed` | **violated**: a rebuilt conversation with a result for a call it does not hold |
| `delegation` | `StoriesWhole`, `ChargesRight`, `CancelReachesChild`, `TurnEnds` | every delegation is logged whole and paid once; a batch of children overspends by no more than the grants of all but one; a child whose parent is cancelled under its listener asks nothing more |
| `tool_gate` | `NeverPastADeny`, `PlanHolds`, `ChildWithinParent`, `LeasesCovered` | no call runs past a denial, plan mode holds once it is switched to, a child stays within its parent, no lease outlives its call |
| `plan_at_start` | `PlanHolds` | **violated**: in a session that is configured to start in plan mode the layer is missing |
| `files` | `NothingLost`, `NothingUnseenChanged`, `UndoRestores` | nothing goes from the disk that the journal or another path does not hold, no edit over unseen text, an undo restores and half an undo is marked as half |
| `services` | `EveryCallReported`, `NothingLeftRunning`, `BriefTopologyKept`, `NothingSentAfterCancel`, `OperationEnds` | whatever a turn waits for ends, nothing is sent after a cancellation, no process, container or server is left behind, another kernel's proxy in use is not collected if its command's time limit leaves room for set-up and teardown |
| `long_command` (`LongCommand.cfg`) | `LiveTopologyKept` | **violated**: with the longest limit Shell allows, another kernel's proxy is collected while its command runs |
| `parts` | see below | the eleven parts, each in every order it allows |

The properties of `parts`:

| Property | Part | Says |
|---|---|---|
| `DialsChecked` | EgressProxy | what is dialled was granted, resolved to public addresses only, and is named alike by the request, its headers and the TLS hello, whatever was awaited in between |
| `CommandConfined` | Sandbox | what a command can write or read under its backend is no more than its profile, protected files excepted, and the launcher that applies the plan is the one the manifest vouches for |
| `ProjectNarrows` | Configuration | whatever the checkout's file says, and however it changes while it is read: providers, image, pull, approval mode and servers are the user's, steps and memory no more, secrets kept no less, and no host beside the user's if the user named any (not covered: disagreement 20) |
| `CredentialGuarded` | Configuration | a session uses a key that was checked, and protects every key file, also the refused ones |
| `ConversationSound` | Context | after any sequence of compactions every call has its result behind it and the ledger's receipts are of text the model can see |
| `CompactionKeeps` | Context | a compaction leaves what was said since the last preserved requests of the user as it was, and every delegation told |
| `NarrowingHolds` | Controls | whatever skills came and went, a step has no tool and no limit that one in force would not allow |
| `ToldWhatIsInForce` | Controls | what the model was last told of mode, model, effort, budget and goal, as far as it can see it, is in force when a request is made |
| `TerminalKept` | Terminal | bracketed paste is off however the program ends, raw mode too unless a signal came outside the prompt; raw mode is on while the line is edited and otherwise only for a menu, or for the interface a typed reason left open, which goes on reading (disagreement 23); the line is sound |
| `ScreenKept` | Screen | each line of an answer is printed once and in order, none is made of two messages; the spinner is never drawn over an answer, a menu or the input |
| `BlockKnown` | Viewport | no redraw begins above the block, however the window is resized and whatever the terminal makes of it; it begins at the block's first row as long as all that is drawn fits; the cursor is on a drawn row of the input |
| `GateKept` | WebFetch | a fetch goes where it was granted and looked at, over TLS, and reads no more than its limit; no other request leaves the gate with a known secret in its body or in a header but `authorization` (the url is not looked into: disagreement 30) |
| `ToldIsLogged` | Hooks | the model is never told of a hook's output more often than the log holds that it ran |
| `ChangesTold` | ShellChanges | a file that both looks took in, by the same means, and that changed is told: to a walk if its size or time changed or it came or went, to git if it was clean and the change was not committed; one that is told has been written, staged or committed; the next request sees the sources among them |

Every property of a passing run has a mutant in `PROJECT.json`: a definition changed the way a plausible bug would, under
which TLC finds the property violated.

Bounds. *agent_loop*: two turns, so that what one turn leaves (charges, failure counts, outcomes) meets the next;
batches of up to two calls, so that a batch can be cut in the middle; every limit at 1 or 2, so that each is met, one
child that spends one of everything, one compaction between turns, failure threshold 1. About 530,000 states.
Responses cost nothing, because what they cost reaches no limit (disagreement 15). *recovery*: a turn or request
begins only with fewer than nine lines in the log, which leaves room for a turn with two batches, or for two turns;
batches of two; one kill and any number of clean restarts that fit, so that a damaged log is written on and read
again. About 2.3 million states. The bounds appear in guards only: `MaxTurns`, `MaxCompactions` and `MaxBatch` in
AgentLoop, all three constants of Recovery. The other constants of AgentLoop are the program's own settings.

*delegation*: two turns, because charge and repeat counts outlive one; batches of two children, whose grants together exceed
the budget; a root budget of two requests and children of two; one agent that works, one whose skills leave it no
tool, and a name that no agent has; a threshold of one. *tool_gate*: one call of each kind the profiles tell apart, two skills (one narrows the
profile, one only the tools), two references to one credential so that two leases meet, one kept answer. About
408,000 states. *files*: two paths, three contents (one without a final newline, one with a text that is redacted), two
edits, four journal entries (two edits and their reversals, or the reversals of those), two turns so that the model's
undo has entries out of its reach, one crash and one foreign change. About 2.8 million states. *services*: two attempts
of two records each, so that a retry follows a partial stream; one server of each transport; one command and one
refused removal; a collector with a staleness age of 15 minutes against another kernel's 4 minutes of set-up, 2 of teardown
and a command of 2 minutes (Shell's default), 9 or 15 (its ceiling). With 9 the sum is the age itself, the boundary of
`BriefTopologyKept`; with 15 it is above, as `long_command` shows. About 723,000 states.

*parts* (1.1 million states for all eleven): two connections and a limit of one; two trees of a dozen paths with a
link out of the workspace, one to a protected file, and one change of the disk after the scan; kernels without
Landlock, with it, and with its network rules; three user files, three of a checkout and one of the older name that
between them set keys of every kind of merge, and one foreign change; a window of nine tokens, in which a large result
overflows alone, and three requests of the user, so that with two preserved ones (the program preserves three; what
matters is that some are kept and some are not) there is one to summarise; a resumed conversation with a result out of
place, and the server that repeats its ids behind that one only; three calls, so that a compaction meets one before,
in and behind the tail; two changes by the user and one restart; four keys and two lines, an undo stack of one, so
that it overflows; streams of two pieces and two requests; terminals of 16 to 31 columns, one of which is too narrow
to be believed, and of 4 and 9 rows, with a box, a rule or neither, some that reflow and some that do not, and inputs
that end at a row's edge, are cut by the window, have a menu or are a search; bodies of up to the limit and one chunk
more; one turn of one step with two calls and hooks on every event of it; a source, a test and an ignored file in two
folders, two writes, and a walk that stops at one file, so that the limit falls between the two. All bounds are named
as such where the constants are declared.

Fairness. `TurnEnds` of AgentLoop is checked under `FairSpec == Spec /\ WF_vars(Work)`: the event loop runs whatever
is ready, a provider request ends by answer or watchdog, a tool ends by itself or by its time limit. Nothing is
assumed of the user: nobody has to answer a question, cancel, or begin another turn, and so a turn may stand at
`asking` for ever. This is weak fairness of one disjunction, no more; that no path round the loop is endless is shown,
not assumed. *Delegation* has the same for the parent, the service and the child. *Services* discharges what those two
assume of requests and tools: its timers fire, the kernel goes on with what it awaited, a process exit is noticed, the
docker daemon answers, and SIGKILL ends what it is sent to. A provider owes no record, a server no answer, a command
no end, and the removals that nobody awaits (`Reaped`) are not fair. All of it stops when the process has crashed.

## Proofs

A theorem holds for every value of the constants that meets the assumptions at the head of the module it is about; the
runs hold on the instances above. Eight modules hold theorems; each EXTENDS the modules it is about.

| Module | About | Theorem | Property |
|---|---|---|---|
| `AgentLoop_proofs` | AgentLoop | `ReplayMatchesLive` | `ReplayGate` |
| | | `EveryCallAnswered`, `EveryCallAnsweredOnce` | `NoDanglingCalls`, `OneResultPerCall` |
| | | `BudgetIsKept`, `CancellationWins`, `NoIllegalMove` | `BudgetHolds`, `CancelWins`, `NoInternalError` |
| | | `LoopKeepsPromise` | `KeepsPromise`, the refinement of `TurnContract` |
| `Recovery_proofs` | EventLog, Recovery | `GateOverRestarts`, `NoCallUnanswered` | `ResumedGate`, `AllAnswered` |
| | | `ConversationRestored`, `NumbersWithoutGap` | `SameConversation`, `GaplessLog` |
| | | `NoRequestCountedTwice` | `SnapshotBehind` |
| `Delegation_proofs` | Delegation | `StoriesStayWhole`, `ChargesStayRight` | `StoriesWhole`, `ChargesRight` |
| | | `CancelledChildAsksNothing` | `CancelReachesChild` |
| `ToolGate_proofs` | ToolGate | `NothingPastADeny`, `PlanModeHolds` | `NeverPastADeny`, `PlanHolds` |
| | | `ChildStaysWithinParent`, `LeasesStayCovered` | `ChildWithinParent`, `LeasesCovered` |
| `Files_proofs` | Files | `NothingIsLost`, `NothingUnseenIsChanged`, `AnUndoRestores` | `NothingLost`, `NothingUnseenChanged`, `UndoRestores` |
| `Services_proofs` | ModelRequest | `NothingIsSentAfterCancel`, `EveryCallIsReported` | `NothingSentAfterCancel`, `EveryCallReported` |
| | McpServers, Execution | `NothingIsLeftRunning`, `TheBriefTopologyIsKept` | `NothingLeftRunning`, `BriefTopologyKept` |
| `Session_proofs` | Configuration | `UserOnlyKeysAndLimitsHold`, `CredentialsAreGuarded` | `ProjectNarrows`, `CredentialGuarded` |
| | Controls | `SkillsOnlyNarrow`, `TheModelIsToldWhatIsInForce` | `NarrowingHolds`, `ToldWhatIsInForce` |
| | Hooks | `WhatIsToldIsLogged` | `ToldIsLogged` |
| | LineEditor, Terminal | `TheTerminalIsKept` | `TerminalKept` |
| | Viewport | `TheBlockIsKnown` | `BlockKnown` |
| | Screen | `TheScreenIsKept` | `ScreenKept` |
| | EgressProxy | `DialsAreChecked`, `TheSummaryAddsUp` | `DialsChecked`, `VerdictsAddUp` |
| | WebFetch | `TheGateKeeps` | `GateKept` |
| `Workload_proofs` | Context | `AConversationStaysWhole`, `CompactionKeepsTheTail` | `ConversationSound`, `CompactionKeeps` |
| | ShellChanges | `ShellChangesAreTold` | `ChangesTold` |
| | Sandbox | `CommandsStayConfined` | `CommandConfined` |

AgentLoop, Delegation, ToolGate, Files and Services also have `Typing`, the type invariant of each.

### What the constants are assumed to be

Most assumptions only say that bounds are numbers and that inputs are of their type. These say more:

- *DelegationAssumption*, *FilesAssumption*, *ControlsAssumption*, *EditorAssumption*: the requests, file contents, settings
  and pastes that are chosen from are values the program's own types admit (a limit is a natural, a paste has a line,
  the draft that is none is no buffer).
- *CallsAssumption*, *ChildToolsAssumption*: no tool has the name of a capability, Delegate and MCP tools declare one access
  of their own capability and no other tool declares it, a child has neither Delegate nor Skill. *SecretsAssumption*: the
  references to credentials are finitely many.
- *DefaultIsComplete*, *LayersAreTyped*: the built-in configuration has every key a merge reads and no network; a file
  has been through the parser, which refuses a key of another type.
- *ResumedAssumption*: a resumed conversation has each call's result behind the call, and no identifier twice; a log
  written by the program may break it, which is disagreement 4 and the business of Recovery.
- *SheetsAssumption*: a file lies in one folder.
- *EgressAssumption*: no name of a host is an address.
- *InputsAssumption*: the cursor lies in the buffer and the selected suggestion among those offered, which is what
  `TheTerminalIsKept` proves the editor's keys to keep (`Sound`).
- *SandboxAssumption*: paths are sequences of names, finitely many are looked at, a link leads to one of them, and `.git`
  lies directly in the workspace.

Two theorems have a hypothesis of their own, and each is the boundary of a disagreement below. `PlanModeHolds` supposes
that the session is not configured to start in plan mode; the run `plan_at_start` shows what happens otherwise.
`TheBlockIsKnown` supposes that the editor is told two columns more than its prompts take (`Roomy`): room for the prompt and
one character, which may be a wide one. With one column less TLC refutes `BlockKnown` (disagreement 27). `BriefTopologyKept`
has its condition in itself: it speaks of commands whose limit leaves room for set-up and teardown.

### Along which argument

No property is inductive by itself. What is added, per module:

*AgentLoop.* `Inductive` says, for each place of the turn: `Standing`, the state the turn can be in there unless cancelled,
and that it has an error exactly when it failed, so that no transition is refused; `Asked`, which calls are open and
which owed (the batch `lo..hi`, or nothing); `Answers`, that issued calls are answered, open, owed, or on their way to
the log, and no call is two of these; `Agreement`, how the fold of the log and the live state differ while an append or
its update is under way; `Spending`, the counters of the budget against the requests really sent. The lemmas
`FoldOf...` say what one event does to the fold, so that no step opens it again. Initial states map to initial
states of `TurnContract`, each step to one of its steps or a stutter.

*Recovery.* `Sound`: the numbers of the log against `seq` (`Numbered`), the gate at every await and not only between turns
(`Gated`), and which calls are open at each of them (`Closed`). `Tells` adds how far the log has come with the batch
(`Tallied`), and the conversation the log tells against the one the engine holds, place by place, with the messages and
results still on their way (`Telling`). All of it is about a log that is not damaged; a kill leaves a log the last
place or this one told, or a damaged one, of which `AllAnswered` and the numbers alone are claimed. `Counted` has the
request that is under way, and what the snapshot says of every file a kill may leave of the present one: a file
that was damaged by one append can be whole again after the kill of that append, so it is not enough to speak of files that
are whole now. `CutOfAppended` says what such a file still holds. `Turns`, `Told`
and `Exchanges` are recursive functions over a sequence: `IterationExists` says that there is one for every sequence, and the
lemmas after it that one event more is one step more. Induction is by lemmas whose parameter is the set of what holds, not
a predicate (`UpTo`, `AnySequence`), which the provers can instantiate.

*Delegation.* `Listened` ties the child's place, the listener and the cancellation together. `Accounted`, `PaidFor`
and `Within` follow the money: what the batch still owes counts a full share for each child that has not run, so the
sum never grows when one of them is paid for. `Telling` follows the log: every identifier is that of a finished
record, of the job in hand or of the nested one, and its entries in the log, in order, are the story so far.

*ToolGate.* `Decided` says of a call between its decision and its end that it was decided for each access, under the
policy it holds, and has the answer an `ask` demands; it holds on to the policy it was decided under, so later changes of
mode and skills do not disturb it. `Descended` says the same of a child's policy and its parent's, `Planned` that
the layers in force are those of the present mode and skills. `Counted` is exact: a secret's count in the redactor is
its registrations and the calls that hold it.

*Files.* `Answered`: each receipt is vouched for by what the model saw, and a plan's receipt is of the content it replaces.
`Looked`: what was checked is still so, unless another process wrote there (`raced`). `Foreseen`: the checks of an undo run
over a projection that agrees with the disk, entry by entry. `Restored`: each file an undo has been over has what the
least entry taken back found.

*Services.* Each service moves by its own actions or not at all. `Heard`: what was cancelled, the attempt that is out has
heard. `Gathered`: every call that began is in the answer or pending. `CountedLeft`: what no `exec` accounts for is what the
daemon refused to remove. `Timely`: the other kernel's clock in each phase. `Ordered`: a closed session has no command.

*Session.* `Fetched` and `Built`: the configuration at each step of the start is exactly the layers read so far;
`ProjectNarrows` is then a lemma on `Merge`, key by key. `Resolved`: each credential's source. `Equipped`, `Limited`,
`Heeded`: what is offered is what the active skills permit, the limits of the turn, and what the model can still see.
`Audited` counts for every hook what was told, what is still held and what runs against what began. `TerminalInv` has
the editor's buffer, `Sound`, with a lemma for each of its operations. `Staged`: how much of a proxied connection has
been looked at, at each place of its handler; `Judged` counts the verdicts. `Fetching` has the same places for a
fetch, and `SentClean` is what was let out of bodies and headers. Viewport: `ViewportInv` says of the block that is on
the screen which lines it has, that the cursor's cell is on the row that is kept or, once lines are broken, below it,
and that a terminal that reflows can only move it further down; every redraw computes the block anew, and what is long
is the arithmetic of a draw. `RowsOfIs` and `RowsBeforeSteps` count the rows of a line and of the lines before one,
`CursorPlaced` puts the cursor on a row of its own line, below the total, although `layout` computes rows by chunks
and the cursor by a division; from there it stays in the slice that is drawn (`View`). Screen: `Streaming` says of the
markdown stream that what is printed and what is held back, one after the other, list exactly the lines that ended,
less the dropped ones, each once and in order (`Lists`), and that a candidate and a table are never held at once;
`RenderedLine` and `FlushedIs` are a line and a flush, `ElementKeeps` one element of a delta and `FedKeeps` a delta of
any length. `Apart` relates the stream to the row: a piece of an answer is on it only while the stream knows of it,
and the spinner is off. `Resting` is what a turn leaves to the prompt: nothing held, no line begun.

*Workload.* `ContextInv` adds `Sound`: results are behind their calls and nothing but the call that runs lacks one, the
identifiers are unique, and every receipt and delegation is visible. A compaction cuts at a closure, so that both halves are
sound. `ShellInv` relates what a look took in to what its snapshot notes (`Scanned`,
`Statused`) and how far a walk has come (`Passed`); a snapshot that `Describes` its look is what makes a difference
of two snapshots a change. Sandbox: `Boxed` is what the start of a session settles and nothing changes after it, the scan
above all; `Mounted` has the container's plan as a function of what was there when it was made (`command.there`), so that
later changes of the disk leave it alone, and `Launched` what the launcher has done at each of its places (`Done`). Paths
that contain a third contain each other by length, so that the deepest mount above a path is one, and decides.

### What the proofs found

Attempts that failed for a good reason changed a model, each time towards the code: in Files a race on a path now goes
along with the rename that is undone; in Configuration `Finish` merges the flags as one more layer; `StartKernel`
refuses a start whose active provider has no entry at all; `ProjectNarrows` says what a user's `"*"` lets a project
name. The assumptions on resumed conversations, drafts and folders were not written down before a proof needed them.
`Turns`, `Told` and `Exchanges` of Recovery, `RowsBefore` of Viewport and `Fed` of Screen became recursive functions,
and ShellChanges has named operators for the parts of a walk, without a change of behaviour, because the provers do
not expand `SelectSeq` and the folds. `AnswerWhole` of Screen says of the lines printed and held which they are and
that they ascend, instead of comparing them with a sequence computed by a filter. Viewport had one width for the
prompt and for what continues it; they are two constants now, since the rows of a line depend on which it has, and the
run gives them different values. Its cursor leaves the block where the editor is told of no room for a character after
the prompt, which is how `Roomy` was found. In Sandbox, `Granted` did not say that a granted directory may be a link,
and is opened where it led when the command was planned (`container-plan.ts:319` on, for masks as for grants); and the
planner passes over a protected name that leads to the workspace itself, which `PlanFaithful` now says.

### What is only model-checked

- `TurnEnds` (both) and `OperationEnds`: liveness is outside the prover's reach.
- The violations.

Every safety property of a passing run has a theorem.

## Disagreements found

1. **A tool may start after the cancellation** (`tools/runtime.ts:683`): the signal is looked at once per call, before
   four awaits. `turn.ts:10-12` calls that impossible.
2. **A long command's proxy is collected** (`tools/builtin/shell.ts:66`): Shell allows 15 minutes, which is the age from
   which another kernel takes a topology for orphaned, and set-up and teardown come on top (`long_command`). The comment
   at `egress-sidecar.ts:71` calls the ceiling well under that age.
3. **A torn last line swallows what follows** (`session/store.ts:184`): the next process appends to the torn line.
4. **A rebuilt conversation may be malformed** (`session/resume.ts:180`): a call cancelled before its `tool.call` is
   logged has a synthetic result in the log and no call; and results that resume synthesises are never logged, so
   that a second resume puts them after later turns.

5. **A session that starts in plan mode asks about mutations** (`session/session.ts:330`): the constructor never recomputes the
   narrowing, so the plan layer is missing until the mode changes (`plan_at_start`).

Stated in a module, or seen while reading, without a run of their own:

6. **A shell command's change may be silent, or invented** (`execution/mutation-detector.ts:121`, `NeverSilent`; `util/walk.ts:145`,
   `NothingInvented`): git's status code does not change for a file that was dirty already, or that the command commits; a walk does
   not see a write that keeps a file's size and time (`mutation-detector.ts:145`); a walk a cancellation stops is taken for a whole one, so that every other file is reported as deleted. Looks of
   different kinds are not compared at all, and the fact about the last undeclared change is never taken back.
7. **Counts of a resumed session come from the snapshot** (`session/session.ts:309`), where the comment above the option
   says from the log; after a kill in a turn they are below the log's for good, and never above (`SnapshotBehind`).
8. **One answer per subject is asked twice** (`tools/runtime.ts:613`): recorded under the tool's key, looked up under the
   access's (`policy-engine.ts:184`); they agree for Delegate and MCP tools only (`OneAnswerPerSubject` of ToolGate).
9. **A file may be deleted without having been read** (`edit/edit-engine.ts:469`): the receipt of an edit has full coverage,
   also after a partial read. `DeletedWasRead` in Files states what the threat model says; as an invariant of
   `Files.cfg`, TLC refutes it. `NothingUnseenChanged` names the exception (`op.by.own`).
10. **An undo plan refuses its own moves** (`edit/undo-engine.ts:193`) and **records one prior for two steps**
    (`tools/builtin/undo.ts:256`): the projection of a moved file has an empty hash (`Blank` in Files), and priors are
    read before the first step.
11. **The lockfile rules rank below the workspace root** when its path is long (`policy/policy-engine.ts:430`; `RootLength`
    in ToolGate).
12. **A cancellation can miss a child or a command**: between the look at the signal and the listener
    (`session/delegation.ts:569`, `missed` in Delegation), and while snapshot and sidecar are set up
    (`execution/container.ts:741`, `hears` in Execution). Both then run to their own limits, so `TurnEnds` and
    `OperationEnds` still hold.
13. **A batch of children overspends** (`session/delegation.ts:187`): each is granted what was left when the step began.
    `ChargesRight` says how far that goes; and what a child of a cancelled turn spent is charged to the next turn
    (`session/session.ts:1054`), which it allows. A delegated child's conversation is never compacted
    (`context/compaction.ts:199`): it holds no message of the user's, so its tail begins at 0.
14. **Half an answer is a whole one** (`model/adapters/openai-chat.ts:152`) and **a retry keeps what it heard**
    (`model/runtime.ts:339`): an OpenAI-compatible stream that closes early is completed, and a request repeated after
    a partial stream answers with both parts; on the screen the second goes on in the line of the first.
15. **The cost ceiling counts children only** (`session/session.ts:1057`): the turn's own cost goes to the session's usage and
    never to the budget. With responses that cost something and no child (`AgentLoop.cfg` with `ResponseCosts = {0, 1}`
    and `ChildUsage = {NoUsage}`) TLC refutes `CostCeilingStops`.
16. **A container whose removal failed is forgotten** (`execution/container.ts:523`); `NothingLeftRunning` counts `refused`.
17. **A rejection nobody handles** ends the process when a time limit, a cancellation or a death falls into the write of an
    MCP frame (`mcp/transport-stdio.ts:127`); and a server that flooded its client is not waited for at the end (`:140`).
18. **A command with a child in the background** is waited for beyond its limit (`execution/local.ts:334`), also under the
    launcher for what left its process group. The ssh backend does not hand on `spec.env`.
19. **A credential-shaped variable that was leased is refused** (`execution/local.ts:219`), and **a granted write opens its
    whole directory** (`execution/sandbox.ts:72`), where the file's head says exactly the path. The description of what
    is enforced under the launcher has the container's text; `build.ts` hashes the source after it was compiled.
20. **A project may add hosts when the user named none** (`config/schema.ts:522`, `ProjectAddsNoHost`). Of the configuration
    itself: `mcp.use` and the permission profile are replaced and not narrowed, `SYSTEM_CEILING` 200 is never reached,
    `allow_benchmark_range` and `strictBoolean` have no default (`schema.ts:505`), a relative workspace of a remote is kept,
    and `setup-credential --force` writes through a symbolic link.
21. **A goal does not survive a resume** (`kernel.ts:1346`, `GoalSurvives`), and a cleared one stays in the metadata. `goal.changed`
    and `skill.activated` are appended without being awaited; `control.command` (`events.ts:60`) is never appended.
22. **Skills**: a limit on steps that the model's own activation brings is not applied in that turn (`session.ts:845`); a
    second activation keeps the scope of the first and reports the other (`session.ts:566`); one that was activated
    under another stays narrowed when that has gone (`extensions/skills.ts:190`).
23. **Two readers of one stdin** after a reason was typed (`cli/prompter.ts:165`, `OneReader`); Ctrl-C or Ctrl-D at the question
    closes the cached interface, and a later reason throws. A paste whose end mark is split over two chunks is never
    recognised; the rest of a chunk after Enter is dropped; a new line, a deletion and Tab neither take a snapshot for
    undo nor clear redo; completions may arrive out of order.
24. **Compaction forgets its own summary** (`context/compaction.ts:252`), and the fact `context-over-budget` is never removed
    (`session/session.ts:1268`).
25. **The proxy loses bytes** a client sends before the relay begins (`egress-proxy/proxy.ts:564`), and a connection refused
    at the limit has no error listener (`:219`).
26. **A row is left on the screen** (`cli/render.ts:1650`, `NoTrace`): a line of reasoning without a newline, or a held table,
    goes out while the spinner's row is drawn. A table too wide for the window and without rows loses its header; a line
    of cells directly before a table's header prevents the table.
27. **A redraw after a resize leaves rows behind** (`cli/editor.ts:1135`, `RedrawnFromItsTop`): it goes up by the row of the
    block in lines that were written, while a narrower terminal shows a line on several rows; so does one of no more than
    20 columns, which is taken for one of 80. **A line that is sent, or a mode that is cycled, clears by a shape the block
    does not have** (`cli/editor.ts:1155`, `:1179`, `ClearedFromItsTop`): by the window there is now and the prompt of the new
    mode, so that it may erase what is above. As invariants of `Parts.cfg`, TLC refutes both. The
    cursor of a line of wide characters is drawn off its character where
    the columns left over are odd (`cli/editor.ts:732`, `CursorOnText`). Where there is no room for a character after the
    prompt (21 columns, a box and `[accept edits]`), `layout` still puts one on the prompt's row (`cli/editor.ts:714`), where
    the cursor's division by the columns finds none: the cursor's row is then not of the block, and a redraw starts a row off.
28. **WebFetch**: an address of the benchmark range that `resolve.ts` lets pass is refused by the tool before; the check that a
    channel carries metadata only looks six levels deep; part of a page is told as a success after a cancellation. That
    a name may be bound anew between the look and the socket (`NotRebound`) the code says itself.
29. **Hooks** (`extensions/hooks.ts:280`, `EveryRunAudited`): one that cannot be confined takes the outcomes of the event's
    earlier ones with it. They get no signal, so that a cancelled turn waits for them; `enabled` is never read; the
    root's are judged by the kernel's base policy; what is injected stands between the calls of a message and their
    results and is not logged, so that a resumed conversation lacks it (`tests/integration/hook-lifecycle.test.ts:415` and
    `docs/m2-hardening-report.md:203` claim closure only).
30. **A secret may leave in a url** (`security/egress-gate.ts:422`, `NothingKnownFetched`): the gate looks for values it knows in
    bodies and headers, and a fetch has neither of its own: what the model wrote into the path or query of a granted host's
    url goes out as it is. `docs/threat-model.md:30` says that secret values never leave. As an invariant of `Parts.cfg`, TLC
    refutes it.

## Not modelled

- *Composition*: AgentLoop, the modules that open its awaits, and the eleven parts are checked apart. What crosses between
  them is named under "Modules"; nothing checks that the outcomes AgentLoop chooses from are those the others produce,
  beyond that it allows every one.
- *Context*: the text of the system prompt, repository facts, overlays. *Freshness and edits*: the text of diffs and the search
  for the place of a replacement.
- *Execution*: the remote file snippets of ssh, renames in `git status`, and docker and Landlock themselves, which are
  external. *MCP*: `reconcileAfterRestart` and `disable`, which nothing under `src/` calls.
- *Session*: failing writes of the log, listing and deletion of sessions, two processes that resume one session.
- *Egress proxy*: the bytes of request heads and TLS hellos. *Secrets*: the scan and redaction of text.
- *Terminal*: colours, wording, key bindings, the decoding of escape sequences, the menu of `select`; `/verbose` and the
  commands that only print.
- *Configuration*: TOML, the wording of warnings. *Utilities, evaluations, scripts*: pure helpers and a harness around the
  program.

Properties stated in a module and in no run: each module's `...TypeOK`, which hold on the instances above and say less
than those that run; `GaplessLog`, `SnapshotBehind`, `VerdictsAddUp`, `NoInternalError` and `Inductive`, which are
proved; `CostCeilingStops`, `OneAnswerPerSubject`, `DeletedWasRead`, `GoalSurvives`, `ProjectAddsNoHost`, `OneReader`,
`NoTrace`, `RedrawnFromItsTop`, `ClearedFromItsTop`, `NothingKnownFetched`, `NotRebound`, `EveryRunAudited`,
`NeverSilent` and `NothingInvented`, which TLC refutes as the list above says.

## Left to do

1. A composition of AgentLoop with one of the modules that open its awaits, so that the outcomes it allows are those the
   part has been shown to produce.
2. Two processes that resume one session, and writes of the log that fail.
3. A goal over a resume, and the staged model changes that AgentLoop leaves out, in Recovery.
