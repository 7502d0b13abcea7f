------------------------------ MODULE MCParts ------------------------------
(* The instance of eleven components that TLC checks. None of them reads what       *)
(* another writes while it runs, so a behaviour of this module is one of one of   *)
(* them: what moves is chosen in the initial state.                             *)
EXTENDS EgressProxy, Sandbox, Configuration, Context, Controls, Terminal, Screen, MCViewport, MCFetch, Hooks, ShellChanges

VARIABLE moving

partsVars ==
  <<egressVars, sandboxVars, configVars, contextVars, controlsVars, terminalVars, screenVars, viewVars,
    fetchVars, hookVars, shellVars, moving>>

-----------------------------------------------------------------------------
(* Egress: one granted host or two, spelled as usual or not.                   *)
Raw(n, f) == [name |-> n, form |-> f]
MCScopeOf == [l \in {"ip"} |-> "global"]
MCGrants == {{}, {Raw("a", "usual")}, {Raw("a", "unusual"), Raw("ip", "usual")},
             {Raw("a", "usual"), Raw("b", "malformed")}}

Request(m, t, p, hs) == [method |-> m, target |-> t, port |-> p, headers |-> hs, framed |-> TRUE]
Header(n, p) == [host |-> Raw(n, "usual"), port |-> p]
MCRequests ==
  {Request("CONNECT", Raw(n, "usual"), p, <<>>) : n \in {"a", "b", "ip"}, p \in {22, 80, 443}}
  \cup {Request("GET", Raw("a", "unusual"), 80, hs) :
          hs \in {<<>>, <<Header("a", 0)>>, <<Header("b", 80)>>, <<Header("a", 443)>>,
                  <<Header("a", 0), Header("a", 0)>>}}
  \cup {Request("GET", Raw("a", "malformed"), 80, <<Header("a", 0)>>)}

MCHellos == {[kind |-> k, name |-> Raw(n, "usual"), encrypted |-> e] :
               k \in {"sni", "no-sni", "other"}, n \in {"a", "b"}, e \in BOOLEAN}
MCAnswers == {<<>>, <<"global">>, <<"private">>, <<"private", "global">>, <<"benchmarking">>,
              <<"unclassified", "private">>, <<"global", "global", "global">>}

-----------------------------------------------------------------------------
(* Sandbox: a workspace with .git, a protected file, a link out of it, a link to *)
(* a protected file, two generated directories.                                *)
MCWorkspace == <<"w">>
MCGit == <<"w", ".git">>
MCAgentTmp == <<"w", ".my", "tmp">>
MCSandboxHome == <<"w", ".my", "home">>
DotEnv == <<"w", ".env">>
MCPlaces == {<<"w">>, MCGit, <<"w", ".my">>, MCAgentTmp, MCSandboxHome, DotEnv, <<"w", "conf">>,
             <<"w", "dist">>, <<"w", "dist", "key">>, <<"w", "out">>, <<"o">>, <<"o", "a">>, <<"usr">>}
MCLinkTo == (<<"w", "out">> :> <<"o">>) @@ (DotEnv :> <<"w", "conf">>)
MCSecrets == {DotEnv, <<"w", "dist", "key">>}
MCGenerated == {<<"w", "dist">>, <<"w", "out">>, MCGit}
MCRuntimeBase == {<<"usr">>}

Tree(dirs, plain) ==
  [p \in MCPlaces |-> CASE p \in dirs -> "dir" [] p \in plain -> "file" [] OTHER -> "absent"]
Checkout == {<<"w">>, MCGit, <<"w", ".my">>, <<"o">>, <<"usr">>}
MCTrees ==
  {Tree(Checkout \cup {<<"w", "dist">>, <<"w", "out">>}, {<<"w", "dist", "key">>, <<"w", "conf">>}),
   Tree(Checkout \cup {<<"w", "dist">>}, {DotEnv, <<"w", "conf">>})}

Wants(k, p) == [kind |-> k, path |-> p]
Running(cwd, env, lease, net) ==
  [decisions |-> {Wants("read", cwd)}, exec |-> TRUE, cwd |-> cwd, env |-> env, lease |-> lease,
   network |-> net]
Editing(ds) == [Running(MCWorkspace, "plain", "none", FALSE) EXCEPT !.decisions = ds, !.exec = FALSE]
MCCalls ==
  {Running(MCWorkspace, "plain", "none", FALSE), Running(MCWorkspace, "plain", "credential", TRUE),
   Running(<<"o">>, "credential", "none", TRUE)}
  \cup {Editing({Wants("write", <<"w", "conf">>)}),
        Editing({Wants("delete", <<"w", "dist", "x">>), Wants("read", <<"w", "dist">>)})}

-----------------------------------------------------------------------------
(* Configuration: three user files, three of a checkout.                       *)
MCDefault ==
  [maxSteps |-> 2, profile |-> "workspace-dev", default |-> "fake", redaction |-> TRUE,
   content |-> FALSE, network |-> FALSE, secretPaths |-> {}, generated |-> {"dist"}]
Main == [file |-> "key", env |-> "VAR", host |-> "p.example"]
Spare == [file |-> None, env |-> "UNSET", host |-> "q.example"]
MCUserFiles == {
  [providers |-> ("main" :> Main) @@ ("spare" :> Spare), aliases |-> ("m" :> "main"),
   servers |-> ("s" :> "users"), approvalMode |-> 2, hosts |-> [web |-> {"a"}],
   secretPaths |-> {"x"}],
  [providers |-> ("main" :> Main), aliases |-> ("m" :> "main"), default |-> "m", maxSteps |-> 1,
   memory |-> 2, use |-> {"s"}, servers |-> ("s" :> "users") @@ ("t" :> "users")],
  [providers |-> ("spare" :> Spare), aliases |-> ("n" :> "spare") @@ ("m" :> "main"),
   default |-> "n", network |-> TRUE, benchmark |-> TRUE, pull |-> TRUE, profile |-> "unknown"]}
MCProjectFiles == {
  [servers |-> ("s" :> "theirs") @@ ("u" :> "theirs"), approvalMode |-> 3, image |-> "theirs",
   pull |-> TRUE, network |-> TRUE, redaction |-> FALSE, content |-> TRUE],
  [hosts |-> [web |-> {"a", "b"}], maxSteps |-> 3, memory |-> 1, use |-> {"t"},
   secretPaths |-> {"y"}],
  [providers |-> ("main" :> Spare), aliases |-> ("z" :> "main"), default |-> "z",
   approvalMode |-> 0, profile |-> "ci"]}
MCLegacyFiles == {[hosts |-> [model |-> {"b"}], generated |-> {"src"}]}
MCFlags == {Nothing, [default |-> "fake", profile |-> "read-only"]}

Rule(a, k, p) == [action |-> a, known |-> k, onFiles |-> TRUE, pattern |-> p]
MCRuleFiles ==
  {{Rule("deny", TRUE, "relative"), Rule("allow", FALSE, "absolute"), Rule(None, TRUE, "home")}}
MCRemoteFiles == {{[host |-> "h", workspace |-> "w", absolute |-> FALSE, agent |-> TRUE,
                    env |-> FALSE, strict |-> FALSE, user |-> "root"]}}
MCEgressDefault == [model |-> {"v"}, web |-> {}]

MCPlaceOf == ("key" :> "config") @@ ("ws" :> "workspace")
KeyFile(shared, mine) == [kind |-> "file", shared |-> shared, mine |-> mine, key |-> "old"]
MCKeyFiles == ("ws" :> {NoFile}) @@ ("key" :> {NoFile, KeyFile(FALSE, TRUE), KeyFile(TRUE, FALSE)})

-----------------------------------------------------------------------------
(* Context: a conversation that was resumed twice. The call of its first turn    *)
(* was cut off by a crash, and its synthetic result, which resume does not log,  *)
(* comes after the second turn (see ReadBack and Rebuilt in Recovery).           *)
MCResumed == {<<User(1), Assistant({1}), User(2), Assistant({}), Result({1}, {})>>}

-----------------------------------------------------------------------------
(* Controls: two skills that share a tool, one of them with a limit.             *)
MCToolbox == {"Read", "Write", "Skill"}
MCSkillFiles == ("reader" :> [tools |-> {"Read", "Skill"}, steps |-> 1])
                @@ ("writer" :> [tools |-> {"Write", "Read", "Skill"}, steps |-> Unset])
MCCeiling == [steps |-> 2, calls |-> 2]
MCOverrides == {("steps" :> 3) @@ ("calls" :> 1), ("steps" :> 0)}
MCConfigured == [mode |-> "manual", model |-> "m", effort |-> "high"]

-----------------------------------------------------------------------------
(* Terminal.                                                                   *)
MCPastes == {<<1>>, <<1, 0>>}
MCCompletions == {<<2>>, <<1, 2>>}

-----------------------------------------------------------------------------
(* Screen: text that does not end a line, and lines of prose, of a table and of  *)
(* code, alone and together.                                                   *)
MCDeltas == {<<"x">>, <<"x", "rule">>, <<"fence">>, <<"plain", "x">>, <<"row", "rule">>}

-----------------------------------------------------------------------------
(* Hooks: two of one event, a matcher, one of the kernel's events, one of each    *)
(* place that fires.                                                           *)
HookOf(event, matcher, tools, inject) ==
  [event |-> event, matcher |-> matcher, tools |-> tools, inject |-> inject, command |-> TRUE]
MCHookFiles ==
  {<<HookOf("PreToolUse", TRUE, {"edit"}, TRUE), HookOf("PreToolUse", FALSE, {}, FALSE),
     HookOf("PermissionRequest", FALSE, {}, TRUE)>>,
   <<HookOf("BeforeStep", FALSE, {}, TRUE), HookOf("PostToolUse", TRUE, {"shell"}, TRUE),
     HookOf("PreModelRequest", FALSE, {}, TRUE)>>,
   <<HookOf("SessionStart", FALSE, {}, TRUE), HookOf("TurnEnd", FALSE, {}, FALSE),
     HookOf("SessionEnd", TRUE, {"edit"}, TRUE)>>}

-----------------------------------------------------------------------------
(* Shell: a source, a test and what a build leaves, in three folders.           *)
MCFolders == <<<<"main">>, <<"spec">>>>
MCClassOf == ("main" :> "source") @@ ("spec" :> "test") @@ ("gen" :> "generated")

-----------------------------------------------------------------------------
(* Those that do not move stay in one of their initial states. *)
Pinned(x, S) == x = CHOOSE s \in S : TRUE
EgressPinned == Pinned(grant, Grants) /\ Pinned(benchmark, BOOLEAN)
SandboxPinned == Pinned(disk, Trees) /\ Pinned(machine, Abis)
ConfigPinned ==
  /\ Pinned(files, [user : UserFiles, primary : ProjectFiles, legacy : LegacyFiles])
  /\ keyfiles = [p \in Paths |-> CHOOSE f \in KeyFiles[p] : TRUE]

ContextPinned == child = FALSE /\ repeats = FALSE /\ history = <<>>
ScreenPinned == md = FreshStream(TRUE) /\ reasoned = FALSE
ViewPinned == Pinned(input, Inputs) /\ Pinned(window, Windows)
FetchPinned == Pinned(benchmarks, BOOLEAN)
HooksPinned == Pinned(hooks, {Loaded(f) : f \in HookFiles})
ShellPinned == byGit = FALSE /\ sheets = [f \in Sheets |-> [text |-> Blanked, stamp |-> 0]]

\* A checkout with a file of its own also has the old one and comes with a key file that
\* is the user's, if any; a build has yet to leave anything; and a server that repeats its
\* ids answered in a session that is resumed.
ConfigStarts ==
  files.primary # Absent => files.legacy # Absent /\ keyfiles["key"] # KeyFile(TRUE, FALSE)
ContextStarts == repeats => history # <<>>
ShellStarts == \A f \in Ignored : sheets[f].text = Blanked

\* ControlsInit and TerminalInit leave no choice.
PartsInit ==
  /\ moving \in {"egress", "sandbox", "configuration", "context", "controls", "terminal", "screen",
                 "viewport", "fetch", "hooks", "shell"}
  /\ IF moving = "egress" THEN TRUE ELSE EgressPinned
  /\ IF moving = "sandbox" THEN TRUE ELSE SandboxPinned
  /\ IF moving = "configuration" THEN TRUE ELSE ConfigPinned
  /\ IF moving = "context" THEN TRUE ELSE ContextPinned
  /\ IF moving = "screen" THEN TRUE ELSE ScreenPinned
  /\ IF moving = "viewport" THEN TRUE ELSE ViewPinned
  /\ IF moving = "fetch" THEN TRUE ELSE FetchPinned
  /\ IF moving = "hooks" THEN TRUE ELSE HooksPinned
  /\ IF moving = "shell" THEN TRUE ELSE ShellPinned
  /\ EgressInit /\ SandboxInit /\ ConfigInit /\ ContextInit /\ ControlsInit /\ TerminalInit
  /\ ScreenInit /\ ViewInit /\ FetchInit /\ HooksInit /\ ShellInit
  /\ moving = "configuration" => ConfigStarts
  /\ moving = "context" => ContextStarts
  /\ moving = "shell" => ShellStarts

\* A part moves, or is as it was.
Still(part, vars) == IF moving = part THEN TRUE ELSE UNCHANGED vars

PartsNext ==
  /\ \/ moving = "egress" /\ EgressNext
     \/ moving = "sandbox" /\ SandboxNext
     \/ moving = "configuration" /\ ConfigNext
     \/ moving = "context" /\ ContextNext
     \/ moving = "controls" /\ ControlsNext
     \/ moving = "terminal" /\ TerminalNext
     \/ moving = "screen" /\ ScreenNext
     \/ moving = "viewport" /\ ViewNext
     \/ moving = "fetch" /\ FetchNext
     \/ moving = "hooks" /\ HooksNext
     \/ moving = "shell" /\ ShellNext
  /\ Still("egress", egressVars) /\ Still("sandbox", sandboxVars) /\ Still("configuration", configVars)
  /\ Still("context", contextVars) /\ Still("controls", controlsVars) /\ Still("terminal", terminalVars)
  /\ Still("screen", screenVars) /\ Still("viewport", viewVars) /\ Still("fetch", fetchVars)
  /\ Still("hooks", hookVars) /\ Still("shell", shellVars) /\ UNCHANGED moving

PartsSpec == PartsInit /\ [][PartsNext]_partsVars
=============================================================================
