------------------------------- MODULE Sandbox -------------------------------
(* What a command may touch: the launcher that is built and verified, the scan  *)
(* for protected files when a session starts, the profile the granted accesses  *)
(* become, and what each backend makes of it: mounts of a container, rules that  *)
(* a launcher applies step by step, or the kernel's own checks alone.           *)
(*                                                                           *)
(* A path is a sequence of names. Docker and the Landlock calls are external:    *)
(* they do what they are asked, or fail.                                       *)
EXTENDS Integers, Sequences, FiniteSets, SequencesExt

CONSTANTS Workspace, Git, AgentTmp, SandboxHome,   \* paths with a meaning
          Places,           \* every path that matters, inside and outside
          LinkTo,           \* symbolic links: where each leads
          Secrets,          \* ProtectedPaths: protected wherever they are
          Generated,        \* the heads of [generated_paths]
          RuntimeBase,      \* RUNTIME_BASE: programs, libraries, devices
          Trees,            \* what may be on the disk: Places -> kind
          Calls,            \* tool calls: decisions, cwd, environment, lease
          Abis,             \* Landlock ABIs of the machine, 0 for none
          NetworkAbi,       \* LL_ABI_NET_TCP
          MaxEntries,       \* the scan's limit
          MaxRevisions, MaxChanges, MaxCommands    \* bounds

ASSUME SandboxAssumption ==
  /\ {Workspace, Git, AgentTmp, SandboxHome} \cup Secrets \cup Generated \cup RuntimeBase \subseteq Places
  /\ IsFiniteSet(Places) /\ Places \subseteq Seq(STRING)
  /\ IsPrefix(Workspace, Git) /\ Len(Git) = Len(Workspace) + 1
  /\ DOMAIN LinkTo \subseteq Places /\ LinkTo \in [DOMAIN LinkTo -> Places]
  /\ \A call \in Calls : call.exec \in BOOLEAN /\ \A d \in call.decisions : d.path \in Seq(STRING)
  /\ Abis \subseteq Nat /\ {NetworkAbi, MaxEntries, MaxRevisions, MaxChanges, MaxCommands} \subseteq Nat

VARIABLES
  disk,             \* what each path is: "file", "dir" or "absent"
  source,           \* the revision of native/mycoder-sandbox.c
  binary,           \* the revision the launcher was compiled from, 0 for none
  manifest,         \* the two digests beside it
  building,         \* buildSandbox: the revision the compiler read, 0 when idle
  machine,          \* the ABI of this kernel
  box,              \* the session's backend and what it found when it started
  command,          \* the command that runs, see NoCommand
  changes, commands \* bounds

sandboxVars == <<disk, source, binary, manifest, building, machine, box, command, changes, commands>>

Within(root, p) == IsPrefix(root, p)
There(p) == disk[p] # "absent"
Real(p) == IF p \in DOMAIN LinkTo /\ There(p) THEN LinkTo[p] ELSE p

NoManifest == [source |-> 0, binary |-> 0]
NoCommand == [at |-> "none", call |-> <<>>, roots |-> <<>>, plan |-> <<>>, there |-> {},
              launcher |-> 0, rules |-> {}, asked |-> {}, added |-> {}, applied |-> {}]
NoBox == [at |-> "down", kind |-> "none", found |-> {}, truncated |-> FALSE, known |-> {},
          generated |-> {}, label |-> "none", source |-> 0, launcher |-> 0, manifest |-> NoManifest]

SandboxInit ==
  /\ disk \in Trees
  /\ source = 1 /\ binary = 0 /\ manifest = NoManifest /\ building = 0
  /\ machine \in Abis
  /\ box = NoBox /\ command = NoCommand
  /\ changes = 0 /\ commands = 0

-----------------------------------------------------------------------------
(* The launcher: compiled on this machine, described by a manifest, verified   *)
(* against the source that ships now.                                         *)

BuildSandbox ==
  /\ building = 0
  /\ building' = source
  /\ UNCHANGED <<disk, source, binary, manifest, machine, box, command, changes, commands>>

Compiled ==
  /\ building # 0 /\ binary # building
  /\ \/ binary' = building /\ UNCHANGED building
     \/ UNCHANGED binary /\ building' = 0      \* the compiler fails
  /\ UNCHANGED <<disk, source, manifest, machine, box, command, changes, commands>>

(* writeLauncherManifest hashes both as they are when the compiler is done. *)
ManifestWritten ==
  /\ building # 0 /\ binary = building
  /\ manifest' = [source |-> source, binary |-> binary]
  /\ building' = 0
  /\ UNCHANGED <<disk, source, binary, machine, box, command, changes, commands>>

(* verifyLauncher: missing, without manifest, mismatched or stale is refused. *)
VerifyLauncher ==
  /\ binary # 0 /\ manifest # NoManifest
  /\ manifest.binary = binary
  /\ manifest.source = source

-----------------------------------------------------------------------------
(* What a backend says it enforces, and the one word that is made of it.       *)

Levels == <<"none", "best-effort", "policy-enforced", "container-enforced", "os-enforced">>
Rank(level) == CHOOSE i \in DOMAIN Levels : Levels[i] = level

EnforcementOf(kind) ==
  CASE kind = "container"    -> [filesystem |-> "container-enforced", network |-> "container-enforced"]
    [] kind = "linux-native" -> [filesystem |-> "os-enforced",
                                 network |-> IF machine >= NetworkAbi THEN "os-enforced" ELSE "none"]
    [] OTHER                 -> [filesystem |-> "policy-enforced", network |-> "best-effort"]

(* summarizeEnforcement: the weaker of the two dimensions of arbitrary code. *)
Summarize(d) ==
  LET weakest == IF Rank(d.filesystem) <= Rank(d.network) THEN d.filesystem ELSE d.network
  IN  CASE weakest = "os-enforced"        -> "os-isolated"
        [] weakest = "container-enforced" -> "container-enforced"
        [] OTHER                          -> "policy-enforced"

(* discoverMaskPaths: links and .git are not descended, nor what is protected. *)
Entries(tree) ==
  {p \in Places : /\ IsStrictPrefix(Workspace, p) /\ tree[p] # "absent"
                  /\ \A q \in Secrets \cup DOMAIN LinkTo \cup {Git} : ~IsStrictPrefix(q, p)}

(* It stops, and says so, when it meets more entries than it may count. *)
Scans(tree) ==
  {[found |-> seen \cap Secrets, truncated |-> seen # Entries(tree)] :
     seen \in {s \in SUBSET Entries(tree) :
                 Cardinality(s) = IF Cardinality(Entries(tree)) <= MaxEntries
                                  THEN Cardinality(Entries(tree)) ELSE MaxEntries}}

(* createKernel, step 6: the scan, then the backend, or no session at all. The  *)
(* container's scratch directory is there before the scan, the launcher's home    *)
(* is made when the launcher has been verified and asked what it can do.         *)
Confines(kind) == kind = "linux-native" => VerifyLauncher /\ machine > 0
Made(kind) ==
  CASE kind = "container" -> {AgentTmp}
    [] kind = "linux-native" -> IF Confines(kind) THEN {SandboxHome} ELSE {}
    [] OTHER -> {}
Prepared(kind) == [p \in Places |-> IF p \in Made(kind) THEN "dir" ELSE disk[p]]
Looks(kind) == kind \in {"container", "linux-native"}

StartSession ==
  /\ box.at = "down"
  /\ \E kind \in {"local", "ssh", "container", "linux-native"} :
       /\ disk' = Prepared(kind)
       /\ \E scan \in Scans(Prepared(kind)) :
            box' = [NoBox EXCEPT
                     !.at = IF Confines(kind) THEN "up" ELSE "refused", !.kind = kind,
                     !.found = IF Looks(kind) THEN scan.found ELSE {},
                     !.truncated = Looks(kind) /\ scan.truncated,
                     !.known = Entries(Prepared(kind)) \cap Secrets,
                     !.generated = {g \in Generated : Prepared(kind)[g] = "dir"},
                     !.label = Summarize(EnforcementOf(kind)),
                     !.source = source, !.launcher = binary, !.manifest = manifest]
  /\ UNCHANGED <<source, binary, manifest, building, machine, command, changes, commands>>

-----------------------------------------------------------------------------
(* The profile. *)

PathsOf(call, kinds) == {d.path : d \in {e \in call.decisions : e.kind \in kinds}}

(* SandboxPlanner.plan: a write opens the parent directory too, a deletion does  *)
(* not, and what runs sees the workspace.                                     *)
Profile(call) ==
  LET writes == PathsOf(call, {"write", "delete"}) \cup {Front(p) : p \in PathsOf(call, {"write"})}
  IN  [reads |-> PathsOf(call, {"read", "write", "delete"}) \cup {AgentTmp}
                   \cup (IF call.exec THEN {call.cwd, Workspace} ELSE {}),
       writes |-> writes \cup (IF call.exec \/ writes # {} THEN {AgentTmp} ELSE {}),
       network |-> call.network]

(* The executor's own checks, and the environment it builds: scrubEnv keeps no   *)
(* credential of the host, and assertNoCredentialEnv refuses one of the tool's.  *)
(* The local backend does not know its own leases: it refuses those as well. On  *)
(* a remote machine the tool's variables are dropped, and no root is looked at.  *)
Admits(call, profile) ==
  /\ box.kind # "ssh" => /\ \E root \in profile.reads : Within(root, call.cwd)
                         /\ call.env # "credential"
  /\ box.kind = "local" => call.lease # "credential"
  /\ box.kind = "container" => Within(Workspace, call.cwd)

Command(call, profile, at) ==
  [NoCommand EXCEPT !.at = at, !.call = call, !.roots = profile,
                    !.there = {p \in Places : There(p)}]

-----------------------------------------------------------------------------
(* The container: planContainerMounts, validateContainerPlan, dockerRunArgs. *)

(* The base is read-only. What is granted for writing is mounted over it unless  *)
(* it is the root, outside, in .git or absent; a mask goes over what is granted.  *)
MountsOver(profile, protected) ==
  LET granted == {Real(p) : p \in profile.writes \cup {AgentTmp} \cup box.generated}
      hidden == {p \in protected : IsStrictPrefix(Workspace, p)}
      mountable == {p \in granted : IsStrictPrefix(Workspace, p) /\ ~Within(Git, p) /\ There(p)}
  IN  [writable |-> mountable \ hidden, masked |-> {p \in hidden : There(p)},
       unrepresented |-> (granted \ mountable) \cup (granted \cap hidden)]

\* Mutant of Mounts: a protected link is masked, and not the file it leads to.
MountsUnresolved(profile) == MountsOver(profile, box.found)

Mounts(profile) == MountsOver(profile, {Real(p) : p \in box.found})

(* validateContainerPlan, for what the planner might get wrong. *)
Valid(plan) ==
  \A p \in plan.writable : Within(Workspace, p) /\ p \notin Secrets /\ ~Within(Git, p)

(* What the command sees at a path: the deepest mount above it decides. *)
Over(plan, p) == {q \in plan.writable \cup plan.masked \cup {Workspace} : Within(q, p)}
Deepest(over) == CHOOSE q \in over : \A r \in over : Len(r) <= Len(q)
Sight(plan, p) ==
  IF Over(plan, p) = {} THEN "absent"
  ELSE IF Deepest(Over(plan, p)) \in plan.masked THEN "hidden"
  ELSE IF Deepest(Over(plan, p)) \in plan.writable THEN "writable"
  ELSE "readable"

RunContainer(call) ==
  /\ box.kind = "container"
  /\ LET profile == Profile(call)
         plan == Mounts(profile)
     IN command' = [Command(call, profile, IF Admits(call, profile) /\ Valid(plan) THEN "running" ELSE "refused")
                      EXCEPT !.plan = plan]

-----------------------------------------------------------------------------
(* The launcher: buildPlan and native/mycoder-sandbox.c. *)

(* buildPlan: Landlock cannot take a leaf out of a tree, nor name a host. *)
Refuses(profile) ==
  \/ box.truncated
  \/ \E p \in box.found : \E root \in profile.reads \cup profile.writes : Within(root, p)
  \/ profile.network

(* The stronger verb of a path wins; what is absent is left out. *)
Rules(profile) ==
  LET writes == {SandboxHome} \cup {p \in profile.writes : There(p)}
      reads == {p \in RuntimeBase \cup profile.reads : There(p)}
  IN  {[path |-> p, verb |-> "rw"] : p \in writes} \cup {[path |-> p, verb |-> "rx"] : p \in reads \ writes}

(* The plan goes to the child on a pipe. *)
RunLauncher(call) ==
  /\ box.kind = "linux-native"
  /\ LET profile == Profile(call)
     IN command' = IF Admits(call, profile) /\ ~Refuses(profile) /\ binary # 0
                   THEN [Command(call, profile, "reading") EXCEPT !.rules = Rules(profile), !.launcher = binary]
                   ELSE Command(call, profile, "refused")

Goes(at) == command' = [command EXCEPT !.at = at]
Dies == Goes("dead")
Steps(at) == command.at = at /\ UNCHANGED <<disk, source, binary, manifest, building, machine, box, changes, commands>>

(* read_plan: the plan comes whole, with its end, or the launcher dies. *)
ReadPlan ==
  /\ Steps("reading")
  /\ Dies \/ command' = [command EXCEPT !.at = "closing", !.asked = {"tcp", "seccomp"}]

(* Each of these is done, or ends the launcher. *)
Applies(at, what, next) ==
  /\ Steps(at)
  /\ Dies \/ command' = [command EXCEPT !.at = next, !.applied = @ \cup {what}]

CloseInherited == Applies("closing", "descriptors", "denying")

(* The denial of the network needs the ABI that has it. *)
DenyTcp ==
  /\ Steps("denying")
  /\ IF "tcp" \notin command.asked THEN Goes("adding")
     ELSE IF machine < NetworkAbi THEN Dies
     ELSE command' = [command EXCEPT !.at = "adding", !.applied = @ \cup {"tcp"}]

(* One rule of the plan is opened and added: a path that is gone by now ends it. *)
AddRule ==
  /\ Steps("adding")
  /\ \/ Dies
     \/ \E r \in command.rules \ command.added :
          IF There(r.path) THEN command' = [command EXCEPT !.added = @ \cup {r}] ELSE Dies
     \/ command.rules = command.added /\ Goes("privileges")

NoNewPrivileges == Applies("privileges", "no_new_privs", "filtering")
ApplySeccomp ==
  \/ "seccomp" \in command.asked /\ Applies("filtering", "seccomp", "restricting")
  \/ "seccomp" \notin command.asked /\ Steps("filtering") /\ Goes("restricting")
RestrictSelf == Applies("restricting", "landlock", "running")

-----------------------------------------------------------------------------
(* A tool call is executed: a file tool asks the broker, which looks at the      *)
(* granted roots alone, a command goes to the session's backend.               *)
Run ==
  /\ box.at = "up" /\ command.at = "none" /\ commands < MaxCommands
  /\ commands' = commands + 1
  /\ \E call \in Calls :
       \/ ~call.exec /\ command' = Command(call, Profile(call), "running")
       \/ call.exec /\ RunContainer(call)
       \/ call.exec /\ RunLauncher(call)
       \/ /\ call.exec /\ box.kind \in {"local", "ssh"}
          /\ LET profile == Profile(call)
             IN command' = Command(call, profile, IF Admits(call, profile) THEN "running" ELSE "refused")
  /\ UNCHANGED <<disk, source, binary, manifest, building, machine, box, changes>>

CommandOver ==
  /\ command.at \in {"running", "refused", "dead"}
  /\ command' = NoCommand
  /\ UNCHANGED <<disk, source, binary, manifest, building, machine, box, changes, commands>>

(* Others: a file comes or goes, the source of the launcher is updated. *)
DiskChanges ==
  /\ changes < MaxChanges
  /\ changes' = changes + 1
  /\ \/ /\ \E p \in {q \in Places : Len(q) > 1} \ {Git}, kind \in {"file", "dir", "absent"} :
            /\ kind # "absent" => disk[Front(p)] = "dir"
            /\ kind # "dir" => \A q \in Places : IsStrictPrefix(p, q) => ~There(q)
            /\ disk' = [disk EXCEPT ![p] = kind]
        /\ UNCHANGED source
     \/ source < MaxRevisions /\ source' = source + 1 /\ UNCHANGED disk
  /\ UNCHANGED <<binary, manifest, building, machine, box, command, commands>>

SandboxNext ==
  \/ BuildSandbox \/ Compiled \/ ManifestWritten
  \/ StartSession \/ Run \/ CommandOver \/ DiskChanges
  \/ ReadPlan \/ CloseInherited \/ DenyTcp \/ AddRule \/ NoNewPrivileges \/ ApplySeccomp \/ RestrictSelf

-----------------------------------------------------------------------------
Runs == command.at = "running" /\ command.call.exec

(* What the session is called is what its commands get: "os-isolated" only when   *)
(* the launcher has done every step before it runs the command - plan read whole,  *)
(* descriptors closed, TCP denied, every rule added, privileges given up, filter    *)
(* and rules in force - and with a launcher made from the source that ships, unless *)
(* that source changed under the compiler. "container-enforced" only in a container. *)
WorkloadConfined ==
  /\ Runs /\ box.kind = "linux-native" =>
       /\ command.added = command.rules
       /\ command.applied = {"descriptors", "tcp", "no_new_privs", "seccomp", "landlock"}
  /\ box.label = "os-isolated" => box.kind = "linux-native" /\ machine >= NetworkAbi
  /\ box.label = "container-enforced" => box.kind = "container"
  /\ box.at = "up" /\ box.kind = "linux-native" =>
       \/ box.launcher = box.source
       \/ box.manifest.source # box.manifest.binary

(* Where the workload, or the file tool, may write. *)
MayWrite(p) ==
  \/ ~command.call.exec /\ \E root \in command.roots.writes : Within(root, p)
  \/ Runs /\ box.kind = "container" /\ Sight(command.plan, p) = "writable"
  \/ Runs /\ box.kind = "linux-native" /\ \E r \in command.added : r.verb = "rw" /\ Within(r.path, p)

(* Where a path led when the command was planned. *)
Planned(p) == IF p \in DOMAIN LinkTo \cap command.there THEN LinkTo[p] ELSE p

Granted(p) ==
  \/ \E d \in command.call.decisions :
       /\ d.kind \in {"write", "delete"}
       /\ \E q \in {d.path} \cup (IF d.kind = "write" THEN {Front(d.path)} ELSE {}) :
            Within(q, p) \/ Within(Planned(q), p)
  \/ \E root \in {AgentTmp, SandboxHome} \cup {Planned(g) : g \in box.generated \cup {AgentTmp}} : Within(root, p)

(* The decisions and what is made of them agree. Nothing may be written but what  *)
(* was granted, the directory of a granted write, scratch space and what is       *)
(* generated - and nothing in .git by a command in a container. What could not be *)
(* represented is told. What the scan found protected is not there for a command,  *)
(* or the command does not run: but for a protected name that leads to the       *)
(* workspace itself, which is no file of it and which the planner passes over.   *)
PlanFaithful ==
  command.at = "running" =>
    /\ \A p \in Places : MayWrite(p) => Granted(p)
    /\ Runs /\ box.kind = "container" =>
         /\ \A p \in Places : Within(Git, p) => ~MayWrite(p)
         /\ \A p \in command.roots.writes :
              Planned(p) \in command.there => MayWrite(Planned(p)) \/ Planned(p) \in command.plan.unrepresented
         /\ ~box.truncated => \A p \in box.known :
              Planned(p) \in command.there \ {Workspace} =>
                Sight(command.plan, Planned(p)) \in {"hidden", "absent"}
    /\ Runs /\ box.kind = "linux-native" =>
         \A p \in box.known : ~\E r \in command.added : Within(r.path, p)

\* A command runs in the sandbox that was chosen for it, and the sandbox is what
\* the profile says: the one without the other confines nothing.
CommandConfined == WorkloadConfined /\ PlanFaithful
=============================================================================
