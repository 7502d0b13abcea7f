------------------------------ MODULE Execution ------------------------------
(* Running a command: in a container of its own behind, when the grant names *)
(* hosts, an egress proxy on a private network (execution/container.ts,      *)
(* egress-sidecar.ts, docker-cli.ts); as a child of the kernel's, plainly    *)
(* (local.ts) or confined by a launcher (linux-native/backend.ts); or on a    *)
(* remote machine through an ssh client (ssh.ts).                            *)
(*                                                                           *)
(* The docker daemon is external: it does what it is asked or, at most       *)
(* MaxDockerFailures times, refuses to remove something. Another kernel on   *)
(* the same machine sets up a topology of its own while this one starts.     *)
EXTENDS TurnSignal, Integers, FiniteSets

CONSTANTS MaxExecs,             \* bound: commands of the session
          MaxDockerFailures,    \* bound: removals the daemon refuses
          StaleAfter,           \* STALE_AFTER_MS, in minutes
          TimeLimits,           \* what timeoutMs of Shell may be, in minutes
          Setup, Teardown,      \* the longest each takes, in minutes
          MaxTime               \* bound: minutes before this kernel collects

ASSUME ExecutionAssumption ==
  /\ {MaxExecs, MaxDockerFailures, StaleAfter, Setup, Teardown, MaxTime} \subseteq Nat
  /\ TimeLimits \subseteq Nat /\ TimeLimits # {}

VARIABLES
  backend,          \* the backend the session was started with
  exec,             \* where the command's exec() stands
  execs,            \* commands begun: the current one is command `execs`
  run,              \* the current command's run, see NoRun
  reaping,          \* removals onTerminate started and nobody awaits
  started,          \* ContainerProcess.started
  containers,       \* workload containers the daemon runs
  proxies,          \* proxy containers, by command
  networks,         \* private networks, by command
  refused,          \* bound: removals the daemon refused
  background,       \* what the command left running, see Left
  now,              \* minutes since the other kernel's set-up began
  other,            \* the other kernel's execution and its topology
  collector         \* collectOrphanedEgressResources of this kernel

runVars == <<backend, exec, execs, run, reaping, started, containers, proxies, networks,
             refused, background>>
otherVars == <<now, other, collector>>
execVars == <<runVars, otherVars>>

Setting == {"network", "proxy", "connect", "ready"}
Phases == {"none", "snapshot", "child", "spawn", "run", "reap", "failProxy", "failNetwork",
           "stopProxy", "stopNetwork"} \cup Setting
Resource == {"absent", "up", "collected"}
Backends == {"local", "linux-native", "ssh", "container"}

(* Nothing; a process in the child's group; one that is not: it left the      *)
(* group, or it is the command itself, on a machine whose client is gone.    *)
Left == {"nothing", "group", "away"}

ExecTypeOK ==
  /\ backend \in Backends
  /\ exec \in Phases
  /\ execs \in 0..MaxExecs
  /\ run \in [scoped : BOOLEAN, client : {"none", "up", "gone"}, hears : BOOLEAN,
              expired : BOOLEAN, broken : BOOLEAN]
  /\ background \in Left
  /\ {reaping, started, containers, proxies, networks} \subseteq SUBSET (1..MaxExecs)
  /\ refused \in 0..MaxDockerFailures
  /\ now \in 0..MaxTime
  /\ other \in [phase : {"setup", "running", "teardown", "gone", "crashed"},
                limit : TimeLimits \cup {0}, since : 0..MaxTime, proxy : Resource, network : Resource]
  /\ collector \in [at : {"off", "proxies", "networks", "done"}, now : 0..MaxTime]

(* A run: the grant names hosts (mode.kind = 'allowlist'); the docker client   *)
(* or the child; it was listening when the signal could abort; its      *)
(* timer fired; it ended in an error of docker's.                            *)
NoRun == [scoped |-> FALSE, client |-> "none", hears |-> FALSE, expired |-> FALSE, broken |-> FALSE]

ExecInit ==
  /\ backend \in Backends
  /\ exec = "none" /\ execs = 0 /\ run = NoRun
  /\ reaping = {} /\ background = "nothing"
  /\ started = {} /\ containers = {} /\ proxies = {} /\ networks = {}
  /\ refused = 0
  /\ now = 0
  /\ \E limit \in TimeLimits :
       other = [phase |-> "setup", limit |-> limit, since |-> 0, proxy |-> "absent", network |-> "absent"]
  /\ collector = [at |-> "off", now |-> 0]

-----------------------------------------------------------------------------
(* docker rm -f and docker network rm: the resource is gone, or the daemon   *)
(* refuses. A network that something is attached to need not be removed.     *)

Refuse == refused < MaxDockerFailures /\ refused' = refused + 1

Remove(set, set_, e) ==
  \/ set_ = set \ {e} /\ UNCHANGED refused
  \/ e \in set /\ set_ = set /\ Refuse

RemoveNetwork(e) ==
  \/ Remove(networks, networks', e)
  \/ e \in containers \cup proxies /\ UNCHANGED <<networks, refused>>

(* exec() goes on to its next step; when it returns its run is over. *)
GoesTo(step, r) ==
  /\ exec' = step
  /\ run' = IF step = "none" THEN NoRun ELSE r

Ending == IF run.scoped THEN "stopProxy" ELSE "none"

-----------------------------------------------------------------------------
(* Shell.execute looks at the signal, then awaits a snapshot of the tree.    *)
Exec ==
  /\ exec = "none"
  /\ execs < MaxExecs
  /\ ~aborted
  /\ execs' = execs + 1
  /\ \E scoped \in BOOLEAN :
       /\ backend # "container" => ~scoped
       /\ GoesTo("snapshot", [NoRun EXCEPT !.scoped = scoped])
  /\ UNCHANGED <<backend, reaping, started, containers, proxies, networks, refused, background>>

(* The executor refuses (no grant to run, a cwd outside), or begins: with    *)
(* the private network when hosts are named. None of it looks at the signal. *)
Prepare ==
  /\ exec = "snapshot"
  /\ \/ GoesTo("none", NoRun)
     \/ backend # "container" /\ GoesTo("child", [run EXCEPT !.client = "up", !.hears = ~aborted])
     \/ backend = "container" /\ GoesTo(IF run.scoped THEN "network" ELSE "spawn", run)
  /\ UNCHANGED <<backend, execs, reaping, started, containers, proxies, networks, refused, background>>

(* EgressSidecar.start: the network, the proxy, its private leg, its         *)
(* readiness. A step that fails, whatever it made first, and a client that    *)
(* gave up on a daemon that went on, tear down what there may be.            *)
SetUp ==
  /\ exec \in Setting
  /\ \/ /\ exec' = CASE exec = "network" -> "proxy"
                     [] exec = "proxy"   -> "connect"
                     [] exec = "connect" -> "ready"
                     [] exec = "ready"   -> "spawn"
        /\ networks' = IF exec = "network" THEN networks \cup {execs} ELSE networks
        /\ proxies' = IF exec = "proxy" THEN proxies \cup {execs} ELSE proxies
     \/ /\ exec' = "failProxy"
        /\ networks' \in {networks, IF exec = "network" THEN networks \cup {execs} ELSE networks}
        /\ proxies' \in {proxies, IF exec = "proxy" THEN proxies \cup {execs} ELSE proxies}
  /\ UNCHANGED <<backend, execs, run, reaping, started, containers, refused, background>>

(* Both teardowns remove the proxy before the network it is attached to. *)
TearDown ==
  /\ \/ /\ exec \in {"failProxy", "stopProxy"}
        /\ GoesTo(IF exec = "failProxy" THEN "failNetwork" ELSE "stopNetwork", run)
        /\ Remove(proxies, proxies', execs)
        /\ UNCHANGED networks
     \/ /\ exec \in {"failNetwork", "stopNetwork"}
        /\ GoesTo("none", NoRun)
        /\ RemoveNetwork(execs)
        /\ UNCHANGED proxies
  /\ UNCHANGED <<backend, execs, reaping, started, containers, background>>

(* ContainerProcess.run: the plan is refused, or its name is recorded and    *)
(* the client spawned. A signal that has already aborted is never heard.     *)
Spawn ==
  /\ exec = "spawn"
  /\ \/ /\ GoesTo("run", [run EXCEPT !.client = "up", !.hears = ~aborted])
        /\ started' = started \cup {execs}
     \/ GoesTo(Ending, run) /\ UNCHANGED started
  /\ UNCHANGED <<backend, execs, reaping, containers, proxies, networks, refused, background>>

(* The daemon starts the container for the client, or refuses it. *)
ContainerStarts ==
  /\ exec = "run" /\ run.client = "up" /\ execs \notin containers
  /\ \/ containers' = containers \cup {execs} /\ UNCHANGED run
     \/ run' = [run EXCEPT !.client = "gone", !.broken = TRUE] /\ UNCHANGED containers
  /\ UNCHANGED <<backend, exec, execs, reaping, started, proxies, networks, refused, background>>

(* The command ends by itself: --rm removes its container, the client exits. *)
CommandEnds ==
  /\ exec = "run" /\ run.client = "up" /\ execs \in containers
  /\ containers' = containers \ {execs}
  /\ run' = [run EXCEPT !.client = "gone"]
  /\ UNCHANGED <<backend, exec, execs, reaping, started, proxies, networks, refused, background>>

(* The run's timer: the container is to be removed, then the client killed.   *)
(* The launcher's is armed until its pipes close.                            *)
Expire ==
  /\ exec \in {"run", "child"} /\ ~run.expired
  /\ run.client = "up" \/ (exec = "child" /\ backend = "linux-native")
  /\ run' = [run EXCEPT !.expired = TRUE]
  /\ reaping' = IF exec = "run" THEN reaping \cup {execs} ELSE reaping
  /\ UNCHANGED <<backend, exec, execs, started, containers, proxies, networks, refused, background>>

(* onAbort of the run, when it listens: the same teardown. *)
OnExecAbort ==
  /\ reaping' = IF exec = "run" /\ run.client = "up" /\ run.hears
                THEN reaping \cup {execs} ELSE reaping
  /\ UNCHANGED <<backend, exec, execs, run, started, containers, proxies, networks, refused,
                 background, otherVars>>

Terminated == run.expired \/ (run.hears /\ aborted)

(* onTerminate's `docker rm -f`, which nobody waits for. *)
Reaped ==
  \E e \in reaping :
    /\ reaping' = reaping \ {e}
    /\ Remove(containers, containers', e)
    /\ run' = IF exec = "run" /\ execs \in containers \ containers'
              THEN [run EXCEPT !.client = "gone"] ELSE run
    /\ UNCHANGED <<backend, exec, execs, started, proxies, networks, background>>

(* SIGKILL, some seconds after SIGTERM, ends the client and not the container. *)
ClientKilled ==
  /\ exec = "run" /\ run.client = "up"
  /\ Terminated
  /\ run' = [run EXCEPT !.client = "gone"]
  /\ UNCHANGED <<backend, exec, execs, reaping, started, containers, proxies, networks, refused,
                 background>>

\* Mutant of Reap: --rm is trusted to have removed it.
ReapTrusting ==
  /\ exec = "run" /\ run.client = "gone"
  /\ GoesTo(Ending, run)
  /\ started' = IF run.broken THEN started ELSE started \ {execs}
  /\ UNCHANGED <<backend, execs, reaping, containers, proxies, networks, refused, background>>

(* The awaited removal after the client is gone. Whatever it achieves, the   *)
(* name is forgotten unless the run ended in an error of docker's.           *)
Reap ==
  /\ exec = "run" /\ run.client = "gone"
  /\ GoesTo(Ending, run)
  /\ Remove(containers, containers', execs)
  /\ started' = IF run.broken THEN started ELSE started \ {execs}
  /\ UNCHANGED <<backend, execs, reaping, proxies, networks, background>>

-----------------------------------------------------------------------------
(* A child of the kernel's. A local command may leave a process behind that   *)
(* holds its pipes; under the launcher one may also leave its group.         *)
ChildForks ==
  /\ exec = "child" /\ run.client = "up" /\ background = "nothing"
  /\ \/ backend = "local" /\ background' = "away"
     \/ backend = "linux-native" /\ background' \in {"group", "away"}
  /\ UNCHANGED <<backend, exec, execs, run, reaping, started, containers, proxies, networks, refused>>

(* It ends by itself or by SIGTERM and SIGKILL. The end of an ssh client need *)
(* not be the end of the remote command.                                     *)
ChildExits ==
  /\ exec = "child" /\ run.client = "up"
  /\ run' = [run EXCEPT !.client = "gone"]
  /\ \/ UNCHANGED background
     \/ backend = "ssh" /\ background' = "away"
  /\ UNCHANGED <<backend, exec, execs, reaping, started, containers, proxies, networks, refused>>

(* killTree signals the launcher's whole process group. *)
GroupKilled ==
  /\ exec = "child" /\ backend = "linux-native" /\ background = "group"
  /\ Terminated
  /\ background' = "nothing"
  /\ UNCHANGED <<backend, exec, execs, run, reaping, started, containers, proxies, networks, refused>>

BackgroundEnds ==
  /\ background # "nothing"
  /\ background' = "nothing"
  /\ UNCHANGED <<backend, exec, execs, run, reaping, started, containers, proxies, networks, refused>>

(* exec() returns when nobody holds the child's pipes; over ssh soon after    *)
(* the client's exit, whoever holds them.                                    *)
ChildSettles ==
  /\ exec = "child" /\ run.client = "gone"
  /\ backend # "ssh" => background = "nothing"
  /\ GoesTo("none", NoRun)
  /\ UNCHANGED <<backend, execs, reaping, started, containers, proxies, networks, refused, background>>

(* What the limits of a command do not reach: whatever a local one left, and  *)
(* what left the launcher's group.                                           *)
Detached == background = "away" /\ backend \in {"local", "linux-native"}

-----------------------------------------------------------------------------
(* ExecutionBackend.close: the container's removes what is still recorded,    *)
(* the others keep nothing.                                                  *)
CloseBackend ==
  /\ exec = "none"
  /\ IF started = {} THEN UNCHANGED <<started, containers, refused>>
     ELSE \E e \in started : /\ started' = started \ {e}
                             /\ Remove(containers, containers', e)
  /\ UNCHANGED <<backend, exec, execs, run, reaping, proxies, networks, background>>

-----------------------------------------------------------------------------
(* The other kernel: its topology carries the minute its set-up began. Its   *)
(* timers bound each phase, the command's own limit the second one, so time   *)
(* does not pass a phase's limit.                                            *)

Limit == CASE other.phase = "setup"    -> Setup
           [] other.phase = "running"  -> other.limit
           [] other.phase = "teardown" -> Teardown
           [] OTHER                    -> MaxTime
Alive == other.phase \in {"setup", "running", "teardown"}

Tick ==
  /\ now < MaxTime
  /\ Alive => now - other.since < Limit
  /\ now' = now + 1
  /\ UNCHANGED <<other, collector>>

OtherSetsUp ==
  /\ other.phase = "setup"
  /\ other' = [other EXCEPT
                 !.network = IF @ = "absent" THEN "up" ELSE @,
                 !.proxy = IF other.network # "absent" /\ @ = "absent" THEN "up" ELSE @,
                 !.phase = IF other.proxy # "absent" THEN "running" ELSE @,
                 !.since = IF other.proxy # "absent" THEN now ELSE @]
  /\ UNCHANGED <<now, collector>>

OtherEnds ==
  /\ \/ /\ other.phase = "running"
        /\ other' = [other EXCEPT !.phase = "teardown", !.since = now]
     \/ /\ other.phase = "teardown"
        /\ other' = [other EXCEPT !.phase = "gone", !.proxy = "absent", !.network = "absent"]
     \/ /\ Alive
        /\ other' = [other EXCEPT !.phase = "crashed"]
  /\ UNCHANGED <<now, collector>>

\* Mutant of Stale: whatever carries the label is an orphan.
StaleLabelled == collector.at # "off"

(* collectOrphanedEgressResources: the time is taken once, the proxies are    *)
(* listed and the stale ones removed, then the networks.                     *)
Stale == collector.now > StaleAfter     \* the label of the other's resources is minute 0
Collect(r) == IF r = "up" /\ Stale THEN "collected" ELSE r

BeginCollect ==
  /\ backend = "container"
  /\ collector.at = "off"
  /\ collector' = [at |-> "proxies", now |-> now]
  /\ UNCHANGED <<now, other>>

CollectProxies ==
  /\ collector.at = "proxies"
  /\ collector' = [collector EXCEPT !.at = "networks"]
  /\ other' = [other EXCEPT !.proxy = Collect(@)]
  /\ UNCHANGED now

CollectNetworks ==
  /\ collector.at = "networks"
  /\ collector' = [collector EXCEPT !.at = "done"]
  /\ other' = [other EXCEPT !.network = IF other.proxy = "up" THEN @ ELSE Collect(@)]
  /\ UNCHANGED now

CollectStep == Tick \/ OtherSetsUp \/ OtherEnds \/ BeginCollect \/ CollectProxies \/ CollectNetworks

RunStep ==
  \/ Prepare \/ SetUp \/ TearDown \/ Spawn \/ ContainerStarts \/ CommandEnds
  \/ Expire \/ Reaped \/ ClientKilled \/ Reap \/ ChildForks \/ ChildExits
  \/ GroupKilled \/ BackgroundEnds \/ ChildSettles

-----------------------------------------------------------------------------
(* What the collector took of a topology that is still set up, used or taken   *)
(* down (egress-sidecar.ts: a first version "deleted the first session's      *)
(* live network out from under it").                                         *)
TopologyKept == other.proxy # "collected" /\ other.network # "collected"

(* A kernel that starts while another one runs a command leaves its topology  *)
(* alone, whenever the sweep's one reading of the clock and its two removals   *)
(* fall, if the command's time limit leaves room for set-up and teardown      *)
(* within the age that counts as stale.                                      *)
BriefTopologyKept == Alive /\ Setup + other.limit + Teardown <= StaleAfter => TopologyKept

(* Violated: an execution's "ceiling is well under this, so anything older    *)
(* than fifteen minutes belongs to a kernel that is no longer running"        *)
(* (egress-sidecar.ts:71).                                                   *)
LiveTopologyKept == Alive => TopologyKept
=============================================================================
