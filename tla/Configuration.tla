--------------------------- MODULE Configuration ---------------------------
(***************************************************************************)
(* How a session gets its configuration (config/, kernel.ts) and how a      *)
(* credential gets to where the kernel accepts it (setup-credential).       *)
(*                                                                         *)
(* createKernel reads the user's config.toml, then the project's - which    *)
(* comes with the checkout - then the flags.  A layer is a partial function *)
(* of keys; how two layers combine depends on the key, and some keys of the *)
(* project's are dropped before they are combined.  Then permissions.toml   *)
(* is read, a model is chosen, every provider's credential is resolved, and *)
(* the session starts or is refused.  Meanwhile the project's file can      *)
(* change between the read that finds it and the read that uses it, a key   *)
(* file can change its mode, and `mycoder setup-credential` may be writing  *)
(* one.                                                                     *)
(***************************************************************************)
EXTENDS Naturals, SequencesExt

CONSTANTS
  UserFiles, ProjectFiles,  \* what the two config.toml can hold: layers
  LegacyFiles,              \* the same for the project directory of an older name
  Flags,                    \* the layers cliOverrides makes of a command line
  RuleFiles,                \* what permissions.toml can hold: sets of raw rules
  RemoteFiles,              \* what remotes.toml can hold: sets of raw remotes
  Default,                  \* defaultConfig
  SystemCeiling,            \* SYSTEM_CEILING.maxSteps, standing for the five limits
  Profiles,                 \* the names buildProfile knows
  EgressDefault,            \* defaultEgressPolicy: the hosts of each kind
  AnyHost,                  \* "*"
  Environment,              \* the variables that are set
  PlaceOf,                  \* where each key file lies: "config", "workspace" or "reference"
  KeyFiles,                 \* what can be at each of them when it all begins
  Absent, Malformed,        \* no such file; a file parseToml cannot read
  MaxEdits, MaxSetups       \* bounds: changes by somebody else, runs of setup-credential

VARIABLES
  files,      \* [user, primary, legacy]: what each config.toml holds
  keyfiles,   \* what is at the path of each key file
  boot,       \* where createKernel is, and what it keeps on the way
  config,     \* the configuration merged so far
  setup,      \* the run of setup-credential
  edits, setups

configVars == <<files, keyfiles, boot, config, setup, edits, setups>>

Paths == DOMAIN PlaceOf
None == "none"

(***************************************************************************)
(* Layers and how they combine (config/schema.ts).                          *)
(***************************************************************************)
\* strictBoolean: keys with a safe value that no other layer can undo.
SafeValue == [redaction |-> TRUE, content |-> FALSE, network |-> FALSE, pull |-> FALSE,
              benchmark |-> FALSE]
\* minDefined; the approval modes are numbered by increasing autonomy.
Minimised == {"maxSteps", "memory", "approvalMode"}
Unions == {"secretPaths", "generated"}
ByName == {"providers", "aliases", "servers"}

Nothing == [k \in {} |-> None]

\* What the schema accepts in a layer; a command line names few keys of it.
Layer(l) ==
  /\ \A k \in Minimised \cap DOMAIN l : l[k] \in Nat
  /\ \A k \in DOMAIN SafeValue \cap DOMAIN l : l[k] \in BOOLEAN
  /\ \A k \in (ByName \cup {"hosts"}) \cap DOMAIN l : l[k] = [x \in DOMAIN l[k] |-> l[k][x]]

ASSUME DefaultIsComplete ==
  /\ Layer(Default) /\ Default.network = FALSE /\ SystemCeiling \in Nat
  /\ {"maxSteps", "profile", "default", "redaction", "content", "network", "secretPaths",
      "generated"} \subseteq DOMAIN Default

ASSUME LayersAreTyped ==
  /\ \A l \in UserFiles : Layer(l)
  /\ \A l \in ProjectFiles : Layer(l)
  /\ \A l \in LegacyFiles : Layer(l)
  /\ \A l \in Flags : Layer(l) /\ DOMAIN l \subseteq {"default", "profile", "content"}

Get(layer, k) == IF k \in DOMAIN layer THEN layer[k] ELSE Nothing
Said(lower, higher, k) == {l[k] : l \in {m \in {lower, higher} : k \in DOMAIN m}}

\* An object spread over another.
Overlaid(upper, lower) ==
  [x \in DOMAIN upper \cup DOMAIN lower |-> IF x \in DOMAIN upper THEN upper[x] ELSE lower[x]]

IntersectHosts(lower, higher) ==
  IF lower = Nothing THEN higher
  ELSE IF higher = Nothing THEN lower
  ELSE [kind \in DOMAIN lower \cap DOMAIN higher |->
          {h \in higher[kind] : h \in lower[kind] \/ AnyHost \in lower[kind]}]

Combine(lower, higher, k) ==
  LET said == Said(lower, higher, k) IN
  CASE k \in DOMAIN SafeValue ->
         IF said = {} \/ SafeValue[k] \in said THEN SafeValue[k] ELSE ~SafeValue[k]
    [] k \in Minimised -> Min(said)
    [] k \in Unions -> UNION said
    [] k \in ByName -> Overlaid(Get(higher, k), Get(lower, k))
    [] k = "hosts" -> IntersectHosts(Get(lower, k), Get(higher, k))
    [] OTHER -> IF k \in DOMAIN higher THEN higher[k] ELSE lower[k]

\* mergeConfig: every strict key has a value afterwards, even one nobody named.
Merge(lower, higher) ==
  [k \in DOMAIN lower \cup DOMAIN higher \cup DOMAIN SafeValue |-> Combine(lower, higher, k)]

\* What loadConfig deletes from a project's layer, each with a warning.
UserOnly == {"providers", "image", "pull", "approvalMode", "servers"}
Dropped(label, layer) == IF label = "project" THEN UserOnly \cap DOMAIN layer ELSE {}

\* As if approval_mode were not among the keys a project may not set and the
\* servers of a project were merged with the user's.
ReadLayerTrusting(c, label, content) ==
  LET layer == IF content = Malformed THEN Nothing ELSE content
  IN  IF content = Absent THEN c
      ELSE Merge(c, Restrict(layer, DOMAIN layer \ (Dropped(label, layer) \ {"approvalMode", "servers"})))

\* One turn of loadConfig's loop: an absent file is no layer, one that does not
\* parse is an empty layer.
ReadLayer(c, label, content) ==
  LET layer == IF content = Malformed THEN Nothing ELSE content
  IN  IF content = Absent THEN c
      ELSE Merge(c, Restrict(layer, DOMAIN layer \ Dropped(label, layer)))

ApplySystemCeiling(c) ==
  [c EXCEPT !.maxSteps = Min({@, SystemCeiling}), !.redaction = TRUE, !.content = FALSE]

\* `use` keeps the servers it names; it is applied when all layers are known.
NarrowServers(c) ==
  IF {"use", "servers"} \subseteq DOMAIN c
  THEN [c EXCEPT !.servers = Restrict(@, DOMAIN @ \cap c.use)] ELSE c

\* A command line without flags is a layer too, an empty one.
Finish(c, flags) == NarrowServers(ApplySystemCeiling(Merge(c, flags)))

(***************************************************************************)
(* permissions.toml, remotes.toml.                                          *)
(***************************************************************************)
Anchored(rule) ==
  [rule EXCEPT !.pattern = IF rule.onFiles /\ rule.pattern = "relative" THEN "in workspace"
                           ELSE rule.pattern]

\* A rule with an unknown action or capability is left out with a warning.
ParsePermissionRules(raw) ==
  IF raw \in {Absent, Malformed} THEN {}
  ELSE {Anchored(r) : r \in {q \in raw : q.action # None /\ q.known}}

\* Fields that validateRemoteConfig refuses are set back; the remote is kept.
Sanitised(remote) ==
  IF remote.agent \/ remote.env \/ ~remote.strict \/ remote.user = "root" \/ ~remote.absolute
  THEN [remote EXCEPT !.agent = FALSE, !.env = FALSE, !.strict = TRUE,
                      !.user = IF @ = "root" THEN None ELSE @]
  ELSE remote
LoadRemotes(content) ==
  IF content \in {Absent, Malformed} THEN {}
  ELSE {Sanitised(r) : r \in {q \in content : q.host # None /\ q.workspace # None}}

(***************************************************************************)
(* Credentials: checkCredentialFile, chooseCredentialSource.                *)
(***************************************************************************)
NoFile == [kind |-> "none", shared |-> FALSE, mine |-> TRUE, key |-> None]

\* The kernel refuses what is not a plain file of this user, readable by no one
\* else, outside the workspace and the reference trees.
Accepts(p, referenceRoots) ==
  /\ keyfiles[p].kind = "file"
  /\ PlaceOf[p] # "workspace"
  /\ referenceRoots => PlaceOf[p] # "reference"
  /\ ~keyfiles[p].shared /\ keyfiles[p].mine

SourceFallingBack(provider) ==
  IF provider.file # None /\ Accepts(provider.file, TRUE) THEN "file"
  ELSE IF provider.env \in Environment THEN "env" ELSE None

\* A file beats a variable, also when the file is refused.
SourceOf(provider) ==
  IF provider.file # None THEN IF Accepts(provider.file, TRUE) THEN "file" ELSE None
  ELSE IF provider.env \in Environment THEN "env" ELSE None

(***************************************************************************)
(* The start of a session.                                                  *)
(***************************************************************************)
ConfigInit ==
  /\ files \in [user : UserFiles \cup {Absent, Malformed},
                primary : ProjectFiles \cup {Absent, Malformed},
                legacy : LegacyFiles \cup {Absent}]
  /\ keyfiles \in {f \in [Paths -> UNION Range(KeyFiles)] : \A p \in Paths : f[p] \in KeyFiles[p]}
  /\ boot = [at |-> "idle", chosen |-> FALSE, found |-> None, user |-> Absent,
             project |-> Absent, flags |-> Nothing, warned |-> {}, rules |-> {},
             remotes |-> {}, sources |-> Nothing, protected |-> {}, profile |-> None,
             egress |-> EgressDefault]
  /\ config = Default
  /\ setup = [at |-> "idle", path |-> None, opened |-> None]
  /\ edits = 0 /\ setups = 0

Booting(b) == boot' = b /\ UNCHANGED <<keyfiles, files, setup, edits, setups>>

NamesModel(label, content) ==
  content \notin {Absent, Malformed} /\ "default" \in DOMAIN content
Warnings(label, content) ==
  IF content = Absent THEN {}
  ELSE IF content = Malformed THEN {label}
  ELSE Dropped(label, content)

\* main refuses a workspace that holds the config directory; otherwise
\* createKernel reads the user's file.  The flags are known from the start.
LoadUser ==
  /\ boot.at = "idle"
  /\ \E flags \in Flags :
       /\ Booting([boot EXCEPT !.at = "find", !.user = files.user, !.flags = flags,
                               !.chosen = NamesModel("user", files.user)
                                          \/ "default" \in DOMAIN flags,
                               !.warned = Warnings("user", files.user)])
       /\ config' = ReadLayer(config, "user", files.user)

RefuseWorkspace == boot.at = "idle" /\ Booting([boot EXCEPT !.at = "refused"]) /\ UNCHANGED config

\* firstExisting: the first candidate that can be read.
FindProject ==
  /\ boot.at = "find"
  /\ Booting([boot EXCEPT !.at = "project",
                          !.found = IF files.primary = Absent /\ files.legacy # Absent
                                    THEN "legacy" ELSE "primary"])
  /\ UNCHANGED config

\* readTomlFile reads the file again: what it holds by now counts.
LoadProject ==
  LET content == files[boot.found] IN
  /\ boot.at = "project"
  /\ Booting([boot EXCEPT !.at = "flags", !.project = content,
                          !.chosen = @ \/ NamesModel("project", content),
                          !.warned = @ \cup Warnings("project", content)])
  /\ config' = ReadLayer(config, "project", content)

ApplyFlags ==
  /\ boot.at = "flags"
  /\ config' = Finish(config, boot.flags)
  /\ Booting([boot EXCEPT !.at = "rules"])

LoadRules ==
  /\ boot.at = "rules"
  /\ \E content \in RuleFiles \cup {Absent, Malformed} :
       Booting([boot EXCEPT !.at = "model", !.rules = ParsePermissionRules(content),
                            !.warned = @ \cup (IF content = Malformed THEN {"rules"} ELSE {})])
  /\ UNCHANGED config

Aliases == Get(config, "aliases")
Providers == Get(config, "providers")
UsableAliases == {a \in DOMAIN Aliases : Aliases[a] \in DOMAIN Providers}

\* assessReadiness: `fake` only when somebody chose it; the one usable alias when
\* nobody chose anything; else an alias and its provider must both be there.
AssessReadiness ==
  LET inferred == config.default = "fake" /\ ~boot.chosen /\ Cardinality(UsableAliases) = 1
      ready == \/ inferred
               \/ config.default = "fake" /\ boot.chosen
               \/ config.default # "fake" /\ config.default \in UsableAliases
  IN  /\ boot.at = "model"
      /\ \E remotes \in RemoteFiles \cup {Absent, Malformed} :
           Booting([boot EXCEPT !.at = IF ready THEN "credentials" ELSE "refused",
                                !.remotes = IF ready THEN LoadRemotes(remotes) ELSE @])
      /\ config' = IF inferred THEN [config EXCEPT !.default = CHOOSE a \in UsableAliases : TRUE]
                   ELSE config

\* resolveProviderCredentials, one provider; its path is protected either way.
ResolveCredential(p) ==
  /\ boot.at = "credentials" /\ p \in DOMAIN Providers \ DOMAIN boot.sources
  /\ Booting([boot EXCEPT !.sources = Overlaid([q \in {p} |-> SourceOf(Providers[p])], @),
                          !.protected = @ \cup ({Providers[p].file} \ {None})])
  /\ UNCHANGED config

Active == IF config.default \in DOMAIN Aliases THEN Aliases[config.default] ELSE None

EgressOf(c) ==
  LET hosts == Get(c, "hosts")
      endpoints == {Get(c, "providers")[p].host : p \in DOMAIN Get(c, "providers")}
  IN  [kind \in DOMAIN EgressDefault |->
         EgressDefault[kind] \cup (IF kind = "model" THEN endpoints ELSE {})
                             \cup (IF kind \in DOMAIN hosts THEN hosts[kind] ELSE {})]

\* The session starts only with a credential for the provider it will use.
StartKernel ==
  LET usable == Active = None \/ (Active \in DOMAIN boot.sources /\ boot.sources[Active] # None)
      known == config.profile \in Profiles
      profile == IF known THEN config.profile ELSE Default.profile
  IN  /\ boot.at = "credentials" /\ DOMAIN Providers \subseteq DOMAIN boot.sources
      /\ Booting([boot EXCEPT !.at = IF usable THEN "started" ELSE "refused",
                              !.profile = IF usable THEN profile ELSE None,
                              !.egress = IF usable THEN EgressOf(config) ELSE @])
      /\ config' = [config EXCEPT !.profile = IF usable THEN profile ELSE @]

(***************************************************************************)
(* mycoder setup-credential.                                                *)
(***************************************************************************)
Writing(s, ks) == setup' = s /\ keyfiles' = ks /\ UNCHANGED <<files, boot, config, edits>>
EndSetup(how) == Writing([setup EXCEPT !.at = how, !.opened = None], keyfiles)

\* open(): exclusive without --force.  With --force it truncates what is there and
\* follows a link.  A place in the workspace is refused before anything is written.
OpenKey(p, force) ==
  LET there == keyfiles[p]
      opened == IF there.kind = "link" THEN there.key ELSE p
      old == keyfiles[opened]
      fresh == [NoFile EXCEPT !.kind = "file"]
  IN  /\ setup.at = "idle" /\ setups < MaxSetups /\ setups' = setups + 1
      /\ IF \/ PlaceOf[p] = "workspace"
            \/ there.kind # "none" /\ ~force
            \/ there.kind = "directory" \/ old.kind \in {"directory", "link"}
         THEN Writing([setup EXCEPT !.at = "failed", !.path = p], keyfiles)
         ELSE Writing([at |-> "opened", path |-> p, opened |-> opened],
                      [keyfiles EXCEPT ![opened] = IF old.kind = "file"
                                                   THEN [old EXCEPT !.key = None] ELSE fresh])

WriteKey ==
  /\ setup.at = "opened"
  /\ Writing([setup EXCEPT !.at = "written"], [keyfiles EXCEPT ![setup.opened].key = "new"])
  /\ UNCHANGED setups

\* chmod, on the open file: only its owner may.
ChmodKey ==
  /\ setup.at = "written"
  /\ IF keyfiles[setup.opened].mine
     THEN Writing([setup EXCEPT !.at = "checking"], [keyfiles EXCEPT ![setup.opened].shared = FALSE])
     ELSE EndSetup("failed")
  /\ UNCHANGED setups

\* The kernel's own check, of the path; what it refuses is removed again.
CheckKey ==
  /\ setup.at = "checking"
  /\ IF Accepts(setup.path, FALSE) THEN EndSetup("accepted")
     ELSE Writing([setup EXCEPT !.at = "refused", !.opened = None],
                  [keyfiles EXCEPT ![setup.path] = IF @.kind = "directory" THEN @ ELSE NoFile])
  /\ UNCHANGED setups

\* Somebody else: the checkout's file is replaced, a key file is shared, a link
\* takes its place, or it goes away.
Edit == edits < MaxEdits /\ edits' = edits + 1 /\ UNCHANGED <<boot, config, setup, setups>>
ProjectChanges ==
  /\ Edit /\ boot.at \in {"find", "project"}
  /\ \E content \in ProjectFiles \cup {Absent} : files' = [files EXCEPT !.primary = content]
  /\ UNCHANGED keyfiles
KeyfileChanges(p) ==
  /\ Edit
  /\ \E f \in {NoFile, [keyfiles[p] EXCEPT !.shared = keyfiles[p].kind = "file"],
               [NoFile EXCEPT !.kind = "link", !.key = CHOOSE q \in Paths : q # p]} :
       keyfiles' = [keyfiles EXCEPT ![p] = f]
  /\ UNCHANGED files

ConfigNext ==
  \/ LoadUser \/ RefuseWorkspace \/ FindProject \/ LoadProject \/ ApplyFlags \/ LoadRules
  \/ AssessReadiness \/ StartKernel
  \/ \E p \in DOMAIN Providers : ResolveCredential(p)
  \/ \E p \in Paths, force \in BOOLEAN : OpenKey(p, force)
  \/ WriteKey \/ ChmodKey \/ CheckKey
  \/ ProjectChanges
  \/ \E p \in Paths : KeyfileChanges(p)

(***************************************************************************)
(* Properties.                                                              *)
(***************************************************************************)
Started == boot.at = "started"

\* What the user's own file and flags alone would have given.
Own == Finish(ReadLayer(Default, "user", boot.user), boot.flags)
UserServers == Get(ReadLayer(Default, "user", boot.user), "servers")

\* A project narrows what it is said to narrow: whatever the checkout's file says,
\* and however it changed while it was read, a session that starts has the user's
\* providers, image, pull and approval mode, no server the user did not declare,
\* limits no larger, secrets kept no less, and - if the user named hosts at all - no
\* host the user did not name, unless the user named all.
ProjectNarrows ==
  Started =>
    /\ \A k \in UserOnly \ {"servers"} :
         /\ k \in DOMAIN config <=> k \in DOMAIN Own
         /\ k \in DOMAIN Own => config[k] = Own[k]
    /\ \A s \in DOMAIN Get(config, "servers") :
         s \in DOMAIN UserServers /\ config.servers[s] = UserServers[s]
    /\ \A k \in {"maxSteps", "memory"} \cap DOMAIN Own : config[k] <= Own[k]
    /\ config.redaction /\ ~config.content /\ ~config.network
    /\ Own.secretPaths \subseteq config.secretPaths
    /\ Get(Own, "hosts") # Nothing =>
         \A kind \in DOMAIN EgressDefault :
           AnyHost \in EgressOf(Own)[kind] \/ boot.egress[kind] \subseteq EgressOf(Own)[kind]

\* A session that starts uses a credential that passed the check of where it lies and
\* who can read it, never a variable in place of a key file that was refused, and the
\* key file of every provider is protected, the refused ones too - also when
\* setup-credential or somebody else changes the file while the session starts.
CredentialGuarded ==
  /\ Started /\ Active # None =>
       boot.sources[Active] = (IF Providers[Active].file # None THEN "file" ELSE "env")
  /\ Started => {Providers[p].file : p \in DOMAIN Providers} \ {None} \subseteq boot.protected

\* What schema.ts says of intersectHosts: a project cannot add a host the user did not.
ProjectAddsNoHost ==
  Started => \A kind \in DOMAIN EgressDefault : boot.egress[kind] \subseteq EgressOf(Own)[kind]
=============================================================================
