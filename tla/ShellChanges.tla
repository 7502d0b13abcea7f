---------------------------- MODULE ShellChanges ----------------------------
(* What a shell command changed without an Edit (execution/mutation-detector.ts, *)
(* util/walk.ts), and who is told (tools/builtin/shell.ts, kernel.ts,             *)
(* edit/uncovered.ts): a look at the workspace before the command and one after,  *)
(* by git or by a walk, and the difference of the two.                         *)
(*                                                                           *)
(* A file is its text and a stamp, its time and size; no text is no file. A write   *)
(* renews the stamp, or leaves it: size and time may be what they were. Git is       *)
(* external: it has an indexed and a committed text of each file, and `git status`   *)
(* gives a code for those that differ. Renames are left out.                       *)
EXTENDS Naturals, Sequences, SequencesExt, FiniteSets

CONSTANTS Sheets,          \* the files of the workspace
          Folders,         \* its folders in the order a walk takes, each a sequence of Sheets
          Texts, Blanked,  \* what a file may hold; Blanked is no file
          Ignored,         \* what .gitignore names
          Skipped,         \* what lies in a directory of DEFAULT_IGNORES
          ClassOf,         \* classify, of each file
          MaxScanFiles,    \* MAX_SCAN_FILES
          MaxWrites, MaxShells  \* bounds

ASSUME SheetsAssumption ==
  /\ Ignored \cup Skipped \subseteq Sheets /\ Blanked \notin Texts
  /\ Folders \in Seq(Seq(Sheets))
  /\ \A i, j \in DOMAIN Folders : i # j => ToSet(Folders[i]) \cap ToSet(Folders[j]) = {}
  /\ {MaxScanFiles, MaxWrites, MaxShells} \subseteq Nat

VARIABLES shell,      \* "idle", then the await of execute: "git", "walk", "command", "git2", "walk2", "reported"
          sheets,     \* the files
          indexed, committed, \* git's
          byGit,      \* whether the workspace is a repository
          aborted,    \* the call's signal
          look,       \* the walk under way: entries, the next folder, files so far, cut short
          before,     \* the snapshot before the command: strategy and entries
          altered,    \* what the last command is said to have changed
          fact,       \* the fact undeclared-mutation
          uncovered,  \* UncoveredTracker: commands and files
          was, is,    \* ghosts: what the two looks looked at,
          means,      \* and how the second did
          writes, shells \* bounds

looking == <<look, before, was, is, means>>
reports == <<altered, fact, uncovered>>
repository == <<sheets, indexed, committed, writes>>
shellVars == <<shell, byGit, aborted, shells, looking, reports, repository>>

\* What is told of some files, and of more of them.
With(old, new) == [f \in DOMAIN old \cup DOMAIN new |-> IF f \in DOMAIN old THEN old[f] ELSE new[f]]

NoLook == [entries |-> <<>>, folder |-> 1, files |-> 0, cut |-> FALSE]

-----------------------------------------------------------------------------
(* git status --porcelain=v1 --untracked-files=all.                            *)
CodeOf(f, seen) ==
  IF seen.indexed = Blanked
  THEN IF seen.text # Blanked /\ f \notin Ignored THEN <<"?", "?">>
       ELSE IF seen.committed # Blanked THEN <<"D", " ">> ELSE <<" ", " ">>
  ELSE <<IF seen.committed = Blanked THEN "A" ELSE IF seen.indexed = seen.committed THEN " " ELSE "M",
         IF seen.text = Blanked THEN "D" ELSE IF seen.text = seen.indexed THEN " " ELSE "M">>

\* What a look at a file could see of it.
Seen(f) == [text |-> sheets[f].text, stamp |-> sheets[f].stamp, indexed |-> indexed[f], committed |-> committed[f]]

Status == LET Code(f) == CodeOf(f, Seen(f))
          IN  [f \in {g \in Sheets : Code(g) # <<" ", " ">>} |-> Code(f)]

-----------------------------------------------------------------------------
(* The difference of two snapshots.                                            *)
Change(kind, S) == {[path |-> f, kind |-> kind] : f \in S}

\* Mutant of Diff: without the look at how the snapshots were taken.
DiffAcross(b, a) ==
  LET old == DOMAIN b.entries
      new == DOMAIN a.entries
  IN Change("added", new \ old) \cup Change("deleted", old \ new)
     \cup Change("modified", {f \in old \cap new : b.entries[f] # a.entries[f]})

Diff(b, a) ==
  IF "unavailable" \in {b.strategy, a.strategy} \/ b.strategy # a.strategy THEN {}
  ELSE LET old == DOMAIN b.entries
           new == DOMAIN a.entries
       IN Change("added", new \ old) \cup Change("deleted", old \ new)
          \cup Change("modified", {f \in old \cap new : b.entries[f] # a.entries[f]})

Undeclared(cs) == {c \in cs : ClassOf[c.path] \in {"source", "test", "config"}}

RecordShellMutation(n) == [commands |-> uncovered.commands + 1, files |-> uncovered.files + n]

\* onUndeclaredMutation: the fact replaces the one before, the tracker counts.
Reported(after) ==
  LET cs == Diff(before, after)
      undeclared == Undeclared(cs)
  IN  /\ shell' = "reported" /\ altered' = cs
      /\ fact' = IF undeclared = {} THEN fact ELSE {c.path : c \in undeclared}
      /\ uncovered' = IF undeclared = {} THEN uncovered ELSE RecordShellMutation(Cardinality(undeclared))

-----------------------------------------------------------------------------
ShellInit ==
  /\ shell = "idle" /\ byGit \in BOOLEAN /\ aborted = FALSE /\ shells = 0 /\ writes = 0
  /\ \E S \in SUBSET Sheets :
       /\ sheets = [f \in Sheets |-> [text |-> IF f \in S THEN CHOOSE t \in Texts : TRUE ELSE Blanked, stamp |-> 0]]
       /\ indexed = [f \in Sheets |-> IF f \in S \ Ignored THEN sheets[f].text ELSE Blanked]
  /\ committed = indexed
  /\ look = NoLook /\ before = [strategy |-> "unavailable", entries |-> <<>>] /\ was = <<>> /\ is = <<>> /\ means = "none"
  /\ altered = {} /\ fact = {} /\ uncovered = [commands |-> 0, files |-> 0]

\* execute: a look before the command. A call of another turn has a signal of its own.
CallShell ==
  /\ shell \in {"idle", "reported"} /\ shells < MaxShells /\ shells' = shells + 1
  /\ shell' = (IF byGit THEN "git" ELSE "walk") /\ look' = NoLook /\ was' = <<>> /\ is' = <<>> /\ altered' = {}
  /\ aborted' = FALSE /\ means' = "none"
  /\ UNCHANGED <<byGit, before, fact, uncovered, repository>>

\* snapshot is done: the command, or the report, is next. What was looked at is kept.
Snapped(snapshot, seen) ==
  IF shell \in {"git", "walk"}
  THEN /\ shell' = "command" /\ before' = snapshot /\ was' = seen /\ look' = NoLook
       /\ UNCHANGED <<is, means, reports>>
  ELSE /\ Reported(snapshot) /\ is' = seen /\ means' = snapshot.strategy /\ UNCHANGED <<before, was, look>>

\* gitSnapshot: a status; or none, because git fails or takes too long, and then a walk.
GitLooks ==
  /\ shell \in {"git", "git2"}
  /\ \/ Snapped([strategy |-> "git", entries |-> Status], [f \in Sheets |-> Seen(f)])
     \/ /\ shell' = (IF shell = "git" THEN "walk" ELSE "walk2")
        /\ look' = NoLook /\ UNCHANGED <<before, was, is, means, reports>>
  /\ UNCHANGED <<byGit, aborted, shells, repository>>

\* A walk yields what exists and is not ignored.
Shows(f) == sheets[f].text # Blanked /\ f \notin Ignored \cup Skipped

\* The folder that is next, where in it is what the walk yields and, up to the limit,
\* what is taken of it, and the files it has come by when it goes on or stops.
Folder == Folders[look.folder]
Shown == {i \in DOMAIN Folder : Shows(Folder[i])}
Room == MaxScanFiles - look.files
Full == Cardinality(Shown) >= Room
Yielded == {i \in Shown : Cardinality({j \in Shown : j < i}) < Room}
Taken == {Folder[i] : i \in Yielded}
CameBy == IF Full THEN Taken ELSE ToSet(Folder)

\* walkFiles, a folder at a time: it stops at a signal that has fired, at the end of
\* the tree and, in the middle of a folder, at the limit. partial says the last, and
\* nobody reads it.
WalkFolder ==
  /\ shell \in {"walk", "walk2"} /\ ~aborted /\ ~look.cut /\ look.folder <= Len(Folders)
  /\ look' = [entries |-> With(look.entries, [f \in Taken |-> sheets[f].stamp]),
              folder |-> look.folder + 1, files |-> look.files + Cardinality(Yielded), cut |-> Full]
  /\ LET seen == [f \in CameBy |-> Seen(f)]
     IN IF shell = "walk" THEN was' = With(was, seen) /\ UNCHANGED is
                          ELSE is' = With(is, seen) /\ UNCHANGED was
  /\ UNCHANGED <<shell, byGit, aborted, shells, before, means, reports, repository>>

WalkEnds ==
  /\ shell \in {"walk", "walk2"}
  /\ aborted \/ look.cut \/ look.folder > Len(Folders)
  /\ Snapped([strategy |-> "scan", entries |-> look.entries], IF shell = "walk" THEN was ELSE is)
  /\ UNCHANGED <<byGit, aborted, shells, repository>>

\* The walk throws.
WalkFails ==
  /\ shell \in {"walk", "walk2"}
  /\ Snapped([strategy |-> "unavailable", entries |-> look.entries], <<>>)
  /\ UNCHANGED <<byGit, aborted, shells, repository>>

\* The command, or somebody else at any time, writes or removes a file.
Writes ==
  /\ writes < MaxWrites /\ writes' = writes + 1
  /\ \E f \in Sheets :
       \/ sheets' = [sheets EXCEPT ![f].text = Blanked]
       \/ \E text \in Texts, stamp \in {writes + 1, sheets[f].stamp} :
            sheets' = [sheets EXCEPT ![f] = [text |-> text, stamp |-> stamp]]
  /\ sheets' # sheets
  /\ UNCHANGED <<shell, byGit, aborted, shells, looking, reports, indexed, committed>>

\* The command stages a file, or commits all that are tracked.
UsesGit ==
  /\ shell = "command" /\ byGit /\ writes < MaxWrites /\ writes' = writes + 1
  /\ \/ /\ \E f \in Sheets \ Ignored : indexed' = [indexed EXCEPT ![f] = sheets[f].text]
        /\ UNCHANGED committed
     \/ /\ indexed' = [f \in Sheets |-> IF indexed[f] = Blanked THEN Blanked ELSE sheets[f].text]
        /\ committed' = indexed'
  /\ <<indexed, committed>>' # <<indexed, committed>>
  /\ UNCHANGED <<shell, byGit, aborted, shells, looking, reports, sheets>>

\* exec resolves, also for a command that was killed, and the second look begins; or
\* it throws, and nothing is looked at.
CommandEnds ==
  /\ shell = "command"
  /\ shell' \in {IF byGit THEN "git2" ELSE "walk2", "idle"}
  /\ UNCHANGED <<byGit, aborted, shells, looking, reports, repository>>

Aborts ==
  /\ shell \notin {"idle", "reported"} /\ ~aborted /\ aborted' = TRUE
  /\ UNCHANGED <<shell, byGit, shells, looking, reports, repository>>

ShellNext ==
  \/ CallShell \/ GitLooks \/ WalkFolder \/ WalkEnds \/ WalkFails \/ Writes \/ UsesGit \/ CommandEnds \/ Aborts

ShellSpec == ShellInit /\ [][ShellNext]_shellVars

-----------------------------------------------------------------------------
Both == DOMAIN was \cap DOMAIN is
Clean(seen) == seen.text = seen.indexed /\ seen.indexed = seen.committed
Told(f) == \E c \in altered : c.path = f

\* Another text, which a walk can see: of another size or time, or one that came or went.
Marked(old, new) == old.text # new.text /\ (old.stamp # new.stamp \/ Blanked \in {old.text, new.text})

\* What the detector promises: a change "is never silent". It is not the case: see
\* the exceptions of ChangesTold.
NeverSilent ==
  shell = "reported" => \A f \in Both : was[f].text # is[f].text /\ f \notin Ignored \cup Skipped => Told(f)

\* What is told is true: nothing is told of a file that was not looked at twice. It is not the case: a walk
\* that was cut short by the signal or the limit makes every other file a deleted one.
NothingInvented == shell = "reported" => \A c \in altered : c.path \in Both

\* However commands, git and others write between and during the two looks: a file
\* both looks took in, by the same means, that the command or anybody changed is
\* told - to a walk, if it is not ignored and its size or time is another; to git, if
\* it is not ignored, was clean before and the change was not committed - and a file
\* that both took in and that is told has been written, indexed or committed in
\* between. What is told of the last command's sources the next request sees.
ChangesTold ==
  shell = "reported" =>
    /\ \A f \in Both :
         /\ f \notin Ignored \cup Skipped /\ Marked(was[f], is[f]) /\ before.strategy = "scan" /\ means = "scan" => Told(f)
         /\ before.strategy = "git" /\ means = "git" /\ f \notin Ignored /\ Clean(was[f])
              /\ is[f].text \notin {was[f].text, is[f].committed} => Told(f)
         /\ Told(f) => was[f] # is[f]
    /\ {c.path : c \in Undeclared(altered)} \in {{}, fact}
=============================================================================
