--------------------------------- MODULE Files ---------------------------------
(***************************************************************************)
(* The files of the workspace and everything that changes them without a   *)
(* shell: the freshness ledger (context/freshness.ts), the edit engine     *)
(* (edit/edit-engine.ts) with the Read, Edit, Write, Delete and Move tools *)
(* that call it, the edit journal (edit/atomic-write.ts), undo             *)
(* (edit/undo-engine.ts, tools/builtin/undo.ts) and the journal that a     *)
(* resumed session rebuilds from its log (edit/journal-log.ts).            *)
(*                                                                         *)
(* A session runs its calls one after another, so one operation is in hand *)
(* at a time.  The other actor is whatever else writes to the workspace:   *)
(* it may act at every await.  A hash stands for the content it is of; a   *)
(* content is two regions of text, of which a Read may show one, and       *)
(* whether it ends with a newline, the one thing its diff does not keep.   *)
(* A refusal changes nothing and is no step.                               *)
(***************************************************************************)
EXTENDS Integers, Sequences, FiniteSets, SequencesExt

CONSTANTS
  Paths,       \* the files the operations are about
  Contents,    \* the contents a file may have
  Proposed,    \* those the model may ask for
  Secret,      \* texts the redactor takes out of what goes to the log
  Initial,     \* what the workspace may hold when the session starts
  Foreign,     \* what somebody else may put in a path's place
  MaxEdits,    \* bound: edits, of which
  MaxEntries,  \* bound: entries of the journal, reversals included
  Slices,      \* the slices a Read may show
  MaxReceipts, \* bound: receipts a Read may add to
  MaxCount,    \* bound: edits one Undo of scope "last" asks for
  MaxTurns,    \* bound: turns
  MaxOutside,  \* bound: changes made by somebody else
  MaxCrashes   \* bound: crashes

Regions == {"top", "bottom"}
File(top, bottom, nl) == [is |-> "file", top |-> top, bottom |-> bottom, nl |-> nl]
Special(is) == [is |-> is, top |-> "", bottom |-> "", nl |-> TRUE]
Absent == Special("absent")
Dir == Special("dir")
Empty == File("", "", TRUE)       \* what EMPTY_HASH is the hash of
Blank == Special("blank")         \* a projected file whose hash nobody took

ASSUME FilesAssumption ==
  /\ \A c \in Contents : c.is = "file" /\ c = File(c.top, c.bottom, c.nl) /\ c # Empty /\ c.nl \in BOOLEAN
  /\ Proposed \subseteq Contents
  /\ Initial \subseteq [Paths -> Contents \cup {Absent, Dir}] /\ Foreign \subseteq Contents \cup {Absent, Dir}
  /\ Slices \subseteq (SUBSET Regions) \ {{}}
  /\ {MaxEdits, MaxEntries, MaxReceipts, MaxCount, MaxOutside, MaxCrashes} \subseteq Nat /\ MaxTurns \in Nat \ {0}

VARIABLES
  disk,      \* what each path holds
  receipts,  \* FreshnessLedger.byId
  journal,   \* EditJournal.entries; an entry's id is its place
  logged,    \* how many entries the journal was rebuilt from
  op,        \* the call in hand
  turn,      \* the turn the calls belong to
  outside,   \* changes made by somebody else so far
  crashes,   \* crashes so far
  \* for the properties only:
  raced,     \* where something is that somebody else put there since the call in hand last looked
  reversed   \* the entries an undo has taken back on the disk

vars == <<disk, receipts, journal, logged, op, turn, outside, crashes, raced, reversed>>

Idle == [stage |-> "idle"]
Invalidate(rs, ps) == {r \in rs : r.path \notin ps}

(* ---------------------------- the edit journal --------------------------- *)
IsUndone(i) == \E j \in DOMAIN journal : journal[j].undoOf = i

Entry(path, kind, old, new, nl) ==
  [path |-> path, kind |-> kind, old |-> old, new |-> new, nl |-> nl, kept |-> TRUE,
   dir |-> FALSE, from |-> path, undoOf |-> 0, turn |-> turn]

\* The log keeps the entry, and the redactor goes over its diff.
Secretive(c) == {c[r] : r \in Regions} \cap Secret # {}
Durable(e) == [e EXCEPT !.kept = @ /\ ~Secretive(e.old) /\ ~Secretive(e.new)]

MayEdit ==
  Len(journal) < MaxEntries /\ Cardinality({i \in DOMAIN journal : journal[i].undoOf = 0}) < MaxEdits

(* -------------------------- the freshness ledger ------------------------- *)
\* `known`, for the properties, is what the history the model still has shows of
\* that content, and `own` that the model's own edit left it.
Receipt(path, content, seen, known, own) ==
  [path |-> path, content |-> content, seen |-> seen, known |-> known, own |-> own]

NoReceipt == [path |-> "none"]

\* What the ledger asks of every call that changes a file: that the file still is
\* what the receipt is of.  A receipt of another file answers for nothing.
Fresh(r) == disk[r.path] = r.content
\* checkWhole: an overwrite or a delete needs the whole file to have been read.
WholeRead(r) == Fresh(r) /\ r.seen = Regions
\* check: a replacement stays within the lines that were read.
Changed(c, d) == {r \in Regions : c[r] # d[r]} \cup (IF c.nl # d.nl THEN {"bottom"} ELSE {})
RegionRead(r, new) == Fresh(r) /\ Changed(r.content, new) \subseteq r.seen

\* Read: the hash is always of the whole file, the coverage of the slice.
Read ==
  \E p \in Paths, seen \in Slices :
    /\ op = Idle /\ disk[p].is = "file" /\ Cardinality(receipts) < MaxReceipts
    /\ receipts' = receipts \cup {Receipt(p, disk[p], seen, seen, FALSE)}
    /\ UNCHANGED <<disk, journal, logged, op, turn, outside, crashes, raced, reversed>>

(* ----------------------------- the edit engine --------------------------- *)
Plan(kind, path, new, by) ==
  [stage |-> "planned", kind |-> kind, path |-> path, new |-> new, by |-> by,
   old |-> IF kind = "create" THEN Empty ELSE disk[path]]

Planned(plan) ==
  /\ op = Idle /\ MayEdit
  /\ op' = plan /\ raced' = {}
  /\ UNCHANGED <<disk, receipts, journal, logged, turn, outside, crashes, reversed>>

\* Write and Edit end a file they write whole with a newline.
PlanCreate ==
  \E p \in Paths, c \in Proposed : disk[p] = Absent /\ c.nl /\ Planned(Plan("create", p, c, NoReceipt))

PlanOverwrite ==
  \E r \in receipts : \E c \in Proposed \ {disk[r.path]} :
    WholeRead(r) /\ c.nl /\ Planned(Plan("overwrite", r.path, c, r))

PlanReplace ==
  \E r \in receipts : \E c \in Proposed \ {disk[r.path]} :
    RegionRead(r, c) /\ Planned(Plan("replace", r.path, c, r))

PlanDelete ==
  \E r \in receipts : WholeRead(r) /\ Planned(Plan("delete", r.path, Empty, r))

\* Mutant of Recheck: what was planned is applied.
RecheckNothing ==
  /\ op.stage = "planned"
  /\ op' = [op EXCEPT !.stage = "checked"] /\ raced' = {}
  /\ UNCHANGED <<disk, receipts, journal, logged, turn, outside, crashes, reversed>>

\* apply looks at the file again, except at one it is to create.
Recheck ==
  /\ op.stage = "planned"
  /\ IF op.kind = "create" THEN op' = [op EXCEPT !.stage = "checked"] /\ UNCHANGED raced
     ELSE /\ op' = IF disk[op.path] = op.old THEN [op EXCEPT !.stage = "checked"] ELSE Idle
          /\ raced' = {}
  /\ UNCHANGED <<disk, receipts, journal, logged, turn, outside, crashes, reversed>>

\* recordWrite takes the file as read in full.  What the model knows of it is what
\* it knew before and what it wrote.
Written(plan) ==
  Receipt(plan.path, plan.new, Regions,
          IF plan.kind = "replace" THEN plan.by.known \cup Changed(plan.old, plan.new) ELSE Regions, TRUE)

\* apply writes or removes, renews or drops the receipts and leaves; the tool
\* journals what it did.  Neither works on what has become a directory, and
\* there must be a file to remove.
Applies(plan) == IF plan.kind = "delete" THEN disk[plan.path].is = "file" ELSE disk[plan.path] # Dir

Apply ==
  /\ op.stage = "checked"
  /\ IF ~Applies(op) THEN UNCHANGED <<disk, receipts, journal>>
     ELSE /\ disk' = [disk EXCEPT ![op.path] = IF op.kind = "delete" THEN Absent ELSE op.new]
          /\ receipts' = IF op.kind = "delete" THEN Invalidate(receipts, {op.path}) ELSE receipts \cup {Written(op)}
          /\ journal' = Append(journal, Entry(op.path, op.kind, op.old, op.new, op.old.nl))
  /\ op' = Idle
  /\ UNCHANGED <<logged, turn, outside, crashes, raced, reversed>>

\* Delete removes an empty directory outright.
DeleteDirectory ==
  \E p \in Paths :
    /\ op = Idle /\ MayEdit /\ disk[p] = Dir
    /\ disk' = [disk EXCEPT ![p] = Absent]
    /\ journal' = Append(journal, [Entry(p, "delete", Dir, Empty, TRUE) EXCEPT !.dir = TRUE])
    /\ UNCHANGED <<receipts, logged, op, turn, outside, crashes, raced, reversed>>

(* ----------------------------- Move and rename --------------------------- *)
\* rename never replaces a file: it links and then unlinks.  A directory cannot
\* be linked, and replaces an empty one.
CanLink(from, to) == disk[from].is = "file" /\ disk[to] = Absent
CanRename(from, to) == disk[from] = Dir /\ disk[to] \in {Absent, Dir}

Move ==
  \E p, q \in Paths :
    /\ op = Idle /\ MayEdit /\ disk[p] # Absent /\ disk[q] = Absent
    /\ op' = [stage |-> "moving", from |-> p, to |-> q, dir |-> disk[p] = Dir]
    /\ raced' = {}
    /\ UNCHANGED <<disk, receipts, journal, logged, turn, outside, crashes, reversed>>

Link ==
  /\ op.stage = "moving" /\ CanLink(op.from, op.to)
  /\ disk' = [disk EXCEPT ![op.to] = disk[op.from]]
  /\ op' = [op EXCEPT !.stage = "linked"]
  /\ UNCHANGED <<receipts, journal, logged, turn, outside, crashes, raced, reversed>>

MoveEntry ==
  [Entry(op.to, "move", Blank, Blank, TRUE) EXCEPT !.dir = op.dir, !.from = op.from]

\* The old name goes, both paths' receipts with it, and the tool journals the move.
Moved ==
  /\ \/ op.stage = "linked" /\ disk[op.from].is = "file" /\ disk' = [disk EXCEPT ![op.from] = Absent]
     \/ /\ op.stage = "moving" /\ CanRename(op.from, op.to)
        /\ disk' = [disk EXCEPT ![op.from] = Absent, ![op.to] = Dir]
  /\ receipts' = Invalidate(receipts, {op.from, op.to})
  /\ journal' = Append(journal, MoveEntry)
  /\ op' = Idle
  /\ UNCHANGED <<logged, turn, outside, crashes, raced, reversed>>

\* Somebody took the old name away, or the new one: the rename throws.
MoveFails ==
  /\ \/ op.stage = "linked" /\ disk[op.from].is # "file"
     \/ op.stage = "moving" /\ ~CanLink(op.from, op.to) /\ ~CanRename(op.from, op.to)
  /\ op' = Idle
  /\ UNCHANGED <<disk, receipts, journal, logged, turn, outside, crashes, raced, reversed>>

(* ---------------------------------- undo --------------------------------- *)
\* selectEntries: the model may take back what it did in this turn; the operator
\* everything that has not been taken back, reversals included.  Newest first.
Candidates(operator) ==
  {i \in DOMAIN journal : ~IsUndone(i) /\ (operator \/ (journal[i].undoOf = 0 /\ journal[i].turn = turn))}

NewestFirst(S) ==
  LET upTo[n \in 0 .. Len(journal)] ==
        IF n = 0 THEN <<>> ELSE IF n \in S THEN <<n>> \o upTo[n - 1] ELSE upTo[n - 1]
  IN upTo[Len(journal)]

Selections(operator) ==
  LET all == Candidates(operator)
      last(n) == {i \in all : Cardinality({j \in all : j >= i}) <= n}
  IN  {NewestFirst(S) : S \in {last(n) : n \in 1 .. MaxCount} \cup {{i \in all : journal[i].turn = turn}}
                              \cup {{i \in all : journal[i].path = p} : p \in Paths}}

\* What the recorded diff gives back.  It keeps the lines, not the final newline;
\* what the redactor took out of it is gone.
Reconstructed(e) ==
  LET text(r) == IF e.kept \/ e.old[r] \notin Secret THEN e.old[r] ELSE "[REDACTED]" IN
  File(text("top"), text("bottom"), e.nl)
\* Mutant of Recovers: what was reconstructed is not hashed.
RecoversAnything(e) == TRUE

\* Nothing is written that does not hash to what the entry replaced.
Recovers(e) == e.kept /\ Reconstructed(e) = e.old

\* What takes an entry back, and whether it may be done where the paths hold `at`.
Reversal(e) ==
  CASE e.kind = "move" -> "rename"
    [] e.kind = "create" -> "remove"
    [] e.kind = "delete" /\ e.dir -> "mkdir"
    [] OTHER -> "write"

Reversible(e, at) ==
  CASE e.kind = "move" -> at[e.path] # Absent /\ at[e.from] = Absent
    [] e.kind = "create" -> at[e.path] = e.new
    [] e.kind = "delete" -> at[e.path] \in {Absent, Dir} /\ (e.dir \/ (e.old # Empty /\ Recovers(e)))
    [] OTHER -> at[e.path] = e.new /\ Recovers(e)

\* What a step leaves, for the steps after it.  A file that is moved before any
\* step touched it is put down without its hash.
Project(p, e) ==
  CASE Reversal(e) = "write" -> [at |-> [p.at EXCEPT ![e.path] = Reconstructed(e)], touched |-> p.touched \cup {e.path}]
    [] Reversal(e) = "remove" -> [at |-> [p.at EXCEPT ![e.path] = Absent], touched |-> p.touched \cup {e.path}]
    [] Reversal(e) = "mkdir" -> [at |-> [p.at EXCEPT ![e.path] = Blank], touched |-> p.touched \cup {e.path}]
    [] OTHER -> [at |-> [p.at EXCEPT ![e.path] = Absent, ![e.from] = IF e.path \in p.touched THEN p.at[e.path] ELSE Blank],
                 touched |-> p.touched \cup {e.path, e.from}]

\* planUndo: the entries in order, each against what those before it will leave;
\* one that cannot be taken back refuses them all.
Accepted(selected) ==
  LET after[n \in 0 .. Len(selected)] ==
        IF n = 0 THEN [at |-> disk, touched |-> {}] ELSE Project(after[n - 1], journal[selected[n]])
  IN \A n \in DOMAIN selected :
       ~IsUndone(selected[n]) /\ Reversible(journal[selected[n]], after[n - 1].at)

PlanUndo ==
  \E operator \in BOOLEAN : \E selected \in Selections(operator) :
    /\ op = Idle /\ Len(journal) + Len(selected) <= MaxEntries
    /\ selected # <<>> /\ Accepted(selected)
    /\ op' = [stage |-> "priors", left |-> selected, done |-> <<>>, priors |-> <<>>]
    /\ raced' = {}
    /\ UNCHANGED <<disk, receipts, journal, logged, turn, outside, crashes, reversed>>

\* The contents the reversals will be journalled with are read before the first
\* of them is written; what cannot be read throws.
ReadPriors ==
  LET kindsOf(p) == {Reversal(journal[op.left[n]]) : n \in {n \in DOMAIN op.left : journal[op.left[n]].path = p}}
      readable(p) == /\ "write" \in kindsOf(p) => disk[p] # Dir
                     /\ "remove" \in kindsOf(p) => disk[p].is = "file"
  IN /\ op.stage = "priors"
     /\ op' = IF \A p \in Paths : readable(p)
              THEN [op EXCEPT !.stage = "undoing",
                              !.priors = [p \in Paths |-> IF kindsOf(p) \cap {"write", "remove"} # {} /\ disk[p].is = "file"
                                                          THEN disk[p] ELSE Empty]]
              ELSE Idle
     /\ UNCHANGED <<disk, receipts, journal, logged, turn, outside, crashes, raced, reversed>>

\* applyUndo, one step.  It does not look at what it replaces.
Works(e) ==
  CASE Reversal(e) = "write" -> disk[e.path] # Dir
    [] Reversal(e) = "remove" -> disk[e.path].is = "file"
    [] Reversal(e) = "mkdir" -> disk[e.path] \in {Absent, Dir}
    [] OTHER -> CanLink(e.path, e.from) \/ CanRename(e.path, e.from)

Left(e) ==
  CASE Reversal(e) = "write" -> [disk EXCEPT ![e.path] = Reconstructed(e)]
    [] Reversal(e) = "remove" -> [disk EXCEPT ![e.path] = Absent]
    [] Reversal(e) = "mkdir" -> [disk EXCEPT ![e.path] = Dir]
    [] OTHER -> [disk EXCEPT ![e.path] = Absent, ![e.from] = disk[e.path]]

UndoStep ==
  LET i == Head(op.left)
      e == journal[i]
  IN /\ op.stage = "undoing" /\ op.left # <<>> /\ Works(e)
     /\ disk' = Left(e)
     /\ receipts' = Invalidate(receipts, IF Reversal(e) = "rename" THEN {e.path, e.from} ELSE {e.path})
     /\ op' = [op EXCEPT !.left = Tail(@), !.done = Append(@, i)]
     /\ reversed' = reversed \cup {i}
     /\ raced' = IF Reversal(e) = "rename" /\ e.path \in raced THEN raced \cup {e.from} ELSE raced
     /\ UNCHANGED <<journal, logged, turn, outside, crashes>>

\* reversalEntry: a reversal is an edit, and says what it replaced and left.
ReversalEntry(i) ==
  LET e == journal[i]
      kind == CASE Reversal(e) = "remove" -> "delete"
                [] Reversal(e) = "mkdir" -> "create"
                [] Reversal(e) = "rename" -> "move"
                [] e.kind = "delete" -> "create"
                [] OTHER -> "replace"
      restored == IF Reversal(e) = "write" THEN Reconstructed(e) ELSE Empty
  IN [Entry(IF kind = "move" THEN e.from ELSE e.path, kind, op.priors[e.path], restored, restored.nl)
        EXCEPT !.undoOf = i, !.dir = e.dir, !.from = e.path]

\* The first step that throws ends it; what was written is journalled.
UndoEnds ==
  /\ op.stage = "undoing" /\ (op.left # <<>> => ~Works(journal[Head(op.left)]))
  /\ journal' = journal \o [n \in DOMAIN op.done |-> ReversalEntry(op.done[n])]
  /\ op' = Idle
  /\ UNCHANGED <<disk, receipts, logged, turn, outside, crashes, raced, reversed>>

(* -------------------------- the session around it ------------------------ *)
NextTurn ==
  /\ op = Idle /\ turn < MaxTurns /\ turn' = turn + 1
  /\ UNCHANGED <<disk, receipts, journal, logged, op, outside, crashes, raced, reversed>>

\* Mutant of Compact: the receipts outlive what they were shown in.
CompactKeeping ==
  /\ op = Idle /\ receipts # {}
  /\ receipts' = {[r EXCEPT !.known = {}, !.own = FALSE] : r \in receipts}
  /\ UNCHANGED <<disk, journal, logged, op, turn, outside, crashes, raced, reversed>>

\* A compaction takes away what the receipts' contents were shown in.
Compact ==
  /\ op = Idle /\ receipts # {}
  /\ receipts' = {}
  /\ UNCHANGED <<disk, journal, logged, op, turn, outside, crashes, raced, reversed>>

\* rebuildJournal: every entry of the log, in its order.
Rebuilt(entries) == entries

\* The kernel appends a file.edited event for each entry, in order, and waits for
\* none: a crash finds some of them in the log, and at least those the journal was
\* rebuilt from.  The ledger starts empty and the turn is a new one.
Crash ==
  /\ crashes < MaxCrashes /\ crashes' = crashes + 1
  /\ \E n \in logged .. Len(journal) :
       journal' = Rebuilt([i \in 1 .. n |-> Durable(journal[i])]) /\ logged' = n
  /\ receipts' = {} /\ op' = Idle /\ turn' = turn + 1
  /\ reversed' = {journal'[i].undoOf : i \in DOMAIN journal'} \ {0}
  /\ UNCHANGED <<disk, outside, raced>>

Outside ==
  \E p \in Paths, x \in Foreign :
    /\ outside < MaxOutside /\ disk[p] # x
    /\ disk' = [disk EXCEPT ![p] = x]
    /\ outside' = outside + 1
    /\ raced' = IF op = Idle THEN raced ELSE raced \cup {p}
    /\ UNCHANGED <<receipts, journal, logged, op, turn, crashes, reversed>>

Init ==
  /\ disk \in Initial
  /\ receipts = {} /\ journal = <<>> /\ logged = 0 /\ op = Idle
  /\ turn = 1 /\ outside = 0 /\ crashes = 0
  /\ raced = {} /\ reversed = {}

Next ==
  \/ Read \/ PlanCreate \/ PlanOverwrite \/ PlanReplace \/ PlanDelete
  \/ Recheck \/ Apply \/ DeleteDirectory
  \/ Move \/ Link \/ Moved \/ MoveFails
  \/ PlanUndo \/ ReadPriors \/ UndoStep \/ UndoEnds
  \/ NextTurn \/ Compact \/ Crash \/ Outside

Spec == Init /\ [][Next]_vars

(* ------------------------------- properties ------------------------------ *)
Nodes == Contents \cup {Absent, Dir, Empty}

\* Receipts name what was really shown, the journal names known paths and earlier
\* entries, and the log never holds more of it than there is.
TypeOK ==
  /\ disk \in [Paths -> Nodes]
  /\ \A r \in receipts : r.path \in Paths /\ r.content \in Contents \cup {Empty} /\ r.seen \subseteq Regions /\ r.seen # {}
  /\ logged \in 0 .. Len(journal) /\ Len(journal) <= MaxEntries
  /\ \A i \in DOMAIN journal :
       /\ journal[i].kind \in {"create", "overwrite", "replace", "delete", "move"}
       /\ {journal[i].path, journal[i].from} \subseteq Paths
       /\ journal[i].undoOf \in 0 .. (i - 1)
       /\ journal[i].turn \in 1 .. turn
  /\ turn \in 1 .. (MaxTurns + MaxCrashes) /\ outside \in 0 .. MaxOutside /\ crashes \in 0 .. MaxCrashes

\* Nothing is lost: whatever an edit, a move or an undo takes off the disk is in
\* the journal as what some entry replaced or left, or is still there under its
\* new name -- unless somebody put it there after the call's last look at the
\* file, the window apply and applyUndo leave open.
NothingLost ==
  [][\A p \in Paths :
       (disk[p].is = "file" /\ disk'[p] # disk[p] /\ outside' = outside) =>
         \/ p \in raced \/ (op.stage = "linked" /\ op.to \in raced)
         \/ \E q \in Paths \ {p} : disk'[q] = disk[p]
         \/ \E i \in DOMAIN journal' : journal'[i].path = p /\ disk[p] \in {journal'[i].old, journal'[i].new}]_vars

Replaced(plan) == IF plan.kind = "replace" THEN Changed(plan.old, plan.new) ELSE Regions
ShownAll(plan) == plan.by.path = plan.path /\ plan.by.content = plan.old /\ Replaced(plan) \subseteq plan.by.known

\* Nothing unseen is changed: an edit about to be written replaces a content the
\* model was shown, in the history it still has, wherever it changes it -- or
\* content that its own last edit left, which the ledger takes as read in full.
NothingUnseenChanged ==
  (op.stage = "checked" /\ op.kind # "create") => (ShownAll(op) \/ (op.by.own /\ op.by.content = op.old))

Before(e) == IF e.kind = "create" THEN Absent ELSE e.old
Oldest(p) == CHOOSE i \in ToSet(op.done) : journal[i].path = p /\ \A j \in ToSet(op.done) : journal[j].path = p => i <= j

\* An undo that runs to its end with nobody in between leaves each file it
\* rewrites as it was before the oldest edit it took back.
UndoRestores ==
  (op.stage = "undoing" /\ op.left = <<>>) =>
    \A p \in {journal[i].path : i \in ToSet(op.done)} :
      \/ p \in raced
      \/ \E i \in ToSet(op.done) : p \in {journal[i].path, journal[i].from} /\ (journal[i].kind = "move" \/ journal[i].undoOf # 0)
      \/ disk[p] = Before(journal[Oldest(p)])

\* Stated by docs/threat-model.md ("Deletions target read content: a receipt with
\* full coverage, or the call is refused"): what a deletion is about to remove was
\* shown to the model, all of it.
DeletedWasRead == (op.stage = "checked" /\ op.kind = "delete") => ShownAll(op)
=============================================================================
